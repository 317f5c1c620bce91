------------------------------ MODULE CoreJobs ------------------------------
(***************************************************************************)
(* The job table of one persona (apps/api/internal/agentstate/jobs.go and  *)
(* job_discovery.go): background work a secretary or a person submits, one *)
(* runner claims and executes, and the secretary is told about by exactly  *)
(* one input.  Each action is one transaction holding the job's row lock.  *)
(*                                                                          *)
(* Every job here is a Cloud job, so one runner identity claims them all   *)
(* (ClaimJobs' backend predicate) and claimed_by is either NULL or it.     *)
(* Sweeps of expired claims, cancellations and seals are anybody's.        *)
(***************************************************************************)
EXTENDS JobIds

CONSTANTS
    WaitBound,  \* sweeps after which a recorded wait is over its bound
    ClaimLimit  \* jobs one claim pass takes

ASSUME JobConstantsOK ==
    /\ WaitBound \in Nat \ {0}
    /\ ClaimLimit \in Nat \ {0}

VARIABLES
    authority,  \* core_personas.authority
    job,        \* core_jobs.status ("none": no row)
    claim,      \* claimed_by and claim_expires_at
    wait,       \* result.runner_wait.cause
    age,        \* sweeps since result.runner_wait.since
    result,     \* what the row says happened to the work
    inbox       \* core_inputs: the status announced by input job:<job_id>

jobVars == <<authority, job, claim, wait, age, result, inbox>>

Causes == {"busy", "unknown", "output"}
LiveStatus == {"running", "cancel_requested"}
jobTerminal == {"done", "failed", "cancelled", "lost"}
JobStatus == {"none", "queued"} \cup LiveStatus \cup jobTerminal
\* "refusal": never accepted by the backend; "process": the operation's outcome;
\* "never_started" and "absent": the operation was fenced before it existed.
Results == {"none", "refusal", "process", "never_started", "absent"}

JobTypeOK ==
    /\ authority \in {"active", "sealed", "transferred"}
    /\ job \in [Jobs -> JobStatus]
    /\ claim \in [Jobs -> {"none", "held", "expired"}]
    /\ wait \in [Jobs -> Causes \cup {"none"}]
    /\ age \in [Jobs -> 0 .. WaitBound]
    /\ result \in [Jobs -> Results]
    /\ inbox \in [Jobs -> {"none"} \cup jobTerminal]

JobInit ==
    /\ authority = "active"
    /\ job = [j \in Jobs |-> "none"]
    /\ claim = [j \in Jobs |-> "none"]
    /\ wait = [j \in Jobs |-> "none"]
    /\ age = [j \in Jobs |-> 0]
    /\ result = [j \in Jobs |-> "none"]
    /\ inbox = [j \in Jobs |-> "none"]

Live(j) == job[j] \in LiveStatus
Expired == {j \in Jobs : Live(j) /\ claim[j] = "expired"}
Queued == {j \in Jobs : job[j] = "queued"}
Runnable == authority = "active" /\ Queued # {}

\* Mistake: lost rows are finished with.
NeedsAttentionLive(j) == claim[j] # "none" /\ Live(j)

\* The runner's claims that are not settled: live ones, and lost ones whose
\* execution nobody has accounted for.
NeedsAttention(j) ==
    /\ claim[j] # "none"
    /\ Live(j) \/ (job[j] = "lost" /\ result[j] = "none")

-----------------------------------------------------------------------------
(* Transactions *)

\* The input insert does nothing where job:<job_id> already exists.
notifyJobTerminal(S, v) ==
    inbox' = [j \in Jobs |-> IF j \in S /\ inbox[j] = "none" THEN v ELSE inbox[j]]

SubmitJob(j) ==
    /\ authority = "active"
    /\ job[j] = "none"
    /\ job' = [job EXCEPT ![j] = "queued"]
    /\ UNCHANGED <<authority, claim, wait, age, result, inbox>>

CancelQueued(j) ==
    /\ job[j] = "queued"
    /\ job' = [job EXCEPT ![j] = "cancelled"]
    /\ notifyJobTerminal({j}, "cancelled")
    /\ UNCHANGED <<authority, claim, wait, age, result>>

CancelRunning(j) ==
    /\ job[j] = "running"
    /\ job' = [job EXCEPT ![j] = "cancel_requested"]
    /\ UNCHANGED <<authority, claim, wait, age, result, inbox>>

CancelJob(j) == CancelQueued(j) \/ CancelRunning(j)

\* The lease of a claim that was not renewed runs out.
ClaimExpires(j) ==
    /\ Live(j)
    /\ claim[j] = "held"
    /\ claim' = [claim EXCEPT ![j] = "expired"]
    /\ UNCHANGED <<authority, job, wait, age, result, inbox>>

\* The verdict on expired claims, without claiming anything.
SweepExpiredJobs ==
    \E S \in SUBSET Expired :
        /\ S # {}
        /\ job' = [j \in Jobs |-> IF j \in S THEN "lost" ELSE job[j]]
        /\ notifyJobTerminal(S, "lost")
        /\ UNCHANGED <<authority, claim, wait, age, result>>

\* Mistake: the sweep tells nobody.
ClaimJobsSilently(C) ==
    /\ C \subseteq Queued
    /\ authority = "active" \/ C = {}
    /\ Cardinality(C) <= ClaimLimit
    /\ job' = [j \in Jobs |-> IF j \in Expired THEN "lost"
                              ELSE IF j \in C THEN "running" ELSE job[j]]
    /\ claim' = [j \in Jobs |-> IF j \in C THEN "held" ELSE claim[j]]
    /\ UNCHANGED <<authority, wait, age, result, inbox>>

\* The sweep of every expired claim and the claim of the jobs in C.
ClaimJobs(C) ==
    /\ C \subseteq Queued
    /\ authority = "active" \/ C = {}
    /\ Cardinality(C) <= ClaimLimit
    /\ job' = [j \in Jobs |-> IF j \in Expired THEN "lost"
                              ELSE IF j \in C THEN "running" ELSE job[j]]
    /\ claim' = [j \in Jobs |-> IF j \in C THEN "held" ELSE claim[j]]
    /\ notifyJobTerminal(Expired, "lost")
    /\ UNCHANGED <<authority, wait, age, result>>

\* Renews a live claim, an expired one that nobody swept too.  The driver's
\* clearWait follows in a transaction of its own; only the driver writes
\* runner_wait, so the two commute with everybody else and are one step.
HeartbeatAndClear(j) ==
    /\ Live(j)
    /\ claim' = [claim EXCEPT ![j] = "held"]
    /\ wait' = [wait EXCEPT ![j] = "none"]
    /\ age' = [age EXCEPT ![j] = 0]
    /\ UNCHANGED <<authority, job, result, inbox>>

ClearWait(j) ==
    /\ wait' = [wait EXCEPT ![j] = IF Live(j) \/ job[j] = "lost" THEN "none" ELSE @]
    /\ age' = [age EXCEPT ![j] = IF Live(j) \/ job[j] = "lost" THEN 0 ELSE @]
    /\ UNCHANGED <<authority, job, claim, result, inbox>>

\* Mistake: every note restarts the wait.
NoteLiveWaitAnew(j, cause) ==
    /\ Live(j)
    /\ claim' = [claim EXCEPT ![j] = "held"]
    /\ wait' = [wait EXCEPT ![j] = cause]
    /\ age' = [age EXCEPT ![j] = 0]
    /\ UNCHANGED <<authority, job, result, inbox>>

\* Renews the claim; the first time of an unchanged cause is kept.
NoteLiveWait(j, cause) ==
    /\ Live(j)
    /\ claim' = [claim EXCEPT ![j] = "held"]
    /\ wait' = [wait EXCEPT ![j] = cause]
    /\ age' = [age EXCEPT ![j] = IF wait[j] = cause THEN @ ELSE 0]
    /\ UNCHANGED <<authority, job, result, inbox>>

NoteWait(j, cause) ==
    \/ NoteLiveWait(j, cause)
    \/ ~Live(j) /\ UNCHANGED jobVars

\* Mistake: a late completion replaces the verdict lost.
CompleteLiveOrLost(j, v, r) ==
    /\ Live(j) \/ job[j] = "lost"
    /\ job' = [job EXCEPT ![j] = v]
    /\ result' = [result EXCEPT ![j] = r]
    /\ wait' = [wait EXCEPT ![j] = "none"]
    /\ age' = [age EXCEPT ![j] = 0]
    /\ notifyJobTerminal({j}, v)
    /\ UNCHANGED <<authority, claim>>

\* A terminal row answers a later completion and is not changed by it.
CompleteLive(j, v, r) ==
    /\ Live(j)
    /\ job' = [job EXCEPT ![j] = v]
    /\ result' = [result EXCEPT ![j] = r]
    /\ wait' = [wait EXCEPT ![j] = "none"]
    /\ age' = [age EXCEPT ![j] = 0]
    /\ notifyJobTerminal({j}, v)
    /\ UNCHANGED <<authority, claim>>

CompleteJob(j, v, r) ==
    \/ CompleteLive(j, v, r)
    \/ ~Live(j) /\ UNCHANGED jobVars

\* What the execution behind a lost job did, recorded once.
AttachLostOutcome(j, r) ==
    \/ /\ job[j] = "lost" /\ result[j] = "none"
       /\ result' = [result EXCEPT ![j] = r]
       /\ wait' = [wait EXCEPT ![j] = "none"]
       /\ age' = [age EXCEPT ![j] = 0]
       /\ UNCHANGED <<authority, job, claim, inbox>>
    \/ ~(job[j] = "lost" /\ result[j] = "none") /\ UNCHANGED jobVars

-----------------------------------------------------------------------------
(* The placement: unresolvedWork is the part of a seal that reads jobs. *)

\* Mistake: a job on its way to cancelled is resolved.
unresolvedUncancelled == \E j \in Jobs : job[j] \in {"queued", "running"}

unresolvedWork == \E j \in Jobs : job[j] = "queued" \/ Live(j)

Seal ==
    /\ authority = "active"
    /\ ~unresolvedWork
    /\ authority' = "sealed"
    /\ UNCHANGED <<job, claim, wait, age, result, inbox>>

\* A sealed transfer completes or is aborted.
EndTransfer ==
    /\ authority = "sealed"
    /\ authority' \in {"transferred", "active"}
    /\ UNCHANGED <<job, claim, wait, age, result, inbox>>

=============================================================================
