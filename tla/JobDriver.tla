----------------------------- MODULE JobDriver -----------------------------
(***************************************************************************)
(* The Cloud job runner (apps/api/internal/jobexec/driver.go) between the  *)
(* job table and the process service: one sequential loop that reconciles  *)
(* every unsettled claim and only then claims and starts new jobs.  It     *)
(* works from row snapshots and from answers that may be stale when used,  *)
(* so each call it makes is a step of its own.                             *)
(*                                                                          *)
(* Time is counted in sweeps: the bounds on waits (BackendWait,            *)
(* UnknownWait, OutputWait: minutes) are longer than the sweep interval    *)
(* (seconds), so a wait is over its bound after WaitBound sweeps, or after *)
(* the driver was down.                                                    *)
(***************************************************************************)
EXTENDS CoreJobs, ProcessService

CONSTANT MaxCrashes   \* bound: restarts of the driver and of the provisioner

ASSUME MaxCrashesOK == MaxCrashes \in Nat

VARIABLES
    phase,     \* the part of the sweep
    page,      \* rows discovered or claimed and not yet handled
    cur,       \* the job being handled: the next call, and what it works from
    released,  \* jobs whose claims are no longer renewed
    crashes    \* restarts so far

driverVars == <<phase, page, cur, released>>
vars == <<jobVars, procVars, driverVars, crashes>>

-----------------------------------------------------------------------------
(* State *)

\* A row as discovered: its status ("fresh": just claimed), and the cause of
\* its recorded wait where that wait is over its bound.
Row == [status : LiveStatus \cup {"lost", "fresh"}, over : Causes \cup {"none"}]
NoRow == [status |-> "none", over |-> "none"]

\* An operation as a status call returns it.
View(j) == IF j \in tombstone THEN "tombstone" ELSE op[j]
Calls == {"fence", "beat", "relay", "finish", "scope", "recheck", "start", "wait",
          "complete", "lostfence", "orphan", "attach"}
Args == OpState \cup {"tombstone"} \cup Causes \cup {"never_started", "refusal"}
Current == [pc : Calls, job : Jobs, over : Causes \cup {"none"}, arg : Args]
Idle == [pc |-> "idle", job |-> None, over |-> "none", arg |-> "absent"]

DriverTypeOK ==
    /\ phase \in {"idle", "reconcile", "claim", "release"}
    /\ page \in [Jobs -> Row \cup {NoRow}]
    /\ cur \in Current \cup {Idle}
    /\ released \subseteq Jobs
    /\ crashes \in 0 .. MaxCrashes

Init ==
    /\ JobInit /\ ProcInit
    /\ phase = "idle"
    /\ page = [j \in Jobs |-> NoRow]
    /\ cur = Idle
    /\ released = {}
    /\ crashes = 0

Drained == cur = Idle /\ page = [j \in Jobs |-> NoRow]
\* The cause of the wait of j, where a sweeps are past its bound.
OverBound(j, a) == IF a >= WaitBound THEN wait[j] ELSE "none"

\* The handling of the current job: its next call, or its end.
Go(pc, arg) == cur' = [cur EXCEPT !.pc = pc, !.arg = arg]
Done == cur' = Idle
\* A discovered row becomes the current job.
Take(j, pc, arg) == cur' = [pc |-> pc, job |-> j, over |-> page[j].over, arg |-> arg]
Dropped(j) == page' = [page EXCEPT ![j] = NoRow]

-----------------------------------------------------------------------------
(* The sweep *)

\* Time passes; the rows that need attention are read.
BeginSweep ==
    /\ phase = "idle"
    /\ phase' = "reconcile"
    /\ age' = [j \in Jobs |-> IF wait[j] = "none" \/ age[j] = WaitBound THEN age[j] ELSE age[j] + 1]
    /\ page' = [j \in Jobs |-> IF NeedsAttention(j)
                               THEN [status |-> job[j], over |-> OverBound(j, age'[j])] ELSE NoRow]
    /\ UNCHANGED <<authority, job, claim, wait, result, inbox, procVars, cur, released, crashes>>

\* ClaimJobs returns what it swept and what it claimed.
ClaimPass ==
    \E C \in SUBSET Queued :
        /\ C # {} \/ Queued = {} \/ authority # "active"
        /\ ClaimJobs(C)
        /\ page' = [j \in Jobs |-> IF j \in C THEN [status |-> "fresh", over |-> OverBound(j, age[j])]
                                   ELSE IF j \in Expired THEN [status |-> "lost", over |-> OverBound(j, age[j])]
                                   ELSE NoRow]

\* A claim pass where runnable jobs were found, another where claims were
\* released: each once the rows before it are handled.
EnterClaim ==
    /\ phase = "reconcile" /\ Drained
    /\ phase' = "claim"
    /\ IF Runnable THEN ClaimPass ELSE UNCHANGED <<jobVars, page>>
    /\ UNCHANGED <<procVars, cur, released, crashes>>

EnterRelease ==
    /\ phase = "claim" /\ Drained
    /\ phase' = "release"
    /\ IF released # {} THEN ClaimPass ELSE UNCHANGED <<jobVars, page>>
    /\ UNCHANGED <<procVars, cur, released, crashes>>

EndSweep ==
    /\ phase = "release" /\ Drained
    /\ phase' = "idle"
    /\ UNCHANGED <<jobVars, procVars, page, cur, released, crashes>>

-----------------------------------------------------------------------------
(* A claimed job *)

\* reconcileClaimed: what the backend knows decides.
StatusClaimed(j) ==
    /\ cur = Idle /\ page[j].status \in LiveStatus
    /\ Dropped(j)
    /\ \/ op[j] = "absent" /\ page[j].status = "cancel_requested" /\ Take(j, "fence", "absent")
       \/ op[j] = "absent" /\ page[j].status = "running" /\ Take(j, "scope", "absent")
       \/ op[j] # "absent" /\ Take(j, "beat", View(j))
       \/ "call" \in Faults /\ Take(j, "wait", "unknown")
    /\ UNCHANGED <<jobVars, procVars, phase, released, crashes>>

\* The claim is renewed first; the row then says whether a cancel is wanted.
Beat ==
    /\ cur.pc = "beat"
    /\ \/ /\ HeartbeatAndClear(cur.job)
          /\ released' = IF wait[cur.job] # "none" THEN released \ {cur.job} ELSE released
          /\ \/ cur.arg \in LiveOp /\ job[cur.job] = "cancel_requested" /\ Go("relay", cur.arg)
             \/ cur.arg \in LiveOp /\ job[cur.job] = "running" /\ Done
             \/ cur.arg \notin LiveOp /\ Go("finish", cur.arg)
       \/ ~Live(cur.job) /\ Done /\ UNCHANGED <<jobVars, released>>
    /\ UNCHANGED <<procVars, phase, page, crashes>>

Relay ==
    /\ cur.pc = "relay"
    /\ Fence(cur.job) \/ ("call" \in Faults /\ UNCHANGED recordVars)
    /\ Done
    /\ UNCHANGED <<jobVars, overdue, late, obs, box, runs, phase, page, released, crashes>>

\* Mistake: an answer without a record is taken for the end of the matter.
FenceCancelledUnfenced ==
    /\ cur.pc = "fence"
    /\ Go("complete", "never_started")
    /\ UNCHANGED <<jobVars, procVars, phase, page, released, crashes>>

\* A cancelled job without an operation: only a tombstone proves that it never
\* started.
FenceCancelled ==
    /\ cur.pc = "fence"
    /\ \/ /\ Fence(cur.job)
          /\ \/ View(cur.job) \in {"absent", "tombstone"} /\ Go("complete", "never_started")
             \/ View(cur.job) \in LiveOp /\ Done
             \/ View(cur.job) \in TerminalOp /\ Go("finish", View(cur.job))
       \/ "call" \in Faults /\ (Fence(cur.job) \/ UNCHANGED recordVars) /\ Go("wait", "unknown")
    /\ UNCHANGED <<jobVars, overdue, late, obs, box, runs, phase, page, released, crashes>>

jobStatusFor(v) ==
    CASE v = "succeeded" -> "done"
      [] v \in {"cancelled", "tombstone"} -> "cancelled"
      [] OTHER -> "failed"

OutcomeOf(v) == IF v = "tombstone" THEN "never_started" ELSE "process"

\* finishJob: the outcome of a terminal operation, held while its output
\* cannot be read and the wait is not over its bound.
Finish ==
    /\ cur.pc = "finish"
    /\ \/ CompleteJob(cur.job, jobStatusFor(cur.arg), OutcomeOf(cur.arg))
       \/ "output" \in Faults /\ cur.over # "output" /\ NoteWait(cur.job, "output")
    /\ Done
    /\ UNCHANGED <<procVars, phase, page, released, crashes>>

-----------------------------------------------------------------------------
(* startBackend: the only way to a launch *)

StartFresh(j) ==
    /\ cur = Idle /\ page[j].status = "fresh"
    /\ Dropped(j)
    /\ Take(j, "scope", "absent")
    /\ UNCHANGED <<jobVars, procVars, phase, released, crashes>>

EnsureScope ==
    /\ cur.pc = "scope"
    /\ \/ Go("recheck", "absent")
       \/ "scope" \in Faults /\ Go("complete", "refusal")
    /\ UNCHANGED <<jobVars, procVars, phase, page, released, crashes>>

\* The row is read again after the slow step.
Recheck ==
    /\ cur.pc = "recheck"
    /\ \/ job[cur.job] = "running" /\ Go("start", "absent")
       \/ job[cur.job] = "running" /\ "invalid" \in Faults /\ Go("complete", "refusal")
       \/ job[cur.job] # "running" /\ Done
    /\ UNCHANGED <<jobVars, procVars, phase, page, released, crashes>>

\* The start was accepted now or before: the wait is over.
Accepted ==
    /\ ClearWait(cur.job)
    /\ released' = IF wait[cur.job] # "none" THEN released \ {cur.job} ELSE released
    /\ Done

StartProcess ==
    /\ cur.pc = "start"
    /\ \/ Accepted /\ op[cur.job] # "absent" /\ UNCHANGED <<recordVars, late>>
       \/ Accepted /\ Publish(cur.job) /\ UNCHANGED late
       \/ /\ op[cur.job] = "absent" /\ Busy /\ Go("wait", "busy")
          /\ UNCHANGED <<jobVars, released, recordVars, late>>
       \/ /\ "workspace" \in Faults /\ op[cur.job] = "absent" /\ Go("complete", "refusal")
          /\ UNCHANGED <<jobVars, released, recordVars, late>>
       \/ /\ "call" \in Faults /\ Go("wait", "unknown")
          /\ Publish(cur.job) \/ UNCHANGED recordVars
          /\ UNCHANGED <<jobVars, released, late>>
       \/ /\ "giveup" \in Faults /\ op[cur.job] = "absent" /\ Go("wait", "unknown")
          /\ late[cur.job] < MaxLate
          /\ late' = [late EXCEPT ![cur.job] = @ + 1]
          /\ UNCHANGED <<jobVars, released, recordVars>>
    /\ UNCHANGED <<overdue, obs, box, runs, phase, page, crashes>>

\* Mistake: the failed job goes on to its start.
BackendWaitFallsThrough ==
    /\ cur.pc = "wait"
    /\ \/ /\ cur.over = cur.arg
          /\ CompleteJob(cur.job, "failed", "refusal")
          /\ Go("start", "absent")
       \/ /\ cur.over # cur.arg
          /\ NoteWait(cur.job, cur.arg)
          /\ Done
    /\ UNCHANGED <<procVars, phase, page, released, crashes>>

\* backendWait: a busy backend past its bound fails the job, an unknown state
\* past its bound stops the renewal of the claim.
BackendWait ==
    /\ cur.pc = "wait"
    /\ \/ /\ cur.over = cur.arg /\ cur.arg = "busy"
          /\ CompleteJob(cur.job, "failed", "refusal")
          /\ UNCHANGED released
       \/ /\ cur.over = cur.arg /\ cur.arg = "unknown"
          /\ released' = released \cup {cur.job}
          /\ UNCHANGED jobVars
       \/ /\ cur.over # cur.arg
          /\ NoteWait(cur.job, cur.arg)
          /\ UNCHANGED released
    /\ Done
    /\ UNCHANGED <<procVars, phase, page, crashes>>

\* completeJob for a job that never got an operation.
Complete ==
    /\ cur.pc = "complete"
    /\ CompleteJob(cur.job, IF cur.arg = "never_started" THEN "cancelled" ELSE "failed", cur.arg)
    /\ Done
    /\ UNCHANGED <<procVars, phase, page, released, crashes>>

-----------------------------------------------------------------------------
(* A lost job: its environment is retired and its outcome recorded *)

StatusLost(j) ==
    /\ cur = Idle /\ page[j].status = "lost"
    /\ Dropped(j)
    /\ \/ op[j] = "absent" /\ Take(j, "lostfence", "absent")
       \/ op[j] \in LiveOp /\ Take(j, "orphan", op[j])
       \/ op[j] \in TerminalOp /\ Take(j, "attach", View(j))
       \/ "call" \in Faults /\ UNCHANGED cur
    /\ released' = IF phase = "reconcile" THEN released \ {j} ELSE released
    /\ UNCHANGED <<jobVars, procVars, phase, crashes>>

LostFence ==
    /\ cur.pc = "lostfence"
    /\ \/ /\ Fence(cur.job)
          /\ \/ op[cur.job] = "absent" /\ Go("attach", "tombstone")
             \/ op[cur.job] # "absent" /\ Done
       \/ "call" \in Faults /\ (Fence(cur.job) \/ UNCHANGED recordVars) /\ Done
    /\ UNCHANGED <<jobVars, overdue, late, obs, box, runs, phase, page, released, crashes>>

StopOrphan ==
    /\ cur.pc = "orphan"
    /\ Fence(cur.job) \/ ("call" \in Faults /\ UNCHANGED recordVars)
    /\ Done
    /\ UNCHANGED <<jobVars, overdue, late, obs, box, runs, phase, page, released, crashes>>

Attach ==
    /\ cur.pc = "attach"
    /\ AttachLostOutcome(cur.job, IF cur.arg = "tombstone" THEN "absent" ELSE "process")
    /\ Done
    /\ UNCHANGED <<procVars, phase, page, released, crashes>>

-----------------------------------------------------------------------------
(* Failures *)

\* The database refuses a call or the sweep's time is over: the current job is
\* left for the next sweep, in the second case with the rows not handled yet.
Abandon ==
    /\ "sweep" \in Faults
    /\ cur # Idle
    /\ Done
    /\ page' \in {page, [j \in Jobs |-> NoRow]}
    /\ UNCHANGED <<jobVars, procVars, phase, released, crashes>>

\* The driver restarts: only the durable rows survive, and waits may outlive
\* their bounds meanwhile.  A start it was making may still be under way.
DriverRestart ==
    /\ crashes < MaxCrashes
    /\ crashes' = crashes + 1
    /\ phase' = "idle"
    /\ page' = [j \in Jobs |-> NoRow]
    /\ Done
    /\ released' = {}
    /\ age' \in {age, [j \in Jobs |-> IF wait[j] = "none" THEN age[j] ELSE WaitBound]}
    /\ \/ UNCHANGED late
       \/ /\ cur.pc = "start" /\ late[cur.job] < MaxLate
          /\ late' = [late EXCEPT ![cur.job] = @ + 1]
    /\ UNCHANGED <<authority, job, claim, wait, result, inbox, recordVars, overdue, obs, box, runs>>

ServiceRestart ==
    /\ crashes < MaxCrashes
    /\ crashes' = crashes + 1
    /\ ProvisionerRestart
    /\ UNCHANGED <<jobVars, driverVars>>

-----------------------------------------------------------------------------
(* The system *)

SweepStep == BeginSweep \/ EnterClaim \/ EnterRelease \/ EndSweep
CallStep ==
    \/ Beat \/ Relay \/ FenceCancelled \/ Finish
    \/ EnsureScope \/ Recheck \/ StartProcess \/ BackendWait \/ Complete
    \/ LostFence \/ StopOrphan \/ Attach
Driver == SweepStep \/ CallStep \/ \E j \in Jobs : StatusClaimed(j) \/ StartFresh(j) \/ StatusLost(j)

Others ==
    /\ \/ \E j \in Jobs : SubmitJob(j) \/ CancelJob(j) \/ ClaimExpires(j)
       \/ SweepExpiredJobs
       \/ "move" \in Faults /\ (Seal \/ EndTransfer)
    /\ UNCHANGED <<procVars, driverVars, crashes>>

Backend(j) ==
    /\ Observe(j) \/ DaemonStep(j) \/ LateStart(j) \/ DeadlinePasses(j)
    /\ UNCHANGED <<jobVars, driverVars, crashes>>

Next ==
    \/ Driver \/ Others \/ Abandon \/ DriverRestart \/ ServiceRestart
    \/ \E j \in Jobs : Backend(j)

Spec == Init /\ [][Next]_vars

-----------------------------------------------------------------------------
(* Safety *)

\* Type invariant.
TypeOK == JobTypeOK /\ ProcTypeOK /\ DriverTypeOK

\* The daemon starts a job's container at most once, whatever is retried,
\* delayed or restarted (observe saves LaunchAttempted before it launches).
StartedAtMostOnce == \A j \in Jobs : runs[j] <= 1

\* A job recorded as never started or absent did not run and never will: no
\* delayed start gets past the tombstone (CancelProcess, StartProcess).
NeverStartedIsTrue ==
    \A j \in Jobs : result[j] \in {"never_started", "absent"} =>
        j \in tombstone /\ runs[j] = 0

\* The secretary is told of each ended job, once, and of the status the row
\* has (notifyJobTerminalTx in every transaction that ends a job).
OneTrueNotice ==
    \A j \in Jobs : inbox[j] = IF job[j] \in jobTerminal THEN job[j] ELSE "none"

\* A job is done only if its process ran and exited with 0, not killed at its
\* deadline nor cancelled (commitProcess, jobStatusFor, CompleteJob).
DoneMeansSucceeded ==
    \A j \in Jobs : job[j] = "done" =>
        op[j] = "succeeded" /\ exited[j] = "zero" /\ runs[j] = 1 /\ j \notin timedOut

\* What is said of a job is true: it never ran if that is what is on record, it
\* succeeded if it is done, and the secretary heard what the row says
\* (reconcileLost, CompleteJob, notifyJobTerminalTx).
VerdictsTrue == NeverStartedIsTrue /\ DoneMeansSucceeded /\ OneTrueNotice

\* Evidence of quiescence is not outrun by a late launch: nothing runs, and
\* nothing on its way will run (processRecord.status, observe).
QuiescedMeansNoWriter ==
    \A j \in Jobs : Quiesced(j) => box[j] \notin {"starting", "up"}

\* While launches are confirmed, two jobs of a persona never write its
\* workspace at the same time: the capacity is given back only by a record
\* whose container has stopped (StartProcess, observe).
OneWriter == \A j, k \in Jobs : box[j] = "up" /\ box[k] = "up" => j = k

\* While no caller gives up on a start, a job failed for want of capacity has
\* no operation and will not get one (startBackend, backendWait).
RefusedNeverRuns == \A j \in Jobs : result[j] = "refusal" => op[j] = "absent" /\ late[j] = 0

\* The persona's one operation: one writer, and a job refused for want of it
\* does not run after all (StartProcess, backendWait).
CapacityHeld == OneWriter /\ RefusedNeverRuns

\* A verdict is final: a lost job is never rewritten, its outcome is attached
\* once, and an ended job is not claimed or cancelled again (CompleteJob,
\* AttachLostOutcome, HeartbeatJob).
VerdictFinal ==
    [][\A j \in Jobs : job[j] \in jobTerminal =>
        /\ job'[j] = job[j]
        /\ result'[j] = result[j] \/ (job[j] = "lost" /\ result[j] = "none")]_vars

\* No work of a job waits or runs at a placement that gave up its authority,
\* other than what is already lost (unresolvedWork, submitJobTx, ClaimJobs).
SealedHasNoLiveJob ==
    authority # "active" => \A j \in Jobs : job[j] \in jobTerminal \cup {"none"}

-----------------------------------------------------------------------------
(* What documents and comments say and the code does not keep *)

\* "Terminal done/failed/cancelled rows carry no live backend work by
\* construction" (job_discovery.go, PersonasWithClaimedJobs).
EndedCarriesNoWork ==
    \A j \in Jobs : job[j] \in jobTerminal \ {"lost"} => op[j] \notin LiveOp

\* "A cancelled verdict commits only after the backend reaches a durable
\* terminal state - never while a process could still write"
\* (docs/operations/linux-on-demand-jobs.md; map.go, jobStatusFor).
CancelledMeansStopped ==
    \A j \in Jobs : job[j] = "cancelled" => box[j] \notin {"starting", "up"}

\* "A job that exited before the cancel landed records its real outcome"
\* (jobs.go, CompleteJob): a command that finished with 0 before any cancel
\* reached the process service is never reported cancelled.
RealExitKept ==
    \A j \in Jobs : []((box[j] = "zero" /\ j \notin cancelling) => [](job[j] # "cancelled"))

-----------------------------------------------------------------------------
(* Liveness *)

\* The driver loop, the observer loop and the daemon keep going; the loops
\* visit every record, claims expire and deadlines pass.  Nothing obliges
\* people, the process itself, or a failure.
Fairness ==
    /\ WF_vars(Driver)
    /\ \A j \in Jobs :
        /\ SF_vars(Observe(j) /\ UNCHANGED <<jobVars, driverVars, crashes>>)
        /\ WF_vars(box[j] # "up" /\ DaemonStep(j) /\ UNCHANGED <<jobVars, driverVars, crashes>>)
        /\ WF_vars(DeadlinePasses(j) /\ UNCHANGED <<jobVars, driverVars, crashes>>)
        /\ WF_vars(ClaimExpires(j) /\ UNCHANGED <<procVars, driverVars, crashes>>)

FairSpec == Spec /\ Fairness

\* A finished job whose output cannot be read is held, but "never stuck": past
\* its bound it completes with the output marked unavailable (finishJob).
NeverStuckOnOutput ==
    \A j \in Jobs : (Live(j) /\ op[j] \in TerminalOp) ~> (job[j] \in jobTerminal)

\* Every submitted job ends: done, failed, cancelled or lost (reconcileClaimed
\* and the bounds of backendWait and finishJob).
EveryJobEnds == \A j \in Jobs : (job[j] = "queued") ~> (job[j] \in jobTerminal)

\* What a lost job's execution did is eventually on record, once the service
\* answers (reconcileLost).
LostIsAccounted == \A j \in Jobs : (job[j] = "lost") ~> (result[j] # "none")

\* A lost or cancelled operation stops for good: its container is retired
\* (observe on a terminal record).
WritersStop == \A j \in Jobs : (job[j] \in {"lost", "cancelled"} /\ runs[j] > 0) ~> Quiesced(j)

\* Every job comes to its end: a verdict, for a lost one what became of it, and
\* no container left writing (reconcileClaimed, reconcileLost, observe).
JobsEnd == EveryJobEnds /\ LostIsAccounted /\ WritersStop
=============================================================================
