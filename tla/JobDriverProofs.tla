-------------------------- MODULE JobDriverProofs --------------------------
(***************************************************************************)
(* Theorems about JobDriver for every set of jobs, every set of faults and *)
(* every bound.  A step of the system changes the job table in one of the  *)
(* ways JobChange lists and the process service in one of those ProcChange *)
(* lists; each invariant is then shown against one of the two.             *)
(***************************************************************************)
EXTENDS JobDriver, TLAPS

USE DEF jobVars, recordVars, procVars, driverVars

-----------------------------------------------------------------------------
(* The invariant *)

\* What the calls of the driver work from.
CallShape ==
    /\ cur.pc = "complete" => cur.arg \in {"never_started", "refusal"}
    /\ cur.pc = "wait" => cur.arg \in {"busy", "unknown"}
    /\ cur.pc \in {"beat", "finish", "attach"} => cur.arg \in OpState \cup {"tombstone"}

\* An answer the driver holds about a fenced or succeeded operation stays true.
HeldAnswers ==
    /\ cur.arg \in {"never_started", "tombstone"} => cur.job \in tombstone
    /\ cur.arg = "succeeded" => cur.job \in Jobs /\ op[cur.job] = "succeeded"

\* What the job table says of the operation behind a job.
Verdicts ==
    \A j \in Jobs :
        /\ result[j] \in {"never_started", "absent"} => j \in tombstone
        /\ job[j] = "done" => op[j] = "succeeded"

\* One operation: its record and its container.
RecordInv(j) ==
    /\ op[j] = "absent" => j \notin attempted
    /\ j \in tombstone => op[j] = "cancelled" /\ j \notin attempted
    /\ j \in removed => op[j] \in TerminalOp /\ box[j] \notin {"starting", "up"}
    /\ op[j] = "succeeded" => exited[j] = "zero" /\ j \notin timedOut /\ runs[j] = 1

BoxInv(j) ==
    /\ j \notin attempted => box[j] = "none"
    /\ box[j] \in {"none", "creating", "created", "starting"} => runs[j] = 0
    /\ box[j] \in {"up", "zero", "nonzero"} => runs[j] = 1
    /\ runs[j] <= 1

\* The observer works on a record only it ends.
ObserverInv ==
    /\ obs.at \in {"launch", "inspect", "commit"} => obs.op \in attempted /\ op[obs.op] \in LiveOp
    /\ obs.at = "launch" => box[obs.op] = "none"
    /\ obs.saw \in {"up", "zero", "nonzero"} => obs.at = "commit" /\ runs[obs.op] = 1
    /\ obs.at \in {"stop", "remove"} => op[obs.op] \in TerminalOp

ProcInv == ObserverInv /\ \A j \in Jobs : RecordInv(j) /\ BoxInv(j)

TypeInv == TypeOK /\ CallShape
Inv == TypeInv /\ ProcInv /\ HeldAnswers /\ Verdicts

-----------------------------------------------------------------------------
(* What a step does to the job table *)

Aging ==
    /\ age' \in [Jobs -> 0 .. WaitBound]
    /\ UNCHANGED <<authority, job, claim, wait, result, inbox>>

Completes(j, v, r) ==
    /\ v \in {"done", "failed", "cancelled"} /\ r \in {"refusal", "process", "never_started"}
    /\ v = "done" => op[j] = "succeeded"
    /\ r = "never_started" => j \in tombstone
    /\ CompleteLive(j, v, r)

Attaches(j, r) ==
    /\ r \in {"absent", "process"}
    /\ r = "absent" => j \in tombstone
    /\ AttachLostOutcome(j, r)

Claims ==
    \/ \E C \in SUBSET Queued : ClaimJobs(C)
    \/ \E j \in Jobs : HeartbeatAndClear(j) \/ ClearWait(j) \/ ClaimExpires(j)
                       \/ \E c \in Causes : NoteLiveWait(j, c)

JobChange ==
    \/ UNCHANGED jobVars
    \/ Aging \/ Claims \/ SweepExpiredJobs \/ Seal \/ EndTransfer
    \/ \E j \in Jobs : SubmitJob(j) \/ CancelJob(j)
    \/ \E j \in Jobs, v \in jobTerminal, r \in Results : Completes(j, v, r)
    \/ \E j \in Jobs, r \in Results : Attaches(j, r)

(* What a step does to the process service *)

LateChange == late' \in [Jobs -> 0 .. MaxLate] /\ UNCHANGED <<overdue, obs, box, runs>>

ProcRuns ==
    \/ UNCHANGED procVars
    \/ LateChange /\ (UNCHANGED recordVars \/ \E j \in Jobs : Publish(j) \/ Fence(j))
    \/ \E j \in Jobs : Observe(j) \/ DaemonStep(j) \/ DeadlinePasses(j)

ProcChange == ProcRuns \/ ProvisionerRestart

-----------------------------------------------------------------------------
(* The job table *)

LEMMA JobTypeStep ==
    ASSUME JobTypeOK, JobChange
    PROVE  JobTypeOK'
  <1> USE JobConstantsOK DEF JobTypeOK, JobStatus, LiveStatus, jobTerminal, Results, Causes
  <1>1. CASE UNCHANGED jobVars
    BY <1>1
  <1>2. CASE Aging
    BY <1>2 DEF Aging
  <1>3. CASE Claims
    <2>1. ASSUME NEW C \in SUBSET Queued, ClaimJobs(C) PROVE JobTypeOK'
      BY <2>1 DEF ClaimJobs, notifyJobTerminal
    <2>2. ASSUME NEW j \in Jobs, HeartbeatAndClear(j) PROVE JobTypeOK'
      BY <2>2 DEF HeartbeatAndClear
    <2>3. ASSUME NEW j \in Jobs, ClearWait(j) PROVE JobTypeOK'
      BY <2>3 DEF ClearWait
    <2>4. ASSUME NEW j \in Jobs, ClaimExpires(j) PROVE JobTypeOK'
      BY <2>4 DEF ClaimExpires
    <2>5. ASSUME NEW j \in Jobs, NEW c \in Causes, NoteLiveWait(j, c) PROVE JobTypeOK'
      BY <2>5 DEF NoteLiveWait
    <2> QED
      BY <1>3, <2>1, <2>2, <2>3, <2>4, <2>5 DEF Claims
  <1>4. CASE SweepExpiredJobs
    BY <1>4 DEF SweepExpiredJobs, notifyJobTerminal
  <1>5. CASE Seal \/ EndTransfer
    BY <1>5 DEF Seal, EndTransfer
  <1>6. ASSUME NEW j \in Jobs, SubmitJob(j) \/ CancelJob(j) PROVE JobTypeOK'
    BY <1>6 DEF SubmitJob, CancelJob, CancelQueued, CancelRunning, notifyJobTerminal
  <1>7. ASSUME NEW j \in Jobs, NEW v \in jobTerminal, NEW r \in Results, Completes(j, v, r)
        PROVE  JobTypeOK'
    BY <1>7 DEF Completes, CompleteLive, notifyJobTerminal
  <1>8. ASSUME NEW j \in Jobs, NEW r \in Results, Attaches(j, r) PROVE JobTypeOK'
    BY <1>8 DEF Attaches, AttachLostOutcome
  <1> QED
    BY JobChange, <1>1, <1>2, <1>3, <1>4, <1>5, <1>6, <1>7, <1>8 DEF JobChange

LEMMA NoticeStep ==
    ASSUME JobTypeOK, JobChange, OneTrueNotice
    PROVE  OneTrueNotice'
  <1> USE DEF JobTypeOK, OneTrueNotice, jobTerminal
  <1>1. CASE UNCHANGED jobVars \/ Aging \/ Seal \/ EndTransfer
    BY <1>1 DEF Aging, Seal, EndTransfer
  <1>2. CASE Claims
    <2>1. ASSUME NEW C \in SUBSET Queued, ClaimJobs(C) PROVE OneTrueNotice'
      BY <2>1 DEF ClaimJobs, notifyJobTerminal, Expired, Live, LiveStatus, Queued
    <2> QED
      BY <1>2, <2>1 DEF Claims, HeartbeatAndClear, ClearWait, ClaimExpires, NoteLiveWait
  <1>3. CASE SweepExpiredJobs
    BY <1>3 DEF SweepExpiredJobs, notifyJobTerminal, Expired, Live, LiveStatus
  <1>4. ASSUME NEW j \in Jobs, SubmitJob(j) \/ CancelJob(j) PROVE OneTrueNotice'
    BY <1>4 DEF SubmitJob, CancelJob, CancelQueued, CancelRunning, notifyJobTerminal
  <1>5. ASSUME NEW j \in Jobs, NEW v \in jobTerminal, NEW r \in Results, Completes(j, v, r)
        PROVE  OneTrueNotice'
    BY <1>5 DEF Completes, CompleteLive, notifyJobTerminal, Live, LiveStatus
  <1>6. ASSUME NEW j \in Jobs, NEW r \in Results, Attaches(j, r) PROVE OneTrueNotice'
    BY <1>6 DEF Attaches, AttachLostOutcome
  <1> QED
    BY JobChange, <1>1, <1>2, <1>3, <1>4, <1>5, <1>6 DEF JobChange

LEMMA SealStep ==
    ASSUME JobTypeOK, JobChange, SealedHasNoLiveJob
    PROVE  SealedHasNoLiveJob'
  <1> USE DEF JobTypeOK, SealedHasNoLiveJob, jobTerminal
  <1>1. CASE UNCHANGED jobVars \/ Aging
    BY <1>1 DEF Aging
  <1>2. CASE Seal \/ EndTransfer
    BY <1>2 DEF Seal, EndTransfer, unresolvedWork, Live, LiveStatus, JobStatus
  <1>3. CASE Claims
    <2>1. ASSUME NEW C \in SUBSET Queued, ClaimJobs(C) PROVE SealedHasNoLiveJob'
      BY <2>1 DEF ClaimJobs, Expired, Live, LiveStatus, Queued
    <2> QED
      BY <1>3, <2>1 DEF Claims, HeartbeatAndClear, ClearWait, ClaimExpires, NoteLiveWait
  <1>4. CASE SweepExpiredJobs
    BY <1>4 DEF SweepExpiredJobs, Expired
  <1>5. ASSUME NEW j \in Jobs, SubmitJob(j) \/ CancelJob(j) PROVE SealedHasNoLiveJob'
    BY <1>5 DEF SubmitJob, CancelJob, CancelQueued, CancelRunning
  <1>6. ASSUME NEW j \in Jobs, NEW v \in jobTerminal, NEW r \in Results, Completes(j, v, r)
        PROVE  SealedHasNoLiveJob'
    BY <1>6 DEF Completes, CompleteLive
  <1>7. ASSUME NEW j \in Jobs, NEW r \in Results, Attaches(j, r) PROVE SealedHasNoLiveJob'
    BY <1>7 DEF Attaches, AttachLostOutcome
  <1> QED
    BY JobChange, <1>1, <1>2, <1>3, <1>4, <1>5, <1>6, <1>7 DEF JobChange

\* An ended job keeps its verdict and, unless it is lost and unaccounted, its result.
KeepsVerdict(j) ==
    job[j] \in jobTerminal =>
        /\ job'[j] = job[j]
        /\ result'[j] = result[j] \/ (job[j] = "lost" /\ result[j] = "none")

LEMMA VerdictStep ==
    ASSUME JobTypeOK, JobChange, NEW i \in Jobs
    PROVE  KeepsVerdict(i)
  <1> USE DEF JobTypeOK, KeepsVerdict, jobTerminal
  <1>1. CASE UNCHANGED jobVars \/ Aging \/ Seal \/ EndTransfer
    BY <1>1 DEF Aging, Seal, EndTransfer
  <1>2. CASE Claims
    <2>1. ASSUME NEW C \in SUBSET Queued, ClaimJobs(C) PROVE KeepsVerdict(i)
      BY <2>1 DEF ClaimJobs, Expired, Live, LiveStatus, Queued
    <2> QED
      BY <1>2, <2>1 DEF Claims, HeartbeatAndClear, ClearWait, ClaimExpires, NoteLiveWait
  <1>3. CASE SweepExpiredJobs
    BY <1>3 DEF SweepExpiredJobs, Expired, Live, LiveStatus
  <1>4. ASSUME NEW j \in Jobs, SubmitJob(j) \/ CancelJob(j) PROVE KeepsVerdict(i)
    BY <1>4 DEF SubmitJob, CancelJob, CancelQueued, CancelRunning
  <1>5. ASSUME NEW j \in Jobs, NEW v \in jobTerminal, NEW r \in Results, Completes(j, v, r)
        PROVE  KeepsVerdict(i)
    BY <1>5 DEF Completes, CompleteLive, Live, LiveStatus
  <1>6. ASSUME NEW j \in Jobs, NEW r \in Results, Attaches(j, r) PROVE KeepsVerdict(i)
    BY <1>6 DEF Attaches, AttachLostOutcome
  <1> QED
    BY JobChange, <1>1, <1>2, <1>3, <1>4, <1>5, <1>6 DEF JobChange

\* New claims the job table makes about an operation are true of it.
LEMMA NewVerdicts ==
    ASSUME JobTypeOK, JobChange, NEW i \in Jobs
    PROVE  /\ result'[i] \in {"never_started", "absent"} => result'[i] = result[i] \/ i \in tombstone
           /\ job'[i] = "done" => job[i] = "done" \/ op[i] = "succeeded"
  <1> DEFINE P == /\ result'[i] \in {"never_started", "absent"} => result'[i] = result[i] \/ i \in tombstone
                  /\ job'[i] = "done" => job[i] = "done" \/ op[i] = "succeeded"
  <1> USE DEF JobTypeOK
  <1>1. CASE UNCHANGED jobVars \/ Aging \/ Seal \/ EndTransfer
    BY <1>1 DEF Aging, Seal, EndTransfer
  <1>2. CASE Claims
    BY <1>2 DEF Claims, ClaimJobs, HeartbeatAndClear, ClearWait, ClaimExpires, NoteLiveWait
  <1>3. CASE SweepExpiredJobs
    BY <1>3 DEF SweepExpiredJobs
  <1>4. ASSUME NEW j \in Jobs, SubmitJob(j) \/ CancelJob(j) PROVE P
    BY <1>4 DEF SubmitJob, CancelJob, CancelQueued, CancelRunning
  <1>5. ASSUME NEW j \in Jobs, NEW v \in jobTerminal, NEW r \in Results, Completes(j, v, r) PROVE P
    BY <1>5 DEF Completes, CompleteLive
  <1>6. ASSUME NEW j \in Jobs, NEW r \in Results, Attaches(j, r) PROVE P
    BY <1>6 DEF Attaches, AttachLostOutcome
  <1> QED
    BY JobChange, <1>1, <1>2, <1>3, <1>4, <1>5, <1>6 DEF JobChange

-----------------------------------------------------------------------------
(* The process service *)

LEMMA CommitType ==
    ASSUME NEW j \in Jobs, NEW state \in OpState, op \in [Jobs -> OpState], commitProcess(j, state)
    PROVE  op' \in [Jobs -> OpState]
  BY DEF commitProcess, OpState, TerminalOp, LiveOp

LEMMA ObserveType ==
    ASSUME ProcTypeOK, NEW j \in Jobs, Observe(j)
    PROVE  ProcTypeOK'
  <1> USE JobIdsOK DEF ProcTypeOK, ObserverAt, Sight
  <1>1. {"failed", "running", "indeterminate", "succeeded"} \subseteq OpState
    BY DEF OpState, TerminalOp, LiveOp
  <1>2. CASE ObserveUnlaunched(j)
    BY <1>1, <1>2, CommitType DEF ObserveUnlaunched, At
  <1>3. CASE ObserveLaunched(j) \/ ObserveTerminal(j)
    BY <1>3 DEF ObserveLaunched, ObserveTerminal, At
  <1>4. CASE LaunchConfirmed(j)
    BY <1>4 DEF LaunchConfirmed, At, Outcome, Unconfirmed, Box
  <1>5. CASE LaunchNotStarted(j)
    BY <1>1, <1>5, CommitType DEF LaunchNotStarted, ObserverIdle
  <1>6. CASE InspectProcess(j)
    <2>1. Sighting(j) \in Sight
      BY DEF Sighting, Box
    <2> QED
      BY <1>6, <2>1 DEF InspectProcess, At, ObserverIdle
  <1>7. CASE CommitRunning(j)
    BY <1>1, <1>7, CommitType DEF CommitRunning, Killed, Box, ObserverIdle
  <1>8. CASE StopFails(j)
    BY <1>8 DEF StopFails, ObserverIdle
  <1>9. CASE CommitEnded(j)
    <2>1. StateSeen(j) \in OpState
      BY <1>1 DEF StateSeen
    <2> QED
      BY <1>9, <2>1, CommitType DEF CommitEnded, ExitCode, ObserverIdle
  <1>10. CASE StopProcess(j)
    BY <1>10 DEF StopProcess, Killed, Box, At
  <1>11. CASE RemoveProcess(j)
    BY <1>11 DEF RemoveProcess, Box, ObserverIdle
  <1> QED
    BY <1>2, <1>3, <1>4, <1>5, <1>6, <1>7, <1>8, <1>9, <1>10, <1>11 DEF Observe

LEMMA ProcTypeStep ==
    ASSUME ProcTypeOK, ProcChange
    PROVE  ProcTypeOK'
  <1> USE ProcessConstantsOK, JobIdsOK DEF ProcTypeOK
  <1>1. CASE UNCHANGED procVars
    BY <1>1
  <1>2. CASE LateChange /\ UNCHANGED recordVars
    BY <1>2 DEF LateChange
  <1>3. ASSUME NEW j \in Jobs, LateChange, Publish(j) PROVE ProcTypeOK'
    BY <1>3 DEF LateChange, Publish, OpState, LiveOp
  <1>4. ASSUME NEW j \in Jobs, LateChange, Fence(j) PROVE ProcTypeOK'
    BY <1>4 DEF LateChange, Fence, OpState, TerminalOp
  <1>5. ASSUME NEW j \in Jobs, Observe(j) PROVE ProcTypeOK'
    BY <1>5, ObserveType
  <1>6. ASSUME NEW j \in Jobs, DaemonStep(j) PROVE ProcTypeOK'
    BY <1>6 DEF DaemonStep, Outcome, Box
  <1>7. ASSUME NEW j \in Jobs, DeadlinePasses(j) PROVE ProcTypeOK'
    BY <1>7 DEF DeadlinePasses
  <1>8. CASE ProvisionerRestart
    BY <1>8 DEF ProvisionerRestart, Outcome, Unconfirmed, Box, ObserverIdle, ObserverAt, Sight
  <1> QED
    BY ProcChange, <1>1, <1>2, <1>3, <1>4, <1>5, <1>6, <1>7, <1>8 DEF ProcChange, ProcRuns

\* The observer's own steps.
LEMMA ObserveInv ==
    ASSUME ProcTypeOK, ProcInv, NEW j \in Jobs, Observe(j)
    PROVE  ProcInv'
  <1> USE DEF ProcTypeOK, ProcInv, RecordInv, BoxInv, ObserverInv, LiveOp, TerminalOp, ObserverIdle
  <1>1. CASE ObserveUnlaunched(j)
    BY <1>1 DEF ObserveUnlaunched, At, commitProcess
  <1>2. CASE ObserveLaunched(j) \/ ObserveTerminal(j)
    BY <1>2 DEF ObserveLaunched, ObserveTerminal, At
  <1>3. CASE LaunchConfirmed(j)
    BY <1>3 DEF LaunchConfirmed, At, Outcome, Unconfirmed
  <1>4. CASE LaunchNotStarted(j)
    BY <1>4 DEF LaunchNotStarted, commitProcess
  <1>5. CASE InspectProcess(j)
    BY <1>5 DEF InspectProcess, At, Sighting, Box
  <1>6. CASE CommitRunning(j)
    BY <1>6 DEF CommitRunning, Killed, commitProcess
  <1>7. CASE StopFails(j)
    BY <1>7 DEF StopFails
  <1>8. CASE CommitEnded(j)
    BY <1>8 DEF CommitEnded, commitProcess, StateSeen, ExitCode
  <1>9. CASE StopProcess(j)
    BY <1>9 DEF StopProcess, Killed, At
  <1>10. CASE RemoveProcess(j)
    BY <1>10 DEF RemoveProcess, Sighting
  <1> QED
    BY <1>1, <1>2, <1>3, <1>4, <1>5, <1>6, <1>7, <1>8, <1>9, <1>10 DEF Observe

LEMMA ProcInvStep ==
    ASSUME ProcTypeOK, ProcInv, ProcChange
    PROVE  ProcInv'
  <1> USE DEF ProcTypeOK, ProcInv, RecordInv, BoxInv, ObserverInv, LiveOp, TerminalOp
  <1>1. CASE UNCHANGED procVars
    BY <1>1
  <1>2. CASE LateChange /\ UNCHANGED recordVars
    BY <1>2 DEF LateChange
  <1>3. ASSUME NEW j \in Jobs, LateChange, Publish(j) PROVE ProcInv'
    BY <1>3 DEF LateChange, Publish
  <1>4. ASSUME NEW j \in Jobs, LateChange, Fence(j) PROVE ProcInv'
    BY <1>4 DEF LateChange, Fence
  <1>5. ASSUME NEW j \in Jobs, Observe(j) PROVE ProcInv'
    BY <1>5, ObserveInv
  <1>6. ASSUME NEW j \in Jobs, DaemonStep(j) PROVE ProcInv'
    BY <1>6 DEF DaemonStep, Outcome
  <1>7. ASSUME NEW j \in Jobs, DeadlinePasses(j) PROVE ProcInv'
    BY <1>7 DEF DeadlinePasses
  <1>8. CASE ProvisionerRestart
    BY <1>8 DEF ProvisionerRestart, Outcome, Unconfirmed, ObserverIdle
  <1> QED
    BY ProcChange, <1>1, <1>2, <1>3, <1>4, <1>5, <1>6, <1>7, <1>8 DEF ProcChange, ProcRuns

\* A fence stays, and so does a success.
LEMMA AnswersStay ==
    ASSUME ProcTypeOK, ProcInv, ProcChange
    PROVE  /\ tombstone \subseteq tombstone'
           /\ \A i \in Jobs : op[i] = "succeeded" => op'[i] = "succeeded"
  <1> DEFINE P == /\ tombstone \subseteq tombstone'
                  /\ \A i \in Jobs : op[i] = "succeeded" => op'[i] = "succeeded"
  <1> USE DEF ProcTypeOK
  <1>1. CASE UNCHANGED procVars
    BY <1>1
  <1>2. CASE LateChange /\ UNCHANGED recordVars
    BY <1>2
  <1>3. ASSUME NEW j \in Jobs, Publish(j) \/ Fence(j) PROVE P
    BY <1>3 DEF Publish, Fence
  <1>4. ASSUME NEW j \in Jobs, Observe(j) PROVE P
    BY <1>4 DEF Observe, ObserveUnlaunched, ObserveLaunched, ObserveTerminal, LaunchConfirmed,
         LaunchNotStarted, InspectProcess, CommitRunning, StopFails, CommitEnded, StopProcess,
         RemoveProcess, commitProcess, ProcInv, ObserverInv, LiveOp
  <1>5. ASSUME NEW j \in Jobs, DaemonStep(j) \/ DeadlinePasses(j) PROVE P
    BY <1>5 DEF DaemonStep, DeadlinePasses
  <1>6. CASE ProvisionerRestart
    BY <1>6 DEF ProvisionerRestart
  <1> QED
    BY ProcChange, <1>1, <1>2, <1>3, <1>4, <1>5, <1>6 DEF ProcChange, ProcRuns

-----------------------------------------------------------------------------
(* The driver *)

LEMMA CurrentCall ==
    ASSUME DriverTypeOK, cur.pc \in Calls
    PROVE  cur \in Current /\ cur.job \in Jobs
  BY DEF DriverTypeOK, Idle, Calls, Current

LEMMA CompletionChange ==
    ASSUME NEW j \in Jobs, NEW v, NEW r, CompleteJob(j, v, r),
           v \in {"done", "failed", "cancelled"}, r \in {"refusal", "process", "never_started"},
           v = "done" => op[j] = "succeeded", r = "never_started" => j \in tombstone
    PROVE  JobChange
  <1>1. v \in jobTerminal /\ r \in Results
    BY DEF jobTerminal, Results
  <1>2. CASE CompleteLive(j, v, r)
    BY <1>1, <1>2 DEF JobChange, Completes
  <1>3. CASE UNCHANGED jobVars
    BY <1>3 DEF JobChange
  <1> QED
    BY <1>2, <1>3 DEF CompleteJob

LEMMA WaitChange ==
    ASSUME NEW j \in Jobs, NEW c \in Causes, NoteWait(j, c)
    PROVE  JobChange
  BY DEF NoteWait, JobChange, Claims

\* The sweep.
LEMMA SweepChange ==
    ASSUME TypeInv, SweepStep
    PROVE  JobChange /\ UNCHANGED procVars
  <1>1. CASE BeginSweep
    <2>1. age' \in [Jobs -> 0 .. WaitBound]
      BY <1>1, JobConstantsOK DEF BeginSweep, TypeInv, TypeOK, JobTypeOK
    <2> QED
      BY <1>1, <2>1 DEF BeginSweep, JobChange, Aging
  <1>2. CASE EnterClaim \/ EnterRelease
    BY <1>2 DEF EnterClaim, EnterRelease, ClaimPass, JobChange, Claims
  <1>3. CASE EndSweep
    BY <1>3 DEF EndSweep, JobChange
  <1> QED
    BY <1>1, <1>2, <1>3 DEF SweepStep

\* The calls.
LEMMA CallChange ==
    ASSUME Inv, CallStep
    PROVE  JobChange /\ ProcRuns
  <1> USE DEF Inv, TypeInv, TypeOK, Calls, LateChange
  <1>0. /\ DriverTypeOK /\ late \in [Jobs -> 0 .. MaxLate]
        /\ cur.pc \in Calls => cur.job \in Jobs
    BY CurrentCall DEF ProcTypeOK
  <1>1. CASE Beat
    BY <1>0, <1>1 DEF Beat, JobChange, ProcRuns, Claims
  <1>2. CASE Relay \/ FenceCancelled \/ LostFence \/ StopOrphan
    BY <1>0, <1>2 DEF Relay, FenceCancelled, LostFence, StopOrphan, JobChange, ProcRuns
  <1>3. CASE Finish
    <2>1. cur.job \in Jobs /\ ProcRuns
      BY <1>0, <1>3 DEF Finish, ProcRuns
    <2>2. CASE NoteWait(cur.job, "output")
      BY <2>1, <2>2, WaitChange DEF Causes
    <2>3. CASE CompleteJob(cur.job, jobStatusFor(cur.arg), OutcomeOf(cur.arg))
      <3>1. /\ jobStatusFor(cur.arg) \in {"done", "failed", "cancelled"}
            /\ OutcomeOf(cur.arg) \in {"refusal", "process", "never_started"}
            /\ jobStatusFor(cur.arg) = "done" => op[cur.job] = "succeeded"
            /\ OutcomeOf(cur.arg) = "never_started" => cur.job \in tombstone
        BY DEF jobStatusFor, OutcomeOf, HeldAnswers
      <3> QED
        BY <2>1, <2>3, <3>1, CompletionChange
    <2> QED
      BY <1>3, <2>1, <2>2, <2>3 DEF Finish
  <1>4. CASE EnsureScope \/ Recheck
    BY <1>4 DEF EnsureScope, Recheck, JobChange, ProcRuns
  <1>5. CASE StartProcess
    <2>1. JobChange
      BY <1>0, <1>5 DEF StartProcess, Accepted, JobChange, Claims
    <2>2. late' \in [Jobs -> 0 .. MaxLate]
      BY <1>0, <1>5, ProcessConstantsOK DEF StartProcess
    <2>3. UNCHANGED recordVars \/ Publish(cur.job)
      BY <1>5 DEF StartProcess
    <2> QED
      BY <1>0, <1>5, <2>1, <2>2, <2>3 DEF StartProcess, ProcRuns
  <1>6. CASE BackendWait
    <2>1. cur.job \in Jobs /\ ProcRuns /\ cur.arg \in Causes
      BY <1>0, <1>6 DEF BackendWait, ProcRuns, CallShape, Causes
    <2>2. CASE CompleteJob(cur.job, "failed", "refusal")
      BY <2>1, <2>2, CompletionChange
    <2>3. CASE NoteWait(cur.job, cur.arg)
      BY <2>1, <2>3, WaitChange
    <2>4. CASE UNCHANGED jobVars
      BY <2>1, <2>4 DEF JobChange
    <2> QED
      BY <1>6, <2>1, <2>2, <2>3, <2>4 DEF BackendWait
  <1>7. CASE Complete
    <2>1. cur.job \in Jobs /\ ProcRuns
      BY <1>0, <1>7 DEF Complete, ProcRuns
    <2>2. cur.arg \in {"never_started", "refusal"} /\ (cur.arg = "never_started" => cur.job \in tombstone)
      BY <1>7 DEF Complete, CallShape, HeldAnswers
    <2> QED
      BY <1>7, <2>1, <2>2, CompletionChange DEF Complete
  <1>8. CASE Attach
    <2>1. cur.job \in Jobs /\ ProcRuns
      BY <1>0, <1>8 DEF Attach, ProcRuns
    <2>2. PICK r \in {"absent", "process"} :
              AttachLostOutcome(cur.job, r) /\ (r = "absent" => cur.arg = "tombstone")
      BY <1>8 DEF Attach
    <2>3. r \in Results /\ Attaches(cur.job, r)
      BY <2>2 DEF Attaches, HeldAnswers, Results
    <2> QED
      BY <2>1, <2>3 DEF JobChange
  <1> QED
    BY <1>1, <1>2, <1>3, <1>4, <1>5, <1>6, <1>7, <1>8 DEF CallStep

LEMMA StepChanges ==
    ASSUME Inv, [Next]_vars
    PROVE  JobChange /\ ProcChange /\ (ProcRuns \/ ServiceRestart)
  <1>1. CASE Driver
    <2>1. CASE \E j \in Jobs : StatusClaimed(j) \/ StartFresh(j) \/ StatusLost(j)
      BY <2>1 DEF StatusClaimed, StartFresh, StatusLost, JobChange, ProcChange, ProcRuns
    <2> QED
      BY <1>1, <2>1, SweepChange, CallChange DEF Driver, Inv, ProcChange, ProcRuns
  <1>2. CASE Others
    BY <1>2 DEF Others, JobChange, ProcChange, ProcRuns, Claims
  <1>3. CASE Abandon
    BY <1>3 DEF Abandon, JobChange, ProcChange, ProcRuns
  <1>4. CASE DriverRestart
    <2>1. age' \in [Jobs -> 0 .. WaitBound]
      BY <1>4, JobConstantsOK DEF DriverRestart, Inv, TypeInv, TypeOK, JobTypeOK
    <2>2. late' \in [Jobs -> 0 .. MaxLate]
      BY <1>4, ProcessConstantsOK DEF DriverRestart, Inv, TypeInv, TypeOK, ProcTypeOK
    <2> QED
      BY <1>4, <2>1, <2>2 DEF DriverRestart, JobChange, Aging, ProcChange, ProcRuns, LateChange
  <1>5. CASE ServiceRestart
    BY <1>5 DEF ServiceRestart, JobChange, ProcChange, ProcRuns
  <1>6. ASSUME NEW j \in Jobs, Backend(j) PROVE JobChange /\ ProcRuns
    <2>1. CASE LateStart(j)
      <3>1. late' \in [Jobs -> 0 .. MaxLate]
        BY <2>1, ProcessConstantsOK DEF LateStart, Inv, TypeInv, TypeOK, ProcTypeOK
      <3> QED
        BY <1>6, <2>1, <3>1 DEF LateStart, Backend, JobChange, ProcRuns, LateChange
    <2>2. CASE Observe(j) \/ DaemonStep(j) \/ DeadlinePasses(j)
      BY <1>6, <2>2 DEF Backend, JobChange, ProcChange, ProcRuns
    <2> QED
      BY <1>6, <2>1, <2>2 DEF Backend
  <1>7. CASE UNCHANGED vars
    BY <1>7 DEF vars, JobChange, ProcChange, ProcRuns
  <1> QED
    BY <1>1, <1>2, <1>3, <1>4, <1>5, <1>6, <1>7 DEF Next, ProcChange

-----------------------------------------------------------------------------
(* The driver's own state *)

\* What the calls leave behind: the next call, or none, works from the truth.
NextCall ==
    /\ cur' \in Current \cup {Idle}
    /\ CallShape'
    /\ HeldAnswers'

LEMMA IdleCall == ASSUME Done PROVE NextCall
  BY DEF Done, NextCall, CallShape, HeldAnswers, Idle

LEMMA SameCall ==
    ASSUME Inv, ProcChange, UNCHANGED cur
    PROVE  NextCall
  BY AnswersStay DEF Inv, TypeInv, TypeOK, DriverTypeOK, NextCall, CallShape, HeldAnswers

LEMMA GoCall ==
    ASSUME Inv, ProcChange, cur.pc \in Calls, NEW pc \in Calls, NEW arg \in Args, Go(pc, arg),
           pc = "complete" => arg \in {"never_started", "refusal"},
           pc = "wait" => arg \in {"busy", "unknown"},
           pc \in {"beat", "finish", "attach"} => arg \in OpState \cup {"tombstone"},
           arg \in {"never_started", "tombstone"} => cur.job \in tombstone',
           arg = "succeeded" => op[cur.job] = "succeeded"
    PROVE  NextCall
  <1>1. cur \in Current /\ cur.job \in Jobs
    BY CurrentCall DEF Inv, TypeInv, TypeOK
  <1>2. cur' \in Current /\ cur'.pc = pc /\ cur'.arg = arg /\ cur'.job = cur.job
    BY <1>1 DEF Go, Current
  <1>3. arg = "succeeded" => op'[cur.job] = "succeeded"
    BY <1>1, AnswersStay DEF Inv, TypeInv, TypeOK
  <1> QED
    BY <1>1, <1>2, <1>3 DEF NextCall, CallShape, HeldAnswers

LEMMA TakeCall ==
    ASSUME Inv, ProcChange, NEW j \in Jobs, page[j] \in Row, NEW pc \in Calls, NEW arg \in Args,
           Take(j, pc, arg),
           pc = "complete" => arg \in {"never_started", "refusal"},
           pc = "wait" => arg \in {"busy", "unknown"},
           pc \in {"beat", "finish", "attach"} => arg \in OpState \cup {"tombstone"},
           arg \in {"never_started", "tombstone"} => j \in tombstone,
           arg = "succeeded" => op[j] = "succeeded"
    PROVE  NextCall
  <1>1. cur' \in Current /\ cur'.pc = pc /\ cur'.arg = arg /\ cur'.job = j
    BY DEF Take, Current, Row
  <1>2. /\ arg = "succeeded" => op'[j] = "succeeded"
        /\ j \in tombstone => j \in tombstone'
    BY AnswersStay DEF Inv, TypeInv, TypeOK
  <1> QED
    BY <1>1, <1>2 DEF NextCall, CallShape, HeldAnswers

LEMMA ViewFacts ==
    ASSUME TypeOK, NEW j \in Jobs
    PROVE  /\ View(j) \in OpState \cup {"tombstone"}
           /\ View(j) # "never_started"
           /\ View(j) = "tombstone" => j \in tombstone
           /\ View(j) # "tombstone" => View(j) = op[j]
  BY DEF View, TypeOK, ProcTypeOK, OpState, LiveOp, TerminalOp

LEMMA CallNext ==
    ASSUME Inv, CallStep
    PROVE  NextCall
  <1> USE DEF Calls, Args
  <1>0. /\ ProcChange /\ TypeOK
        /\ cur.pc \in Calls => cur.job \in Jobs
    BY CallChange, CurrentCall DEF Inv, TypeInv, TypeOK, ProcChange
  <1>1. CASE Beat
    <2>1. /\ cur.arg \in OpState \cup {"tombstone"}
          /\ cur.arg = "tombstone" => cur.job \in tombstone'
          /\ cur.arg = "succeeded" => op[cur.job] = "succeeded"
      BY <1>1 DEF Beat, Inv, TypeInv, CallShape, HeldAnswers
    <2>2. CASE Go("relay", cur.arg) \/ Go("finish", cur.arg)
      BY <1>0, <1>1, <2>1, <2>2, GoCall DEF Beat, OpState, TerminalOp, LiveOp
    <2> QED
      BY <1>1, <2>2, IdleCall DEF Beat
  <1>2. CASE Relay \/ Finish \/ BackendWait \/ Complete \/ StopOrphan \/ Attach
    BY <1>2, IdleCall DEF Relay, Finish, BackendWait, Complete, StopOrphan, Attach
  <1>3. CASE FenceCancelled
    <2>0. cur.job \in Jobs
      BY <1>0, <1>3 DEF FenceCancelled
    <2>1. CASE Go("wait", "unknown")
      BY <1>0, <1>3, <2>1, GoCall DEF FenceCancelled, Causes
    <2>2. CASE Fence(cur.job) /\ View(cur.job) \in {"absent", "tombstone"} /\ Go("complete", "never_started")
      <3>1. cur.job \in tombstone'
        BY <2>0, <2>2, <1>0, ViewFacts DEF Fence
      <3> QED
        BY <1>0, <1>3, <2>2, <3>1, GoCall DEF FenceCancelled
    <2>3. CASE View(cur.job) \in TerminalOp /\ Go("finish", View(cur.job))
      BY <1>0, <1>3, <2>0, <2>3, ViewFacts, GoCall DEF FenceCancelled, TerminalOp, OpState
    <2> QED
      BY <1>3, <2>1, <2>2, <2>3, IdleCall DEF FenceCancelled
  <1>4. CASE EnsureScope
    BY <1>0, <1>4, GoCall DEF EnsureScope, OpState
  <1>5. CASE Recheck
    BY <1>0, <1>5, GoCall, IdleCall DEF Recheck, OpState
  <1>6. CASE StartProcess
    <2>1. CASE Accepted
      BY <2>1, IdleCall DEF Accepted
    <2>2. CASE Go("wait", "busy") \/ Go("wait", "unknown") \/ Go("complete", "refusal")
      BY <1>0, <1>6, <2>2, GoCall DEF StartProcess, Causes
    <2> QED
      BY <1>6, <2>1, <2>2 DEF StartProcess
  <1>7. CASE LostFence
    <2>1. CASE Fence(cur.job) /\ op[cur.job] = "absent" /\ Go("attach", "tombstone")
      <3>1. cur.job \in tombstone'
        BY <2>1 DEF Fence
      <3> QED
        BY <1>0, <1>7, <2>1, <3>1, GoCall DEF LostFence
    <2> QED
      BY <1>7, <2>1, IdleCall DEF LostFence
  <1> QED
    BY <1>1, <1>2, <1>3, <1>4, <1>5, <1>6, <1>7 DEF CallStep

LEMMA DiscoveryNext ==
    ASSUME Inv, ProcChange, NEW j \in Jobs, StatusClaimed(j) \/ StartFresh(j) \/ StatusLost(j)
    PROVE  NextCall
  <1> USE DEF Calls, Args
  <1>0. /\ TypeOK
        /\ page[j].status # "none" => page[j] \in Row
        /\ op[j] \in OpState
    BY DEF Inv, TypeInv, TypeOK, DriverTypeOK, ProcTypeOK, NoRow
  <1>1. CASE StatusClaimed(j)
    <2>1. page[j] \in Row
      BY <1>0, <1>1 DEF StatusClaimed, LiveStatus
    <2>2. CASE Take(j, "fence", "absent") \/ Take(j, "scope", "absent") \/ Take(j, "wait", "unknown")
      BY <2>1, <2>2, TakeCall DEF OpState, Causes
    <2>3. CASE Take(j, "beat", View(j))
      <3>1. PICK a \in OpState \cup {"tombstone"} : a = View(j)
        BY <1>0, ViewFacts
      <3>2. a # "never_started" /\ (a = "tombstone" => j \in tombstone) /\ (a = "succeeded" => op[j] = "succeeded")
        BY <1>0, <3>1, ViewFacts
      <3>3. Take(j, "beat", a)
        BY <2>3, <3>1
      <3> QED
        BY <2>1, <3>1, <3>2, <3>3, TakeCall
    <2> QED
      BY <1>1, <2>2, <2>3 DEF StatusClaimed
  <1>2. CASE StartFresh(j)
    BY <1>0, <1>2, TakeCall DEF StartFresh, OpState
  <1>3. CASE StatusLost(j)
    <2>1. page[j] \in Row
      BY <1>0, <1>3 DEF StatusLost
    <2>2. CASE Take(j, "lostfence", "absent")
      BY <2>1, <2>2, TakeCall DEF OpState
    <2>3. CASE op[j] \in LiveOp /\ Take(j, "orphan", op[j])
      BY <1>0, <2>1, <2>3, TakeCall DEF LiveOp
    <2>4. CASE Take(j, "attach", View(j))
      <3>1. PICK a \in OpState \cup {"tombstone"} : a = View(j)
        BY <1>0, ViewFacts
      <3>2. a # "never_started" /\ (a = "tombstone" => j \in tombstone) /\ (a = "succeeded" => op[j] = "succeeded")
        BY <1>0, <3>1, ViewFacts
      <3>3. Take(j, "attach", a)
        BY <2>4, <3>1
      <3> QED
        BY <2>1, <3>1, <3>2, <3>3, TakeCall
    <2> QED
      BY <1>3, <2>2, <2>3, <2>4, SameCall DEF StatusLost
  <1> QED
    BY <1>1, <1>2, <1>3

LEMMA DriverStep ==
    ASSUME Inv, [Next]_vars
    PROVE  DriverTypeOK' /\ CallShape' /\ HeldAnswers'
  <1>0. ProcChange /\ JobChange
    BY StepChanges
  <1>1. NextCall
    <2>1. CASE Driver
      <3>1. CASE SweepStep
        BY <1>0, <3>1, SameCall DEF SweepStep, BeginSweep, EnterClaim, EnterRelease, EndSweep
      <3>2. CASE \E j \in Jobs : StatusClaimed(j) \/ StartFresh(j) \/ StatusLost(j)
        BY <1>0, <3>2, DiscoveryNext
      <3> QED
        BY <2>1, <3>1, <3>2, CallNext DEF Driver
    <2>2. CASE Others \/ ServiceRestart \/ (\E j \in Jobs : Backend(j)) \/ UNCHANGED vars
      BY <1>0, <2>2, SameCall DEF Others, ServiceRestart, Backend, vars
    <2>3. CASE Abandon \/ DriverRestart
      BY <2>3, IdleCall DEF Abandon, DriverRestart
    <2> QED
      BY <2>1, <2>2, <2>3 DEF Next
  <1> DEFINE Rest == /\ phase' \in {"idle", "reconcile", "claim", "release"}
                     /\ page' \in [Jobs -> Row \cup {NoRow}]
                     /\ released' \subseteq Jobs
                     /\ crashes' \in 0 .. MaxCrashes
  <1>2. /\ phase \in {"idle", "reconcile", "claim", "release"}
        /\ page \in [Jobs -> Row \cup {NoRow}]
        /\ released \subseteq Jobs
        /\ crashes \in 0 .. MaxCrashes
        /\ cur.pc \in Calls => cur.job \in Jobs
    BY CurrentCall DEF Inv, TypeInv, TypeOK, DriverTypeOK
  <1>3. Rest
    <2>1. CASE SweepStep
      <3>1. \A a \in [Jobs -> 0 .. WaitBound], j \in Jobs : OverBound(j, a[j]) \in Causes \cup {"none"}
        BY DEF OverBound, Inv, TypeInv, TypeOK, JobTypeOK
      <3>2. age \in [Jobs -> 0 .. WaitBound] /\ job \in [Jobs -> JobStatus]
        BY DEF Inv, TypeInv, TypeOK, JobTypeOK
      <3>3. CASE BeginSweep
        <4>1. age' \in [Jobs -> 0 .. WaitBound]
          BY <3>2, <3>3, JobConstantsOK DEF BeginSweep
        <4>2. page' \in [Jobs -> Row \cup {NoRow}]
          BY <3>1, <3>3, <4>1 DEF BeginSweep, Row, NoRow, NeedsAttention, Live, LiveStatus
        <4> QED
          BY <1>2, <3>3, <4>2 DEF BeginSweep
      <3>4. ASSUME ClaimPass PROVE page' \in [Jobs -> Row \cup {NoRow}]
        BY <3>1, <3>2, <3>4 DEF ClaimPass, Row, NoRow
      <3>5. CASE EnterClaim \/ EnterRelease \/ EndSweep
        BY <1>2, <3>4, <3>5 DEF EnterClaim, EnterRelease, EndSweep
      <3> QED
        BY <2>1, <3>3, <3>5 DEF SweepStep
    <2>2. CASE CallStep
      BY <1>2, <2>2 DEF CallStep, Beat, Relay, FenceCancelled, Finish, EnsureScope, Recheck,
           StartProcess, Accepted, BackendWait, Complete, LostFence, StopOrphan, Attach, Calls
    <2>3. CASE \E j \in Jobs : StatusClaimed(j) \/ StartFresh(j) \/ StatusLost(j)
      BY <1>2, <2>3 DEF StatusClaimed, StartFresh, StatusLost, Dropped
    <2>4. CASE Others \/ (\E j \in Jobs : Backend(j)) \/ UNCHANGED vars
      BY <1>2, <2>4 DEF Others, Backend, vars
    <2>5. CASE Abandon
      BY <1>2, <2>5 DEF Abandon
    <2>6. CASE DriverRestart \/ ServiceRestart
      BY <1>2, <2>6, MaxCrashesOK DEF DriverRestart, ServiceRestart
    <2> QED
      BY <2>1, <2>2, <2>3, <2>4, <2>5, <2>6 DEF Next, Driver
  <1> QED
    BY <1>1, <1>3 DEF NextCall, DriverTypeOK

-----------------------------------------------------------------------------
(* Theorems *)

LEMMA InvInit == Init => Inv
  <1> SUFFICES ASSUME Init PROVE Inv
    OBVIOUS
  <1>1. JobTypeOK
    BY JobConstantsOK DEF Init, JobInit, JobTypeOK, JobStatus, Results, Causes
  <1>2. ProcTypeOK
    BY ProcessConstantsOK DEF Init, ProcInit, ProcTypeOK, OpState, ExitCode, Box, ObserverIdle, ObserverAt, Sight
  <1>3. DriverTypeOK
    BY MaxCrashesOK DEF Init, DriverTypeOK, NoRow
  <1>4. CallShape /\ HeldAnswers
    BY DEF Init, CallShape, HeldAnswers, Idle
  <1>5. Verdicts
    BY DEF Init, JobInit, Verdicts
  <1>6. ProcInv
    BY DEF Init, ProcInit, ProcInv, RecordInv, BoxInv, ObserverInv, ObserverIdle
  <1> QED
    BY <1>1, <1>2, <1>3, <1>4, <1>5, <1>6 DEF Inv, TypeInv, TypeOK

LEMMA InvStep == Inv /\ [Next]_vars => Inv'
  <1> SUFFICES ASSUME Inv, [Next]_vars PROVE Inv'
    OBVIOUS
  <1>0. JobTypeOK /\ ProcTypeOK /\ ProcInv /\ Verdicts
    BY DEF Inv, TypeInv, TypeOK
  <1>1. JobChange /\ ProcChange
    BY StepChanges
  <1>2. JobTypeOK'
    BY <1>0, <1>1, JobTypeStep
  <1>3. ProcTypeOK'
    BY <1>0, <1>1, ProcTypeStep
  <1>4. DriverTypeOK' /\ CallShape' /\ HeldAnswers'
    BY DriverStep
  <1>5. ProcInv'
    BY <1>0, <1>1, ProcInvStep
  <1>6. Verdicts'
    <2> SUFFICES ASSUME NEW i \in Jobs
                 PROVE  /\ result'[i] \in {"never_started", "absent"} => i \in tombstone'
                        /\ job'[i] = "done" => op'[i] = "succeeded"
      BY DEF Verdicts
    <2>1. /\ tombstone \subseteq tombstone'
          /\ op[i] = "succeeded" => op'[i] = "succeeded"
      BY <1>0, <1>1, AnswersStay
    <2>2. /\ result'[i] \in {"never_started", "absent"} => result'[i] = result[i] \/ i \in tombstone
          /\ job'[i] = "done" => job[i] = "done" \/ op[i] = "succeeded"
      BY <1>0, <1>1, NewVerdicts
    <2> QED
      BY <1>0, <2>1, <2>2 DEF Verdicts
  <1> QED
    BY <1>2, <1>3, <1>4, <1>5, <1>6 DEF Inv, TypeInv, TypeOK

LEMMA InvAlways == Spec => []Inv
  BY InvInit, InvStep, PTL DEF Spec

\* Every reachable state is well typed: the store, the journal and the driver
\* hold only values their code can produce.
THEOREM JobsTypeCorrect == Spec => []TypeOK
  <1>1. Inv => TypeOK
    BY DEF Inv, TypeInv
  <1> QED
    BY <1>1, InvAlways, PTL

\* The container of a job is started at most once, for any number of jobs,
\* retries, delayed starts and restarts (observe, StartProcess).
THEOREM StartsOnce == Spec => []StartedAtMostOnce
  <1>1. Inv => StartedAtMostOnce
    BY DEF Inv, ProcInv, BoxInv, StartedAtMostOnce
  <1> QED
    BY <1>1, InvAlways, PTL

\* A job reported as never started or absent has not run and will not: its
\* fence is in the journal (fenceOperation, CancelProcess).
THEOREM NeverStartedHolds == Spec => []NeverStartedIsTrue
  <1>1. Inv => NeverStartedIsTrue
    BY DEF Inv, ProcInv, RecordInv, BoxInv, Verdicts, NeverStartedIsTrue
  <1> QED
    BY <1>1, InvAlways, PTL

\* A job is done only by a process that ran once, exited with 0 and was not
\* timed out (finishJob, commitProcess).
THEOREM DoneJobsSucceeded == Spec => []DoneMeansSucceeded
  <1>1. Inv => DoneMeansSucceeded
    BY DEF Inv, ProcInv, RecordInv, Verdicts, DoneMeansSucceeded
  <1> QED
    BY <1>1, InvAlways, PTL

\* What the journal calls quiesced has no container that runs or is being
\* started (processRecord.status, observe).
THEOREM QuiescenceHolds == Spec => []QuiescedMeansNoWriter
  <1>1. Inv => QuiescedMeansNoWriter
    BY DEF Inv, ProcInv, RecordInv, BoxInv, QuiescedMeansNoWriter, Quiesced
  <1> QED
    BY <1>1, InvAlways, PTL

\* The secretary is told of every ended job the status its row has, and of no
\* other (notifyJobTerminalTx).
THEOREM NoticesTrue == Spec => []OneTrueNotice
  <1>1. Init => OneTrueNotice
    BY DEF Init, JobInit, OneTrueNotice, jobTerminal
  <1>2. Inv /\ OneTrueNotice /\ [Next]_vars => OneTrueNotice'
    BY StepChanges, NoticeStep DEF Inv, TypeInv, TypeOK
  <1> QED
    BY <1>1, <1>2, InvAlways, PTL DEF Spec

\* What rows, results and notices say of a job is what became of it, whatever
\* is lost, delayed or restarted between driver, service and daemon.
THEOREM VerdictsHold == Spec => []VerdictsTrue
  <1> QED
    BY NeverStartedHolds, DoneJobsSucceeded, NoticesTrue, PTL DEF VerdictsTrue

\* A placement without authority has no job that waits or runs (unresolvedWork,
\* submitJobTx, ClaimJobs).
THEOREM SealedIdle == Spec => []SealedHasNoLiveJob
  <1>1. Init => SealedHasNoLiveJob
    BY DEF Init, JobInit, SealedHasNoLiveJob
  <1>2. Inv /\ SealedHasNoLiveJob /\ [Next]_vars => SealedHasNoLiveJob'
    BY StepChanges, SealStep DEF Inv, TypeInv, TypeOK
  <1> QED
    BY <1>1, <1>2, InvAlways, PTL DEF Spec

\* No step changes the verdict of an ended job, nor its result once it has one
\* (CompleteJob, AttachLostOutcome).
THEOREM VerdictsFinal == Spec => VerdictFinal
  <1>1. Inv /\ [Next]_vars => [\A j \in Jobs : job[j] \in jobTerminal =>
            /\ job'[j] = job[j]
            /\ result'[j] = result[j] \/ (job[j] = "lost" /\ result[j] = "none")]_vars
    BY StepChanges, VerdictStep DEF Inv, TypeInv, TypeOK, KeepsVerdict
  <1> QED
    BY <1>1, InvAlways, PTL DEF Spec, VerdictFinal

-----------------------------------------------------------------------------
(* The persona's capacity *)

\* While launches are confirmed: at most one operation is live, a container
\* runs only for a live one, and what ends it was seen stopped.
WriterInv ==
    /\ \A j \in Jobs : box[j] \notin {"creating", "created", "starting"}
    /\ \A j \in Jobs : box[j] = "up" => op[j] \in LiveOp
    /\ \A j, k \in Jobs : op[j] \in LiveOp /\ op[k] \in LiveOp => j = k
    /\ obs.at = "commit" /\ obs.saw # "up" => box[obs.op] # "up"

LEMMA WriterObserve ==
    ASSUME ProcTypeOK, ProcInv, WriterInv, "launch" \notin Faults, NEW j \in Jobs, Observe(j)
    PROVE  WriterInv'
  <1> USE DEF ProcTypeOK, ProcInv, BoxInv, ObserverInv, WriterInv, LiveOp, ObserverIdle
  <1>1. CASE ObserveUnlaunched(j)
    BY <1>1 DEF ObserveUnlaunched, At, commitProcess, TerminalOp
  <1>2. CASE ObserveLaunched(j) \/ ObserveTerminal(j)
    BY <1>2 DEF ObserveLaunched, ObserveTerminal, At
  <1>3. CASE LaunchConfirmed(j)
    BY <1>3 DEF LaunchConfirmed, At, Outcome
  <1>4. CASE LaunchNotStarted(j)
    BY <1>4 DEF LaunchNotStarted
  <1>5. CASE InspectProcess(j)
    BY <1>5 DEF InspectProcess, At, Sighting, Box
  <1>6. CASE CommitRunning(j)
    BY <1>6 DEF CommitRunning, Killed, commitProcess, TerminalOp
  <1>7. CASE StopFails(j)
    BY <1>7 DEF StopFails
  <1>8. CASE CommitEnded(j)
    BY <1>8 DEF CommitEnded, commitProcess, StateSeen, TerminalOp
  <1>9. CASE StopProcess(j)
    BY <1>9 DEF StopProcess, Killed, At, TerminalOp
  <1>10. CASE RemoveProcess(j)
    BY <1>10 DEF RemoveProcess, Sighting
  <1> QED
    BY <1>1, <1>2, <1>3, <1>4, <1>5, <1>6, <1>7, <1>8, <1>9, <1>10 DEF Observe

LEMMA WriterStep ==
    ASSUME ProcTypeOK, ProcInv, WriterInv, "launch" \notin Faults, ProcRuns
    PROVE  WriterInv'
  <1> USE DEF ProcTypeOK, WriterInv, LiveOp
  <1>1. CASE UNCHANGED procVars
    BY <1>1
  <1>2. CASE LateChange /\ UNCHANGED recordVars
    BY <1>2 DEF LateChange
  <1>3. ASSUME NEW j \in Jobs, LateChange, Publish(j) PROVE WriterInv'
    BY <1>3 DEF LateChange, Publish, Busy
  <1>4. ASSUME NEW j \in Jobs, LateChange, Fence(j) PROVE WriterInv'
    BY <1>4 DEF LateChange, Fence
  <1>5. ASSUME NEW j \in Jobs, Observe(j) PROVE WriterInv'
    BY <1>5, WriterObserve
  <1>6. ASSUME NEW j \in Jobs, DaemonStep(j) PROVE WriterInv'
    BY <1>6 DEF DaemonStep, Outcome
  <1>7. ASSUME NEW j \in Jobs, DeadlinePasses(j) PROVE WriterInv'
    BY <1>7 DEF DeadlinePasses
  <1> QED
    BY ProcRuns, <1>1, <1>2, <1>3, <1>4, <1>5, <1>6, <1>7 DEF ProcRuns

\* Two jobs of a persona never write its workspace at the same time, whatever
\* is retried, delayed or given up, while launches are confirmed and the
\* provisioner stays up (StartProcess, observe).
THEOREM OneWriterHolds ==
    ASSUME "launch" \notin Faults, MaxCrashes = 0
    PROVE  Spec => []OneWriter
  <1>1. Init => WriterInv
    BY DEF Init, ProcInit, WriterInv, LiveOp, ObserverIdle
  <1>2. Inv /\ WriterInv /\ [Next]_vars => WriterInv'
    <2> SUFFICES ASSUME Inv, WriterInv, [Next]_vars PROVE WriterInv'
      OBVIOUS
    <2>1. ~ServiceRestart
      BY MaxCrashesOK DEF Inv, TypeInv, TypeOK, DriverTypeOK, ServiceRestart
    <2>2. ProcRuns
      BY <2>1, StepChanges
    <2> QED
      BY <2>2, WriterStep DEF Inv, TypeInv, TypeOK
  <1>3. WriterInv => OneWriter
    BY DEF WriterInv, OneWriter
  <1> QED
    BY <1>1, <1>2, <1>3, InvAlways, PTL DEF Spec

-----------------------------------------------------------------------------
(* Jobs refused for want of capacity *)

\* A row of the table: nothing is recorded of work that did not end, and what
\* was not claimed or was refused has no operation.
RowInv(j) ==
    /\ job[j] \notin jobTerminal => result[j] = "none"
    /\ job[j] \in {"none", "queued"} \/ result[j] = "refusal" => op[j] = "absent"

\* A row the driver holds: claimed once, not accounted for yet, and not the
\* one it is working on.
HeldInv(j) ==
    page[j].status # "none" =>
        /\ job[j] \notin {"none", "queued"}
        /\ result[j] = "none"
        /\ page[j].status = "fresh" => op[j] = "absent"
        /\ cur.job # j

\* The job at hand: not accounted for yet, and without an operation until the
\* start is accepted.
AtHandInv ==
    cur.pc # "idle" =>
        /\ job[cur.job] \notin {"none", "queued"}
        /\ result[cur.job] = "none"
        /\ cur.pc \in {"scope", "recheck", "start"} \/ cur.arg \in {"busy", "refusal"}
               => op[cur.job] = "absent"

RefusalInv ==
    /\ phase = "idle" => Drained
    /\ AtHandInv
    /\ \A j \in Jobs : RowInv(j) /\ HeldInv(j)

\* An operation comes to exist by the driver's own call only.
LEMMA AbsentStays ==
    ASSUME Inv, NEW j \in Jobs, Observe(j) \/ DaemonStep(j) \/ DeadlinePasses(j),
           NEW i \in Jobs, op[i] = "absent"
    PROVE  op'[i] = "absent"
  <1> USE DEF Inv, TypeInv, TypeOK, ProcTypeOK
  <1>1. CASE Observe(j)
    BY <1>1 DEF Observe, ObserveUnlaunched, ObserveLaunched, ObserveTerminal, LaunchConfirmed,
         LaunchNotStarted, InspectProcess, CommitRunning, StopFails, CommitEnded, StopProcess,
         RemoveProcess, commitProcess, ProcInv, ObserverInv, LiveOp
  <1>2. CASE DaemonStep(j) \/ DeadlinePasses(j)
    BY <1>2 DEF DaemonStep, DeadlinePasses
  <1> QED
    BY <1>1, <1>2

LEMMA RefusalBackend ==
    ASSUME Inv, RefusalInv, MaxLate = 0, NEW j \in Jobs, Backend(j)
    PROVE  RefusalInv'
  <1>1. ~LateStart(j)
    BY DEF LateStart, Inv, TypeInv, TypeOK, ProcTypeOK
  <1>2. \A i \in Jobs : op[i] = "absent" => op'[i] = "absent"
    BY <1>1, AbsentStays DEF Backend
  <1>3. cur.pc # "idle" => cur.job \in Jobs
    BY DEF Inv, TypeInv, TypeOK, DriverTypeOK, Current, Idle
  <1> QED
    BY <1>2, <1>3 DEF Backend, RefusalInv, AtHandInv, RowInv, HeldInv, Drained

LEMMA RefusalOthers ==
    ASSUME Inv, RefusalInv, Others
    PROVE  RefusalInv'
  <1> USE DEF Inv, TypeInv, TypeOK, DriverTypeOK, JobTypeOK, RefusalInv, AtHandInv, RowInv, HeldInv,
              Drained, jobTerminal, Current, Idle
  <1>1. ASSUME NEW j \in Jobs, SubmitJob(j) \/ CancelJob(j) \/ ClaimExpires(j),
               UNCHANGED <<procVars, driverVars, crashes>>
        PROVE  RefusalInv'
    BY <1>1 DEF SubmitJob, CancelJob, CancelQueued, CancelRunning, ClaimExpires
  <1>2. ASSUME SweepExpiredJobs, UNCHANGED <<procVars, driverVars, crashes>> PROVE RefusalInv'
    BY <1>2 DEF SweepExpiredJobs, Expired, Live, LiveStatus
  <1>3. ASSUME Seal \/ EndTransfer, UNCHANGED <<procVars, driverVars, crashes>> PROVE RefusalInv'
    BY <1>3 DEF Seal, EndTransfer
  <1> QED
    BY <1>1, <1>2, <1>3 DEF Others

LEMMA RefusalSweep ==
    ASSUME Inv, RefusalInv, SweepStep
    PROVE  RefusalInv'
  <1> USE DEF Inv, TypeInv, TypeOK, DriverTypeOK, JobTypeOK, RefusalInv, AtHandInv, RowInv, HeldInv,
              Drained, jobTerminal, Idle
  <1>0. None \notin Jobs
    BY JobIdsOK
  <1>1. CASE BeginSweep
    BY <1>0, <1>1 DEF BeginSweep, NeedsAttention, Live, LiveStatus, NoRow
  <1>2. ASSUME ClaimPass, Drained, UNCHANGED <<procVars, cur>>, phase' # "idle" PROVE RefusalInv'
    <2>1. PICK C \in SUBSET Queued :
             /\ ClaimJobs(C)
             /\ page' = [j \in Jobs |-> IF j \in C THEN [status |-> "fresh", over |-> OverBound(j, age[j])]
                                        ELSE IF j \in Expired THEN [status |-> "lost", over |-> OverBound(j, age[j])]
                                        ELSE NoRow]
      BY <1>2 DEF ClaimPass
    <2> QED
      BY <1>0, <1>2, <2>1 DEF ClaimJobs, Queued, Expired, Live, LiveStatus, NoRow
  <1>3. CASE EnterClaim \/ EnterRelease
    <2>1. CASE UNCHANGED <<jobVars, page>>
      BY <1>3, <2>1 DEF EnterClaim, EnterRelease
    <2> QED
      BY <1>2, <1>3, <2>1 DEF EnterClaim, EnterRelease
  <1>4. CASE EndSweep
    BY <1>4 DEF EndSweep
  <1> QED
    BY <1>1, <1>3, <1>4 DEF SweepStep

LEMMA RefusalDiscovery ==
    ASSUME Inv, RefusalInv, NEW j \in Jobs, StatusClaimed(j) \/ StartFresh(j) \/ StatusLost(j)
    PROVE  RefusalInv'
  <1> USE DEF Inv, TypeInv, TypeOK, DriverTypeOK, JobTypeOK, RefusalInv, AtHandInv, RowInv, HeldInv,
              Drained, Idle, Dropped, Take, NoRow
  <1>0. /\ phase # "idle"
        /\ View(j) \notin {"busy", "refusal"} /\ op[j] \notin {"busy", "refusal"}
    BY ViewFacts DEF StatusClaimed, StartFresh, StatusLost, LiveStatus, OpState, LiveOp, TerminalOp,
       ProcTypeOK
  <1>1. CASE StatusClaimed(j)
    BY <1>0, <1>1 DEF StatusClaimed, LiveStatus
  <1>2. CASE StartFresh(j)
    BY <1>0, <1>2 DEF StartFresh
  <1>3. CASE StatusLost(j)
    BY <1>0, <1>3 DEF StatusLost
  <1> QED
    BY <1>1, <1>2, <1>3

\* The end of a call: the job at hand is let go.
LEMMA RefusalDone ==
    ASSUME Inv, RefusalInv, Done, UNCHANGED <<phase, page>>, NEW k \in Jobs, cur.job = k,
           \A i \in Jobs : i # k => job'[i] = job[i] /\ result'[i] = result[i] /\ op'[i] = op[i],
           RowInv(k)'
    PROVE  RefusalInv'
  <1>1. None \notin Jobs
    BY JobIdsOK
  <1>2. phase # "idle" /\ HeldInv(k) /\ page[k].status = "none"
    BY <1>1 DEF RefusalInv, Drained, Idle, HeldInv
  <1>3. \A i \in Jobs : RowInv(i)'
    BY DEF RefusalInv, RowInv
  <1>4. \A i \in Jobs : HeldInv(i)'
    BY <1>1, <1>2 DEF RefusalInv, HeldInv, Done, Idle
  <1>5. AtHandInv'
    BY DEF AtHandInv, Done, Idle
  <1> QED
    BY <1>2, <1>3, <1>4, <1>5 DEF RefusalInv

\* A call that leads to another.
LEMMA RefusalGo ==
    ASSUME Inv, RefusalInv, cur.pc # "idle", NEW pc \in Calls, NEW arg, Go(pc, arg),
           UNCHANGED <<phase, page, job, result>>,
           \A i \in Jobs : i # cur.job => op'[i] = op[i],
           pc \in {"scope", "recheck", "start"} \/ arg \in {"busy", "refusal"} => op'[cur.job] = "absent"
    PROVE  RefusalInv'
  <1>1. cur \in Current /\ cur.job \in Jobs
    BY DEF Inv, TypeInv, TypeOK, DriverTypeOK, Current, Idle
  <1>2. cur'.pc = pc /\ cur'.arg = arg /\ cur'.job = cur.job /\ pc # "idle"
    BY <1>1 DEF Go, Current, Calls
  <1>3. phase' # "idle"
    BY DEF RefusalInv, Drained, Idle
  <1>4. \A i \in Jobs : RowInv(i)' /\ HeldInv(i)'
    BY <1>1, <1>2 DEF RefusalInv, RowInv, HeldInv, AtHandInv
  <1>5. AtHandInv'
    BY <1>1, <1>2 DEF RefusalInv, AtHandInv
  <1> QED
    BY <1>3, <1>4, <1>5 DEF RefusalInv

LEMMA RefusalCall ==
    ASSUME Inv, RefusalInv, MaxLate = 0, CallStep
    PROVE  RefusalInv'
  <1>0. /\ cur.pc \in Calls /\ cur.pc # "idle" /\ cur.job \in Jobs
        /\ job \in [Jobs -> JobStatus] /\ result \in [Jobs -> Results] /\ op \in [Jobs -> OpState]
        /\ RowInv(cur.job) /\ job[cur.job] \notin {"none", "queued"} /\ result[cur.job] = "none"
    <2>1. cur.pc \in Calls
      BY DEF CallStep, Beat, Relay, FenceCancelled, Finish, EnsureScope, Recheck, StartProcess,
         BackendWait, Complete, LostFence, StopOrphan, Attach, Calls
    <2> QED
      BY <2>1, CurrentCall DEF Inv, TypeInv, TypeOK, JobTypeOK, ProcTypeOK, Calls, RefusalInv, AtHandInv
  <1>k. PICK k \in Jobs : k = cur.job
    BY <1>0
  <1> USE <1>k DEF Calls
  <1>1. CASE Beat
    <2>1. UNCHANGED <<job, result, phase, page, op>>
      BY <1>1 DEF Beat, HeartbeatAndClear
    <2>2. CASE Done
      BY <1>0, <2>1, <2>2, RefusalDone DEF RowInv
    <2>3. CASE Go("relay", cur.arg) \/ Go("finish", cur.arg)
      <3>1. cur.arg \notin {"busy", "refusal"}
        BY <1>1 DEF Beat, Inv, TypeInv, CallShape, OpState, LiveOp, TerminalOp
      <3> QED
        BY <1>0, <2>1, <2>3, <3>1, RefusalGo
    <2> QED
      BY <1>1, <2>2, <2>3 DEF Beat
  <1>2. ASSUME Fence(cur.job) \/ UNCHANGED recordVars, UNCHANGED <<job, result, phase, page>>, Done
        PROVE  RefusalInv'
    BY <1>0, <1>2, RefusalDone DEF Fence, RowInv
  <1>3. CASE Relay \/ StopOrphan
    BY <1>2, <1>3 DEF Relay, StopOrphan
  <1>4. CASE FenceCancelled \/ LostFence
    <2>1. Fence(cur.job) \/ UNCHANGED recordVars
      BY <1>4 DEF FenceCancelled, LostFence
    <2>2. UNCHANGED <<job, result, phase, page>> /\ \A i \in Jobs : i # cur.job => op'[i] = op[i]
      BY <1>0, <1>4, <2>1 DEF FenceCancelled, LostFence, Fence
    <2>3. CASE Go("complete", "never_started") \/ Go("wait", "unknown") \/ Go("attach", "tombstone")
      BY <1>0, <2>2, <2>3, RefusalGo
    <2>4. CASE View(cur.job) \in TerminalOp /\ Go("finish", View(cur.job))
      <3>1. PICK a \in TerminalOp : a = View(cur.job)
        BY <2>4
      <3>2. Go("finish", a)
        BY <2>4, <3>1
      <3> QED
        BY <1>0, <2>2, <3>1, <3>2, RefusalGo DEF TerminalOp
    <2> QED
      BY <1>2, <1>4, <2>1, <2>2, <2>3, <2>4 DEF FenceCancelled, LostFence
  <1>5. ASSUME NEW v, NEW r, CompleteJob(cur.job, v, r), r = "refusal" => op[cur.job] = "absent",
               v \in jobTerminal, UNCHANGED <<phase, page, op>>, Done
        PROVE  RefusalInv'
    <2>1. RowInv(k)'
      BY <1>0, <1>5 DEF CompleteJob, CompleteLive, RowInv, jobTerminal
    <2> QED
      BY <1>0, <1>5, <2>1, RefusalDone DEF CompleteJob, CompleteLive
  <1>6. ASSUME NEW c, NoteWait(cur.job, c), UNCHANGED <<phase, page, op>>, Done PROVE RefusalInv'
    BY <1>0, <1>6, RefusalDone DEF NoteWait, NoteLiveWait, RowInv
  <1>7. CASE Finish
    <2>1. jobStatusFor(cur.arg) \in jobTerminal /\ OutcomeOf(cur.arg) # "refusal"
      BY DEF jobStatusFor, OutcomeOf, jobTerminal
    <2> QED
      BY <1>5, <1>6, <1>7, <2>1 DEF Finish
  <1>8. CASE EnsureScope
    <2>1. op[cur.job] = "absent"
      BY <1>8 DEF EnsureScope, RefusalInv, AtHandInv
    <2> QED
      BY <1>0, <1>8, <2>1, RefusalGo DEF EnsureScope
  <1>9. CASE Recheck
    <2>1. op[cur.job] = "absent"
      BY <1>9 DEF Recheck, RefusalInv, AtHandInv
    <2>2. CASE Done
      BY <1>0, <1>9, <2>2, RefusalDone DEF Recheck, RowInv
    <2> QED
      BY <1>0, <1>9, <2>1, <2>2, RefusalGo DEF Recheck
  <1>10. CASE StartProcess
    <2>1. UNCHANGED <<job, result, phase, page>>
      BY <1>10 DEF StartProcess, Accepted, ClearWait
    <2>2. Publish(cur.job) \/ UNCHANGED recordVars
      BY <1>10 DEF StartProcess
    <2>3. \A i \in Jobs : i # cur.job => op'[i] = op[i]
      BY <1>0, <2>2 DEF Publish
    <2>4. CASE Accepted
      BY <1>0, <2>1, <2>2, <2>3, <2>4, RefusalDone DEF Accepted, RowInv
    <2>5. CASE Go("wait", "unknown")
      BY <1>0, <2>1, <2>3, <2>5, RefusalGo
    <2>6. CASE (Go("wait", "busy") \/ Go("complete", "refusal")) /\ op[cur.job] = "absent" /\ UNCHANGED recordVars
      BY <1>0, <2>1, <2>3, <2>6, RefusalGo
    <2> QED
      BY <1>10, <2>4, <2>5, <2>6 DEF StartProcess
  <1>11. CASE BackendWait
    <2>1. cur.arg = "busy" => op[cur.job] = "absent"
      BY <1>11 DEF BackendWait, RefusalInv, AtHandInv
    <2>2. CASE cur.arg = "busy" /\ CompleteJob(cur.job, "failed", "refusal")
      BY <1>5, <1>11, <2>1, <2>2 DEF BackendWait, jobTerminal
    <2>3. CASE NoteWait(cur.job, cur.arg)
      BY <1>6, <1>11, <2>3 DEF BackendWait
    <2>4. CASE UNCHANGED jobVars
      BY <1>0, <1>11, <2>4, RefusalDone DEF BackendWait, RowInv
    <2> QED
      BY <1>11, <2>2, <2>3, <2>4 DEF BackendWait
  <1>12. CASE Complete
    <2>1. cur.arg = "refusal" => op[cur.job] = "absent"
      BY <1>12 DEF Complete, RefusalInv, AtHandInv
    <2> QED
      BY <1>5, <1>12, <2>1 DEF Complete, jobTerminal
  <1>13. CASE Attach
    <2>1. PICK r \in {"absent", "process"} : AttachLostOutcome(cur.job, r)
      BY <1>13 DEF Attach
    <2>2. RowInv(k)'
      BY <1>0, <1>13, <2>1 DEF Attach, AttachLostOutcome, RowInv, jobTerminal
    <2> QED
      BY <1>0, <1>13, <2>1, <2>2, RefusalDone DEF Attach, AttachLostOutcome
  <1> QED
    BY <1>1, <1>3, <1>4, <1>7, <1>8, <1>9, <1>10, <1>11, <1>12, <1>13 DEF CallStep

\* A job failed for want of capacity, or because it could not be started, has
\* no operation and gets none, whatever fails or restarts, while no start
\* outlives its caller (startBackend, backendWait).
THEOREM RefusalsHold ==
    ASSUME MaxLate = 0
    PROVE  Spec => []RefusedNeverRuns
  <1>1. Init => RefusalInv
    BY JobIdsOK DEF Init, JobInit, ProcInit, RefusalInv, AtHandInv, RowInv, HeldInv, Drained, Idle, NoRow
  <1>2. Inv /\ RefusalInv /\ [Next]_vars => RefusalInv'
    <2> SUFFICES ASSUME Inv, RefusalInv, [Next]_vars PROVE RefusalInv'
      OBVIOUS
    <2>1. CASE Driver
      BY <2>1, RefusalSweep, RefusalCall, RefusalDiscovery DEF Driver
    <2>2. CASE Abandon \/ DriverRestart
      BY <2>2, JobIdsOK DEF Abandon, DriverRestart, Done, RefusalInv, AtHandInv, RowInv, HeldInv,
         Drained, Idle, NoRow
    <2>3. CASE ServiceRestart \/ UNCHANGED vars
      BY <2>3 DEF ServiceRestart, ProvisionerRestart, vars, RefusalInv, AtHandInv, RowInv, HeldInv, Drained
    <2> QED
      BY <2>1, <2>2, <2>3, RefusalOthers, RefusalBackend DEF Next
  <1>3. Inv /\ RefusalInv => RefusedNeverRuns
    BY DEF Inv, TypeInv, TypeOK, ProcTypeOK, RefusalInv, RowInv, RefusedNeverRuns
  <1> QED
    BY <1>1, <1>2, <1>3, InvAlways, PTL DEF Spec

\* The persona's one operation, for any number of jobs and any other fault: one
\* writer at a time, and a job refused for want of capacity does not run after
\* all (StartProcess, backendWait).
THEOREM CapacityStays ==
    ASSUME "launch" \notin Faults, MaxLate = 0, MaxCrashes = 0
    PROVE  Spec => []CapacityHeld
  BY OneWriterHolds, RefusalsHold, PTL DEF CapacityHeld
=============================================================================
