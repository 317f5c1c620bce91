--------------------------- MODULE ProcessService ---------------------------
(***************************************************************************)
(* The process service of the runtime provisioner for batch operations     *)
(* (apps/api/internal/runtimeprovision/process_service.go): a journal with *)
(* one record per deterministic operation id, the requests that start and  *)
(* cancel operations, the observer that launches and follows a container   *)
(* for each, and the container daemon it drives (external).                *)
(*                                                                          *)
(* A record is saved before memory shows it, so the two agree and a        *)
(* restart loses only what was in flight.  All operations belong to one    *)
(* persona; its capacity is one operation that is not terminal.            *)
(***************************************************************************)
EXTENDS JobIds

CONSTANTS
    MaxLate,  \* bound: start requests of one operation whose caller gave up
    Faults    \* what may fail: see FaultNames

\* scope: the files service refuses or fails; invalid: the request does not
\* satisfy the process contract; workspace: the workspace cannot be resolved;
\* call: a call to the service fails or its answer is lost; giveup: the caller
\* of a start gives up while the service works on it; output: output cannot be
\* read; sweep: a sweep runs out of time or the database refuses a call;
\* launch: a launch is refused or not confirmed; docker: the daemon does not
\* answer; move: no fault, the persona may be moved to another placement.
FaultNames == {"scope", "invalid", "workspace", "call", "giveup", "output",
               "sweep", "launch", "docker", "move"}

ASSUME ProcessConstantsOK ==
    /\ MaxLate \in Nat
    /\ Faults \subseteq FaultNames

VARIABLES
    op,         \* Operation.State ("absent": no record)
    tombstone,  \* operations whose record is a cancel fence
    attempted,  \* LaunchAttempted
    cancelling, \* CancelRequested
    removed,    \* ContainerRemoved
    timedOut,   \* Error = "process timeout exceeded"
    exited,     \* ExitCode of a process that started
    overdue,    \* operations older than their timeout
    late,       \* starts past the replay check whose caller has gone
    obs,        \* the observer: where it is, on which operation, what it saw
    box,        \* the operation's container at the daemon
    runs        \* how often the daemon started the operation's container

recordVars == <<op, tombstone, attempted, cancelling, removed, timedOut, exited>>
procVars == <<recordVars, overdue, late, obs, box, runs>>

LiveOp == {"accepted", "running"}
TerminalOp == {"succeeded", "failed", "cancelled", "indeterminate"}
OpState == {"absent"} \cup LiveOp \cup TerminalOp
ExitCode == {"none", "zero", "nonzero"}
\* "creating", "starting": the daemon still works on a request whose caller
\* has gone; "created": never started; "zero", "nonzero": exited.
Box == {"none", "creating", "created", "starting", "up", "zero", "nonzero", "gone"}
Sight == {"none", "missing", "unstarted", "up", "zero", "nonzero"}
ObserverAt == {"idle", "launch", "inspect", "commit", "stop", "remove"}

ProcTypeOK ==
    /\ op \in [Jobs -> OpState]
    /\ tombstone \subseteq Jobs /\ attempted \subseteq Jobs
    /\ cancelling \subseteq Jobs /\ removed \subseteq Jobs
    /\ timedOut \subseteq Jobs /\ overdue \subseteq Jobs
    /\ exited \in [Jobs -> ExitCode]
    /\ late \in [Jobs -> 0 .. MaxLate]
    /\ obs \in [at : ObserverAt, op : Jobs \cup {None}, saw : Sight]
    /\ obs.at # "idle" => obs.op \in Jobs
    /\ box \in [Jobs -> Box]
    /\ runs \in [Jobs -> Nat]

ObserverIdle == [at |-> "idle", op |-> None, saw |-> "none"]

ProcInit ==
    /\ op = [j \in Jobs |-> "absent"]
    /\ tombstone = {} /\ attempted = {} /\ cancelling = {} /\ removed = {}
    /\ timedOut = {} /\ overdue = {}
    /\ exited = [j \in Jobs |-> "none"]
    /\ late = [j \in Jobs |-> 0]
    /\ obs = ObserverIdle
    /\ box = [j \in Jobs |-> "none"]
    /\ runs = [j \in Jobs |-> 0]

-----------------------------------------------------------------------------
(* Requests.  The store mutex serializes the writes that create a record. *)

\* No capacity: the persona has another operation that is not terminal.
Busy == \E k \in Jobs : op[k] \in LiveOp

\* Mistake: the capacity is not checked under the lock.
PublishOverCapacity(j) ==
    /\ op[j] = "absent"
    /\ op' = [op EXCEPT ![j] = "accepted"]
    /\ UNCHANGED <<tombstone, attempted, cancelling, removed, timedOut, exited>>

\* StartProcess from its lock to the saved record.
Publish(j) ==
    /\ op[j] = "absent"
    /\ ~Busy
    /\ op' = [op EXCEPT ![j] = "accepted"]
    /\ UNCHANGED <<tombstone, attempted, cancelling, removed, timedOut, exited>>

\* CancelProcess with TombstoneIfAbsent: an absent operation is fenced, a live
\* one is asked to stop, a terminal one is left alone.
Fence(j) ==
    /\ op' = [op EXCEPT ![j] = IF @ = "absent" THEN "cancelled" ELSE @]
    /\ tombstone' = IF op[j] = "absent" THEN tombstone \cup {j} ELSE tombstone
    /\ cancelling' = IF op[j] \in LiveOp THEN cancelling \cup {j} ELSE cancelling
    /\ UNCHANGED <<attempted, removed, timedOut, exited>>

\* A start whose caller gave up gets past its lock: it publishes, or finds a
\* record or no capacity.  Or it notices that its caller has gone.
LateStart(j) ==
    /\ late[j] > 0
    /\ late' = [late EXCEPT ![j] = @ - 1]
    /\ Publish(j) \/ UNCHANGED recordVars
    /\ UNCHANGED <<overdue, obs, box, runs>>

DeadlinePasses(j) ==
    /\ op[j] \in LiveOp
    /\ overdue' = overdue \cup {j}
    /\ UNCHANGED <<recordVars, late, obs, box, runs>>

-----------------------------------------------------------------------------
(* The container daemon (external) *)

Outcome(j, b) ==
    /\ box' = [box EXCEPT ![j] = b]
    /\ runs' = [runs EXCEPT ![j] = IF b = "up" THEN @ + 1 ELSE @]

DaemonStep(j) ==
    /\ \/ box[j] = "creating" /\ \E b \in {"none", "created"} : Outcome(j, b)
       \/ box[j] = "starting" /\ \E b \in {"created", "up"} : Outcome(j, b)
       \/ box[j] = "up" /\ \E b \in {"zero", "nonzero"} : Outcome(j, b)
    /\ UNCHANGED <<recordVars, overdue, late, obs>>

\* What a launch whose answer never came may have left behind.
Unconfirmed == {"none", "creating", "created", "starting", "up"}

\* docker kill, where the container runs.
Killed(j) == box' = [box EXCEPT ![j] = IF @ = "up" THEN "nonzero" ELSE @]

Sighting(j) ==
    CASE box[j] \in {"none", "creating", "gone"} -> "missing"
      [] box[j] \in {"created", "starting"} -> "unstarted"
      [] OTHER -> box[j]

-----------------------------------------------------------------------------
(* The observer: one goroutine, one operation at a time, no lock held while *)
(* the daemon works.                                                        *)

At(at, j, saw) == obs' = [at |-> at, op |-> j, saw |-> saw]

\* commitProcess: a terminal state becomes cancelled where a cancel arrived.
commitProcess(j, state) ==
    op' = [op EXCEPT ![j] = IF state \in TerminalOp /\ j \in cancelling
                            THEN "cancelled" ELSE state]

\* Mistake: the attempt is not on record when it is made.
ObserveUnlaunchedUnsaved(j) ==
    /\ obs.at = "idle"
    /\ op[j] \in LiveOp /\ j \notin attempted
    /\ IF j \in cancelling \cup overdue
       THEN commitProcess(j, "failed") /\ UNCHANGED obs
       ELSE At("launch", j, "none") /\ UNCHANGED op
    /\ UNCHANGED <<attempted, tombstone, cancelling, removed, timedOut, exited, overdue, late, box, runs>>

\* Not launched yet: cancelled or too old, or the attempt is recorded before
\* it is made.
ObserveUnlaunched(j) ==
    /\ obs.at = "idle"
    /\ op[j] \in LiveOp /\ j \notin attempted
    /\ IF j \in cancelling \cup overdue
       THEN /\ commitProcess(j, "failed")
            /\ UNCHANGED <<attempted, obs>>
       ELSE /\ attempted' = attempted \cup {j}
            /\ At("launch", j, "none")
            /\ UNCHANGED op
    /\ UNCHANGED <<tombstone, cancelling, removed, timedOut, exited, overdue, late, box, runs>>

ObserveLaunched(j) ==
    /\ obs.at = "idle"
    /\ op[j] \in LiveOp /\ j \in attempted
    /\ At("inspect", j, "none")
    /\ UNCHANGED <<recordVars, overdue, late, box, runs>>

\* Mistake: an operation of unknown outcome has nothing left to stop.
ObserveTerminalKnown(j) ==
    /\ obs.at = "idle"
    /\ op[j] \in TerminalOp \ {"indeterminate"} /\ j \notin removed
    /\ At("stop", j, "none")
    /\ UNCHANGED <<recordVars, overdue, late, box, runs>>

\* A terminal record is no proof that nothing runs: stop, then remove.
ObserveTerminal(j) ==
    /\ obs.at = "idle"
    /\ op[j] \in TerminalOp /\ j \notin removed
    /\ At("stop", j, "none")
    /\ UNCHANGED <<recordVars, overdue, late, box, runs>>

LaunchConfirmed(j) ==
    /\ obs.at = "launch" /\ obs.op = j
    /\ \E b \in {"up"} \cup (IF "launch" \in Faults THEN Unconfirmed ELSE {}) : Outcome(j, b)
    /\ At("inspect", j, "none")
    /\ UNCHANGED <<recordVars, overdue, late>>

\* Refused before the daemon was asked to create anything.
LaunchNotStarted(j) ==
    /\ "launch" \in Faults
    /\ obs.at = "launch" /\ obs.op = j
    /\ commitProcess(j, "failed")
    /\ removed' = removed \cup {j}
    /\ obs' = ObserverIdle
    /\ UNCHANGED <<tombstone, attempted, cancelling, timedOut, exited, overdue, late, box, runs>>

InspectProcess(j) ==
    /\ obs.at = "inspect" /\ obs.op = j
    /\ \/ At("commit", j, Sighting(j))
       \/ "docker" \in Faults /\ obs' = ObserverIdle
    /\ UNCHANGED <<recordVars, overdue, late, box, runs>>

\* A running container is stopped once a cancel or the deadline is seen.
CommitRunning(j) ==
    /\ obs.at = "commit" /\ obs.op = j /\ obs.saw = "up"
    /\ IF j \in cancelling \cup overdue
       THEN Killed(j) /\ timedOut' = IF j \in cancelling THEN timedOut ELSE timedOut \cup {j}
       ELSE UNCHANGED <<box, timedOut>>
    /\ commitProcess(j, "running")
    /\ obs' = ObserverIdle
    /\ UNCHANGED <<tombstone, attempted, cancelling, removed, exited, overdue, late, runs>>

\* The stop fails, also where the process exited just before it: nothing is
\* committed.
StopFails(j) ==
    /\ obs.at = "commit" /\ obs.op = j /\ obs.saw = "up"
    /\ j \in cancelling \cup overdue
    /\ box[j] # "up" \/ "docker" \in Faults
    /\ obs' = ObserverIdle
    /\ UNCHANGED <<recordVars, overdue, late, box, runs>>

\* Mistake: the exit code alone decides.
StateSeenByCode(j) ==
    CASE obs.saw \in {"missing", "unstarted"} -> "indeterminate"
      [] obs.saw = "zero" -> "succeeded"
      [] OTHER -> "failed"

StateSeen(j) ==
    CASE obs.saw \in {"missing", "unstarted"} -> "indeterminate"
      [] obs.saw = "zero" /\ j \notin timedOut -> "succeeded"
      [] OTHER -> "failed"

CommitEnded(j) ==
    /\ obs.at = "commit" /\ obs.op = j /\ obs.saw # "up"
    /\ commitProcess(j, StateSeen(j))
    /\ exited' = [exited EXCEPT ![j] = IF obs.saw \in ExitCode THEN obs.saw ELSE @]
    /\ obs' = ObserverIdle
    /\ UNCHANGED <<tombstone, attempted, cancelling, removed, timedOut, overdue, late, box, runs>>

StopProcess(j) ==
    /\ obs.at = "stop" /\ obs.op = j
    /\ Killed(j) \/ ("docker" \in Faults /\ UNCHANGED box)
    /\ At("remove", j, "none")
    /\ UNCHANGED <<recordVars, overdue, late, runs>>

\* Mistake: a failed removal counts.
RemoveProcessAnyway(j) ==
    /\ obs.at = "remove" /\ obs.op = j
    /\ obs' = ObserverIdle
    /\ box' = [box EXCEPT ![j] = IF Sighting(j) \in {"missing", "up"} THEN @ ELSE "gone"]
    /\ removed' = removed \cup {j}
    /\ UNCHANGED <<op, tombstone, attempted, cancelling, timedOut, exited, overdue, late, runs>>

\* A running container is never removed.
RemoveProcess(j) ==
    /\ obs.at = "remove" /\ obs.op = j
    /\ obs' = ObserverIdle
    /\ \/ /\ box[j] # "up"
          /\ box' = [box EXCEPT ![j] = IF Sighting(j) = "missing" THEN @ ELSE "gone"]
          /\ removed' = removed \cup {j}
       \/ (box[j] = "up" \/ "docker" \in Faults) /\ UNCHANGED <<box, removed>>
    /\ UNCHANGED <<op, tombstone, attempted, cancelling, timedOut, exited, overdue, late, runs>>

Observe(j) ==
    \/ ObserveUnlaunched(j) \/ ObserveLaunched(j) \/ ObserveTerminal(j)
    \/ LaunchConfirmed(j) \/ LaunchNotStarted(j) \/ InspectProcess(j)
    \/ CommitRunning(j) \/ StopFails(j) \/ CommitEnded(j) \/ StopProcess(j) \/ RemoveProcess(j)

\* The provisioner restarts: requests and the observer's step are lost, the
\* journal and the containers are not.
ProvisionerRestart ==
    /\ obs' = ObserverIdle
    /\ late' = [j \in Jobs |-> 0]
    /\ IF obs.at = "launch"
       THEN \E b \in Unconfirmed : Outcome(obs.op, b)
       ELSE UNCHANGED <<box, runs>>
    /\ UNCHANGED <<recordVars, overdue>>

-----------------------------------------------------------------------------
(* processRecord.status: evidence that no physical writer remains. *)
Quiesced(j) == op[j] \in TerminalOp /\ (j \notin attempted \/ j \in removed)
=============================================================================
