-------------------------- MODULE TerminalSession --------------------------
(***************************************************************************)
(* One interactive terminal session: its row and its input ledger in the   *)
(* database (agentstate/terminal.go), the driver terms that claim it under *)
(* an epoch and pump it (termexec/driver.go), and the shell they start at  *)
(* the provisioner (process_interactive_service.go).                       *)
(*                                                                          *)
(* A driver term is one tenure of the runner lock, so one claim identity.  *)
(* A term that loses the lock without noticing goes on beside its          *)
(* successor.  A request to the provisioner may land after its caller gave *)
(* up on it.                                                                *)
(***************************************************************************)
EXTENDS Integers, Sequences, FiniteSets

CONSTANTS
    Terms,      \* driver terms, 1 .. n in the order they get the runner lock
    MaxInputs,  \* bound: inputs submitted
    MaxEpoch,   \* bound: claims of the session
    MaxLate     \* bound: start requests whose caller gave up

ASSUME TermAssumption ==
    Terms \subseteq Nat \ {0} /\ MaxInputs \in Nat /\ MaxEpoch \in Nat /\ MaxLate \in Nat

Inputs == 1 .. MaxInputs

VARIABLES
    authority,  \* of the persona: "active", "sealing", "sealed"
    session,    \* the row: status, epoch, claimed_by, and its lease
    ledger,     \* core_terminal_inputs: status and session_epoch of each seq
    runnerLock, \* the term that holds the advisory lock, or 0
    term,       \* each driver term: "unborn", "driving", "gone"
    pump,       \* each term's session pump
    wire,       \* input writes under way at the provisioner
    lateStarts, \* start requests whose caller gave up
    shell,      \* the process operation: its record and its container
    typed       \* what the shell received, in order

termVars == <<authority, session, ledger, runnerLock, term, pump, wire, lateStarts, shell, typed>>

None == 0
Claimed == {"claimed", "active", "ending"}
Over == {"ended", "lost"}
SessionStatus == {"requested", "interrupted"} \cup Claimed \cup Over
InputStatus == {"none", "intended", "dequeued", "written", "unknown", "failed", "expired"}
\* "fenced": the record is a cancel fence of an operation that never was.
OpState == {"absent", "fenced", "live", "exited", "cancelled", "indeterminate"}
PumpAt == {"none", "adopted", "bind", "tick", "queue", "dequeued", "writing", "told",
           "terminate", "wait", "report"}
Idle == [at |-> "none", epoch |-> 0, ending |-> FALSE, todo |-> {}, in |-> 0, saw |-> "none"]

TermTypeOK ==
    /\ authority \in {"active", "sealing", "sealed"}
    /\ session \in [status : SessionStatus, epoch : 0 .. MaxEpoch, by : Terms \cup {None},
                    lease : {"none", "held", "over"}]
    /\ ledger \in [Inputs -> [status : InputStatus, epoch : 0 .. MaxEpoch]]
    /\ runnerLock \in Terms \cup {None}
    /\ term \in [Terms -> {"unborn", "driving", "gone"}]
    /\ pump \in [Terms -> [at : PumpAt, epoch : 0 .. MaxEpoch, ending : BOOLEAN, todo : SUBSET Inputs,
                           in : Inputs \cup {0}, saw : OpState \cup InputStatus]]
    /\ wire \subseteq [by : Terms \cup {None}, in : Inputs]
    /\ lateStarts \in 0 .. MaxLate
    /\ shell \in [op : OpState, stop : BOOLEAN, up : BOOLEAN]
    /\ typed \in Seq(Inputs)

TermInit ==
    /\ authority = "active"
    /\ session = [status |-> "requested", epoch |-> 0, by |-> None, lease |-> "none"]
    /\ ledger = [n \in Inputs |-> [status |-> "none", epoch |-> 0]]
    /\ runnerLock = None /\ term = [i \in Terms |-> "unborn"]
    /\ pump = [i \in Terms |-> Idle]
    /\ wire = {} /\ lateStarts = 0
    /\ shell = [op |-> "absent", stop |-> FALSE, up |-> FALSE]
    /\ typed = <<>>

-----------------------------------------------------------------------------
(* The input ledger and the session row. *)

\* Input queues on every recoverable status.
SubmitTerminalInput(n) ==
    /\ session.status \in {"requested", "claimed", "active", "interrupted"}
    /\ ledger[n].status = "none" /\ \A k \in 1 .. n - 1 : ledger[k].status # "none"
    /\ ledger' = [ledger EXCEPT ![n] = [status |-> "intended", epoch |-> session.epoch]]
    /\ UNCHANGED <<authority, session, runnerLock, term, pump, wire, lateStarts, shell, typed>>

\* The end of a session: undelivered inputs expire, claimed ones are unknown.
Settled ==
    [n \in Inputs |-> [ledger[n] EXCEPT !.status =
        CASE @ = "intended" -> "expired" [] @ = "dequeued" -> "unknown" [] OTHER -> @]]
endTerminalSessionTx(status) ==
    /\ session' = [session EXCEPT !.status = status, !.by = None, !.lease = "none"]
    /\ ledger' = Settled

\* A live claim stops its own process; a row that never had a runner ends at
\* once; any other keeps the intent for the next claim.
CloseTerminalSession ==
    /\ session.status \notin Over
    /\ \/ /\ session.status \in Claimed /\ session.lease = "held"
          /\ session' = [session EXCEPT !.status = "ending"]
          /\ UNCHANGED ledger
       \/ /\ session.status = "requested"
          /\ endTerminalSessionTx("ended")
       \/ /\ session.status # "requested" /\ session.lease # "held"
          /\ session' = [session EXCEPT !.status = "ending", !.by = None, !.lease = "none"]
          /\ UNCHANGED ledger
    /\ UNCHANGED <<authority, runnerLock, term, pump, wire, lateStarts, shell, typed>>

LeaseRunsOut ==
    /\ session.lease = "held"
    /\ session' = [session EXCEPT !.lease = "over"]
    /\ UNCHANGED <<authority, ledger, runnerLock, term, pump, wire, lateStarts, shell, typed>>

\* An expired claim: the session is interrupted, a close intent survives.
Swept ==
    CASE session.lease = "over" /\ session.status = "ending" ->
            [session EXCEPT !.by = None, !.lease = "none"]
      [] session.lease = "over" /\ session.status \in {"claimed", "active"} ->
            [session EXCEPT !.status = "interrupted", !.by = None, !.lease = "none"]
      [] OTHER -> session
SweepExpiredTerminalClaims ==
    /\ session.lease = "over"
    /\ session' = Swept
    /\ UNCHANGED <<authority, ledger, runnerLock, term, pump, wire, lateStarts, shell, typed>>

-----------------------------------------------------------------------------
(* Driver terms *)

TakeRunnerLock(i) ==
    /\ runnerLock = None
    /\ term[i] = "unborn" /\ \A k \in Terms : k < i => term[k] # "unborn"
    /\ runnerLock' = i /\ term' = [term EXCEPT ![i] = "driving"]
    /\ UNCHANGED <<authority, session, ledger, pump, wire, lateStarts, shell, typed>>

\* The lock's connection breaks; the term does not know yet.
LoseRunnerLock(i) ==
    /\ runnerLock = i
    /\ runnerLock' = None
    /\ UNCHANGED <<authority, session, ledger, term, pump, wire, lateStarts, shell, typed>>

\* The term stops, or dies, and its pump with it; what it sent is still sent.
Orphaned(i) == {[w EXCEPT !.by = IF w.by = i THEN None ELSE w.by] : w \in wire}
StopTerm(i) ==
    /\ term[i] = "driving"
    /\ term' = [term EXCEPT ![i] = "gone"]
    /\ runnerLock' = IF runnerLock = i THEN None ELSE runnerLock
    /\ pump' = [pump EXCEPT ![i] = Idle]
    /\ wire' = Orphaned(i)
    /\ UNCHANGED <<authority, session, ledger, lateStarts, shell, typed>>

\* The row as adopt() reads it.
Adopted(row) == [Idle EXCEPT !.at = "adopted", !.epoch = row.epoch, !.ending = (row.status = "ending")]

\* What a claim may take: nobody's, or an earlier term's, whatever its lease.
Claimable(i, row) ==
    \/ row.status \in {"requested", "interrupted"}
    \/ row.status = "ending" /\ row.by = None
    \/ row.status \in Claimed /\ row.by \notin {None, i}

\* Mistake: what an earlier term had dequeued is served again.
RestampedAll(epoch) ==
    [n \in Inputs |->
        IF ledger[n].status \in {"intended", "dequeued"}
        THEN [status |-> "intended", epoch |-> epoch] ELSE ledger[n]]

\* A new epoch: inputs that never left the database move along with it, ones
\* that may have been written are unknown.
Restamped(epoch) ==
    [n \in Inputs |->
        CASE ledger[n].status = "intended" -> [ledger[n] EXCEPT !.epoch = epoch]
          [] ledger[n].status = "dequeued" -> [ledger[n] EXCEPT !.status = "unknown"]
          [] OTHER -> ledger[n]]

ClaimTerminalSessions(i) ==
    /\ term[i] = "driving"
    /\ authority = "active"
    /\ Claimable(i, Swept)
    /\ session.epoch < MaxEpoch
    /\ session' = [status |-> IF session.status = "ending" THEN "ending" ELSE "claimed",
                   epoch |-> session.epoch + 1, by |-> i, lease |-> "held"]
    /\ ledger' = Restamped(session.epoch + 1)
    /\ pump' = [pump EXCEPT ![i] = IF @.at = "none" THEN Adopted(session') ELSE @]
    /\ UNCHANGED <<authority, runnerLock, term, wire, lateStarts, shell, typed>>

\* A claim of this term without a pump gets one, while its persona is among
\* the runnable ones.
OwnedTerminalSessions(i) == session.by = i /\ session.status \in Claimed
RunnableTerminalPersonas == authority = "active"
AdoptOwned(i) ==
    /\ term[i] = "driving"
    /\ RunnableTerminalPersonas
    /\ pump[i].at = "none"
    /\ OwnedTerminalSessions(i)
    /\ pump' = [pump EXCEPT ![i] = Adopted(session)]
    /\ UNCHANGED <<authority, session, ledger, runnerLock, term, wire, lateStarts, shell, typed>>

-----------------------------------------------------------------------------
(* The provisioner's record of the operation. *)

StartProcess(op) == IF op.op = "absent" THEN [op EXCEPT !.op = "live", !.up = TRUE] ELSE op
ReleaseProcessTombstone(op) == IF op.op = "fenced" THEN [op EXCEPT !.op = "absent"] ELSE op
\* CancelProcess with TombstoneIfAbsent.
CancelProcess(op) ==
    CASE op.op = "absent" -> [op EXCEPT !.op = "fenced"]
      [] op.op = "live" -> [op EXCEPT !.stop = TRUE]
      [] OTHER -> op
TerminalOp == {"fenced", "exited", "cancelled", "indeterminate"}
Quiesced == shell.op \in TerminalOp /\ ~shell.up

\* The shell exits, is stopped, or is lost from sight while it may run on;
\* what is terminal and still runs is stopped.
ShellStep ==
    /\ \/ /\ shell.op = "live"
          /\ \/ shell' = [shell EXCEPT !.op = "exited", !.up = FALSE]
             \/ shell.stop /\ shell' = [shell EXCEPT !.op = "cancelled", !.up = FALSE]
             \/ shell' = [shell EXCEPT !.op = "indeterminate"]
       \/ shell.op = "indeterminate" /\ shell.up /\ shell' = [shell EXCEPT !.up = FALSE]
    /\ UNCHANGED <<authority, session, ledger, runnerLock, term, pump, wire, lateStarts, typed>>

\* A start whose caller gave up: it lands, or notices that its caller is gone.
LateStart ==
    /\ lateStarts > 0 /\ lateStarts' = lateStarts - 1
    /\ shell' = StartProcess(shell) \/ UNCHANGED shell
    /\ UNCHANGED <<authority, session, ledger, runnerLock, term, pump, wire, typed>>

-----------------------------------------------------------------------------
(* A pump: runSession and then one step after another. *)

Goes(i, at) == pump' = [pump EXCEPT ![i].at = at]
Leaves(i) == pump' = [pump EXCEPT ![i] = Idle]
RowAndShellSame == UNCHANGED <<authority, session, ledger, runnerLock, term, wire, lateStarts, shell, typed>>

\* terminalClaimTx: every write of a pump is fenced by its claim.
Holds(i) ==
    /\ session.by = i /\ session.epoch = pump[i].epoch
    /\ session.status \in Claimed /\ session.lease = "held"

\* WithTerminalLaunchFence, held for the whole call.
LaunchAdmitted(i) ==
    /\ authority = "active"
    /\ session.status \in {"claimed", "active"} /\ session.by = i
    /\ session.epoch = pump[i].epoch /\ session.lease = "held"

\* startFenced: start or attach; a stale fence is released first.  The call
\* may also fail, or its caller give up on it.
PumpLaunch(i) ==
    /\ pump[i].at = "adopted" /\ ~pump[i].ending
    /\ \/ /\ LaunchAdmitted(i)
          /\ shell' = StartProcess(ReleaseProcessTombstone(shell))
          /\ Goes(i, IF shell'.op \in TerminalOp THEN "report" ELSE "bind")
          /\ UNCHANGED lateStarts
       \/ /\ LaunchAdmitted(i)
          /\ lateStarts < MaxLate /\ lateStarts' = lateStarts + 1
          /\ Leaves(i) /\ UNCHANGED shell
       \/ Leaves(i) /\ UNCHANGED <<shell, lateStarts>>
    /\ UNCHANGED <<authority, session, ledger, runnerLock, term, wire, typed>>

\* An adopted close never launches: an operation that was never journaled is
\* fenced.
PumpEnding(i) ==
    /\ pump[i].at = "adopted" /\ pump[i].ending
    /\ shell' = IF shell.op = "absent" THEN CancelProcess(shell) ELSE shell
    /\ Goes(i, IF shell'.op \in TerminalOp THEN "report" ELSE "bind")
    /\ UNCHANGED <<authority, session, ledger, runnerLock, term, wire, lateStarts, typed>>

\* What an earlier pump of the same claim dequeued is unknown.
ResolveDequeuedTerminalInputs(i) ==
    [n \in Inputs |-> IF ledger[n] = [status |-> "dequeued", epoch |-> pump[i].epoch]
                      THEN [ledger[n] EXCEPT !.status = "unknown"] ELSE ledger[n]]
\* The report that binds the operation; a close is not taken back.
ReportActive == [session EXCEPT !.status = IF @ = "ending" THEN @ ELSE "active"]
PumpBind(i) ==
    /\ pump[i].at = "bind"
    /\ IF Holds(i)
       THEN /\ ledger' = ResolveDequeuedTerminalInputs(i)
            /\ session' = ReportActive
            /\ Goes(i, "tick")
       ELSE /\ IF pump[i].ending THEN Goes(i, "tick") ELSE Leaves(i)
            /\ UNCHANGED <<ledger, session>>
    /\ UNCHANGED <<authority, runnerLock, term, wire, lateStarts, shell, typed>>

\* The lease is renewed and a close learnt of.
HeartbeatTerminalSession == session' = [session EXCEPT !.lease = "held"]
PumpHeartbeat(i) ==
    /\ pump[i].at = "tick"
    /\ IF Holds(i)
       THEN /\ HeartbeatTerminalSession
            /\ pump' = [pump EXCEPT ![i].ending = @ \/ session.status = "ending"]
       ELSE Leaves(i) /\ UNCHANGED session
    /\ UNCHANGED <<authority, ledger, runnerLock, term, wire, lateStarts, shell, typed>>

\* The intended inputs of this epoch.
PendingTerminalInputs(i) ==
    {n \in Inputs : ledger[n] = [status |-> "intended", epoch |-> pump[i].epoch]}
PumpFetch(i) ==
    /\ pump[i].at = "tick"
    /\ IF Holds(i)
       THEN pump' = [pump EXCEPT ![i].at = "queue", ![i].todo = PendingTerminalInputs(i)]
       ELSE Leaves(i)
    /\ RowAndShellSame

\* ReportTerminalInputDisposition, under the claim and for a pending input.
Disposed(i, n, status) ==
    /\ Holds(i)
    /\ ledger[n].epoch = pump[i].epoch /\ ledger[n].status \in {"intended", "dequeued"}
    /\ ledger' = [ledger EXCEPT ![n].status = status]

\* The next input in order is dequeued before a byte of it is sent.
PumpDequeue(i) ==
    /\ pump[i].at = "queue" /\ pump[i].todo # {}
    /\ LET n == CHOOSE k \in pump[i].todo : \A m \in pump[i].todo : k <= m IN
       \/ /\ Disposed(i, n, "dequeued")
          /\ pump' = [pump EXCEPT ![i].at = "dequeued", ![i].in = n, ![i].todo = @ \ {n}]
       \/ Leaves(i) /\ UNCHANGED ledger
    /\ UNCHANGED <<authority, session, runnerLock, term, wire, lateStarts, shell, typed>>

\* deliver sends the input; an operation that is not live refuses it.
PumpDeliver(i) ==
    /\ pump[i].at = "dequeued"
    /\ IF shell.op = "live"
       THEN wire' = wire \cup {[by |-> i, in |-> pump[i].in]} /\ Goes(i, "writing")
       ELSE pump' = [pump EXCEPT ![i].at = "told", ![i].saw = "failed"] /\ UNCHANGED wire
    /\ UNCHANGED <<authority, session, ledger, runnerLock, term, lateStarts, shell, typed>>

\* writeInput at the provisioner: written, or provably not, or neither is
\* known; its caller, if it still waits, is told.
Land(w) ==
    /\ wire' = wire \ {w}
    /\ \E saw \in {"written", "failed", "unknown"} :
          /\ saw = "written" => shell.op = "live"
          /\ typed' \in {IF saw = "failed" \/ shell.op # "live" THEN typed ELSE Append(typed, w.in)} \cup
                        (IF saw = "unknown" THEN {typed} ELSE {})
          /\ pump' = IF w.by = None THEN pump
                     ELSE [pump EXCEPT ![w.by].at = "told", ![w.by].saw = saw]
    /\ UNCHANGED <<authority, session, ledger, runnerLock, term, lateStarts, shell>>

\* The call's time is over, or its answer is lost: the outcome is unknown.
PumpGivesUp(i) ==
    /\ pump[i].at = "writing"
    /\ pump' = [pump EXCEPT ![i].at = "told", ![i].saw = "unknown"]
    /\ wire' = Orphaned(i)
    /\ UNCHANGED <<authority, session, ledger, runnerLock, term, lateStarts, shell, typed>>

PumpDispose(i) ==
    /\ pump[i].at = "told"
    /\ \/ Disposed(i, pump[i].in, pump[i].saw) /\ pump' = [pump EXCEPT ![i].at = "queue", ![i].in = 0, ![i].saw = "none"]
       \/ Leaves(i) /\ UNCHANGED ledger
    /\ UNCHANGED <<authority, session, runnerLock, term, wire, lateStarts, shell, typed>>

\* The rest of a tick: an ending session is stopped, a terminal operation is
\* reported, no answer for too long ends the pump.
PumpPoll(i) ==
    /\ pump[i].at = "queue" /\ pump[i].todo = {}
    /\ \/ pump[i].ending /\ Goes(i, "terminate")
       \/ ~pump[i].ending /\ shell.op \in TerminalOp /\ Goes(i, "report")
       \/ ~pump[i].ending /\ shell.op \notin TerminalOp /\ Goes(i, "tick")
       \/ Leaves(i)
    /\ RowAndShellSame

PumpTerminate(i) ==
    /\ pump[i].at = "terminate"
    /\ shell' = CancelProcess(shell)
    /\ Goes(i, "wait")
    /\ UNCHANGED <<authority, session, ledger, runnerLock, term, wire, lateStarts, typed>>

\* Terminal within the bound, or the claim is left to lapse.
PumpWait(i) ==
    /\ pump[i].at = "wait"
    /\ \/ shell.op \in TerminalOp /\ Goes(i, "report")
       \/ shell.op \notin TerminalOp /\ Leaves(i)
    /\ RowAndShellSame

\* Mistake: an operation of unknown outcome ends its session like any other.
VerdictPlain == "ended"

\* reportTerminal: an operation whose outcome is not known is lost.
Verdict == IF shell.op = "indeterminate" THEN "lost" ELSE "ended"
PumpReport(i) ==
    /\ pump[i].at = "report"
    /\ IF Holds(i) THEN endTerminalSessionTx(Verdict) ELSE UNCHANGED <<session, ledger>>
    /\ Leaves(i)
    /\ UNCHANGED <<authority, runnerLock, term, wire, lateStarts, shell, typed>>

PumpNext(i) ==
    \/ PumpLaunch(i) \/ PumpEnding(i) \/ PumpBind(i) \/ PumpHeartbeat(i) \/ PumpFetch(i)
    \/ PumpDequeue(i) \/ PumpDeliver(i) \/ PumpGivesUp(i) \/ PumpDispose(i)
    \/ PumpPoll(i) \/ PumpTerminate(i) \/ PumpWait(i) \/ PumpReport(i)

-----------------------------------------------------------------------------
(* The persona's placement.  A return seals under the persona's row lock,  *)
(* which claims and launches need too: it refuses a session somebody works *)
(* in, cancels or fences any other, and waits until nothing writes.        *)

quiesceTerminalWriters ==
    /\ authority = "active"
    /\ ~(session.status \in {"claimed", "active"} /\ session.lease = "held")
    /\ shell' = CancelProcess(shell)
    /\ authority' = "sealing"
    /\ UNCHANGED <<session, ledger, runnerLock, term, pump, wire, lateStarts, typed>>

SealOrRefuse ==
    /\ authority = "sealing"
    /\ authority' \in (IF Quiesced THEN {"sealed"} ELSE {"active"})
    /\ UNCHANGED <<session, ledger, runnerLock, term, pump, wire, lateStarts, shell, typed>>

\* The return is cancelled: the persona is active here again.
ReturnCancelled ==
    /\ authority = "sealed" /\ authority' = "active"
    /\ UNCHANGED <<session, ledger, runnerLock, term, pump, wire, lateStarts, shell, typed>>

TermNext ==
    \/ \E n \in Inputs : SubmitTerminalInput(n)
    \/ CloseTerminalSession \/ LeaseRunsOut \/ SweepExpiredTerminalClaims
    \/ \E i \in Terms : \/ TakeRunnerLock(i) \/ LoseRunnerLock(i) \/ StopTerm(i)
                        \/ ClaimTerminalSessions(i) \/ AdoptOwned(i) \/ PumpNext(i)
    \/ \E w \in wire : Land(w)
    \/ ShellStep \/ LateStart
    \/ quiesceTerminalWriters \/ SealOrRefuse \/ ReturnCancelled

TermSpec == TermInit /\ [][TermNext]_termVars

-----------------------------------------------------------------------------
Times(n) == Cardinality({k \in DOMAIN typed : typed[k] = n})

(* The ledger tells the truth about every input and none is typed twice,   *)
(* whatever terms, claims and late writes do: written means typed, and     *)
(* intended, expired or failed means not typed and never to be.            *)
InputsTruth ==
    \A n \in Inputs :
        /\ Times(n) <= 1
        /\ ledger[n].status = "written" => Times(n) = 1
        /\ ledger[n].status \in {"intended", "expired", "failed"} =>
              Times(n) = 0 /\ \A w \in wire : w.in # n

(* A session that ended has no shell, and none comes up in it again, nor   *)
(* in one whose persona is sealed for its return.                          *)
NoShellAfterEnd ==
    /\ session.status = "ended" => ~shell.up
    /\ authority = "sealed" => ~shell.up

(* A session's ledger is true of its shell, and so is its end.             *)
SessionTrue == InputsTruth /\ NoShellAfterEnd
=============================================================================
