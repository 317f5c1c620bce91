----------------------------- MODULE DirectChat -----------------------------
(***************************************************************************)
(* Direct chat with a secretary (agentevents): the durable command log,    *)
(* the admission of a command into the core, the projector that turns the  *)
(* core's journal into the browser's event log, and that log's dedup index.*)
(*                                                                         *)
(* Several API processes may project at once; each append happens under    *)
(* the event file's lock and either lands, fails and is rolled back, or is *)
(* cut by a crash after the index was synced.  A torn last record is cut   *)
(* away by every reader, so the log is a sequence of whole records.        *)
(* The core (SecretaryState) is reduced to what direct chat sees of it:    *)
(* inputs, one approval, the journal and the authority of the placement.   *)
(***************************************************************************)
EXTENDS Integers, Sequences, FiniteSets, SequencesExt

CONSTANTS
    Messages,     \* user_message commands
    Decisions,    \* approval_decision commands, all on the one approval
    Others,       \* commands the core does not serve, or about an approval it does not know
    Sends,        \* requests: <<command, attempt>>
    Projectors,   \* API processes
    Leaving,      \* those that are being replaced: their first sweep is their last
    MaxEnds,      \* bound: runs closed
    ChatScenes,   \* what is explored: the requests made, whether a process that is being
                  \* replaced still sweeps, the bound on failed appends and crashes, and
                  \* the bound on changes of the placement
    ChatPerils    \* subset of {"reopen", "hasty"}: see the actions

Commands == Messages \cup Decisions \cup Others

ASSUME DirectChatConstantsOK ==
    /\ Messages \cup Decisions \cup Others \subseteq Nat \ {0}
    /\ Sends \subseteq Commands \X Nat /\ MaxEnds \in Nat
    /\ ChatScenes \subseteq [sends : SUBSET Sends, overlap : BOOLEAN, faults : Nat, moves : Nat]
    /\ ChatPerils \subseteq {"reopen", "hasty"}

VARIABLES
    commandLog,   \* admitted commands in order
    journal,      \* the core's events of direct-chat inputs
    input,        \* core_inputs: none, queued, waiting, done, failed
    appr,         \* the approval: none, pending, or decided by a command (0: elsewhere)
    authority,    \* of this placement: active, or sealed and perhaps transferred
    eventLog,     \* the browser's durable events
    dedup,        \* the keys of the dedup index, in file order
    send,         \* per request: its step
    refusedTo,    \* commands whose client was told of a rejection
    proj,         \* per process: step, journal and command cursors, what it holds
    faults,       \* failed appends and crashes still to come
    moves         \* changes of the placement still to come

chatVars == <<commandLog, journal, input, appr, authority, eventLog, dedup, send, refusedTo, proj, faults, moves>>

Undecided == -1
PendingAppr == -2

Event(t, c, s) == [t |-> t, c |-> c, s |-> s]
StartMark == Event("start", 0, "")
EndMark == Event("end", 0, "")
Disposition(c, s) == Event("disposition", c, s)
Fresh == [at |-> "journal", jseq |-> 0, cseq |-> 0, holds |-> <<>>, mark |-> 0]
Gone == [Fresh EXCEPT !.at = "gone"]

ChatTypeOK ==
    /\ IsInjective(commandLog) /\ ToSet(commandLog) \subseteq Commands
    /\ ToSet(journal) \subseteq [kind : {"received", "answered", "decided"}, c : Commands \cup {0}]
    /\ input \in [Messages -> {"none", "queued", "waiting", "done", "failed"}]
    /\ appr \in Decisions \cup {0, Undecided, PendingAppr}
    /\ authority \in {"active", "sealed"}
    /\ \A e \in ToSet(eventLog) :
          e.t \in {"start", "end", "received", "answered", "failed", "requested", "resolved", "disposition"}
    /\ send \in [Sends -> {"new", "dispatch", "refused", "over"}]
    /\ refusedTo \subseteq Commands
    /\ \A p \in Projectors : proj[p].at \in {"journal", "prompt", "failures", "commands",
                                              "submit", "receipt", "idle?", "end", "gone"}
    /\ faults \in Nat /\ moves \in Nat

ChatInit ==
    /\ commandLog = <<>> /\ journal = <<>>
    /\ input = [m \in Messages |-> "none"] /\ appr = Undecided /\ authority = "active"
    /\ eventLog = <<>> /\ dedup = <<>>
    /\ refusedTo = {}
    /\ \E scene \in ChatScenes :
          /\ send = [s \in Sends |-> IF s \in scene.sends THEN "new" ELSE "over"]
          /\ proj = [p \in Projectors |-> IF p \in Leaving /\ ~scene.overlap THEN Gone ELSE Fresh]
          /\ faults = scene.faults /\ moves = scene.moves

-----------------------------------------------------------------------------
(* The event log and its index. *)

Shown(t) == \E i \in DOMAIN eventLog : eventLog[i].t = t
DispositionsOf(c) == {i \in DOMAIN eventLog : eventLog[i].t = "disposition" /\ eventLog[i].c = c}
\* CommandDispositionFor
Disposed(c) == DispositionsOf(c) # {}
StatusOf(c) == eventLog[CHOOSE i \in DispositionsOf(c) : TRUE].s

RunOpen(log) == \E i \in DOMAIN log : log[i] = StartMark /\ \A j \in i + 1 .. Len(log) : log[j] # EndMark

\* Mutant: a rebuilt or written key is the content, whatever the event is.
KeyByContent(log, i) == log[i]

\* The identity of a committed event: a marker's ordinal, a receipt's
\* command, otherwise the content.
KeyOf(log, i) ==
    CASE log[i].t \in {"start", "end"} ->
            Event(log[i].t, Cardinality({j \in 1 .. i - 1 : log[j].t = log[i].t}), "")
      [] log[i].t = "disposition" -> Event("disposition", log[i].c, "")
      [] OTHER -> log[i]

\* Mutant: keys written for events that never landed are kept.
projectedKeySetPhantom == dedup \o [i \in 1 .. Len(eventLog) - Len(dedup) |-> KeyOf(eventLog, Len(dedup) + i)]

\* Phantom keys beyond the committed log are cut off, missing ones rebuilt
\* from it.
projectedKeySet ==
    LET covered == IF Len(dedup) > Len(eventLog) THEN Len(eventLog) ELSE Len(dedup)
    IN  SubSeq(dedup, 1, covered)
          \o [i \in 1 .. Len(eventLog) - covered |-> KeyOf(eventLog, covered + i)]

\* The elements of a batch whose keys are new.
Unseen(batch) ==
    LET keys == ToSet(projectedKeySet)
        key(i) == KeyOf(batch, i)
        new == {i \in DOMAIN batch : key(i) \notin keys /\ \A j \in 1 .. i - 1 : key(j) # key(i)}
    IN  [n \in 1 .. Cardinality(new) |-> batch[CHOOSE i \in new : Cardinality({j \in new : j < i}) = n - 1]]

\* Content asks for a run to be open; a batch without news leaves no bare start.
InRun(batch) ==
    LET news == Unseen(batch)
    IN  (IF news # <<>> /\ ~RunOpen(eventLog) THEN <<StartMark>> ELSE <<>>) \o news

\* The append under the event file's lock: keys first, synced, then the log.
\* The callers say where the process goes when it lands or fails.
Appended(evs) ==
    /\ eventLog' = eventLog \o evs
    /\ dedup' = projectedKeySet
                  \o [i \in DOMAIN evs |-> KeyOf(eventLog \o evs, Len(eventLog) + i)]

\* The log's write fails and is rolled back; its keys stay in the index.
RolledBack(evs) ==
    /\ evs # <<>> /\ faults > 0 /\ faults' = faults - 1
    /\ UNCHANGED eventLog
    /\ dedup' = projectedKeySet
                  \o [i \in DOMAIN evs |-> KeyOf(eventLog \o evs, Len(eventLog) + i)]

\* The process dies in the append: some of the records landed.
CutShort(evs) ==
    /\ evs # <<>> /\ faults > 0 /\ faults' = faults - 1
    /\ \E n \in 0 .. Len(evs) - 1 : eventLog' = eventLog \o SubSeq(evs, 1, n)
    /\ dedup' = projectedKeySet
                  \o [i \in DOMAIN evs |-> KeyOf(eventLog \o evs, Len(eventLog) + i)]

-----------------------------------------------------------------------------
(* Submission into the core: SubmitInput and ResolveApproval, idempotent by *)
(* the command's id.                                                        *)

CoreUnchanged == UNCHANGED <<journal, input, appr>>

SubmitAccepted(c) ==
    \/ /\ c \in Messages /\ input[c] # "none" /\ CoreUnchanged
    \/ /\ c \in Messages /\ input[c] = "none" /\ authority = "active"
       /\ input' = [input EXCEPT ![c] = "queued"] /\ UNCHANGED <<journal, appr>>
    \/ /\ c \in Decisions /\ authority = "active" /\ appr = PendingAppr
       /\ appr' = c
       /\ journal' = Append(journal, [kind |-> "decided", c |-> 0])
       /\ input' = [m \in Messages |-> IF input[m] = "waiting" THEN "queued" ELSE input[m]]
    \/ /\ c \in Decisions /\ authority = "active" /\ appr = c /\ CoreUnchanged

\* ErrPersonaInactive; a decision is refused before its replay is recognised.
Inactive(c) ==
    /\ authority # "active"
    /\ c \in Messages => input[c] = "none"
    /\ c \notin Others
    /\ CoreUnchanged
Conflicts(c) == c \in Decisions /\ authority = "active" /\ appr \notin {c, PendingAppr} /\ CoreUnchanged
\* A command of another shape, or a decision on an approval nobody raised.
Unserved(c) == c \in Others /\ CoreUnchanged

-----------------------------------------------------------------------------
(* Admission: UserCommandIngress and the browser socket. *)

Answer(c, s) == refusedTo' = IF s = "rejected" THEN refusedTo \cup {c} ELSE refusedTo

\* findIdempotencyRecord: the key is looked for in the whole log.
Known(c) == c \in ToSet(commandLog)

\* The command gets the next sequence number, or its append is rolled back.
appendCommand(s) ==
    \/ commandLog' = Append(commandLog, s[1]) /\ send' = [send EXCEPT ![s] = "dispatch"]
    \/ UNCHANGED commandLog /\ send' = [send EXCEPT ![s] = "over"]

\* The command is appended once per idempotency key; a repeat is answered by
\* its committed disposition, or dispatched again.  A client learns of the
\* approval from its prompt.
AppendWithIdempotencyStatus(s) ==
    LET c == s[1] IN
    /\ send[s] = "new" /\ (c \in Decisions => Shown("requested"))
    /\ \/ ~Known(c) /\ appendCommand(s) /\ UNCHANGED refusedTo
       \/ /\ Known(c) /\ Disposed(c)
          /\ Answer(c, IF StatusOf(c) = "rejected" THEN "rejected" ELSE "accepted")
          /\ send' = [send EXCEPT ![s] = "over"] /\ UNCHANGED commandLog
       \/ /\ Known(c) /\ ~Disposed(c)
          /\ send' = [send EXCEPT ![s] = "dispatch"] /\ UNCHANGED <<refusedTo, commandLog>>
    /\ UNCHANGED <<journal, input, appr, authority, eventLog, dedup, proj, faults, moves>>

\* A refused decision that was superseded or unknown is left to the
\* reconciler; so is a command the core does not serve, and one whose dispatch
\* fails or is never reached.
dispatch(s) ==
    LET c == s[1] IN
    /\ send[s] = "dispatch"
    /\ \/ /\ SubmitAccepted(c) \/ Conflicts(c) \/ Unserved(c)
          /\ Answer(c, "accepted") /\ send' = [send EXCEPT ![s] = "over"]
       \/ Inactive(c) /\ send' = [send EXCEPT ![s] = "refused"] /\ UNCHANGED refusedTo
       \/ CoreUnchanged /\ send' = [send EXCEPT ![s] = "over"] /\ UNCHANGED refusedTo
    /\ UNCHANGED <<commandLog, authority, eventLog, dedup, proj, faults, moves>>

\* The refusal is committed before it is reported; a disposition somebody
\* else committed wins.
commitTerminalRefusal(s) ==
    LET c == s[1]
        evs == Unseen(<<Disposition(c, "rejected")>>)
    IN
    /\ send[s] = "refused"
    /\ send' = [send EXCEPT ![s] = "over"]
    /\ \/ /\ Appended(evs)
          /\ Answer(c, IF Disposed(c) /\ StatusOf(c) # "rejected" THEN "accepted" ELSE "rejected")
          /\ UNCHANGED faults
       \/ (RolledBack(evs) \/ CutShort(evs)) /\ UNCHANGED refusedTo
    /\ UNCHANGED <<commandLog, journal, input, appr, authority, proj, moves>>

-----------------------------------------------------------------------------
(* The core and its placement. *)

\* A turn on a queued input: it answers, fails, or parks on the approval.
CoreTurn(m) ==
    /\ authority = "active" /\ input[m] = "queued"
    /\ LET got == IF \E i \in DOMAIN journal : journal[i] = [kind |-> "received", c |-> m]
                  THEN <<>> ELSE <<[kind |-> "received", c |-> m]>>
       IN  \/ /\ input' = [input EXCEPT ![m] = "done"] /\ UNCHANGED appr
              /\ journal' = journal \o got \o <<[kind |-> "answered", c |-> m]>>
           \/ /\ input' = [input EXCEPT ![m] = "failed"] /\ UNCHANGED appr
              /\ journal' = journal \o got
           \/ /\ appr = Undecided /\ appr' = PendingAppr
              /\ input' = [input EXCEPT ![m] = "waiting"] /\ journal' = journal \o got
    /\ UNCHANGED <<commandLog, authority, eventLog, dedup, send, refusedTo, proj, faults, moves>>

\* The human answers the approval on another surface.
DecidedElsewhere ==
    /\ authority = "active" /\ appr = PendingAppr
    /\ appr' = 0
    /\ journal' = Append(journal, [kind |-> "decided", c |-> 0])
    /\ input' = [m \in Messages |-> IF input[m] = "waiting" THEN "queued" ELSE input[m]]
    /\ UNCHANGED <<commandLog, authority, eventLog, dedup, send, refusedTo, proj, faults, moves>>

\* A move seals the placement; unless "hasty" no decision is then still to be
\* projected.  An aborted move makes it active again only with "reopen".
PlacementMoves ==
    /\ moves > 0 /\ moves' = moves - 1
    /\ \/ /\ authority = "active" /\ authority' = "sealed"
          /\ "hasty" \in ChatPerils \/ (appr \in Decisions => Disposed(appr))
       \/ authority = "sealed" /\ "reopen" \in ChatPerils /\ authority' = "active"
    /\ UNCHANGED <<commandLog, journal, input, appr, eventLog, dedup, send, refusedTo, proj, faults>>

-----------------------------------------------------------------------------
(* The projector: one sweep of syncPersona. *)

\* findApprovalDecisionCommand: the first decision in the log is taken for
\* the deciding one.
FirstDecision == SelectInSeq(commandLog, LAMBDA c : c \in Decisions)

translateApprovalDecided ==
    <<Event("resolved", 0, "")>>
      \o (IF FirstDecision = 0 THEN <<>> ELSE <<Disposition(commandLog[FirstDecision], "applied")>>)

translate(e) == IF e.kind = "decided" THEN translateApprovalDecided ELSE <<Event(e.kind, e.c, "")>>

\* Everything in the journal from a cursor on, in order.
Translated(from) == FlattenSeq([i \in 1 .. Len(journal) - from |-> translate(journal[from + i])])

Step(p, at) == proj' = [proj EXCEPT ![p].at = at, ![p].holds = <<>>, ![p].mark = 0]
NextSweep(p) == IF p \in Leaving THEN proj' = [proj EXCEPT ![p] = Gone]
                ELSE Step(p, "journal")
ProjUnchanged == UNCHANGED <<commandLog, authority, send, refusedTo, moves>>

\* A batch lands and the sweep goes on, fails and the sweep ends, or the
\* process dies and starts anew from the beginning of the journal.
Project(p, evs, landed) ==
    \/ Appended(evs) /\ proj' = [proj EXCEPT ![p] = landed] /\ UNCHANGED faults
    \/ RolledBack(evs) /\ NextSweep(p)
    \/ CutShort(evs) /\ proj' = [proj EXCEPT ![p] = Fresh]

\* The journal's news land; then the table of approvals is read for the
\* prompts of the next append.
projectJournal(p) ==
    /\ proj[p].at = "journal"
    /\ Project(p, InRun(Translated(proj[p].jseq)),
               [proj[p] EXCEPT !.at = "prompt", !.jseq = Len(journal),
                               !.holds = IF appr = PendingAppr THEN <<Event("requested", 0, "")>> ELSE <<>>])
    /\ ProjUnchanged /\ CoreUnchanged

projectPendingApprovals(p) ==
    /\ proj[p].at = "prompt"
    /\ Project(p, InRun(proj[p].holds), [proj[p] EXCEPT !.at = "failures", !.holds = <<>>])
    /\ ProjUnchanged /\ CoreUnchanged

projectFailedTurns(p) ==
    /\ proj[p].at = "failures"
    /\ Project(p, InRun(SetToSeq({Event("failed", m, "") : m \in {x \in Messages : input[x] = "failed"}})),
               [proj[p] EXCEPT !.at = "commands"])
    /\ ProjUnchanged /\ CoreUnchanged

Ends == {i \in DOMAIN eventLog : eventLog[i] = EndMark}

\* The tail is marked before the idleness read.  A process whose folded tail
\* is behind has a mark that the append refuses: its sweep just ends.
closeRunIfIdle(p) ==
    \/ /\ Cardinality(Ends) < MaxEnds
       /\ proj' = [proj EXCEPT ![p].at = "idle?", ![p].mark = Len(eventLog)]
    \/ NextSweep(p)

\* The next command of the log: already disposed, or to be submitted.
NextCommand(p) ==
    /\ proj[p].at = "commands"
    /\ IF proj[p].cseq = Len(commandLog) THEN closeRunIfIdle(p)
       ELSE IF Disposed(commandLog[proj[p].cseq + 1]) THEN proj' = [proj EXCEPT ![p].cseq = @ + 1]
       ELSE Step(p, "submit")
    /\ ProjUnchanged /\ CoreUnchanged /\ UNCHANGED <<eventLog, dedup, faults>>

\* A decision that took effect gets its receipt from the journal.
reconcileCommands(p) ==
    LET c == commandLog[proj[p].cseq + 1]
        receipt(s) == proj' = [proj EXCEPT ![p].at = "receipt", ![p].holds = <<Disposition(c, s)>>]
    IN
    /\ proj[p].at = "submit"
    /\ \/ SubmitAccepted(c) /\ c \in Messages /\ receipt("applied")
       \/ /\ SubmitAccepted(c) /\ c \in Decisions
          /\ proj' = [proj EXCEPT ![p].at = "commands", ![p].cseq = @ + 1]
       \/ Conflicts(c) /\ receipt("superseded")
       \/ (Inactive(c) \/ Unserved(c)) /\ receipt("rejected")
       \/ CoreUnchanged /\ NextSweep(p)
    /\ ProjUnchanged /\ UNCHANGED <<eventLog, dedup, faults>>

appendDisposition(p) ==
    /\ proj[p].at = "receipt"
    /\ Project(p, Unseen(proj[p].holds),
               [proj[p] EXCEPT !.at = "commands", !.cseq = @ + 1, !.holds = <<>>])
    /\ ProjUnchanged /\ CoreUnchanged

LiveInputs == {m \in Messages : input[m] \in {"queued", "waiting"}}

LiveDirectChatInputs(p) ==
    /\ proj[p].at = "idle?"
    /\ IF LiveInputs = {} THEN proj' = [proj EXCEPT ![p].at = "end"] ELSE NextSweep(p)
    /\ ProjUnchanged /\ CoreUnchanged /\ UNCHANGED <<eventLog, dedup, faults>>

\* Mutant: the end is appended whatever was committed since the mark.
EndIfTailAnyway(p) == IF RunOpen(eventLog) THEN <<EndMark>> ELSE <<>>

\* The end marker: only if the tail is still the marked one and a run is open.
EndIfTail(p) == IF RunOpen(eventLog) /\ Len(eventLog) = proj[p].mark THEN <<EndMark>> ELSE <<>>

AppendRunEnd(p) ==
    /\ proj[p].at = "end"
    /\ Project(p, EndIfTail(p), [proj[p] EXCEPT !.at = IF p \in Leaving THEN "gone" ELSE "journal", !.mark = 0])
    /\ ProjUnchanged /\ CoreUnchanged

\* The process dies between two appends.
ApiDies(p) ==
    /\ faults > 0 /\ faults' = faults - 1 /\ proj[p] \notin {Fresh, Gone}
    /\ proj' = [proj EXCEPT ![p] = Fresh]
    /\ ProjUnchanged /\ CoreUnchanged /\ UNCHANGED <<eventLog, dedup>>

ChatNext ==
    \/ \E s \in Sends : AppendWithIdempotencyStatus(s) \/ dispatch(s) \/ commitTerminalRefusal(s)
    \/ \E m \in Messages : CoreTurn(m)
    \/ DecidedElsewhere \/ PlacementMoves
    \/ \E p \in Projectors :
          \/ projectJournal(p) \/ projectPendingApprovals(p) \/ projectFailedTurns(p)
          \/ NextCommand(p) \/ reconcileCommands(p) \/ appendDisposition(p)
          \/ LiveDirectChatInputs(p) \/ AppendRunEnd(p) \/ ApiDies(p)

ChatSpec == ChatInit /\ [][ChatNext]_chatVars

-----------------------------------------------------------------------------
(* A command has at most one receipt, the receipt says what became of the  *)
(* command in the core, and no client holds an answer the receipt or the   *)
(* core contradicts: across retries, overlapping projectors and crashes    *)
(* (commitTerminalRefusal, reconcileCommands, the disposition dedup key).  *)
DispositionTrue ==
    /\ \A c \in Commands :
          /\ Cardinality(DispositionsOf(c)) <= 1
          /\ c \in refusedTo => Disposed(c) /\ StatusOf(c) = "rejected"
          /\ Disposed(c) /\ c \in Decisions =>
                IF StatusOf(c) = "applied" THEN appr \in Decisions \cup {0} ELSE appr # c
    /\ \A m \in Messages : Disposed(m) => (StatusOf(m) = "applied" <=> input[m] # "none")

(* The receipt of a decision names the command that decided.              *)
DecidingReceipt ==
    \A c \in Decisions : Disposed(c) => (StatusOf(c) = "applied" <=> appr = c)

(* Everything a projector has passed in the journal is in the event log,   *)
(* once, inside a run, and what concerns one message is in the journal's   *)
(* order, whatever crash left keys in the index for events that never      *)
(* landed (projectedKeySet, AppendProjectedEvents).                        *)
ProjectionWhole ==
    /\ \A p \in Projectors : \A j \in 1 .. proj[p].jseq :
          \E i \in DOMAIN eventLog : eventLog[i] = Head(translate(journal[j]))
    /\ \A i \in DOMAIN eventLog :
          /\ \A j \in 1 .. i - 1 : eventLog[i].t \notin {"start", "end"} => eventLog[i] # eventLog[j]
          /\ eventLog[i].t = "answered" =>
                \E j \in 1 .. i - 1 : eventLog[j] = Event("received", eventLog[i].c, "")
    /\ eventLog # <<>> /\ Last(eventLog).t \notin {"end", "disposition"} => RunOpen(eventLog)

(* A prompt on the human's screen that can still be answered never loses   *)
(* its run: no agent_end after an approval_requested whose approval is     *)
(* pending, even when the idleness was read before another process opened  *)
(* the run (closeRunIfIdle, IfTail).                                       *)
PromptKeepsItsRun == appr = PendingAppr /\ Shown("requested") => RunOpen(eventLog)

(* A resolved prompt is not asked again: approval_requested does not       *)
(* follow approval_resolved.                                               *)
NoPromptAfterItsAnswer ==
    \A i, j \in DOMAIN eventLog : eventLog[i].t = "resolved" /\ eventLog[j].t = "requested" => j < i

(* What the human is shown follows the core: one true receipt per command, *)
(* the journal whole and in order, and no open prompt outside a run.       *)
ChatTrue == DispositionTrue /\ ProjectionWhole /\ PromptKeepsItsRun
=============================================================================
