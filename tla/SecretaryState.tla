--------------------------- MODULE SecretaryState ---------------------------
(***************************************************************************)
(* The durable state of one secretary (persona) as kept by                 *)
(* apps/api/internal/agentstate: the writer lease that fences core          *)
(* processes, the input queue, the turns that serve inputs, the recorded   *)
(* plan of each input, the operation ledger that applies tool effects, the *)
(* human approvals that gate elevated calls, the journal's receipts and    *)
(* results, and the seal of portable/service.go that ends this placement's *)
(* authority.                                                               *)
(*                                                                          *)
(* Each action is one database transaction.  Transactions of the core take *)
(* the lease row FOR UPDATE (requireGeneration), so they are serial; the   *)
(* others lock the rows they decide on.  The caller is unconstrained: any  *)
(* generation ever granted may be presented at any time with any turn and  *)
(* any call, which covers delayed, duplicated and retried requests, lost   *)
(* responses, crashed cores and cores that do not know they were fenced.   *)
(* Requests the code answers without changing state (refusals, replays of  *)
(* a stored record) are steps that do nothing and are not written out.     *)
(***************************************************************************)
EXTENDS Integers, Sequences, FiniteSets

CONSTANTS
    Inputs,         \* input ids callers may submit
    Turns,          \* turn ids (fresh uuids in the code)
    Writers,        \* holder ids of core processes
    Actions,        \* a tool together with its request
    ElevatedOnly,   \* actions whose tool runs only on the elevated route
    Invalid,        \* actions validateToolRequest refuses
    Unknown,        \* actions whose tool the store has no effect for
    Decisions,      \* the rounds a model may decide: sequences of calls
    MaxCalls,       \* bound: calls recorded per input
    MaxRounds,      \* bound: rounds recorded per input
    MaxGen,         \* bound: writer generations
    MaxDeciding,    \* bound: decisions in flight at a time
    None            \* a NULL column

Routes == {"normal", "elevated"}
Call == [act : Actions, route : Routes]
Index == 1 .. MaxCalls
\* A plan position: an input and a flat index over its recorded rounds.
\* The operation's idempotency key, <input_id>:tool:<call_index>, is this pair.
Position == Inputs \X Index

ASSUME ConstantsOK ==
    /\ IsFiniteSet(Inputs)
    /\ Decisions \subseteq Seq(Call)
    /\ ElevatedOnly \cup Invalid \cup Unknown \subseteq Actions
    /\ MaxCalls \in Nat /\ MaxRounds \in Nat /\ MaxGen \in Nat /\ MaxDeciding \in Nat
    /\ None \notin Turns /\ None \notin Writers

VARIABLES
    authority,   \* core_personas.authority
    lease,       \* core_writer_leases: generation (0: no row), holder, unexpired
    inputs,      \* core_inputs
    turns,       \* core_turns
    plan,        \* core_turn_plans: the calls of all rounds, and each round's end
    ops,         \* core_operations by plan position
    approvals,   \* core_tool_approvals: the status by plan position
    consumed,    \* positions whose approval has consumed_at set
    deciding,    \* decisions past ResolveApproval's authority check, not yet applied
    budgetWait,  \* inputs with a core_budget_waits row
    marker,      \* inputs with received_seq set
    results,     \* core_events: the tool_result recorded for each position
    receipts,    \* core_events: number of input_received events of each input
    terminal,    \* core_outbox: the terminal records of each input
    noticed,     \* inputs whose terminal-failure notice was posted
    effects      \* how often the effect of each position was applied

journalVars == <<marker, results, receipts>>
ledgerVars == <<ops, approvals, consumed, effects>>
replyVars == <<terminal, noticed>>
vars == <<authority, lease, inputs, turns, plan, ledgerVars, deciding,
          budgetWait, journalVars, replyVars>>

-----------------------------------------------------------------------------
(* Rows *)

InputStatus == {"absent", "queued", "claimed", "waiting", "done"}
TurnStatus == {"absent", "running", "awaiting", "done", "failed", "interrupted"}
\* What CommitTurn stored as commit_request, as far as a replay depends on it.
CommitKind == {"none", "complete", "fail", "retry", "await"}
OpStatus == {"absent", "awaiting_approval", "done", "failed"}
ApprovalStatus == {"absent", "pending", "approved", "denied"}

InputRow == [status : InputStatus, seq : Nat, gen : Nat,
             turn : Turns \cup {None}, delayed : BOOLEAN]
TurnRow == [status : TurnStatus, input : Inputs \cup {None}, gen : Nat,
            commit : CommitKind]
PlanRow == [calls : Seq(Call), ends : Seq(Nat)]
OpRow == [status : OpStatus, gen : Nat]
Decision == [pos : Position, verdict : {"approved", "denied"}]

TypeOK ==
    /\ authority \in {"active", "sealed", "transferred"}
    /\ lease \in [gen : Nat, holder : Writers \cup {None}, live : BOOLEAN]
    /\ inputs \in [Inputs -> InputRow]
    /\ turns \in [Turns -> TurnRow]
    /\ plan \in [Inputs -> PlanRow]
    /\ ops \in [Position -> OpRow]
    /\ approvals \in [Position -> ApprovalStatus]
    /\ consumed \subseteq Position
    /\ deciding \subseteq Decision
    /\ budgetWait \subseteq Inputs
    /\ marker \subseteq Inputs
    /\ results \in [Position -> {"none", "done", "failed", "rejected"}]
    /\ receipts \in [Inputs -> Nat]
    /\ terminal \in [Inputs -> Seq({"turn_completed", "turn_failed"})]
    /\ noticed \subseteq Inputs
    /\ effects \in [Position -> Nat]

Init ==
    /\ authority = "active"
    /\ lease = [gen |-> 0, holder |-> None, live |-> FALSE]
    /\ inputs = [i \in Inputs |-> [status |-> "absent", seq |-> 0, gen |-> 0,
                                   turn |-> None, delayed |-> FALSE]]
    /\ turns = [t \in Turns |-> [status |-> "absent", input |-> None,
                                 gen |-> 0, commit |-> "none"]]
    /\ plan = [i \in Inputs |-> [calls |-> <<>>, ends |-> <<>>]]
    /\ ops = [p \in Position |-> [status |-> "absent", gen |-> 0]]
    /\ approvals = [p \in Position |-> "absent"]
    /\ consumed = {}
    /\ deciding = {}
    /\ budgetWait = {}
    /\ marker = {}
    /\ results = [p \in Position |-> "none"]
    /\ receipts = [i \in Inputs |-> 0]
    /\ terminal = [i \in Inputs |-> <<>>]
    /\ noticed = {}
    /\ effects = [p \in Position |-> 0]

-----------------------------------------------------------------------------
(* The writer lease *)

\* Mutants of RequireGeneration: any generation ever granted passes; the
\* placement's authority is not part of the fence.
AnyGrantedGeneration(g) == g > 0 /\ g <= lease.gen /\ authority = "active"
AnyAuthority(g) == g > 0 /\ lease.gen = g

\* requireGeneration: the presented generation is the lease's current one and
\* this placement holds the persona's authority.  Expiry is not consulted: an
\* expired writer keeps its generation until somebody acquires the next one.
RequireGeneration(g) ==
    /\ g > 0
    /\ lease.gen = g
    /\ authority = "active"

\* A free, expired or own lease is taken under the next generation.
AcquireWriter(w) ==
    /\ authority = "active"
    /\ lease.gen < MaxGen
    /\ lease.gen = 0 \/ ~lease.live \/ lease.holder = w
    /\ lease' = [gen |-> lease.gen + 1, holder |-> w, live |-> TRUE]
    /\ UNCHANGED <<authority, inputs, turns, plan, ledgerVars, deciding,
                   budgetWait, journalVars, replyVars>>

RenewWriter(w) ==
    /\ lease.gen > 0 /\ lease.holder = w
    /\ lease' = [lease EXCEPT !.live = TRUE]
    /\ UNCHANGED <<authority, inputs, turns, plan, ledgerVars, deciding,
                   budgetWait, journalVars, replyVars>>

\* The row is expired in place and never deleted, so that the generation only
\* grows; passing time expires it the same way.
ReleaseWriter(w) ==
    /\ lease.gen > 0 /\ lease.holder = w
    /\ lease' = [lease EXCEPT !.live = FALSE]
    /\ UNCHANGED <<authority, inputs, turns, plan, ledgerVars, deciding,
                   budgetWait, journalVars, replyVars>>

-----------------------------------------------------------------------------
(* The journal *)

\* input_received is journaled once per input: withoutJournaledInput and
\* ensureInputReceived drop the receipt of an input whose marker is set.
Receive(S) ==
    /\ receipts' = [i \in Inputs |->
                        receipts[i] + (IF i \in S \ marker THEN 1 ELSE 0)]
    /\ marker' = marker \cup S

\* journalExperienceTx with a tool_result: the receipt first, then the result
\* unless the position already has one (experienceKey).
JournalResult(p, r) ==
    /\ Receive({p[1]})
    /\ results' = [results EXCEPT ![p] = IF @ = "none" THEN r ELSE @]

-----------------------------------------------------------------------------
(* Inputs and turns *)

Admitted == {i \in Inputs : inputs[i].status # "absent"}
Requeued(row) == [row EXCEPT !.status = "queued", !.gen = 0, !.turn = None]
Resumed(row) == [Requeued(row) EXCEPT !.delayed = FALSE]
PendingOf(i) == {k \in Index : approvals[<<i, k>>] = "pending"}

\* Only an active persona admits a new input; a known id is replayed.
SubmitInput(i) ==
    /\ authority = "active"
    /\ inputs[i].status = "absent"
    /\ inputs' = [inputs EXCEPT ![i].status = "queued",
                                ![i].seq = Cardinality(Admitted) + 1]
    /\ UNCHANGED <<authority, lease, turns, plan, ledgerVars, deciding,
                   budgetWait, journalVars, replyVars>>

\* A retryable failure delays its input; the delay passes.
BackoffElapses(i) ==
    /\ inputs[i].delayed
    /\ inputs' = [inputs EXCEPT ![i].delayed = FALSE]
    /\ UNCHANGED <<authority, lease, turns, plan, ledgerVars, deciding,
                   budgetWait, journalVars, replyVars>>

Due == {i \in Inputs : inputs[i].status = "queued" /\ ~inputs[i].delayed}
RunningTurns == {t \in Turns : turns[t].status = "running"}

\* Mutant of LoadTurn: only a running turn of its own generation stops it.
LoadTurnBesideOthers(g, t, i) ==
    /\ RequireGeneration(g)
    /\ \A u \in RunningTurns : turns[u].gen # g
    /\ i \in Due /\ turns[t].status = "absent"
    /\ turns' = [turns EXCEPT ![t] = [status |-> "running", input |-> i,
                                      gen |-> g, commit |-> "none"]]
    /\ inputs' = [inputs EXCEPT ![i] = [@ EXCEPT !.status = "claimed", !.gen = g,
                                                 !.turn = t, !.delayed = FALSE]]
    /\ UNCHANGED <<authority, lease, plan, ledgerVars, deciding, budgetWait,
                   journalVars, replyVars>>

\* LoadTurn claims the oldest due input and begins its turn, unless a turn is
\* running (replayed to its own generation, a conflict for any other).
LoadTurn(g, t, i) ==
    /\ RequireGeneration(g)
    /\ RunningTurns = {}
    /\ i \in Due /\ \A j \in Due : inputs[i].seq <= inputs[j].seq
    /\ turns[t].status = "absent"
    /\ turns' = [turns EXCEPT ![t] = [status |-> "running", input |-> i,
                                      gen |-> g, commit |-> "none"]]
    /\ inputs' = [inputs EXCEPT ![i] = [@ EXCEPT !.status = "claimed", !.gen = g,
                                                 !.turn = t, !.delayed = FALSE]]
    /\ UNCHANGED <<authority, lease, plan, ledgerVars, deciding, budgetWait,
                   journalVars, replyVars>>

\* Recover, under a fresh generation: turns of other generations are
\* interrupted and the inputs claimed by them are queued again.
Recover(g) ==
    /\ RequireGeneration(g)
    /\ LET lost == {t \in RunningTurns : turns[t].gen # g}
           stale(i) == /\ inputs[i].status = "claimed"
                       /\ \/ inputs[i].gen # g
                          \/ \E t \in lost : turns[t].input = i
       IN /\ turns' = [t \in Turns |-> IF t \in lost
                          THEN [turns[t] EXCEPT !.status = "interrupted"]
                          ELSE turns[t]]
          /\ inputs' = [i \in Inputs |-> IF stale(i) THEN Requeued(inputs[i])
                                                     ELSE inputs[i]]
    /\ UNCHANGED <<authority, lease, plan, ledgerVars, deciding, budgetWait,
                   journalVars, replyVars>>

\* Mutant of LiveTurn: a finished turn of this generation is still served.
FinishedTurnServed(g, t) ==
    RequireGeneration(g) /\ turns[t].status # "absent" /\ turns[t].gen = g

\* SavePlan, CompleteOperation and the claims act for the live turn only:
\* running, under the presented generation.
LiveTurn(g, t) ==
    /\ RequireGeneration(g)
    /\ turns[t].status = "running"
    /\ turns[t].gen = g

\* The next round is appended to the input's plan.  A round already recorded
\* is answered from the record (identical) or refused (different); a round
\* that skips one is refused.
SavePlan(g, t, round, d) ==
    LET i == turns[t].input IN
    /\ LiveTurn(g, t)
    /\ round = Len(plan[i].ends) /\ round < MaxRounds
    /\ Len(plan[i].calls) + Len(d) <= MaxCalls
    /\ plan' = [plan EXCEPT ![i] =
                    [calls |-> @.calls \o d,
                     ends |-> Append(@.ends, Len(@.calls) + Len(d))]]
    /\ UNCHANGED <<authority, lease, inputs, turns, ledgerVars, deciding,
                   budgetWait, journalVars, replyVars>>

-----------------------------------------------------------------------------
(* Operations: one claim per planned call *)

CallAt(p) == plan[p[1]].calls[p[2]]
Gated(p) == CallAt(p).route = "elevated"

\* The claim names a call of the recorded plan by its flat index.
Planned(g, t, k) ==
    /\ LiveTurn(g, t)
    /\ k <= Len(plan[turns[t].input].calls)

\* ... and a tool the store can run (claimableTool).
Claimable(g, t, k) ==
    /\ Planned(g, t, k)
    /\ CallAt(<<turns[t].input, k>>).act \notin Unknown

\* A denied approval of the same input for the same tool and request.
DeniedIdenticalCall(p) ==
    \E k \in Index : /\ approvals[<<p[1], k>>] = "denied"
                     /\ CallAt(<<p[1], k>>).act = CallAt(p).act

Settle(p, g, status) == ops' = [ops EXCEPT ![p] = [status |-> status, gen |-> g]]
Apply(p) == effects' = [effects EXCEPT ![p] = @ + 1]

\* Fresh claim of a normal call the state refuses: the human denied the same
\* action on this input, or the tool runs only on the elevated route.
ClaimRefused(g, t, k) ==
    LET p == <<turns[t].input, k>> IN
    /\ Claimable(g, t, k) /\ ~Gated(p) /\ ops[p].status = "absent"
    /\ DeniedIdenticalCall(p) \/ CallAt(p).act \in ElevatedOnly
    /\ Settle(p, g, "failed")
    /\ JournalResult(p, "failed")
    /\ UNCHANGED <<authority, lease, inputs, turns, plan, approvals, consumed,
                   effects, deciding, budgetWait, replyVars>>

\* Mutants of MayRun: a recorded operation does not stop a second effect; a
\* refusal by the human does not stop the same action on the normal route.
MayRunAgain(p) ==
    ~Gated(p) /\ ~DeniedIdenticalCall(p) /\ CallAt(p).act \notin ElevatedOnly
MayRunDenied(p) ==
    ~Gated(p) /\ ops[p].status = "absent" /\ CallAt(p).act \notin ElevatedOnly

MayRun(p) ==
    /\ ~Gated(p) /\ ops[p].status = "absent"
    /\ ~DeniedIdenticalCall(p) /\ CallAt(p).act \notin ElevatedOnly

\* Mutant of ClaimNormal: the journal is left to the turn's own commit.
ClaimNormalUnjournaled(g, t, k) ==
    LET p == <<turns[t].input, k>> IN
    /\ Claimable(g, t, k) /\ MayRun(p)
    /\ Settle(p, g, "done")
    /\ Apply(p)
    /\ UNCHANGED <<authority, lease, inputs, turns, plan, approvals, consumed,
                   deciding, budgetWait, journalVars, replyVars>>

\* Fresh claim of a normal call: effect, receipt and journal in one transaction.
ClaimNormal(g, t, k) ==
    LET p == <<turns[t].input, k>> IN
    /\ Claimable(g, t, k) /\ MayRun(p)
    /\ Settle(p, g, "done")
    /\ Apply(p)
    /\ JournalResult(p, "done")
    /\ UNCHANGED <<authority, lease, inputs, turns, plan, approvals, consumed,
                   deciding, budgetWait, replyVars>>

\* The tool is unknown, or the effect of a normal call is refused
\* deterministically (ErrBadRequest, an answer that may depend on live state):
\* the claim rolls back, leaving no operation row, and the rejection is
\* journaled in a transaction of its own under the same fence.
ClaimRejected(g, t, k) ==
    LET p == <<turns[t].input, k>> IN
    /\ Planned(g, t, k)
    /\ CallAt(p).act \in Unknown \/ MayRun(p)
    /\ JournalResult(p, "rejected")
    /\ UNCHANGED <<authority, lease, inputs, turns, plan, ledgerVars, deciding,
                   budgetWait, replyVars>>

\* Fresh claim of an elevated call: a request that can never execute fails at
\* once, any other parks behind a pending approval.
ClaimParks(g, t, k) ==
    LET p == <<turns[t].input, k>> IN
    /\ Claimable(g, t, k) /\ Gated(p) /\ ops[p].status = "absent"
    /\ \/ /\ CallAt(p).act \in Invalid
          /\ Settle(p, g, "failed")
          /\ JournalResult(p, "failed")
          /\ UNCHANGED approvals
       \/ /\ CallAt(p).act \notin Invalid
          /\ Settle(p, g, "awaiting_approval")
          /\ approvals' = [approvals EXCEPT ![p] = "pending"]
          /\ Receive({p[1]})
          /\ UNCHANGED results
    /\ UNCHANGED <<authority, lease, inputs, turns, plan, consumed, effects,
                   deciding, budgetWait, replyVars>>

\* Mutant of ClaimApproved: a parked call runs without looking at the decision.
ClaimUndecided(g, t, k) ==
    LET p == <<turns[t].input, k>> IN
    /\ Claimable(g, t, k) /\ Gated(p) /\ ops[p].status = "awaiting_approval"
    /\ consumed' = consumed \cup {p}
    /\ ops' = [ops EXCEPT ![p].status = "done"]
    /\ Apply(p)
    /\ JournalResult(p, "done")
    /\ UNCHANGED <<authority, lease, inputs, turns, plan, approvals, deciding,
                   budgetWait, replyVars>>

\* A later claim of a parked call consumes the granted approval: consumption,
\* effect and receipt are one transaction, and a deterministic refusal by the
\* effect spends the grant too.
ClaimApproved(g, t, k) ==
    LET p == <<turns[t].input, k>> IN
    /\ Claimable(g, t, k) /\ Gated(p) /\ ops[p].status = "awaiting_approval"
    /\ approvals[p] = "approved" /\ p \notin consumed
    /\ consumed' = consumed \cup {p}
    /\ \/ /\ ops' = [ops EXCEPT ![p].status = "done"]
          /\ Apply(p)
          /\ JournalResult(p, "done")
       \/ /\ ops' = [ops EXCEPT ![p].status = "failed"]
          /\ UNCHANGED effects
          /\ JournalResult(p, "failed")
    /\ UNCHANGED <<authority, lease, inputs, turns, plan, approvals, deciding,
                   budgetWait, replyVars>>

\* A later claim of a settled gated call replays its record; a denial, which
\* settled the operation outside any claim, is journaled here.
ClaimReplayed(g, t, k) ==
    LET p == <<turns[t].input, k>> IN
    /\ Claimable(g, t, k) /\ Gated(p) /\ ops[p].status \in {"done", "failed"}
    /\ JournalResult(p, ops[p].status)
    /\ UNCHANGED <<authority, lease, inputs, turns, plan, ledgerVars, deciding,
                   budgetWait, replyVars>>

-----------------------------------------------------------------------------
(* Human decisions *)

\* ResolveApproval first reads the persona's authority outside any
\* transaction ...
BeginResolve(d) ==
    /\ authority = "active"
    /\ approvals[d.pos] = "pending"
    /\ Cardinality(deciding) < MaxDeciding
    /\ deciding' = deciding \cup {d}
    /\ UNCHANGED <<authority, lease, inputs, turns, plan, ledgerVars,
                   budgetWait, journalVars, replyVars>>

\* Mutants of ResolveApproval: a denial leaves the parked operation alone; a
\* later decision replaces the recorded one.
ResolveWithoutSettling(d) ==
    LET i == d.pos[1] IN
    /\ d \in deciding /\ deciding' = deciding \ {d}
    /\ approvals[d.pos] = "pending"
    /\ approvals' = [approvals EXCEPT ![d.pos] = d.verdict]
    /\ inputs' = IF inputs[i].status = "waiting"
                 THEN [inputs EXCEPT ![i] = Resumed(@)] ELSE inputs
    /\ UNCHANGED <<authority, lease, turns, plan, ops, consumed, effects,
                   budgetWait, journalVars, replyVars>>

\* ... and then decides in one that does not look at it again.  A denial
\* settles the parked operation; the input is queued if it is parked, whatever
\* else it waits for.  An approval decided meanwhile is a conflict.
ResolveApproval(d) ==
    LET i == d.pos[1] IN
    /\ d \in deciding
    /\ deciding' = deciding \ {d}
    /\ \/ /\ approvals[d.pos] # "pending"
          /\ UNCHANGED <<approvals, ops, inputs>>
       \/ /\ approvals[d.pos] = "pending"
          /\ approvals' = [approvals EXCEPT ![d.pos] = d.verdict]
          /\ ops' = IF d.verdict = "denied"
                    THEN [ops EXCEPT ![d.pos].status = "failed"] ELSE ops
          /\ inputs' = IF inputs[i].status = "waiting"
                       THEN [inputs EXCEPT ![i] = Resumed(@)] ELSE inputs
    /\ UNCHANGED <<authority, lease, turns, plan, consumed, effects,
                   budgetWait, journalVars, replyVars>>

-----------------------------------------------------------------------------
(* The end of a turn *)

\* CommitTurn finishes the live turn; its events may carry the receipts of any
\* admitted inputs R.
Committing(g, t, R, status, kind) ==
    /\ LiveTurn(g, t)
    /\ R \subseteq Admitted
    /\ Receive(R)
    /\ turns' = [turns EXCEPT ![t].status = status, ![t].commit = kind]

CommitComplete(g, t, R) ==
    LET i == turns[t].input IN
    /\ Committing(g, t, R, "done", "complete")
    /\ inputs' = [inputs EXCEPT ![i].status = "done"]
    /\ terminal' = [terminal EXCEPT ![i] = Append(@, "turn_completed")]
    /\ UNCHANGED <<authority, lease, plan, ledgerVars, deciding, budgetWait,
                   results, noticed>>

CommitRetry(g, t, R) ==
    LET i == turns[t].input IN
    /\ Committing(g, t, R, "failed", "retry")
    /\ inputs' = [inputs EXCEPT ![i] = [Requeued(@) EXCEPT !.delayed = TRUE]]
    /\ UNCHANGED <<authority, lease, plan, ledgerVars, deciding, budgetWait,
                   results, replyVars>>

\* A terminal failure is itself the reply.  The notice hook may fail without
\* failing the commit; a replayed commit fires it again.
CommitFail(g, t, R) ==
    LET i == turns[t].input IN
    /\ Committing(g, t, R, "failed", "fail")
    /\ inputs' = [inputs EXCEPT ![i].status = "done"]
    /\ terminal' = [terminal EXCEPT ![i] = Append(@, "turn_failed")]
    /\ noticed' \in {noticed, noticed \cup {i}}
    /\ UNCHANGED <<authority, lease, plan, ledgerVars, deciding, budgetWait,
                   results>>

ReplayFail(g, t) ==
    /\ RequireGeneration(g)
    /\ turns[t].gen = g /\ turns[t].commit = "fail"
    /\ noticed' = noticed \cup {turns[t].input}
    /\ UNCHANGED <<authority, lease, inputs, turns, plan, ledgerVars, deciding,
                   budgetWait, journalVars, terminal>>

\* recoverTerminalFailureNotice retries a notice its commit could not write, in
\* a transaction of its own that no generation fences.
RecoverNotice(t) ==
    /\ turns[t].commit = "fail"
    /\ noticed' = noticed \cup {turns[t].input}
    /\ UNCHANGED <<authority, lease, inputs, turns, plan, ledgerVars, deciding,
                   budgetWait, journalVars, terminal>>

\* Mutant of CommitAwait: the input waits although the human decided first.
CommitAwaitBlindly(g, t, R) ==
    LET i == turns[t].input IN
    /\ Committing(g, t, R, "awaiting", "await")
    /\ inputs' = [inputs EXCEPT ![i].status = "waiting"]
    /\ UNCHANGED <<authority, lease, plan, ledgerVars, deciding, budgetWait,
                   results, replyVars>>

\* The turn parks behind the input's pending approvals; when none is pending
\* any more (the human decided first) the input is queued directly.
CommitAwait(g, t, R) ==
    LET i == turns[t].input IN
    /\ Committing(g, t, R, "awaiting", "await")
    /\ inputs' = IF PendingOf(i) = {}
                 THEN [inputs EXCEPT ![i] = Resumed(@)]
                 ELSE [inputs EXCEPT ![i].status = "waiting"]
    /\ UNCHANGED <<authority, lease, plan, ledgerVars, deciding, budgetWait,
                   results, replyVars>>

\* The turn parks on a denied budget admission; when the estimate fits by now,
\* or its funding is stale, the input is queued directly.
CommitBudgetWait(g, t, R) ==
    LET i == turns[t].input IN
    /\ Committing(g, t, R, "awaiting", "await")
    /\ \/ /\ inputs' = [inputs EXCEPT ![i] = Resumed(@)]
          /\ UNCHANGED budgetWait
       \/ /\ inputs' = [inputs EXCEPT ![i].status = "waiting"]
          /\ budgetWait' = budgetWait \cup {i}
    /\ UNCHANGED <<authority, lease, plan, ledgerVars, deciding, results,
                   replyVars>>

\* Budget waits end: an input still parked is queued unless a pending approval
\* holds it too.
Unparked(S) ==
    [i \in Inputs |-> IF /\ i \in S /\ inputs[i].status = "waiting"
                         /\ PendingOf(i) = {}
                      THEN Resumed(inputs[i])
                      ELSE inputs[i]]

\* A change of budget, rate card, grant or model selection ends some waits.
ResumeWaits(S) ==
    /\ S # {} /\ S \subseteq budgetWait
    /\ budgetWait' = budgetWait \ S
    /\ inputs' = Unparked(S)
    /\ UNCHANGED <<authority, lease, turns, plan, ledgerVars, deciding,
                   journalVars, replyVars>>

-----------------------------------------------------------------------------
(* Placement authority *)

\* The seal's own checks (verifyCut), over the state it is about to export.
\* Approvals and operations follow one lifecycle matrix.
ApprovalMatrix ==
    \A p \in Position :
        /\ approvals[p] = "pending" =>
              ops[p].status = "awaiting_approval" /\ p \notin consumed
        /\ approvals[p] = "approved" =>
              IF p \in consumed THEN ops[p].status \in {"done", "failed"}
                                       ELSE ops[p].status = "awaiting_approval"
        /\ approvals[p] = "denied" =>
              ops[p].status = "failed" /\ p \notin consumed
        /\ ops[p].status = "awaiting_approval" =>
              \/ approvals[p] = "pending"
              \/ approvals[p] = "approved" /\ p \notin consumed

\* An operation is a call of its input's recorded plan.
OperationsPlanned ==
    \A p \in Position : ops[p].status # "absent" => p[2] <= Len(plan[p[1]].calls)

\* A running turn holds its input; a finished input names a finished turn.
TurnsLinked ==
    /\ \A t \in RunningTurns : /\ inputs[turns[t].input].status = "claimed"
                               /\ inputs[turns[t].input].turn = t
    /\ \A i \in Inputs : inputs[i].status = "done" =>
          turns[inputs[i].turn].status \in {"done", "failed"}

\* The receipt marker names the one journaled receipt of its input.
ReceiptsLinked ==
    \A i \in Inputs : receipts[i] = IF i \in marker THEN 1 ELSE 0

GenerationsBelow(epoch) ==
    /\ \A t \in Turns : turns[t].gen < epoch
    /\ \A p \in Position : ops[p].gen < epoch
    /\ \A i \in Inputs : inputs[i].gen < epoch

CutCoherent ==
    /\ ApprovalMatrix
    /\ OperationsPlanned
    /\ TurnsLinked
    /\ ReceiptsLinked

\* sealInTx: the next generation is taken by nobody, budget waits (which do not
\* travel) are unparked, and the cut is verified before it is recorded.
Seal ==
    /\ authority = "active"
    /\ lease.gen < MaxGen
    /\ lease' = [gen |-> lease.gen + 1, holder |-> None, live |-> TRUE]
    /\ authority' = "sealed"
    /\ inputs' = Unparked(budgetWait)
    /\ budgetWait' = {}
    /\ CutCoherent
    /\ GenerationsBelow(lease.gen + 1)
    /\ \A i \in Inputs : inputs'[i].status = "waiting" => PendingOf(i) # {}
    /\ UNCHANGED <<turns, plan, ledgerVars, deciding, journalVars, replyVars>>

\* Complete and Abort carry a proof from the destination that it activated,
\* respectively will never activate, the transfer.
Complete ==
    /\ authority = "sealed"
    /\ authority' = "transferred"
    /\ UNCHANGED <<lease, inputs, turns, plan, ledgerVars, deciding, budgetWait,
                   journalVars, replyVars>>

Abort ==
    /\ authority = "sealed"
    /\ authority' = "active"
    /\ lease' = [lease EXCEPT !.live = FALSE]
    /\ UNCHANGED <<inputs, turns, plan, ledgerVars, deciding, budgetWait,
                   journalVars, replyVars>>

-----------------------------------------------------------------------------

LeaseStep ==
    \E w \in Writers : AcquireWriter(w) \/ RenewWriter(w) \/ ReleaseWriter(w)

ClaimStep(g, t) ==
    \E k \in Index :
        \/ ClaimRefused(g, t, k) \/ ClaimNormal(g, t, k) \/ ClaimRejected(g, t, k)
        \/ ClaimParks(g, t, k) \/ ClaimApproved(g, t, k) \/ ClaimReplayed(g, t, k)

CommitStep(g, t) ==
    \/ \E R \in SUBSET Inputs :
          \/ CommitComplete(g, t, R) \/ CommitRetry(g, t, R) \/ CommitFail(g, t, R)
          \/ CommitAwait(g, t, R) \/ CommitBudgetWait(g, t, R)
    \/ ReplayFail(g, t)

CoreStep ==
    \E g \in 1 .. MaxGen :
        \/ Recover(g)
        \/ \E t \in Turns :
              \/ \E i \in Inputs : LoadTurn(g, t, i)
              \/ \E round \in 0 .. MaxRounds, d \in Decisions : SavePlan(g, t, round, d)
              \/ ClaimStep(g, t)
              \/ CommitStep(g, t)

OutsideStep ==
    \/ \E i \in Inputs : SubmitInput(i) \/ BackoffElapses(i)
    \/ \E d \in Decision : BeginResolve(d) \/ ResolveApproval(d)
    \/ \E S \in SUBSET Inputs : ResumeWaits(S)
    \/ \E t \in Turns : RecoverNotice(t)

PlacementStep == Seal \/ Complete \/ Abort

Next == LeaseStep \/ CoreStep \/ OutsideStep \/ PlacementStep

Spec == Init /\ [][Next]_vars

-----------------------------------------------------------------------------
(* Properties *)

\* The effect of a planned call is applied exactly when its operation is
\* recorded done, and at most once, across all turns, generations, replays and
\* decisions (claimOperation, claimGated).
EffectOnce ==
    \A p \in Position : effects[p] = IF ops[p].status = "done" THEN 1 ELSE 0

\* The effect of an elevated call ran only under a grant the human gave for
\* that very position, and the grant is spent (claimGated, ResolveApproval).
EffectConsented ==
    \A p \in Position :
        effects[p] > 0 /\ Gated(p) =>
            approvals[p] = "approved" /\ p \in consumed

\* A seal of an active persona is never refused for an incoherent cut: every
\* state the store reaches passes the seal's own verifyCut.
SealableCut == CutCoherent /\ GenerationsBelow(lease.gen + 1)

\* No admitted input is stranded: it is queued, or finished, or held by a
\* running turn of its own (which Recover can find), or parked where a human
\* decision or a budget change will find it (CommitTurn, ResolveApproval,
\* resumeFundingWaitsTx, Seal).
NothingStranded ==
    \A i \in Inputs :
        /\ inputs[i].status = "claimed" =>
              \E t \in RunningTurns : /\ turns[t].input = i
                                      /\ turns[t].gen = inputs[i].gen
        /\ inputs[i].status = "waiting" =>
              PendingOf(i) # {} \/ i \in budgetWait

\* At most one turn runs, whatever cores believe (LoadTurn, Recover).
OneRunningTurn == \A t, u \in RunningTurns : t = u

\* An input is answered exactly once, when it is done, and a failure notice is
\* posted only for an input whose answer is the failure (CommitTurn).
AnsweredOnce ==
    \A i \in Inputs :
        /\ Len(terminal[i]) = IF inputs[i].status = "done" THEN 1 ELSE 0
        /\ i \in noticed => terminal[i] = <<"turn_failed">>

\* The journal holds the receipt of an input before any call of it, and a
\* result for every effect that ran (journalExperienceTx).
JournalFollows ==
    \A p \in Position :
        /\ results[p] # "none" \/ ops[p].status = "awaiting_approval" =>
              p[1] \in marker
        /\ effects[p] > 0 => results[p] # "none"

\* Two inputs that share the queue: one turn runs, and every admitted input
\* can be found again (LoadTurn, CommitTurn, Recover).
QueueSound == OneRunningTurn /\ NothingStranded

\* At any moment the persona can be sealed, and what the sealed cut carries
\* tells every effect that ran (verifyCut, journalExperienceTx).
CutTells == SealableCut /\ JournalFollows

\* Once its generation is superseded, a running turn can only be interrupted:
\* it commits nothing, records no decision and applies no effect
\* (requireGeneration).
SupersededStep(t) ==
    turns[t].status = "running" /\ turns[t].gen < lease.gen =>
        /\ turns'[t].status \in {"running", "interrupted"}
        /\ plan'[turns[t].input] = plan[turns[t].input]
        /\ \A k \in Index : effects'[<<turns[t].input, k>>] = effects[<<turns[t].input, k>>]
SupersededTurnFrozen == [][\A t \in Turns : SupersededStep(t)]_vars

\* A placement without authority does nothing for the secretary: while the
\* persona is sealed or transferred no turn moves, no decision is recorded and
\* no effect is applied here (requireGeneration, SubmitInput, Seal).
InactiveStep ==
    authority # "active" => /\ UNCHANGED <<turns, plan, effects, terminal>>
                            /\ \A i \in Inputs \ Admitted : inputs'[i] = inputs[i]
InactivePlacementIdle == [][InactiveStep]_vars

\* The store implements the contract of SecretaryContract: whatever turns,
\* generations, crashes, decisions and seals do, what happens to an input reads
\* as one admission, one growing list of decided calls, at most one consented
\* run of each, and one answer.
Contract == INSTANCE SecretaryContract WITH
    known <- Admitted,
    calls <- [i \in Inputs |-> plan[i].calls],
    verdict <- approvals,
    runs <- effects,
    reply <- terminal
ImplementsContract == Contract!Spec

\* ResolveApproval: "A persona whose authority moved (sealed/staged/
\* transferred) takes no new decisions here".
NoDecisionAfterSeal == [][authority # "active" => UNCHANGED approvals]_vars

\* experience.go: "a completed effect is never known only to the operation
\* ledger", the journal is "telling what actually ran".
JournalTellsWhatRan ==
    \A p \in Position : effects[p] > 0 => results[p] = "done"

=============================================================================
