---------------------------- MODULE UsageBudget ----------------------------
(***************************************************************************)
(* What the calls to model providers cost and who pays: the budget of a    *)
(* funding source, the reservation a call is admitted with, the fact that  *)
(* says what it used, and the inputs that wait for headroom.  Secretaries  *)
(* that share a source meet at its budget row.  A core may be replaced     *)
(* while a call is under way; reports are late, lost or repeated; what a   *)
(* lost call cost is never known.  A transaction is one action.            *)
(***************************************************************************)
EXTENDS Integers, FiniteSets, FiniteSetsExt

CONSTANTS
    Spenders,      \* secretaries of one human, each serving one input at a time
    Sources,       \* the funding sources the human may select
    Cards,         \* budgets: limit, cur, and the rates in, out and cached
    Estimates,     \* sizes of calls: in, and out (-1: not bounded)
    Uses,          \* what a call may really have used: in, out, cached
    PerMTok,       \* tokens a rate is stated for (1000000 in the code)
    MaxFacts,      \* bound: calls of a secretary
    MaxUpsets,     \* bound: changes of budgets, of the selection and of writers, together
    BudgetPerils   \* "resume": a server may stop between a change and its resume pass

ASSUME UsageAssumption ==
    /\ PerMTok \in Nat \ {0} /\ MaxFacts \in Nat /\ MaxUpsets \in Nat
    /\ Uses \subseteq [in : Nat, out : Nat, cached : Nat]
    /\ Estimates \subseteq [in : Nat, out : Nat \cup {-1}]
    /\ Cards \subseteq [limit : Nat, cur : STRING \ {"none"}, in : Nat, out : Nat, cached : Nat \cup {-1}]

CallIds == Spenders \X (1 .. MaxFacts)

VARIABLES
    budget,    \* usage_budgets: the card of a source, or NoCard
    selected,  \* model_connection_selections: the source the human selected
    writer,    \* a secretary's writer generation; 0 once it was sealed here
    input,     \* its input: queued, claimed (by a generation, in a turn) or waiting
    wait,      \* core_budget_waits: the source and the estimate an input waits with
    call,      \* the core's side of a call: how far it is, and what it really used
    hold,      \* usage_reservations
    fact,      \* usage_facts
    report,    \* reports made: one may reach RecordUsage late, never or again and again
    owed,      \* sources, and the selection, whose resume pass has not run yet
    upsets,    \* counter of MaxUpsets
    most       \* history: the highest limit a source ever had in a currency
usageVars == <<budget, selected, writer, input, wait, call, hold, fact, report, owed, upsets, most>>

Currencies == {k.cur : k \in Cards}
NoCard == [limit |-> 0, cur |-> "none", in |-> 0, out |-> 0, cached |-> -1]
NoUse == [in |-> 0, out |-> 0, cached |-> 0]
NoEstimate == [in |-> 0, out |-> -1]
NoWait == [src |-> "none", est |-> NoEstimate]
NoCall == [at |-> "none", gen |-> 0, turn |-> 0, src |-> "none", est |-> NoEstimate,
           sent |-> FALSE, use |-> NoUse]
NoHold == [st |-> "none", src |-> "none", minor |-> 0, card |-> NoCard, gen |-> 0, turn |-> 0]
NoFact == [st |-> "none", use |-> NoUse, cost |-> 0, cur |-> "none"]
Selection == "selection"   \* in owed

UsageInit ==
    /\ budget \in [Sources -> Cards \cup {NoCard}] /\ selected \in Sources
    /\ writer = [p \in Spenders |-> 1]
    /\ input = [p \in Spenders |-> [st |-> "queued", gen |-> 0, turn |-> 0]]
    /\ wait = [p \in Spenders |-> NoWait]
    /\ call = [c \in CallIds |-> NoCall] /\ hold = [c \in CallIds |-> NoHold]
    /\ fact = [c \in CallIds |-> NoFact]
    /\ report = {} /\ owed = {} /\ upsets = 0
    /\ most = [s \in Sources |-> [u \in Currencies |-> IF budget[s].cur = u THEN budget[s].limit ELSE 0]]

-----------------------------------------------------------------------------
(* Prices, in minor units of the card's currency.                          *)
\* Rounded up, so that no cost becomes nothing.
priceTokens(tokens, rate) == (tokens * rate + PerMTok - 1) \div PerMTok
priceEstimate(est, card) ==
    priceTokens(est.in, card.in) + (IF est.out = -1 THEN 0 ELSE priceTokens(est.out, card.out))
priceReported(use, card) ==
    priceTokens(use.in, card.in) + priceTokens(use.out, card.out)
      + priceTokens(use.cached, IF card.cached = -1 THEN card.in ELSE card.cached)

\* Facts and holds of a source in one currency; h and f are the rows as the
\* transaction that asks sees them.
Spent(h, f, s, cur) ==
    MapThenSumSet(LAMBDA c : f[c].cost, {c \in CallIds : h[c].src = s /\ f[c].cur = cur})
Held(h, s, cur) ==
    MapThenSumSet(LAMBDA c : h[c].minor,
                  {c \in CallIds : h[c].src = s /\ h[c].st = "held" /\ h[c].card.cur = cur})
fundingSpend(h, f, s, cur) == Spent(h, f, s, cur) + Held(h, s, cur)
budgetAdmits(limit, spent, needed) == needed <= limit /\ spent <= limit - needed
\* fundingHeadroom.fit: no configured cap fits everything.
fit(h, f, s, est) ==
    \/ budget[s] = NoCard
    \/ budgetAdmits(budget[s].limit, fundingSpend(h, f, s, budget[s].cur),
                    priceEstimate(est, budget[s]))

-----------------------------------------------------------------------------
(* A turn and its calls, as the core makes them.                           *)
Upset == upsets < MaxUpsets /\ upsets' = upsets + 1
CallsOf(p) == {c \in CallIds : c[1] = p /\ call[c].at # "none"}
Under(p, c) == call[c].gen = writer[p] /\ call[c].turn = input[p].turn
Serves(p) == writer[p] > 0 /\ input[p].st = "claimed" /\ input[p].gen = writer[p]
LoadTurn(p) ==
    /\ writer[p] > 0 /\ input[p].st = "queued"
    /\ input' = [input EXCEPT ![p] = [st |-> "claimed", gen |-> writer[p],
                                      turn |-> Cardinality(CallsOf(p)) + 1]]
    /\ UNCHANGED <<budget, selected, writer, wait, call, hold, fact, report, owed, upsets, most>>
\* The metered path resolves the funding, then asks for admission.
StartCall(p, n, est) ==
    /\ Serves(p) /\ call[<<p, n>>].at = "none" /\ \A i \in 1 .. (n - 1) : call[<<p, i>>].at # "none"
    /\ \A c \in CallsOf(p) : Under(p, c) => call[c].at = "over"
    /\ call' = [call EXCEPT ![<<p, n>>] = [NoCall EXCEPT !.at = "asking", !.gen = writer[p],
                   !.turn = input[p].turn, !.src = selected, !.est = est]]
    /\ UNCHANGED <<budget, selected, writer, input, wait, hold, fact, report, owed, upsets, most>>

\* The same call asked twice finds its reservation; an answer may be lost.
AdmissionRefused(c) == call[c].gen # writer[c[1]] \/ hold[c].st \notin {"none", "held"}
Reservation(c) ==
    LET s == call[c].src
    IN [st |-> "held", src |-> s, card |-> budget[s], gen |-> call[c].gen, turn |-> call[c].turn,
        minor |-> IF budget[s] = NoCard THEN 0 ELSE priceEstimate(call[c].est, budget[s])]
Fits(c) == fit(hold, fact, call[c].src, call[c].est)
AdmitUsage(c) ==
    /\ call[c].at = "asking"
    /\ \/ /\ AdmissionRefused(c) /\ call' = [call EXCEPT ![c].at = "over"] /\ UNCHANGED hold
       \/ /\ ~AdmissionRefused(c) /\ hold[c].st = "held"
          /\ call' = [call EXCEPT ![c].at = "sending"] /\ UNCHANGED hold
       \/ /\ ~AdmissionRefused(c) /\ hold[c].st = "none" /\ Fits(c)
          /\ hold' = [hold EXCEPT ![c] = Reservation(c)]
          /\ \E at \in {"sending", "asking"} : call' = [call EXCEPT ![c].at = at]
       \/ /\ ~AdmissionRefused(c) /\ hold[c].st = "none" /\ ~Fits(c)
          /\ call' = [call EXCEPT ![c].at = "denied"] /\ UNCHANGED hold
    /\ UNCHANGED <<budget, selected, writer, input, wait, fact, report, owed, upsets, most>>
\* After three attempts without an answer.
AdmissionFails(c) ==
    /\ call[c].at = "asking" /\ call' = [call EXCEPT ![c].at = "over"]
    /\ UNCHANGED <<budget, selected, writer, input, wait, hold, fact, report, owed, upsets, most>>

\* The request leaves or not; one report of the call goes out in any case.
Report(c, st, use) == [c |-> c, st |-> st, use |-> use]
NotStreamed(c) ==
    /\ call[c].at = "sending" /\ call' = [call EXCEPT ![c].at = "over"]
    /\ \E st \in {"not_sent", "unknown"} : report' = report \cup {Report(c, st, NoUse)}
    /\ UNCHANGED <<budget, selected, writer, input, wait, hold, fact, owed, upsets, most>>
Streamed(c, use) ==
    /\ call[c].at = "sending"
    /\ call' = [call EXCEPT ![c].at = "over", ![c].sent = TRUE, ![c].use = use]
    /\ report' \in {report \cup {Report(c, "reported", use)}, report \cup {Report(c, "unknown", NoUse)}}
    /\ UNCHANGED <<budget, selected, writer, input, wait, hold, fact, owed, upsets, most>>
\* A complete report may follow one that said unknown.
CompleteReport(c) ==
    /\ call[c].at = "over" /\ call[c].sent /\ Report(c, "reported", call[c].use) \notin report
    /\ fact[c].st = "unknown"
    /\ report' = report \cup {Report(c, "reported", call[c].use)}
    /\ UNCHANGED <<budget, selected, writer, input, wait, call, hold, fact, owed, upsets, most>>

-----------------------------------------------------------------------------
(* The waits of a source.                                                  *)
Queued == [st |-> "queued", gen |-> 0, turn |-> 0]
Resumes(ps) ==
    /\ wait' = [p \in Spenders |-> IF p \in ps THEN NoWait ELSE wait[p]]
    /\ input' = [p \in Spenders |-> IF p \in ps /\ input[p].st = "waiting" THEN Queued ELSE input[p]]
\* Every wait is fitted against the same headroom: resumed inputs are admitted
\* one by one, and park again where the first took it.
resumeFundingWaitsTx(s, h, f) ==
    Resumes({p \in Spenders : wait[p].src = s /\ fit(h, f, s, wait[p].est)})

-----------------------------------------------------------------------------
(* What a call used: RecordUsage, in no generation's name.                 *)
CardNow(c) == budget[hold[c].src]
Card(c) == IF hold[c].card # NoCard THEN hold[c].card ELSE CardNow(c)
priceRecord(m) ==
    LET h == hold[m.c]
    IN CASE m.st = "reported" /\ Card(m.c) # NoCard ->
                [cost |-> priceReported(m.use, Card(m.c)), cur |-> Card(m.c).cur]
         [] m.st = "unknown" -> [cost |-> h.minor, cur |-> h.card.cur]
         [] OTHER -> [cost |-> 0, cur |-> "none"]
Priced(m) == [st |-> m.st, use |-> m.use, cost |-> priceRecord(m).cost, cur |-> priceRecord(m).cur]
Recorded(m) == [fact EXCEPT ![m.c] = Priced(m)]
Settles(m) == IF m.st = "not_sent" THEN "released" ELSE "settled"
RecordUsageInserts(m) ==
    /\ fact[m.c].st = "none" /\ fact' = Recorded(m)
    /\ hold' = [hold EXCEPT ![m.c].st = IF @ = "held" THEN Settles(m) ELSE @]
    /\ resumeFundingWaitsTx(hold[m.c].src, hold', fact')
    /\ UNCHANGED <<budget, selected, writer, call, report, owed, upsets, most>>
\* unrecorded gives way to any report, unknown to a complete one; the rest is final.
factMatches(m) == fact[m.c].st = m.st /\ fact[m.c].use = m.use
Supersedes(m) ==
    \/ fact[m.c].st = "unrecorded"
    \/ fact[m.c].st = "unknown" /\ m.st = "reported"
RecordUsageUpgrades(m) ==
    /\ ~factMatches(m) /\ Supersedes(m) /\ fact' = Recorded(m)
    /\ hold' = [hold EXCEPT ![m.c].st = IF m.st = "not_sent" THEN "released" ELSE @]
    /\ resumeFundingWaitsTx(hold[m.c].src, hold', fact')
    /\ UNCHANGED <<budget, selected, writer, call, report, owed, upsets, most>>
\* A replay, a weaker report that comes late, or a conflict: nothing is written.
RecordUsageReplays(m) ==
    /\ fact[m.c].st # "none" /\ (factMatches(m) \/ ~Supersedes(m))
    /\ UNCHANGED usageVars

\* A hold whose report never came stays spent, at its estimate.
Ghosts(h, which) == {c \in which : h[c].st = "held"}
Reconciled(which) ==
    /\ fact' = [c \in CallIds |-> IF c \in Ghosts(hold, which) /\ fact[c].st = "none"
                                  THEN [st |-> "unrecorded", use |-> NoUse, cost |-> hold[c].minor,
                                        cur |-> hold[c].card.cur]
                                  ELSE fact[c]]
    /\ hold' = [c \in CallIds |-> IF c \in Ghosts(hold, which) THEN [hold[c] EXCEPT !.st = "settled"]
                                  ELSE hold[c]]
reconcileHeldReservations(which) == Reconciled(which)

-----------------------------------------------------------------------------
(* The ends of a turn, of a core, and of a secretary's time here.          *)
HoldsOfTurn(p) == {c \in CallIds : c[1] = p /\ hold[c].turn = input[p].turn}
CommitTurn(p) ==
    /\ Serves(p) /\ \A c \in CallsOf(p) : Under(p, c) => call[c].at = "over"
    /\ reconcileHeldReservations(HoldsOfTurn(p))
    /\ input' = [input EXCEPT ![p] = Queued]
    /\ UNCHANGED <<budget, selected, writer, wait, call, report, owed, upsets, most>>
waitFundingStale(c) == call[c].src # selected
CommitAwait(p, c) ==
    /\ c[1] = p /\ Serves(p) /\ Under(p, c) /\ call[c].at = "denied"
    /\ reconcileHeldReservations(HoldsOfTurn(p))
    /\ call' = [call EXCEPT ![c].at = "over"]
    /\ IF waitFundingStale(c) \/ fit(hold', fact', call[c].src, call[c].est)
       THEN input' = [input EXCEPT ![p] = Queued] /\ UNCHANGED wait
       ELSE /\ input' = [input EXCEPT ![p] = [Queued EXCEPT !.st = "waiting"]]
            /\ wait' = [wait EXCEPT ![p] = [src |-> call[c].src, est |-> call[c].est]]
    /\ UNCHANGED <<budget, selected, writer, report, owed, upsets, most>>
AcquireWriter(p) ==
    /\ Upset /\ writer[p] > 0 /\ writer' = [writer EXCEPT ![p] = @ + 1]
    /\ UNCHANGED <<budget, selected, input, wait, call, hold, fact, report, owed, most>>
Recover(p) ==
    /\ writer[p] > 0
    /\ reconcileHeldReservations({c \in CallIds : c[1] = p /\ hold[c].gen < writer[p]})
    /\ input' = [input EXCEPT ![p] = IF @.st = "claimed" /\ @.gen # writer[p] THEN Queued ELSE @]
    /\ UNCHANGED <<budget, selected, writer, wait, call, report, owed, upsets, most>>
\* The transfer's seal: no generation of this secretary runs here again.
ReconcileRetiredReservations(p) == reconcileHeldReservations({c \in CallIds : c[1] = p})
Seal(p) ==
    /\ Upset /\ writer[p] > 0 /\ writer' = [writer EXCEPT ![p] = 0]
    /\ ReconcileRetiredReservations(p) /\ Resumes({p})
    /\ UNCHANGED <<budget, selected, call, report, owed, most>>

-----------------------------------------------------------------------------
(* The human's settings: the change commits first, its resume pass runs    *)
(* after it in a transaction of its own.                                   *)
Owes(x) == owed' \in {owed \cup {x}} \cup (IF "resume" \in BudgetPerils THEN {owed} ELSE {})
SetBudget(s, card) ==
    /\ Upset /\ budget' = [budget EXCEPT ![s] = card] /\ Owes(s)
    /\ most' = [most EXCEPT ![s][card.cur] = IF @ < card.limit THEN card.limit ELSE @]
    /\ UNCHANGED <<selected, writer, input, wait, call, hold, fact, report>>
ClearBudget(s) ==
    /\ Upset /\ budget[s] # NoCard /\ budget' = [budget EXCEPT ![s] = NoCard] /\ Owes(s)
    /\ UNCHANGED <<selected, writer, input, wait, call, hold, fact, report, most>>
SelectSource(s) ==
    /\ Upset /\ s # selected /\ selected' = s /\ Owes(Selection)
    /\ UNCHANGED <<budget, writer, input, wait, call, hold, fact, report, most>>
ResumeWaitsForFunding(s) ==
    /\ s \in owed /\ owed' = owed \ {s} /\ resumeFundingWaitsTx(s, hold, fact)
    /\ UNCHANGED <<budget, selected, writer, call, hold, fact, report, upsets, most>>
\* The next attempt may spend another source: every wait of the human ends.
ResumeWaitsForHuman ==
    /\ Selection \in owed /\ owed' = owed \ {Selection}
    /\ Resumes({p \in Spenders : wait[p] # NoWait})
    /\ UNCHANGED <<budget, selected, writer, call, hold, fact, report, upsets, most>>

UsageNext ==
    \/ \E p \in Spenders : LoadTurn(p) \/ CommitTurn(p) \/ AcquireWriter(p) \/ Recover(p) \/ Seal(p)
    \/ \E p \in Spenders, n \in 1 .. MaxFacts, est \in Estimates : StartCall(p, n, est)
    \/ \E c \in CallIds : \/ AdmitUsage(c) \/ AdmissionFails(c) \/ NotStreamed(c) \/ CompleteReport(c)
                          \/ \E use \in Uses : Streamed(c, use)
                          \/ CommitAwait(c[1], c)
    \/ \E m \in report : RecordUsageInserts(m) \/ RecordUsageUpgrades(m) \/ RecordUsageReplays(m)
    \/ \E s \in Sources : \/ \E card \in Cards : SetBudget(s, card)
                          \/ ClearBudget(s) \/ SelectSource(s) \/ ResumeWaitsForFunding(s)
    \/ ResumeWaitsForHuman
UsageSpec == UsageInit /\ [][UsageNext]_usageVars

-----------------------------------------------------------------------------
(***************************************************************************)
(* SpendCounted: a call is counted once, as a hold or as a fact, whoever   *)
(* lost which message.  A hold goes without a charge only when the request *)
(* never left; a call whose use is not known stays charged at its estimate *)
(* under the card that admitted it, and one that is known at what it       *)
(* really used under that card, whatever became of the budget meanwhile.   *)
(* No request leaves without an admission (AdmitUsage, RecordUsage,        *)
(* reconcileHeldReservations).                                             *)
(***************************************************************************)
SpendCounted ==
    \A c \in CallIds :
        LET h == hold[c]  f == fact[c]
        IN /\ h.st \in {"none", "held"} <=> f.st = "none"
           /\ h.st = "released" <=> f.st = "not_sent"
           /\ call[c].sent => h.st \in {"held", "settled"} /\ h.src = call[c].src
           /\ f.st \in {"unknown", "unrecorded"} => f.cost = h.minor /\ f.cur = h.card.cur
           /\ f.st = "reported" => call[c].sent
           /\ f.st = "reported" /\ h.card # NoCard =>
                  f.cost = priceReported(call[c].use, h.card) /\ f.cur = h.card.cur

(***************************************************************************)
(* WithinCap: what calls were admitted with never adds up to more than the *)
(* highest limit the source had in that currency; only a call that used    *)
(* more than its estimate takes the source further.                        *)
(***************************************************************************)
Lesser(a, b) == IF a < b THEN a ELSE b
Admitted(c) ==
    IF fact[c].st = "none" THEN hold[c].minor
    ELSE IF fact[c].cur = hold[c].card.cur THEN Lesser(hold[c].minor, fact[c].cost) ELSE 0
Beside(c) == {x \in CallIds : hold[x].src = hold[c].src /\ hold[x].card.cur = hold[c].card.cur}
WithinCap ==
    \A c \in CallIds : hold[c].card # NoCard =>
        MapThenSumSet(Admitted, Beside(c)) <= most[hold[c].src][hold[c].card.cur]
(***************************************************************************)
(* NoVainWait: an input that waits has a wait row; the call it waits with  *)
(* does not fit now, and is one of the source the next attempt would       *)
(* spend, unless the pass that resumes it is still to run.                 *)
(***************************************************************************)
NoVainWait ==
    \A p \in Spenders :
        /\ input[p].st = "waiting" <=> wait[p] # NoWait
        /\ wait[p] # NoWait =>
              /\ wait[p].src \in owed \/ ~fit(hold, fact, wait[p].src, wait[p].est)
              /\ wait[p].src = selected \/ Selection \in owed
(***************************************************************************)
(* BudgetSound: no admission beyond the cap, and no input parked for a     *)
(* blocker that is gone (AdmitUsage, CommitTurn's wait, the resume passes).*)
(***************************************************************************)
BudgetSound == WithinCap /\ NoVainWait
=============================================================================
