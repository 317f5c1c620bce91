------------------------ MODULE SecretaryStateProofs ------------------------
(***************************************************************************)
(* Theorems about SecretaryState for every value of its constants: its     *)
(* ledger, its queue, turns, answers and journal, and that it implements   *)
(* SecretaryContract.                                                      *)
(***************************************************************************)
EXTENDS SecretaryState, FiniteSetTheorems, TLAPS

\* The defining clauses of the variable tuples, expanded in almost every leaf.
USE DEF journalVars, ledgerVars, replyVars

-----------------------------------------------------------------------------
(* Types *)

\* A turn that began serves an input; only a turn that began was committed.
TurnInputs ==
    \A t \in Turns : \/ turns[t].status = "absent" /\ turns[t].commit = "none"
                     \/ turns[t].input \in Inputs

TypeInv == TypeOK /\ TurnInputs

LEMMA TypeInit == Init => TypeInv
  <1> SUFFICES ASSUME Init PROVE TypeInv
    OBVIOUS
  <1> USE ConstantsOK DEF Init
  <1>1. inputs \in [Inputs -> InputRow]
    BY DEF InputRow, InputStatus
  <1>2. turns \in [Turns -> TurnRow]
    BY DEF TurnRow, TurnStatus, CommitKind
  <1>3. plan \in [Inputs -> PlanRow]
    BY DEF PlanRow
  <1>4. ops \in [Position -> OpRow] /\ approvals \in [Position -> ApprovalStatus]
    BY DEF OpRow, OpStatus, ApprovalStatus
  <1>5. /\ terminal \in [Inputs -> Seq({"turn_completed", "turn_failed"})]
        /\ receipts \in [Inputs -> Nat] /\ effects \in [Position -> Nat]
        /\ lease \in [gen : Nat, holder : Writers \cup {None}, live : BOOLEAN]
        /\ results \in [Position -> {"none", "done", "failed", "rejected"}]
    OBVIOUS
  <1>6. TurnInputs
    BY DEF TurnInputs
  <1> QED
    BY <1>1, <1>2, <1>3, <1>4, <1>5, <1>6 DEF TypeInv, TypeOK

LEMMA LeaseType ==
    ASSUME TypeInv, LeaseStep
    PROVE  TypeInv'
  <1>1. PICK w \in Writers : AcquireWriter(w) \/ RenewWriter(w) \/ ReleaseWriter(w)
    BY DEF LeaseStep
  <1> DEFINE LeaseRow == [gen : Nat, holder : Writers \cup {None}, live : BOOLEAN]
  <1>2. lease \in LeaseRow
    BY DEF TypeInv, TypeOK
  <1>3. CASE AcquireWriter(w)
    <2>1. lease' \in LeaseRow
      BY <1>2, <1>3 DEF AcquireWriter
    <2> QED
      BY <1>3, <2>1 DEF AcquireWriter, TypeInv, TypeOK, TurnInputs
  <1>4. CASE RenewWriter(w)
    <2>1. lease' \in LeaseRow
      BY <1>2, <1>4 DEF RenewWriter
    <2> QED
      BY <1>4, <2>1 DEF RenewWriter, TypeInv, TypeOK, TurnInputs
  <1>5. CASE ReleaseWriter(w)
    <2>1. lease' \in LeaseRow
      BY <1>2, <1>5 DEF ReleaseWriter
    <2> QED
      BY <1>5, <2>1 DEF ReleaseWriter, TypeInv, TypeOK, TurnInputs
  <1> QED
    BY <1>1, <1>3, <1>4, <1>5

\* Journaling keeps the journal's types.
LEMMA ReceiveType ==
    ASSUME TypeOK, NEW S \in SUBSET Inputs, Receive(S)
    PROVE  marker' \subseteq Inputs /\ receipts' \in [Inputs -> Nat]
  BY DEF Receive, TypeOK

LEMMA JournalType ==
    ASSUME TypeOK, NEW p \in Position, NEW r \in {"done", "failed", "rejected"},
           JournalResult(p, r)
    PROVE  /\ marker' \subseteq Inputs /\ receipts' \in [Inputs -> Nat]
           /\ results' \in [Position -> {"none", "done", "failed", "rejected"}]
  <1>1. {p[1]} \in SUBSET Inputs
    BY DEF Position
  <1>2. results' \in [Position -> {"none", "done", "failed", "rejected"}]
    BY DEF JournalResult, TypeOK
  <1> QED
    BY <1>1, <1>2, ReceiveType DEF JournalResult

\* A requeued row is a row.
LEMMA ResumedType ==
    ASSUME NEW row \in InputRow
    PROVE  Requeued(row) \in InputRow /\ Resumed(row) \in InputRow
  BY DEF Requeued, Resumed, InputRow, InputStatus

LEMMA DelayedType ==
    ASSUME NEW row \in InputRow
    PROVE  [Requeued(row) EXCEPT !.delayed = TRUE] \in InputRow
  BY DEF Requeued, InputRow, InputStatus

LEMMA OutsideType ==
    ASSUME TypeInv, OutsideStep
    PROVE  TypeInv'
  <1>0. TypeOK /\ TurnInputs
    BY DEF TypeInv
  <1>i. inputs \in [Inputs -> InputRow]
    BY <1>0 DEF TypeOK
  <1>o. ops \in [Position -> OpRow]
    BY <1>0 DEF TypeOK
  <1>a. approvals \in [Position -> ApprovalStatus]
    BY <1>0 DEF TypeOK
  <1>1. ASSUME NEW i \in Inputs, SubmitInput(i) PROVE TypeInv'
    <2>1. Cardinality(Admitted) + 1 \in Nat
      BY ConstantsOK, FS_Subset, FS_CardinalityType DEF Admitted
    <2>2. inputs' \in [Inputs -> InputRow]
      BY <1>i, <1>1, <2>1 DEF SubmitInput, InputRow, InputStatus
    <2> QED
      BY <1>0, <1>1, <2>2 DEF SubmitInput, TypeInv, TypeOK, TurnInputs
  <1>2. ASSUME NEW i \in Inputs, BackoffElapses(i) PROVE TypeInv'
    <2>1. inputs' \in [Inputs -> InputRow]
      BY <1>i, <1>2 DEF BackoffElapses, InputRow
    <2> QED
      BY <1>0, <1>2, <2>1 DEF BackoffElapses, TypeInv, TypeOK, TurnInputs
  <1>3. ASSUME NEW d \in Decision, BeginResolve(d) PROVE TypeInv'
    BY <1>0, <1>3 DEF BeginResolve, TypeInv, TypeOK, TurnInputs
  <1>4. ASSUME NEW d \in Decision, ResolveApproval(d) PROVE TypeInv'
    <2>1. d.pos \in Position /\ d.pos[1] \in Inputs /\ d.verdict \in ApprovalStatus
      BY DEF Decision, Position, ApprovalStatus
    <2>2. approvals' \in [Position -> ApprovalStatus]
      BY <1>a, <1>4, <2>1 DEF ResolveApproval
    <2>3. ops' \in [Position -> OpRow]
      BY <1>o, <1>4, <2>1 DEF ResolveApproval, OpRow, OpStatus
    <2>4. inputs' \in [Inputs -> InputRow]
      BY <1>i, <1>4, <2>1, ResumedType DEF ResolveApproval
    <2> QED
      BY <1>0, <1>4, <2>2, <2>3, <2>4
      DEF ResolveApproval, TypeInv, TypeOK, TurnInputs
  <1>5. ASSUME NEW S \in SUBSET Inputs, ResumeWaits(S) PROVE TypeInv'
    <2>1. inputs' \in [Inputs -> InputRow]
      BY <1>i, <1>5, ResumedType DEF ResumeWaits, Unparked
    <2> QED
      BY <1>0, <1>5, <2>1 DEF ResumeWaits, TypeInv, TypeOK, TurnInputs
  <1>6. ASSUME NEW t \in Turns, RecoverNotice(t) PROVE TypeInv'
    BY <1>0, <1>6 DEF RecoverNotice, TypeInv, TypeOK, TurnInputs
  <1> QED
    BY <1>1, <1>2, <1>3, <1>4, <1>5, <1>6 DEF OutsideStep

LEMMA PlacementType ==
    ASSUME TypeInv, PlacementStep
    PROVE  TypeInv'
  <1> USE DEF TypeInv, TypeOK
  <1>1. CASE Seal
    <2>1. inputs' \in [Inputs -> InputRow]
      BY <1>1, ResumedType DEF Seal, Unparked
    <2>2. lease' \in [gen : Nat, holder : Writers \cup {None}, live : BOOLEAN]
      BY <1>1 DEF Seal
    <2> QED
      BY <1>1, <2>1, <2>2 DEF Seal, TurnInputs
  <1>2. CASE Complete
    BY <1>2 DEF Complete, TurnInputs
  <1>3. CASE Abort
    <2>1. lease' \in [gen : Nat, holder : Writers \cup {None}, live : BOOLEAN]
      BY <1>3 DEF Abort
    <2> QED
      BY <1>3, <2>1 DEF Abort, TurnInputs
  <1> QED
    BY <1>1, <1>2, <1>3 DEF PlacementStep

LEMMA TurnType ==
    ASSUME TypeInv, NEW g \in 1 .. MaxGen,
           \/ Recover(g)
           \/ \E t \in Turns, i \in Inputs : LoadTurn(g, t, i)
           \/ \E t \in Turns, round \in 0 .. MaxRounds, d \in Decisions :
                 SavePlan(g, t, round, d)
    PROVE  TypeInv'
  <1>0. TypeOK /\ TurnInputs /\ g \in Nat
    BY ConstantsOK DEF TypeInv
  <1>i. inputs \in [Inputs -> InputRow]
    BY <1>0 DEF TypeOK
  <1>t. turns \in [Turns -> TurnRow]
    BY <1>0 DEF TypeOK
  <1>1. CASE Recover(g)
    <2>1. inputs' \in [Inputs -> InputRow]
      BY <1>i, <1>1, ResumedType DEF Recover
    <2>2. turns' \in [Turns -> TurnRow]
      BY <1>t, <1>1 DEF Recover, TurnRow, TurnStatus
    <2>3. TurnInputs'
      BY <1>0, <1>t, <1>1 DEF Recover, TurnInputs, TurnRow, RunningTurns
    <2> QED
      BY <1>0, <1>1, <2>1, <2>2, <2>3 DEF Recover, TypeInv, TypeOK
  <1>2. ASSUME NEW t \in Turns, NEW i \in Inputs, LoadTurn(g, t, i) PROVE TypeInv'
    <2>1. inputs' \in [Inputs -> InputRow]
      BY <1>0, <1>i, <1>2 DEF LoadTurn, InputRow, InputStatus
    <2>2. turns' \in [Turns -> TurnRow]
      BY <1>0, <1>t, <1>2 DEF LoadTurn, TurnRow, TurnStatus, CommitKind
    <2>3. TurnInputs'
      BY <1>0, <1>t, <1>2 DEF LoadTurn, TurnInputs
    <2> QED
      BY <1>0, <1>2, <2>1, <2>2, <2>3 DEF LoadTurn, TypeInv, TypeOK
  <1>3. ASSUME NEW t \in Turns, NEW round \in 0 .. MaxRounds, NEW d \in Decisions,
               SavePlan(g, t, round, d)
        PROVE  TypeInv'
    <2>1. plan \in [Inputs -> PlanRow] /\ d \in Seq(Call)
      BY <1>0, ConstantsOK DEF TypeOK
    <2>2. turns[t].input \in Inputs
      BY <1>0, <1>3 DEF SavePlan, LiveTurn, TurnInputs
    <2>3. PICK r \in PlanRow : r = plan[turns[t].input]
      BY <2>1, <2>2
    <2>4. [calls |-> r.calls \o d,
           ends |-> Append(r.ends, Len(r.calls) + Len(d))] \in PlanRow
      BY <2>1 DEF PlanRow
    <2>5. plan' \in [Inputs -> PlanRow]
      BY <1>3, <2>1, <2>2, <2>3, <2>4 DEF SavePlan
    <2> QED
      BY <1>0, <1>3, <2>5 DEF SavePlan, TypeInv, TypeOK, TurnInputs
  <1> QED
    BY <1>1, <1>2, <1>3

\* A live turn serves an input, so that the call it claims is a position.
LEMMA ClaimPosition ==
    ASSUME TypeInv, NEW t \in Turns, NEW g, NEW k \in Index, LiveTurn(g, t)
    PROVE  turns[t].input \in Inputs /\ <<turns[t].input, k>> \in Position
  BY DEF TypeInv, TurnInputs, LiveTurn, Position

LEMMA ClaimType ==
    ASSUME TypeInv, NEW g \in 1 .. MaxGen, NEW t \in Turns, ClaimStep(g, t)
    PROVE  TypeInv'
  <1>0. TypeOK /\ TurnInputs /\ g \in Nat
    BY ConstantsOK DEF TypeInv
  <1>o. ops \in [Position -> OpRow]
    BY <1>0 DEF TypeOK
  <1>a. approvals \in [Position -> ApprovalStatus]
    BY <1>0 DEF TypeOK
  <1>e. effects \in [Position -> Nat]
    BY <1>0 DEF TypeOK
  <1>1. PICK k \in Index :
            \/ ClaimRefused(g, t, k) \/ ClaimNormal(g, t, k)
            \/ ClaimRejected(g, t, k) \/ ClaimParks(g, t, k)
            \/ ClaimApproved(g, t, k) \/ ClaimReplayed(g, t, k)
    BY DEF ClaimStep
  <1> DEFINE p == <<turns[t].input, k>>
  <1>2. LiveTurn(g, t)
    BY <1>1 DEF ClaimRefused, ClaimNormal, ClaimRejected, ClaimParks,
                ClaimApproved, ClaimReplayed, Claimable, Planned
  <1>3. turns[t].input \in Inputs /\ p \in Position /\ p[1] = turns[t].input
    BY <1>2, ClaimPosition
  <1> HIDE DEF p
  <1>4. ASSUME NEW s \in OpStatus, Settle(p, g, s) PROVE ops' \in [Position -> OpRow]
    BY <1>0, <1>o, <1>3, <1>4 DEF Settle, OpRow
  <1>5. Apply(p) => effects' \in [Position -> Nat]
    BY <1>e, <1>3 DEF Apply
  <1>6. CASE ClaimRefused(g, t, k)
    <2>1. Settle(p, g, "failed") /\ JournalResult(p, "failed")
      BY <1>6 DEF ClaimRefused, p
    <2>2. ops' \in [Position -> OpRow]
      BY <1>4, <2>1 DEF OpStatus
    <2> QED
      BY <1>0, <1>3, <1>6, <2>1, <2>2, JournalType
      DEF ClaimRefused, TypeInv, TypeOK, TurnInputs
  <1>7. CASE ClaimNormal(g, t, k)
    <2>1. Settle(p, g, "done") /\ JournalResult(p, "done") /\ Apply(p)
      BY <1>7 DEF ClaimNormal, p
    <2>2. ops' \in [Position -> OpRow]
      BY <1>4, <2>1 DEF OpStatus
    <2> QED
      BY <1>0, <1>3, <1>5, <1>7, <2>1, <2>2, JournalType
      DEF ClaimNormal, TypeInv, TypeOK, TurnInputs
  <1>8. CASE ClaimRejected(g, t, k)
    <2>1. JournalResult(p, "rejected")
      BY <1>8 DEF ClaimRejected, p
    <2> QED
      BY <1>0, <1>3, <1>8, <2>1, JournalType
      DEF ClaimRejected, TypeInv, TypeOK, TurnInputs
  <1>9. CASE ClaimParks(g, t, k)
    <2>1. ops' \in [Position -> OpRow]
      BY <1>4, <1>9 DEF ClaimParks, OpStatus, p
    <2>2. approvals' \in [Position -> ApprovalStatus]
      BY <1>a, <1>3, <1>9 DEF ClaimParks, ApprovalStatus, p
    <2>3. /\ marker' \subseteq Inputs /\ receipts' \in [Inputs -> Nat]
          /\ results' \in [Position -> {"none", "done", "failed", "rejected"}]
      <3>1. CASE JournalResult(p, "failed")
        BY <1>0, <1>3, <3>1, JournalType
      <3>2. CASE Receive({p[1]}) /\ UNCHANGED results
        BY <1>0, <1>3, <3>2, ReceiveType DEF TypeOK
      <3> QED
        BY <1>9, <3>1, <3>2 DEF ClaimParks, p
    <2> QED
      BY <1>0, <1>9, <2>1, <2>2, <2>3 DEF ClaimParks, TypeInv, TypeOK, TurnInputs
  <1>10. CASE ClaimApproved(g, t, k)
    <2>1. ops' \in [Position -> OpRow]
      BY <1>o, <1>3, <1>10 DEF ClaimApproved, OpRow, OpStatus, p
    <2>2. consumed' \subseteq Position
      BY <1>0, <1>3, <1>10 DEF ClaimApproved, TypeOK, p
    <2>3. effects' \in [Position -> Nat]
      BY <1>e, <1>5, <1>10 DEF ClaimApproved, p
    <2>4. JournalResult(p, "done") \/ JournalResult(p, "failed")
      BY <1>10 DEF ClaimApproved, p
    <2> QED
      BY <1>0, <1>3, <1>10, <2>1, <2>2, <2>3, <2>4, JournalType
      DEF ClaimApproved, TypeInv, TypeOK, TurnInputs
  <1>11. CASE ClaimReplayed(g, t, k)
    <2>1. JournalResult(p, ops[p].status) /\ ops[p].status \in {"done", "failed"}
      BY <1>11 DEF ClaimReplayed, p
    <2> QED
      BY <1>0, <1>3, <1>11, <2>1, JournalType
      DEF ClaimReplayed, TypeInv, TypeOK, TurnInputs
  <1> QED
    BY <1>1, <1>6, <1>7, <1>8, <1>9, <1>10, <1>11

LEMMA CommitType ==
    ASSUME TypeInv, NEW g \in 1 .. MaxGen, NEW t \in Turns, CommitStep(g, t)
    PROVE  TypeInv'
  <1>0. TypeOK /\ TurnInputs
    BY DEF TypeInv
  <1>i. inputs \in [Inputs -> InputRow]
    BY <1>0 DEF TypeOK
  <1>t. turns \in [Turns -> TurnRow]
    BY <1>0 DEF TypeOK
  <1>m. terminal \in [Inputs -> Seq({"turn_completed", "turn_failed"})]
    BY <1>0 DEF TypeOK
  <1> DEFINE i == turns[t].input
  <1>1. ASSUME NEW R \in SUBSET Inputs, NEW s \in TurnStatus, NEW c \in CommitKind,
               Committing(g, t, R, s, c)
        PROVE  /\ turns' \in [Turns -> TurnRow] /\ TurnInputs' /\ i \in Inputs
               /\ marker' \subseteq Inputs /\ receipts' \in [Inputs -> Nat]
    <2>1. i \in Inputs
      BY <1>0, <1>1 DEF Committing, LiveTurn, TurnInputs
    <2>2. turns' \in [Turns -> TurnRow]
      BY <1>t, <1>1 DEF Committing, TurnRow
    <2>3. TurnInputs'
      BY <1>0, <1>t, <1>1, <2>1 DEF Committing, TurnInputs, TurnRow
    <2> QED
      BY <1>0, <1>1, <2>1, <2>2, <2>3, ReceiveType DEF Committing
  <1>2. ASSUME NEW s \in InputStatus, i \in Inputs
        PROVE  [inputs EXCEPT ![i].status = s] \in [Inputs -> InputRow]
    BY <1>i, <1>2 DEF InputRow
  <1>3. ASSUME NEW r \in {"turn_completed", "turn_failed"}, i \in Inputs
        PROVE  [terminal EXCEPT ![i] = Append(@, r)]
                 \in [Inputs -> Seq({"turn_completed", "turn_failed"})]
    BY <1>m, <1>3
  <1>4. i \in Inputs => /\ Resumed(inputs[i]) \in InputRow
                        /\ [Requeued(inputs[i]) EXCEPT !.delayed = TRUE] \in InputRow
    BY <1>i, ResumedType, DelayedType
  <1>5. ASSUME NEW R \in SUBSET Inputs, CommitComplete(g, t, R) PROVE TypeInv'
    <2>1. Committing(g, t, R, "done", "complete")
      BY <1>5 DEF CommitComplete
    <2>2. /\ turns' \in [Turns -> TurnRow] /\ TurnInputs' /\ i \in Inputs
          /\ marker' \subseteq Inputs /\ receipts' \in [Inputs -> Nat]
      BY <1>1, <2>1 DEF TurnStatus, CommitKind
    <2>3. inputs' \in [Inputs -> InputRow]
      BY <1>2, <1>5, <2>2 DEF CommitComplete, InputStatus
    <2>4. terminal' \in [Inputs -> Seq({"turn_completed", "turn_failed"})]
      BY <1>3, <1>5, <2>2 DEF CommitComplete
    <2> QED
      BY <1>0, <1>5, <2>2, <2>3, <2>4 DEF CommitComplete, TypeInv, TypeOK
  <1>6. ASSUME NEW R \in SUBSET Inputs, CommitRetry(g, t, R) PROVE TypeInv'
    <2>1. Committing(g, t, R, "failed", "retry")
      BY <1>6 DEF CommitRetry
    <2>2. /\ turns' \in [Turns -> TurnRow] /\ TurnInputs' /\ i \in Inputs
          /\ marker' \subseteq Inputs /\ receipts' \in [Inputs -> Nat]
      BY <1>1, <2>1 DEF TurnStatus, CommitKind
    <2>3. inputs' \in [Inputs -> InputRow]
      BY <1>i, <1>4, <1>6, <2>2 DEF CommitRetry
    <2> QED
      BY <1>0, <1>6, <2>2, <2>3 DEF CommitRetry, TypeInv, TypeOK
  <1>7. ASSUME NEW R \in SUBSET Inputs, CommitFail(g, t, R) PROVE TypeInv'
    <2>1. Committing(g, t, R, "failed", "fail")
      BY <1>7 DEF CommitFail
    <2>2. /\ turns' \in [Turns -> TurnRow] /\ TurnInputs' /\ i \in Inputs
          /\ marker' \subseteq Inputs /\ receipts' \in [Inputs -> Nat]
      BY <1>1, <2>1 DEF TurnStatus, CommitKind
    <2>3. inputs' \in [Inputs -> InputRow]
      BY <1>2, <1>7, <2>2 DEF CommitFail, InputStatus
    <2>4. terminal' \in [Inputs -> Seq({"turn_completed", "turn_failed"})]
      BY <1>3, <1>7, <2>2 DEF CommitFail
    <2>5. noticed' \subseteq Inputs
      BY <1>0, <1>7, <2>2 DEF CommitFail, TypeOK
    <2> QED
      BY <1>0, <1>7, <2>2, <2>3, <2>4, <2>5 DEF CommitFail, TypeInv, TypeOK
  <1>8. ASSUME NEW R \in SUBSET Inputs, CommitAwait(g, t, R) PROVE TypeInv'
    <2>1. Committing(g, t, R, "awaiting", "await")
      BY <1>8 DEF CommitAwait
    <2>2. /\ turns' \in [Turns -> TurnRow] /\ TurnInputs' /\ i \in Inputs
          /\ marker' \subseteq Inputs /\ receipts' \in [Inputs -> Nat]
      BY <1>1, <2>1 DEF TurnStatus, CommitKind
    <2>3. inputs' \in [Inputs -> InputRow]
      <3>1. [inputs EXCEPT ![i] = Resumed(inputs[i])] \in [Inputs -> InputRow]
        BY <1>i, <1>4, <2>2
      <3>2. [inputs EXCEPT ![i].status = "waiting"] \in [Inputs -> InputRow]
        BY <1>2, <2>2 DEF InputStatus
      <3> QED
        BY <1>8, <3>1, <3>2 DEF CommitAwait
    <2> QED
      BY <1>0, <1>8, <2>2, <2>3 DEF CommitAwait, TypeInv, TypeOK
  <1>9. ASSUME NEW R \in SUBSET Inputs, CommitBudgetWait(g, t, R) PROVE TypeInv'
    <2>1. Committing(g, t, R, "awaiting", "await")
      BY <1>9 DEF CommitBudgetWait
    <2>2. /\ turns' \in [Turns -> TurnRow] /\ TurnInputs' /\ i \in Inputs
          /\ marker' \subseteq Inputs /\ receipts' \in [Inputs -> Nat]
      BY <1>1, <2>1 DEF TurnStatus, CommitKind
    <2>3. inputs' \in [Inputs -> InputRow]
      <3>1. [inputs EXCEPT ![i] = Resumed(inputs[i])] \in [Inputs -> InputRow]
        BY <1>i, <1>4, <2>2
      <3>2. [inputs EXCEPT ![i].status = "waiting"] \in [Inputs -> InputRow]
        BY <1>2, <2>2 DEF InputStatus
      <3> QED
        BY <1>9, <3>1, <3>2 DEF CommitBudgetWait
    <2>4. budgetWait' \subseteq Inputs
      BY <1>0, <1>9, <2>2 DEF CommitBudgetWait, TypeOK
    <2> QED
      BY <1>0, <1>9, <2>2, <2>3, <2>4 DEF CommitBudgetWait, TypeInv, TypeOK
  <1>10. ASSUME ReplayFail(g, t) PROVE TypeInv'
    BY <1>0, <1>10 DEF ReplayFail, TypeInv, TypeOK, TurnInputs
  <1> QED
    BY <1>5, <1>6, <1>7, <1>8, <1>9, <1>10 DEF CommitStep

LEMMA TypeStep == TypeInv /\ [Next]_vars => TypeInv'
  <1> SUFFICES ASSUME TypeInv, [Next]_vars PROVE TypeInv'
    OBVIOUS
  <1>1. CASE CoreStep
    <2>1. PICK g \in 1 .. MaxGen :
             \/ Recover(g)
             \/ \E t \in Turns :
                   \/ \E i \in Inputs : LoadTurn(g, t, i)
                   \/ \E round \in 0 .. MaxRounds, d \in Decisions :
                         SavePlan(g, t, round, d)
                   \/ ClaimStep(g, t)
                   \/ CommitStep(g, t)
      BY <1>1 DEF CoreStep
    <2> QED
      BY <2>1, TurnType, ClaimType, CommitType
  <1>2. CASE UNCHANGED vars
    BY <1>2 DEF vars, TypeInv, TypeOK, TurnInputs
  <1> QED
    BY <1>1, <1>2, LeaseType, OutsideType, PlacementType DEF Next

\* Every reachable state has the types of TypeOK, however many inputs, turns,
\* writers, calls and generations there are (all operations of the store).
THEOREM TypeCorrect == Spec => []TypeOK
  <1>1. TypeInv => TypeOK
    BY DEF TypeInv
  <1> QED
    BY <1>1, TypeInit, TypeStep, PTL DEF Spec

-----------------------------------------------------------------------------
(* The ledger: operations, approvals and effects of one position *)

\* What ties the operation, the approval and the effect of a call together.
\* EffectOnce and EffectConsented alone are not inductive: a claim decides on
\* the operation and the approval, so their joint lifecycle must be known, and
\* that a recorded operation names a planned call, whose route never changes.
LedgerAt(p) ==
    /\ ops[p].status # "absent" => p[2] <= Len(plan[p[1]].calls)
    /\ approvals[p] # "absent" => ops[p].status # "absent" /\ Gated(p)
    /\ approvals[p] = "absent" =>
          ops[p].status # "awaiting_approval" /\ p \notin consumed
    /\ approvals[p] = "pending" =>
          ops[p].status = "awaiting_approval" /\ p \notin consumed
    /\ approvals[p] = "approved" =>
          IF p \in consumed THEN ops[p].status \in {"done", "failed"}
                                   ELSE ops[p].status = "awaiting_approval"
    /\ approvals[p] = "denied" =>
          ops[p].status = "failed" /\ p \notin consumed
    /\ effects[p] = IF ops[p].status = "done" THEN 1 ELSE 0
    /\ ops[p].status = "done" /\ Gated(p) => approvals[p] = "approved"

LedgerInv == \A p \in Position : LedgerAt(p)

LEMMA LedgerInit == Init => LedgerInv
  BY DEF Init, LedgerInv, LedgerAt

\* A position whose rows and plan do not change keeps its ledger.
LEMMA LedgerFrame ==
    ASSUME NEW p \in Position, LedgerAt(p),
           ops'[p] = ops[p], approvals'[p] = approvals[p], effects'[p] = effects[p],
           p \in consumed' <=> p \in consumed, plan'[p[1]] = plan[p[1]]
    PROVE  LedgerAt(p)'
  BY DEF LedgerAt, Gated, CallAt

LEMMA LedgerClaim ==
    ASSUME TypeInv, LedgerInv, NEW g \in 1 .. MaxGen, NEW t \in Turns, ClaimStep(g, t)
    PROVE  LedgerInv'
  <1>0. /\ ops \in [Position -> OpRow] /\ approvals \in [Position -> ApprovalStatus]
        /\ effects \in [Position -> Nat]
    BY DEF TypeInv, TypeOK
  <1>1. PICK k \in Index :
            \/ ClaimRefused(g, t, k) \/ ClaimNormal(g, t, k)
            \/ ClaimRejected(g, t, k) \/ ClaimParks(g, t, k)
            \/ ClaimApproved(g, t, k) \/ ClaimReplayed(g, t, k)
    BY DEF ClaimStep
  <1>2. LiveTurn(g, t) /\ k <= Len(plan[turns[t].input].calls)
    BY <1>1 DEF ClaimRefused, ClaimNormal, ClaimRejected, ClaimParks,
                ClaimApproved, ClaimReplayed, Claimable, Planned
  <1>3. PICK c \in Position : c = <<turns[t].input, k>>
    BY <1>2, ClaimPosition
  <1>4. UNCHANGED plan
    BY <1>1 DEF ClaimRefused, ClaimNormal, ClaimRejected, ClaimParks,
                ClaimApproved, ClaimReplayed
  <1>5. c[2] <= Len(plan[c[1]].calls)
    BY <1>2, <1>3
  <1>6. LedgerAt(c)
    BY <1>3 DEF LedgerInv
  <1>7. Gated(c)' <=> Gated(c)
    BY <1>4 DEF Gated, CallAt
  <1>8. ASSUME NEW p \in Position, p # c PROVE LedgerAt(p)'
    <2>1. /\ ops'[p] = ops[p] /\ approvals'[p] = approvals[p]
          /\ effects'[p] = effects[p] /\ (p \in consumed' <=> p \in consumed)
      BY <1>0, <1>1, <1>3, <1>8
      DEF ClaimRefused, ClaimNormal, ClaimRejected, ClaimParks, ClaimApproved,
          ClaimReplayed, Settle, Apply
    <2> QED
      BY <1>4, <2>1, LedgerFrame DEF LedgerInv
  <1>9. LedgerAt(c)'
    <2>1. CASE ClaimRefused(g, t, k)
      <3>1. /\ ops[c].status = "absent" /\ ops'[c].status = "failed"
            /\ approvals'[c] = approvals[c] /\ effects'[c] = effects[c]
            /\ consumed' = consumed
        BY <1>0, <1>3, <2>1 DEF ClaimRefused, Settle
      <3> QED
        BY <1>4, <1>5, <1>6, <1>7, <3>1 DEF LedgerAt
    <2>2. CASE ClaimNormal(g, t, k)
      <3>1. /\ ops[c].status = "absent" /\ ops'[c].status = "done" /\ ~Gated(c)
            /\ approvals'[c] = approvals[c] /\ effects'[c] = effects[c] + 1
            /\ consumed' = consumed
        BY <1>0, <1>3, <2>2 DEF ClaimNormal, MayRun, Settle, Apply
      <3> QED
        BY <1>4, <1>5, <1>6, <1>7, <3>1 DEF LedgerAt
    <2>3. CASE ClaimRejected(g, t, k) \/ ClaimReplayed(g, t, k)
      BY <1>3, <1>4, <1>6, <2>3, LedgerFrame DEF ClaimRejected, ClaimReplayed
    <2>4. CASE ClaimParks(g, t, k)
      <3>1. /\ ops[c].status = "absent" /\ Gated(c) /\ effects'[c] = effects[c]
            /\ \/ ops'[c].status = "failed" /\ approvals'[c] = approvals[c]
               \/ ops'[c].status = "awaiting_approval" /\ approvals'[c] = "pending"
            /\ consumed' = consumed
        BY <1>0, <1>3, <2>4 DEF ClaimParks, Settle
      <3> QED
        BY <1>4, <1>5, <1>6, <1>7, <3>1 DEF LedgerAt
    <2>5. CASE ClaimApproved(g, t, k)
      <3>1. /\ ops[c].status = "awaiting_approval" /\ approvals[c] = "approved"
            /\ approvals'[c] = "approved" /\ c \in consumed'
            /\ \/ ops'[c].status = "failed" /\ effects'[c] = effects[c]
               \/ ops'[c].status = "done" /\ effects'[c] = effects[c] + 1
        BY <1>0, <1>3, <2>5 DEF ClaimApproved, Apply, OpRow
      <3> QED
        BY <1>4, <1>5, <1>6, <1>7, <3>1 DEF LedgerAt
    <2> QED
      BY <1>1, <2>1, <2>2, <2>3, <2>4, <2>5
  <1> QED
    BY <1>8, <1>9 DEF LedgerInv

LEMMA LedgerResolve ==
    ASSUME TypeInv, LedgerInv, NEW d \in Decision, ResolveApproval(d)
    PROVE  LedgerInv'
  <1>0. /\ ops \in [Position -> OpRow] /\ approvals \in [Position -> ApprovalStatus]
        /\ d.pos \in Position /\ d.verdict \in {"approved", "denied"}
    BY DEF TypeInv, TypeOK, Decision
  <1>1. UNCHANGED <<plan, effects, consumed>>
    BY DEF ResolveApproval
  <1>2. ASSUME NEW p \in Position, p # d.pos PROVE LedgerAt(p)'
    <2>1. ops'[p] = ops[p] /\ approvals'[p] = approvals[p]
      BY <1>0, <1>2 DEF ResolveApproval
    <2> QED
      BY <1>1, <2>1, LedgerFrame DEF LedgerInv
  <1>3. LedgerAt(d.pos)'
    <2>1. LedgerAt(d.pos)
      BY <1>0 DEF LedgerInv
    <2>2. CASE UNCHANGED <<approvals, ops>>
      BY <1>0, <1>1, <2>1, <2>2, LedgerFrame
    <2>3. CASE approvals[d.pos] = "pending"
      <3>1. /\ approvals'[d.pos] = d.verdict
            /\ ops'[d.pos].status = IF d.verdict = "denied" THEN "failed"
                                    ELSE ops[d.pos].status
        BY <1>0, <2>3 DEF ResolveApproval, OpRow
      <3>2. Gated(d.pos)' <=> Gated(d.pos)
        BY <1>1 DEF Gated, CallAt
      <3> QED
        BY <1>0, <1>1, <2>1, <2>3, <3>1, <3>2 DEF LedgerAt
    <2> QED
      BY <2>2, <2>3 DEF ResolveApproval
  <1> QED
    BY <1>2, <1>3 DEF LedgerInv

\* Rounds are only appended: a planned call stays the call it was.
LEMMA PlanGrows ==
    ASSUME TypeInv, NEW g, NEW t \in Turns, NEW round, NEW d \in Decisions,
           SavePlan(g, t, round, d), NEW i \in Inputs
    PROVE  /\ Len(plan[i].calls) <= Len(plan'[i].calls)
           /\ \A k \in 1 .. Len(plan[i].calls) : plan'[i].calls[k] = plan[i].calls[k]
  <1>1. plan \in [Inputs -> PlanRow] /\ d \in Seq(Call)
    BY ConstantsOK DEF TypeInv, TypeOK
  <1>2. plan[i].calls \in Seq(Call)
    BY <1>1 DEF PlanRow
  <1>3. plan'[i].calls = plan[i].calls \/ plan'[i].calls = plan[i].calls \o d
    BY <1>1 DEF SavePlan
  <1> QED
    BY <1>1, <1>2, <1>3

LEMMA LedgerPlan ==
    ASSUME TypeInv, LedgerInv, NEW g, NEW t \in Turns, NEW round,
           NEW d \in Decisions, SavePlan(g, t, round, d)
    PROVE  LedgerInv'
  <1> SUFFICES ASSUME NEW p \in Position PROVE LedgerAt(p)'
    BY DEF LedgerInv
  <1>1. LedgerAt(p) /\ p[1] \in Inputs /\ p[2] \in Nat \ {0}
    BY ConstantsOK DEF LedgerInv, Position, Index
  <1>2. plan[p[1]].calls \in Seq(Call) /\ plan'[p[1]].calls \in Seq(Call)
    <2>1. plan \in [Inputs -> PlanRow] /\ d \in Seq(Call)
      BY ConstantsOK DEF TypeInv, TypeOK
    <2>2. plan[p[1]].calls \in Seq(Call)
      BY <1>1, <2>1 DEF PlanRow
    <2>3. \/ plan'[p[1]].calls = plan[p[1]].calls
          \/ plan'[p[1]].calls = plan[p[1]].calls \o d
      BY <1>1, <2>1 DEF SavePlan
    <2>4. plan[p[1]].calls \o d \in Seq(Call)
      BY <2>1, <2>2
    <2> QED
      BY <2>2, <2>3, <2>4
  <1>3. ASSUME p[2] <= Len(plan[p[1]].calls)
        PROVE  p[2] <= Len(plan'[p[1]].calls) /\ CallAt(p)' = CallAt(p)
    <2>1. p[2] \in 1 .. Len(plan[p[1]].calls)
      BY <1>1, <1>2, <1>3
    <2>2. /\ Len(plan[p[1]].calls) <= Len(plan'[p[1]].calls)
          /\ plan'[p[1]].calls[p[2]] = plan[p[1]].calls[p[2]]
      BY <1>1, <2>1, PlanGrows
    <2>3. p[2] <= Len(plan'[p[1]].calls)
      BY <1>1, <1>2, <1>3, <2>2
    <2> QED
      BY <2>2, <2>3 DEF CallAt
  <1>4. UNCHANGED <<ops, approvals, consumed, effects>>
    BY DEF SavePlan
  <1> QED
    BY <1>1, <1>3, <1>4 DEF LedgerAt, Gated

LEMMA LedgerStep == TypeInv /\ LedgerInv /\ [Next]_vars => LedgerInv'
  <1> SUFFICES ASSUME TypeInv, LedgerInv, [Next]_vars PROVE LedgerInv'
    OBVIOUS
  <1>1. ASSUME UNCHANGED <<ops, approvals, consumed, effects, plan>> PROVE LedgerInv'
    BY <1>1, LedgerFrame DEF LedgerInv
  <1>2. CASE LeaseStep
    BY <1>1, <1>2 DEF LeaseStep, AcquireWriter, RenewWriter, ReleaseWriter
  <1>3. CASE PlacementStep
    BY <1>1, <1>3 DEF PlacementStep, Seal, Complete, Abort
  <1>4. CASE OutsideStep
    BY <1>1, <1>4, LedgerResolve
    DEF OutsideStep, SubmitInput, BackoffElapses, BeginResolve, ResumeWaits,
        RecoverNotice
  <1>5. CASE CoreStep
    <2>1. PICK g \in 1 .. MaxGen :
             \/ Recover(g)
             \/ \E t \in Turns :
                   \/ \E i \in Inputs : LoadTurn(g, t, i)
                   \/ \E round \in 0 .. MaxRounds, d \in Decisions :
                         SavePlan(g, t, round, d)
                   \/ ClaimStep(g, t)
                   \/ CommitStep(g, t)
      BY <1>5 DEF CoreStep
    <2>2. CASE Recover(g)
      BY <1>1, <2>2 DEF Recover
    <2>3. ASSUME NEW t \in Turns, \E i \in Inputs : LoadTurn(g, t, i) PROVE LedgerInv'
      BY <1>1, <2>3 DEF LoadTurn
    <2>4. ASSUME NEW t \in Turns, CommitStep(g, t) PROVE LedgerInv'
      BY <1>1, <2>4 DEF CommitStep, CommitComplete, CommitRetry, CommitFail,
                        CommitAwait, CommitBudgetWait, ReplayFail
    <2> QED
      BY <2>1, <2>2, <2>3, <2>4, LedgerPlan, LedgerClaim
  <1>6. CASE UNCHANGED vars
    BY <1>1, <1>6 DEF vars
  <1> QED
    BY <1>2, <1>3, <1>4, <1>5, <1>6 DEF Next

LEMMA LedgerAlways == Spec => [](TypeInv /\ LedgerInv)
  BY TypeInit, TypeStep, LedgerInit, LedgerStep, PTL DEF Spec

\* However often a call is claimed, by whichever turn and generation, its effect
\* is applied once and exactly when the operation ledger says so.
THEOREM EffectsApplyOnce == Spec => []EffectOnce
  <1>1. TypeInv /\ LedgerInv => EffectOnce
    BY DEF LedgerInv, LedgerAt, EffectOnce
  <1> QED
    BY <1>1, LedgerAlways, PTL

\* No elevated call takes effect without a grant for its own position, and the
\* grant is then spent.
THEOREM EffectsConsented == Spec => []EffectConsented
  <1>1. TypeInv /\ LedgerInv => EffectConsented
    BY DEF LedgerInv, LedgerAt, EffectConsented
  <1> QED
    BY <1>1, LedgerAlways, PTL

-----------------------------------------------------------------------------
(* The queue: inputs and the turns that serve them *)

\* A running turn holds its input under its own generation.
TurnHolds(t) ==
    turns[t].status = "running" =>
        /\ inputs[turns[t].input].status = "claimed"
        /\ inputs[turns[t].input].turn = t
        /\ inputs[turns[t].input].gen = turns[t].gen

\* A claimed input names the running turn that serves it, a finished one the
\* turn that finished it, and a parked one waits for something.
InputHeld(i) ==
    /\ inputs[i].status = "claimed" =>
          /\ inputs[i].turn \in RunningTurns
          /\ turns[inputs[i].turn].input = i
    /\ inputs[i].status = "done" =>
          /\ inputs[i].turn \in Turns
          /\ turns[inputs[i].turn].status \in {"done", "failed"}
    /\ inputs[i].status = "waiting" => PendingOf(i) # {} \/ i \in budgetWait

QueueInv ==
    /\ OneRunningTurn
    /\ \A t \in Turns : TurnHolds(t)
    /\ \A i \in Inputs : InputHeld(i)

LEMMA QueueInit == Init => QueueInv
  BY DEF Init, QueueInv, OneRunningTurn, RunningTurns, TurnHolds, InputHeld

\* What the queue rests on: a step that only adds pending approvals keeps it.
LEMMA QueueFrame ==
    ASSUME QueueInv, UNCHANGED <<inputs, turns, budgetWait>>,
           \A i \in Inputs : PendingOf(i) # {} => PendingOf(i)' # {}
    PROVE  QueueInv'
  BY DEF QueueInv, OneRunningTurn, RunningTurns, TurnHolds, InputHeld

\* A step that moves no turn keeps the queue if every input it changes keeps
\* its claim, or is neither claimed nor finished nor left parked for nothing.
LEMMA QueueInputs ==
    ASSUME TypeInv, QueueInv, UNCHANGED turns, inputs' \in [Inputs -> InputRow],
           \A i \in Inputs :
              \/ /\ inputs'[i].status = inputs[i].status
                 /\ inputs'[i].turn = inputs[i].turn
                 /\ inputs'[i].gen = inputs[i].gen
                 /\ inputs[i].status = "waiting" =>
                       PendingOf(i)' # {} \/ i \in budgetWait'
              \/ /\ inputs[i].status \in {"absent", "queued", "waiting"}
                 /\ inputs'[i].status = "queued"
    PROVE  QueueInv'
  <1>1. OneRunningTurn'
    BY DEF QueueInv, OneRunningTurn, RunningTurns
  <1>2. ASSUME NEW t \in Turns PROVE TurnHolds(t)'
    <2>1. TurnHolds(t)
      BY DEF QueueInv
    <2>2. turns[t].status = "running" => turns[t].input \in Inputs
      BY DEF TypeInv, TurnInputs
    <2> QED
      BY <2>1, <2>2 DEF TurnHolds
  <1>3. ASSUME NEW i \in Inputs PROVE InputHeld(i)'
    <2>1. InputHeld(i)
      BY DEF QueueInv
    <2> QED
      BY <2>1 DEF InputHeld, RunningTurns
  <1> QED
    BY <1>1, <1>2, <1>3 DEF QueueInv

LEMMA QueueOutside ==
    ASSUME TypeInv, TypeInv', QueueInv, OutsideStep
    PROVE  QueueInv'
  <1>0. /\ inputs \in [Inputs -> InputRow] /\ inputs' \in [Inputs -> InputRow]
        /\ approvals \in [Position -> ApprovalStatus]
    BY DEF TypeInv, TypeOK
  <1>h. ASSUME NEW i \in Inputs
        PROVE  inputs[i].status = "waiting" => PendingOf(i) # {} \/ i \in budgetWait
    BY DEF QueueInv, InputHeld
  <1>1. ASSUME NEW i \in Inputs, SubmitInput(i) PROVE QueueInv'
    <2>1. ASSUME NEW j \in Inputs
          PROVE  \/ inputs'[j] = inputs[j]
                 \/ inputs[j].status = "absent" /\ inputs'[j].status = "queued"
      BY <1>0, <1>1 DEF SubmitInput, InputRow
    <2> QED
      BY <1>0, <1>1, <1>h, <2>1, QueueInputs DEF SubmitInput, PendingOf
  <1>2. ASSUME NEW i \in Inputs, BackoffElapses(i) PROVE QueueInv'
    <2>1. ASSUME NEW j \in Inputs
          PROVE  /\ inputs'[j].status = inputs[j].status
                 /\ inputs'[j].turn = inputs[j].turn
                 /\ inputs'[j].gen = inputs[j].gen
      BY <1>0, <1>2 DEF BackoffElapses, InputRow
    <2> QED
      BY <1>0, <1>2, <1>h, <2>1, QueueInputs DEF BackoffElapses, PendingOf
  <1>3. ASSUME NEW d \in Decision, BeginResolve(d) PROVE QueueInv'
    BY <1>3, QueueFrame DEF BeginResolve, PendingOf
  <1>4. ASSUME NEW d \in Decision, ResolveApproval(d) PROVE QueueInv'
    <2>0. d.pos \in Position /\ d.pos[1] \in Inputs
      BY DEF Decision, Position
    <2>1. CASE approvals[d.pos] # "pending"
      BY <1>4, <2>1, QueueFrame DEF ResolveApproval, PendingOf
    <2>2. CASE approvals[d.pos] = "pending"
      <3>1. approvals' = [approvals EXCEPT ![d.pos] = d.verdict]
        BY <1>4, <2>2 DEF ResolveApproval
      <3>2. inputs' = IF inputs[d.pos[1]].status = "waiting"
                      THEN [inputs EXCEPT ![d.pos[1]] = Resumed(@)] ELSE inputs
        BY <1>4, <2>2 DEF ResolveApproval
      <3>3. UNCHANGED <<turns, budgetWait>>
        BY <1>4 DEF ResolveApproval
      <3>4. ASSUME NEW j \in Inputs, j # d.pos[1] PROVE PendingOf(j)' = PendingOf(j)
        <4>1. ASSUME NEW k \in Index PROVE approvals'[<<j, k>>] = approvals[<<j, k>>]
          <5>1. <<j, k>> \in Position /\ <<j, k>> # d.pos
            BY <3>4 DEF Position
          <5> QED
            BY <1>0, <3>1, <5>1
        <4> QED
          BY <4>1 DEF PendingOf
      <3>5. ASSUME NEW j \in Inputs
            PROVE  \/ inputs'[j] = inputs[j] /\ (j # d.pos[1] \/ inputs[j].status # "waiting")
                   \/ inputs[j].status = "waiting" /\ inputs'[j].status = "queued"
        BY <1>0, <2>0, <3>2 DEF Resumed, Requeued, InputRow
      <3> QED
        BY <1>0, <1>h, <3>3, <3>4, <3>5, QueueInputs
    <2> QED
      BY <2>1, <2>2
  <1>5. ASSUME NEW S \in SUBSET Inputs, ResumeWaits(S) PROVE QueueInv'
    <2>1. ASSUME NEW j \in Inputs
          PROVE  \/ inputs'[j] = inputs[j] /\ (j \notin S \/ PendingOf(j) # {} \/ inputs[j].status # "waiting")
                 \/ inputs[j].status = "waiting" /\ inputs'[j].status = "queued"
      BY <1>0, <1>5 DEF ResumeWaits, Unparked, Resumed, Requeued, InputRow
    <2>2. /\ budgetWait' = budgetWait \ S /\ UNCHANGED turns
          /\ \A j \in Inputs : PendingOf(j)' = PendingOf(j)
      BY <1>5 DEF ResumeWaits, PendingOf
    <2> QED
      BY <1>0, <1>h, <2>1, <2>2, QueueInputs
  <1>6. ASSUME NEW t \in Turns, RecoverNotice(t) PROVE QueueInv'
    BY <1>6, QueueFrame DEF RecoverNotice, PendingOf
  <1> QED
    BY <1>1, <1>2, <1>3, <1>4, <1>5, <1>6 DEF OutsideStep

LEMMA QueuePlacement ==
    ASSUME TypeInv, TypeInv', QueueInv, PlacementStep
    PROVE  QueueInv'
  <1>0. inputs \in [Inputs -> InputRow] /\ inputs' \in [Inputs -> InputRow]
    BY DEF TypeInv, TypeOK
  <1>h. ASSUME NEW i \in Inputs
        PROVE  inputs[i].status = "waiting" => PendingOf(i) # {} \/ i \in budgetWait
    BY DEF QueueInv, InputHeld
  <1>1. CASE Seal
    <2>1. ASSUME NEW j \in Inputs
          PROVE  \/ /\ inputs'[j] = inputs[j]
                    /\ \/ j \notin budgetWait \/ PendingOf(j) # {}
                       \/ inputs[j].status # "waiting"
                 \/ inputs[j].status = "waiting" /\ inputs'[j].status = "queued"
      BY <1>0, <1>1 DEF Seal, Unparked, Resumed, Requeued, InputRow
    <2>2. UNCHANGED turns /\ \A j \in Inputs : PendingOf(j)' = PendingOf(j)
      BY <1>1 DEF Seal, PendingOf
    <2> QED
      BY <1>0, <1>h, <2>1, <2>2, QueueInputs
  <1>2. CASE Complete \/ Abort
    BY <1>2, QueueFrame DEF Complete, Abort, PendingOf
  <1> QED
    BY <1>1, <1>2 DEF PlacementStep

LEMMA QueueClaim ==
    ASSUME TypeInv, QueueInv, NEW g, NEW t \in Turns, ClaimStep(g, t)
    PROVE  QueueInv'
  <1>1. PICK k \in Index :
            \/ ClaimRefused(g, t, k) \/ ClaimNormal(g, t, k)
            \/ ClaimRejected(g, t, k) \/ ClaimParks(g, t, k)
            \/ ClaimApproved(g, t, k) \/ ClaimReplayed(g, t, k)
    BY DEF ClaimStep
  <1>2. UNCHANGED <<inputs, turns, budgetWait>>
    BY <1>1 DEF ClaimRefused, ClaimNormal, ClaimRejected, ClaimParks,
                ClaimApproved, ClaimReplayed
  <1>3. \/ approvals' = approvals
        \/ approvals' = [approvals EXCEPT ![<<turns[t].input, k>>] = "pending"]
    BY <1>1 DEF ClaimRefused, ClaimNormal, ClaimRejected, ClaimParks,
                ClaimApproved, ClaimReplayed
  <1>4. ASSUME NEW p \in Position, approvals[p] = "pending" PROVE approvals'[p] = "pending"
    BY <1>3, <1>4 DEF TypeInv, TypeOK
  <1>5. ASSUME NEW i \in Inputs PROVE PendingOf(i) \subseteq PendingOf(i)'
    BY <1>4 DEF PendingOf, Position
  <1> QED
    BY <1>2, <1>5, QueueFrame

\* The turn that ends is the only one, and its input alone changes.
LEMMA QueueEnds ==
    ASSUME TypeInv, TypeInv', QueueInv, NEW t \in Turns, turns[t].status = "running",
           NEW i \in Inputs, i = turns[t].input,
           turns'[t].status # "running",
           \A u \in Turns \ {t} : turns'[u] = turns[u],
           \A j \in Inputs \ {i} :
              inputs'[j] = inputs[j] /\ (j \in budgetWait => j \in budgetWait'),
           approvals' = approvals,
           inputs'[i].status # "claimed",
           InputHeld(i)'
    PROVE  QueueInv'
  <1>1. ASSUME NEW u \in Turns PROVE turns'[u].status # "running"
    BY DEF QueueInv, OneRunningTurn, RunningTurns
  <1>2. OneRunningTurn' /\ \A u \in Turns : TurnHolds(u)'
    BY <1>1 DEF OneRunningTurn, RunningTurns, TurnHolds
  <1>3. ASSUME NEW j \in Inputs, j # i PROVE InputHeld(j)'
    <2>1. InputHeld(j) /\ inputs'[j] = inputs[j]
      BY <1>3 DEF QueueInv
    <2>2. inputs[j].status # "claimed"
      BY <1>3, <2>1 DEF InputHeld, RunningTurns, QueueInv, OneRunningTurn
    <2>3. inputs[j].status = "done" => turns'[inputs[j].turn] = turns[inputs[j].turn]
      BY <2>1 DEF InputHeld
    <2>4. PendingOf(j)' = PendingOf(j)
      BY DEF PendingOf
    <2> QED
      BY <1>3, <2>1, <2>2, <2>3, <2>4 DEF InputHeld
  <1> QED
    BY <1>2, <1>3 DEF QueueInv

LEMMA QueueCommit ==
    ASSUME TypeInv, TypeInv', QueueInv, NEW g, NEW t \in Turns, CommitStep(g, t)
    PROVE  QueueInv'
  <1>0. /\ inputs \in [Inputs -> InputRow] /\ turns \in [Turns -> TurnRow]
        /\ budgetWait \subseteq Inputs
    BY DEF TypeInv, TypeOK
  <1>i. PICK i \in Inputs : i = turns[t].input
    BY DEF CommitStep, ReplayFail, CommitComplete, CommitRetry, CommitFail,
           CommitAwait, CommitBudgetWait, Committing, LiveTurn, TypeInv, TurnInputs
  <1>1. CASE ReplayFail(g, t)
    BY <1>1, QueueFrame DEF ReplayFail, PendingOf
  <1>2. ASSUME NEW R, NEW s, NEW c, Committing(g, t, R, s, c)
        PROVE  /\ turns[t].status = "running"
               /\ inputs[i].status = "claimed" /\ inputs[i].turn = t
               /\ turns'[t].status = s
               /\ \A u \in Turns \ {t} : turns'[u] = turns[u]
    BY <1>0, <1>i, <1>2 DEF Committing, LiveTurn, TypeInv, TurnInputs, QueueInv, TurnHolds, TurnRow
  <1>3. ASSUME NEW R \in SUBSET Inputs, CommitComplete(g, t, R) PROVE QueueInv'
    <2>1. Committing(g, t, R, "done", "complete") /\ approvals' = approvals
      BY <1>3 DEF CommitComplete
    <2>2. /\ inputs'[i].status = "done" /\ inputs'[i].turn = inputs[i].turn
          /\ \A j \in Inputs \ {i} : inputs'[j] = inputs[j]
      BY <1>0, <1>i, <1>3, <2>1 DEF CommitComplete, InputRow
    <2>3. InputHeld(i)'
      BY <1>2, <2>1, <2>2 DEF InputHeld
    <2> QED
      BY <1>i, <1>2, <1>3, <2>1, <2>2, <2>3, QueueEnds DEF CommitComplete
  <1>4. ASSUME NEW R \in SUBSET Inputs, CommitFail(g, t, R) PROVE QueueInv'
    <2>1. Committing(g, t, R, "failed", "fail") /\ approvals' = approvals
      BY <1>4 DEF CommitFail
    <2>2. /\ inputs'[i].status = "done" /\ inputs'[i].turn = inputs[i].turn
          /\ \A j \in Inputs \ {i} : inputs'[j] = inputs[j]
      BY <1>0, <1>i, <1>4, <2>1 DEF CommitFail, InputRow
    <2>3. InputHeld(i)'
      BY <1>2, <2>1, <2>2 DEF InputHeld
    <2> QED
      BY <1>i, <1>2, <1>4, <2>1, <2>2, <2>3, QueueEnds DEF CommitFail
  <1>5. ASSUME NEW R \in SUBSET Inputs, CommitRetry(g, t, R) PROVE QueueInv'
    <2>1. Committing(g, t, R, "failed", "retry") /\ approvals' = approvals
      BY <1>5 DEF CommitRetry
    <2>2. /\ inputs'[i].status = "queued"
          /\ \A j \in Inputs \ {i} : inputs'[j] = inputs[j]
      BY <1>0, <1>i, <1>5, <2>1 DEF CommitRetry, Requeued, InputRow
    <2>3. InputHeld(i)'
      BY <2>2 DEF InputHeld
    <2> QED
      BY <1>i, <1>2, <1>5, <2>1, <2>2, <2>3, QueueEnds DEF CommitRetry
  <1>6. ASSUME NEW R \in SUBSET Inputs, CommitAwait(g, t, R) PROVE QueueInv'
    <2>1. Committing(g, t, R, "awaiting", "await") /\ approvals' = approvals
      BY <1>6 DEF CommitAwait
    <2>2. /\ \/ inputs'[i].status = "queued"
             \/ inputs'[i].status = "waiting" /\ PendingOf(i) # {}
          /\ \A j \in Inputs \ {i} : inputs'[j] = inputs[j]
      BY <1>0, <1>i, <1>6, <2>1 DEF CommitAwait, Resumed, Requeued, InputRow
    <2>3. InputHeld(i)'
      BY <2>1, <2>2 DEF InputHeld, PendingOf
    <2> QED
      BY <1>i, <1>2, <1>6, <2>1, <2>2, <2>3, QueueEnds DEF CommitAwait
  <1>7. ASSUME NEW R \in SUBSET Inputs, CommitBudgetWait(g, t, R) PROVE QueueInv'
    <2>1. Committing(g, t, R, "awaiting", "await") /\ approvals' = approvals
      BY <1>7 DEF CommitBudgetWait
    <2>2. /\ \/ inputs'[i].status = "queued"
             \/ inputs'[i].status = "waiting" /\ i \in budgetWait'
          /\ \A j \in Inputs \ {i} :
                inputs'[j] = inputs[j] /\ (j \in budgetWait => j \in budgetWait')
      <3>1. CASE inputs' = [inputs EXCEPT ![i] = Resumed(@)] /\ UNCHANGED budgetWait
        BY <1>0, <3>1 DEF Resumed, Requeued, InputRow
      <3>2. CASE /\ inputs' = [inputs EXCEPT ![i].status = "waiting"]
                 /\ budgetWait' = budgetWait \cup {i}
        BY <1>0, <3>2 DEF InputRow
      <3> QED
        BY <1>i, <1>7, <3>1, <3>2 DEF CommitBudgetWait
    <2>3. InputHeld(i)'
      BY <2>2 DEF InputHeld
    <2> QED
      BY <1>i, <1>2, <2>1, <2>2, <2>3, QueueEnds
  <1> QED
    BY <1>1, <1>3, <1>4, <1>5, <1>6, <1>7 DEF CommitStep

LEMMA QueueTurn ==
    ASSUME TypeInv, TypeInv', QueueInv, NEW g \in 1 .. MaxGen,
           \/ Recover(g)
           \/ \E t \in Turns, i \in Inputs : LoadTurn(g, t, i)
    PROVE  QueueInv'
  <1>0. inputs \in [Inputs -> InputRow] /\ turns \in [Turns -> TurnRow]
    BY DEF TypeInv, TypeOK
  <1>1. ASSUME NEW t \in Turns, NEW i \in Inputs, LoadTurn(g, t, i) PROVE QueueInv'
    <2>1. /\ inputs'[i].status = "claimed" /\ inputs'[i].turn = t /\ inputs'[i].gen = g
          /\ inputs[i].status = "queued"
          /\ \A j \in Inputs \ {i} : inputs'[j] = inputs[j]
      <3>1. inputs' = [inputs EXCEPT ![i] =
                         [inputs[i] EXCEPT !.status = "claimed", !.gen = g,
                                           !.turn = t, !.delayed = FALSE]]
        BY <1>1 DEF LoadTurn
      <3>2. inputs[i].status = "queued"
        BY <1>1 DEF LoadTurn, Due
      <3> QED
        BY <1>0, <3>1, <3>2 DEF InputRow
    <2>2. /\ turns'[t].status = "running" /\ turns'[t].input = i /\ turns'[t].gen = g
          /\ turns[t].status = "absent" /\ RunningTurns = {}
          /\ \A u \in Turns \ {t} : turns'[u] = turns[u]
      BY <1>0, <1>1 DEF LoadTurn
    <2>3. UNCHANGED <<approvals, budgetWait>>
      BY <1>1 DEF LoadTurn
    <2>4. OneRunningTurn'
      BY <2>2 DEF OneRunningTurn, RunningTurns
    <2>5. ASSUME NEW u \in Turns PROVE TurnHolds(u)'
      BY <2>1, <2>2 DEF TurnHolds, RunningTurns
    <2>6. ASSUME NEW j \in Inputs PROVE InputHeld(j)'
      <3>1. CASE j = i
        BY <2>1, <2>2, <3>1 DEF InputHeld, RunningTurns
      <3>2. CASE j # i
        <4>1. InputHeld(j) /\ inputs'[j] = inputs[j]
          BY <2>1, <3>2 DEF QueueInv
        <4>2. inputs[j].status # "claimed"
          BY <2>2, <4>1 DEF InputHeld
        <4>3. inputs[j].status = "done" => turns'[inputs[j].turn] = turns[inputs[j].turn]
          BY <2>2, <4>1 DEF InputHeld
        <4> QED
          BY <2>3, <4>1, <4>2, <4>3 DEF InputHeld, PendingOf
      <3> QED
        BY <3>1, <3>2
    <2> QED
      BY <2>4, <2>5, <2>6 DEF QueueInv
  <1>2. CASE Recover(g)
    <2>1. ASSUME NEW t \in Turns
          PROVE  turns'[t] = IF turns[t].status = "running" /\ turns[t].gen # g
                             THEN [turns[t] EXCEPT !.status = "interrupted"]
                             ELSE turns[t]
      BY <1>2 DEF Recover, RunningTurns
    <2>2. ASSUME NEW i \in Inputs
          PROVE  inputs'[i] = IF /\ inputs[i].status = "claimed"
                                 /\ \/ inputs[i].gen # g
                                    \/ \E t \in RunningTurns :
                                          turns[t].gen # g /\ turns[t].input = i
                              THEN Requeued(inputs[i]) ELSE inputs[i]
      BY <1>2 DEF Recover, RunningTurns
    <2>3. UNCHANGED <<approvals, budgetWait>>
      BY <1>2 DEF Recover
    <2>4. ASSUME NEW t \in Turns, turns'[t].status = "running"
          PROVE  turns[t].status = "running" /\ turns[t].gen = g /\ turns'[t] = turns[t]
      BY <1>0, <2>1, <2>4 DEF TurnRow
    <2>5. OneRunningTurn'
      BY <2>4 DEF QueueInv, OneRunningTurn, RunningTurns
    <2>6. ASSUME NEW t \in Turns PROVE TurnHolds(t)'
      <3> SUFFICES ASSUME turns'[t].status = "running" PROVE TurnHolds(t)'
        BY DEF TurnHolds
      <3>1. turns[t].status = "running" /\ turns[t].gen = g /\ turns'[t] = turns[t]
        BY <2>4
      <3>2. PICK i \in Inputs : i = turns[t].input
        BY <3>1 DEF TypeInv, TurnInputs
      <3>3. inputs[i].status = "claimed" /\ inputs[i].turn = t /\ inputs[i].gen = g
        BY <3>1, <3>2 DEF QueueInv, TurnHolds
      <3>4. inputs'[i] = inputs[i]
        BY <2>2, <3>1, <3>3 DEF QueueInv, OneRunningTurn, RunningTurns
      <3> QED
        BY <3>1, <3>2, <3>3, <3>4 DEF TurnHolds
    <2>7. ASSUME NEW i \in Inputs PROVE InputHeld(i)'
      <3>1. InputHeld(i) /\ PendingOf(i)' = PendingOf(i)
        BY <2>3 DEF QueueInv, PendingOf
      <3>2. CASE inputs'[i] = inputs[i]
        <4>1. ASSUME inputs[i].status = "claimed"
              PROVE  inputs[i].turn \in RunningTurns' /\ turns'[inputs[i].turn].input = i
          <5>1. PICK t \in Turns : /\ t = inputs[i].turn /\ turns[t].status = "running"
                                   /\ turns[t].input = i
            BY <3>1, <4>1 DEF InputHeld, RunningTurns
          <5>2. turns[t].gen = g
            <6>1. inputs'[i] = Requeued(inputs[i]) => inputs'[i].status = "queued"
              BY <1>0 DEF Requeued, InputRow
            <6> QED
              BY <2>2, <3>2, <4>1, <5>1, <6>1 DEF RunningTurns
          <5> QED
            BY <2>1, <5>1, <5>2 DEF RunningTurns
        <4>2. ASSUME inputs[i].status = "done"
              PROVE  /\ inputs[i].turn \in Turns
                     /\ turns'[inputs[i].turn].status \in {"done", "failed"}
          BY <2>1, <3>1, <4>2 DEF InputHeld
        <4> QED
          BY <2>3, <3>1, <3>2, <4>1, <4>2 DEF InputHeld
      <3>3. CASE inputs'[i] = Requeued(inputs[i])
        BY <1>0, <3>3 DEF InputHeld, Requeued, InputRow
      <3> QED
        BY <2>2, <3>2, <3>3
    <2> QED
      BY <2>5, <2>6, <2>7 DEF QueueInv
  <1> QED
    BY <1>1, <1>2

LEMMA QueueStep == TypeInv /\ TypeInv' /\ QueueInv /\ [Next]_vars => QueueInv'
  <1> SUFFICES ASSUME TypeInv, TypeInv', QueueInv, [Next]_vars PROVE QueueInv'
    OBVIOUS
  <1>1. ASSUME UNCHANGED <<inputs, turns, budgetWait, approvals>> PROVE QueueInv'
    BY <1>1, QueueFrame DEF PendingOf
  <1>2. CASE LeaseStep
    BY <1>1, <1>2 DEF LeaseStep, AcquireWriter, RenewWriter, ReleaseWriter
  <1>3. CASE CoreStep
    <2>1. PICK g \in 1 .. MaxGen :
             \/ Recover(g)
             \/ \E t \in Turns :
                   \/ \E i \in Inputs : LoadTurn(g, t, i)
                   \/ \E round \in 0 .. MaxRounds, d \in Decisions :
                         SavePlan(g, t, round, d)
                   \/ ClaimStep(g, t)
                   \/ CommitStep(g, t)
      BY <1>3 DEF CoreStep
    <2>2. ASSUME NEW t \in Turns, NEW round, NEW d, SavePlan(g, t, round, d)
          PROVE  QueueInv'
      BY <1>1, <2>2 DEF SavePlan
    <2> QED
      BY <2>1, <2>2, QueueTurn, QueueClaim, QueueCommit
  <1>4. CASE UNCHANGED vars
    BY <1>1, <1>4 DEF vars
  <1> QED
    BY <1>2, <1>3, <1>4, QueueOutside, QueuePlacement DEF Next

LEMMA QueueAlways == Spec => [](TypeInv /\ LedgerInv /\ QueueInv)
  BY LedgerAlways, QueueInit, QueueStep, PTL DEF Spec

\* Whatever cores crash, are fenced off and come back, at most one turn runs and
\* no admitted input is lost: a claimed one is held by that turn under its own
\* generation, a parked one waits for a decision or a budget that will queue it
\* again (LoadTurn, CommitTurn, Recover, ResolveApproval, resumeFundingWaitsTx).
THEOREM QueueStaysSound == Spec => []QueueSound
  <1>1. TypeInv /\ QueueInv => QueueSound
    <2> SUFFICES ASSUME TypeInv, QueueInv, NEW i \in Inputs
                 PROVE  /\ inputs[i].status = "claimed" =>
                              \E t \in RunningTurns : /\ turns[t].input = i
                                                      /\ turns[t].gen = inputs[i].gen
                        /\ inputs[i].status = "waiting" =>
                              PendingOf(i) # {} \/ i \in budgetWait
      BY DEF QueueSound, NothingStranded, QueueInv
    <2> QED
      BY DEF QueueInv, InputHeld, TurnHolds, RunningTurns
  <1> QED
    BY <1>1, QueueAlways, PTL

-----------------------------------------------------------------------------
(* The answers *)

\* An input that is not done has no answer yet, a done one has exactly one;
\* a turn committed as a failure, and a posted notice, name a failed input.
AnswerInv ==
    /\ \A i \in Inputs :
          terminal[i] \in IF inputs[i].status = "done"
                          THEN {<<"turn_completed">>, <<"turn_failed">>} ELSE {<<>>}
    /\ \A t \in Turns : turns[t].commit = "fail" =>
          terminal[turns[t].input] = <<"turn_failed">>
    /\ \A i \in noticed : terminal[i] = <<"turn_failed">>

LEMMA AnswerInit == Init => AnswerInv
  BY DEF Init, AnswerInv

\* Nothing is answered, finished or committed: the answers stand.
LEMMA AnswerFrame ==
    ASSUME AnswerInv, UNCHANGED <<terminal, noticed>>,
           \A i \in Inputs : inputs'[i].status = "done" <=> inputs[i].status = "done",
           \A t \in Turns : turns'[t].commit = "fail" =>
              turns[t].commit = "fail" /\ turns'[t].input = turns[t].input
    PROVE  AnswerInv'
  BY DEF AnswerInv

\* The one commit that answers: of a running turn, whose input is claimed.
LEMMA AnswerGiven ==
    ASSUME TypeInv, QueueInv, AnswerInv, NEW t \in Turns, NEW i \in Inputs,
           turns[t].status = "running", i = turns[t].input,
           NEW r \in {"turn_completed", "turn_failed"},
           terminal' = [terminal EXCEPT ![i] = Append(@, r)],
           inputs' = [inputs EXCEPT ![i].status = "done"],
           \A u \in Turns \ {t} : turns'[u] = turns[u],
           turns'[t].input = i,
           turns'[t].commit = "fail" => r = "turn_failed",
           \/ noticed' = noticed
           \/ noticed' = noticed \cup {i} /\ r = "turn_failed"
    PROVE  AnswerInv'
  <1>0. /\ inputs \in [Inputs -> InputRow]
        /\ terminal \in [Inputs -> Seq({"turn_completed", "turn_failed"})]
    BY DEF TypeInv, TypeOK
  <1>1. terminal[i] = <<>>
    BY DEF QueueInv, TurnHolds, AnswerInv
  <1>2. terminal'[i] = <<r>>
    BY <1>0, <1>1
  <1>3. \A j \in Inputs \ {i} : terminal'[j] = terminal[j] /\ inputs'[j] = inputs[j]
    BY <1>0
  <1>4. inputs'[i].status = "done"
    BY <1>0 DEF InputRow
  <1>5. ASSUME NEW u \in Turns, turns'[u].commit = "fail"
        PROVE  terminal'[turns'[u].input] = <<"turn_failed">>
    <2>1. CASE u = t
      BY <1>2, <1>5, <2>1
    <2>2. CASE u # t
      <3>1. turns[u].commit = "fail" /\ turns'[u] = turns[u]
        BY <1>5, <2>2
      <3>2. turns[u].input \in Inputs
        BY <3>1 DEF TypeInv, TurnInputs
      <3>3. terminal[turns[u].input] = <<"turn_failed">>
        BY <3>1 DEF AnswerInv
      <3>4. turns[u].input # i
        BY <1>1, <3>3
      <3> QED
        BY <1>3, <3>1, <3>2, <3>3, <3>4
    <2> QED
      BY <2>1, <2>2
  <1>6. ASSUME NEW j \in noticed' PROVE terminal'[j] = <<"turn_failed">>
    <2>1. CASE j \in noticed
      <3>1. terminal[j] = <<"turn_failed">> /\ j \in Inputs
        BY <2>1 DEF AnswerInv, TypeInv, TypeOK
      <3>2. j # i
        BY <1>1, <3>1
      <3> QED
        BY <1>3, <3>1, <3>2
    <2>2. CASE j = i /\ r = "turn_failed"
      BY <1>2, <2>2
    <2> QED
      BY <1>6, <2>1, <2>2
  <1>7. ASSUME NEW j \in Inputs
        PROVE  terminal'[j] \in IF inputs'[j].status = "done"
                                THEN {<<"turn_completed">>, <<"turn_failed">>} ELSE {<<>>}
    <2>1. CASE j = i
      <3>1. terminal'[i] \in {<<"turn_completed">>, <<"turn_failed">>}
        <4>1. CASE r = "turn_completed"
          BY <1>2, <4>1
        <4>2. CASE r = "turn_failed"
          BY <1>2, <4>2
        <4> QED
          BY <4>1, <4>2
      <3> QED
        BY <1>4, <2>1, <3>1
    <2>2. CASE j # i
      BY <1>3, <2>2 DEF AnswerInv
    <2> QED
      BY <2>1, <2>2
  <1> QED
    BY <1>5, <1>6, <1>7 DEF AnswerInv

LEMMA AnswerCommit ==
    ASSUME TypeInv, QueueInv, AnswerInv, NEW g, NEW t \in Turns, CommitStep(g, t)
    PROVE  AnswerInv'
  <1>0. inputs \in [Inputs -> InputRow] /\ turns \in [Turns -> TurnRow]
    BY DEF TypeInv, TypeOK
  <1>i. PICK i \in Inputs : i = turns[t].input
    BY DEF CommitStep, ReplayFail, CommitComplete, CommitRetry, CommitFail,
           CommitAwait, CommitBudgetWait, Committing, LiveTurn, TypeInv, TurnInputs
  <1>1. CASE ReplayFail(g, t)
    BY <1>1 DEF ReplayFail, AnswerInv
  <1>2. ASSUME NEW R, NEW s, NEW c, Committing(g, t, R, s, c)
        PROVE  /\ turns[t].status = "running" /\ inputs[i].status = "claimed"
               /\ turns'[t].commit = c /\ turns'[t].input = i
               /\ \A u \in Turns \ {t} : turns'[u] = turns[u]
    BY <1>0, <1>i, <1>2 DEF Committing, LiveTurn, QueueInv, TurnHolds, TurnRow
  <1>3. ASSUME NEW R \in SUBSET Inputs, CommitComplete(g, t, R) PROVE AnswerInv'
    <2>1. Committing(g, t, R, "done", "complete")
      BY <1>3 DEF CommitComplete
    <2>2. /\ terminal' = [terminal EXCEPT ![i] = Append(@, "turn_completed")]
          /\ inputs' = [inputs EXCEPT ![i].status = "done"]
          /\ noticed' = noticed
      BY <1>i, <1>3 DEF CommitComplete
    <2>3. /\ turns[t].status = "running" /\ turns'[t].commit # "fail"
          /\ turns'[t].input = i /\ \A u \in Turns \ {t} : turns'[u] = turns[u]
      BY <1>2, <2>1
    <2> QED
      BY <1>i, <2>2, <2>3, AnswerGiven
  <1>4. ASSUME NEW R \in SUBSET Inputs, CommitFail(g, t, R) PROVE AnswerInv'
    <2>1. Committing(g, t, R, "failed", "fail")
      BY <1>4 DEF CommitFail
    <2>2. /\ terminal' = [terminal EXCEPT ![i] = Append(@, "turn_failed")]
          /\ inputs' = [inputs EXCEPT ![i].status = "done"]
          /\ noticed' = noticed \/ noticed' = noticed \cup {i}
      BY <1>i, <1>4 DEF CommitFail
    <2> QED
      BY <1>i, <1>2, <2>1, <2>2, AnswerGiven
  <1>5. ASSUME NEW R \in SUBSET Inputs,
               \/ CommitRetry(g, t, R) \/ CommitAwait(g, t, R)
               \/ CommitBudgetWait(g, t, R)
        PROVE  AnswerInv'
    <2>1. UNCHANGED <<terminal, noticed>>
      BY <1>5 DEF CommitRetry, CommitAwait, CommitBudgetWait
    <2>2. \/ Committing(g, t, R, "failed", "retry")
          \/ Committing(g, t, R, "awaiting", "await")
      BY <1>5 DEF CommitRetry, CommitAwait, CommitBudgetWait
    <2>3. /\ inputs'[i].status # "done"
          /\ \A j \in Inputs \ {i} : inputs'[j] = inputs[j]
      <3>1. CASE CommitRetry(g, t, R)
        BY <1>0, <1>i, <3>1 DEF CommitRetry, Requeued, InputRow
      <3>2. CASE inputs' = [inputs EXCEPT ![i] = Resumed(@)]
        BY <1>0, <3>2 DEF Resumed, Requeued, InputRow
      <3>3. CASE inputs' = [inputs EXCEPT ![i].status = "waiting"]
        BY <1>0, <3>3 DEF InputRow
      <3> QED
        BY <1>i, <1>5, <3>1, <3>2, <3>3 DEF CommitAwait, CommitBudgetWait
    <2> QED
      BY <1>2, <2>1, <2>2, <2>3, AnswerFrame
  <1> QED
    BY <1>1, <1>3, <1>4, <1>5 DEF CommitStep

\* Outside the commits and the notices no input is finished or reopened.
LEMMA AnswerStep ==
    TypeInv /\ QueueInv /\ AnswerInv /\ [Next]_vars => AnswerInv'
  <1> SUFFICES ASSUME TypeInv, QueueInv, AnswerInv, [Next]_vars PROVE AnswerInv'
    OBVIOUS
  <1>0. inputs \in [Inputs -> InputRow] /\ turns \in [Turns -> TurnRow]
    BY DEF TypeInv, TypeOK
  <1>1. ASSUME UNCHANGED <<terminal, noticed, turns>>,
               \A i \in Inputs : inputs'[i].status = "done" <=> inputs[i].status = "done"
        PROVE  AnswerInv'
    BY <1>1, AnswerFrame
  <1>2. ASSUME NEW S,
               UNCHANGED <<terminal, noticed, turns>>, inputs' = Unparked(S)
        PROVE  AnswerInv'
    <2>1. ASSUME NEW i \in Inputs
          PROVE  inputs'[i].status = "done" <=> inputs[i].status = "done"
      BY <1>0, <1>2 DEF Unparked, Resumed, Requeued, InputRow
    <2> QED
      BY <1>1, <1>2, <2>1
  <1>3. CASE LeaseStep
    BY <1>1, <1>3 DEF LeaseStep, AcquireWriter, RenewWriter, ReleaseWriter
  <1>4. CASE PlacementStep
    BY <1>1, <1>2, <1>4 DEF PlacementStep, Seal, Complete, Abort
  <1>5. CASE OutsideStep
    <2>1. ASSUME NEW i \in Inputs, SubmitInput(i) \/ BackoffElapses(i) PROVE AnswerInv'
      <3>1. ASSUME NEW j \in Inputs
            PROVE  inputs'[j].status = "done" <=> inputs[j].status = "done"
        BY <1>0, <2>1 DEF SubmitInput, BackoffElapses, InputRow
      <3> QED
        BY <1>1, <2>1, <3>1 DEF SubmitInput, BackoffElapses
    <2>2. ASSUME NEW d \in Decision, BeginResolve(d) PROVE AnswerInv'
      BY <1>1, <2>2 DEF BeginResolve
    <2>3. ASSUME NEW d \in Decision, ResolveApproval(d) PROVE AnswerInv'
      <3>1. ASSUME NEW j \in Inputs
            PROVE  inputs'[j].status = "done" <=> inputs[j].status = "done"
        BY <1>0, <2>3 DEF ResolveApproval, Resumed, Requeued, InputRow
      <3> QED
        BY <1>1, <2>3, <3>1 DEF ResolveApproval
    <2>4. ASSUME NEW S \in SUBSET Inputs, ResumeWaits(S) PROVE AnswerInv'
      BY <1>2, <2>4 DEF ResumeWaits
    <2>5. ASSUME NEW t \in Turns, RecoverNotice(t) PROVE AnswerInv'
      BY <2>5 DEF RecoverNotice, AnswerInv
    <2> QED
      BY <1>5, <2>1, <2>2, <2>3, <2>4, <2>5 DEF OutsideStep
  <1>6. CASE CoreStep
    <2>1. PICK g \in 1 .. MaxGen :
             \/ Recover(g)
             \/ \E t \in Turns :
                   \/ \E i \in Inputs : LoadTurn(g, t, i)
                   \/ \E round \in 0 .. MaxRounds, d \in Decisions :
                         SavePlan(g, t, round, d)
                   \/ ClaimStep(g, t)
                   \/ CommitStep(g, t)
      BY <1>6 DEF CoreStep
    <2>2. CASE Recover(g)
      <3>1. ASSUME NEW j \in Inputs
            PROVE  inputs'[j].status = "done" <=> inputs[j].status = "done"
        BY <1>0, <2>2 DEF Recover, Requeued, InputRow
      <3>2. ASSUME NEW t \in Turns
            PROVE  turns'[t].commit = turns[t].commit /\ turns'[t].input = turns[t].input
        BY <1>0, <2>2 DEF Recover, TurnRow
      <3> QED
        BY <2>2, <3>1, <3>2, AnswerFrame DEF Recover
    <2>3. ASSUME NEW t \in Turns, NEW i \in Inputs, LoadTurn(g, t, i) PROVE AnswerInv'
      <3>1. ASSUME NEW j \in Inputs
            PROVE  inputs'[j].status = "done" <=> inputs[j].status = "done"
        BY <1>0, <2>3 DEF LoadTurn, Due, InputRow
      <3>2. ASSUME NEW u \in Turns, turns'[u].commit = "fail" PROVE turns'[u] = turns[u]
        BY <1>0, <2>3, <3>2 DEF LoadTurn
      <3> QED
        BY <2>3, <3>1, <3>2, AnswerFrame DEF LoadTurn
    <2>4. ASSUME NEW t \in Turns, NEW round, NEW d, SavePlan(g, t, round, d)
          PROVE  AnswerInv'
      BY <1>1, <2>4 DEF SavePlan
    <2>5. ASSUME NEW t \in Turns, ClaimStep(g, t) PROVE AnswerInv'
      BY <1>1, <2>5 DEF ClaimStep, ClaimRefused, ClaimNormal, ClaimRejected, ClaimParks,
                        ClaimApproved, ClaimReplayed
    <2> QED
      BY <2>1, <2>2, <2>3, <2>4, <2>5, AnswerCommit
  <1>7. CASE UNCHANGED vars
    BY <1>1, <1>7 DEF vars
  <1> QED
    BY <1>3, <1>4, <1>5, <1>6, <1>7 DEF Next

LEMMA AnswerAlways == Spec => [](TypeInv /\ LedgerInv /\ QueueInv /\ AnswerInv)
  BY QueueAlways, AnswerInit, AnswerStep, PTL DEF Spec

\* However many turns serve an input, it is answered exactly once, when it is
\* done, and only a failed one is reported as failed (CommitTurn,
\* recoverTerminalFailureNotice).
THEOREM InputsAnsweredOnce == Spec => []AnsweredOnce
  <1>1. TypeInv /\ AnswerInv => AnsweredOnce
    <2> SUFFICES ASSUME TypeInv, AnswerInv, NEW i \in Inputs
                 PROVE  /\ Len(terminal[i]) = IF inputs[i].status = "done" THEN 1 ELSE 0
                        /\ i \in noticed => terminal[i] = <<"turn_failed">>
      BY DEF AnsweredOnce
    <2>1. /\ inputs[i].status = "done" =>
                terminal[i] = <<"turn_completed">> \/ terminal[i] = <<"turn_failed">>
          /\ inputs[i].status # "done" => terminal[i] = <<>>
      BY DEF AnswerInv
    <2>2. i \in noticed => terminal[i] = <<"turn_failed">>
      BY DEF AnswerInv
    <2>3. CASE inputs[i].status = "done"
      <3>1. Len(terminal[i]) = 1
        BY <2>1, <2>3
      <3> QED
        BY <2>2, <2>3, <3>1
    <2>4. CASE inputs[i].status # "done"
      <3>1. Len(terminal[i]) = 0
        BY <2>1, <2>4
      <3> QED
        BY <2>2, <2>4, <3>1
    <2> QED
      BY <2>3, <2>4
  <1> QED
    BY <1>1, AnswerAlways, PTL

-----------------------------------------------------------------------------
(* The journal and the generations *)

\* One receipt per marked input; whatever a call left behind is preceded by the
\* receipt of its input, and an effect by its result.
JournalAt(p) ==
    /\ results[p] # "none" \/ ops[p].status = "awaiting_approval" => p[1] \in marker
    /\ ops[p].status = "done" => results[p] # "none"

JournalInv == ReceiptsLinked /\ \A p \in Position : JournalAt(p)

\* Rows are written under the generation that was current.
GenInv == GenerationsBelow(lease.gen + 1)

LEMMA JournalInit == Init => JournalInv /\ GenInv
  BY DEF Init, JournalInv, ReceiptsLinked, JournalAt, GenInv, GenerationsBelow

\* Journaling receipts keeps the one receipt of each input.
LEMMA ReceiveLinks ==
    ASSUME TypeOK, ReceiptsLinked, NEW S \in SUBSET Inputs, Receive(S)
    PROVE  ReceiptsLinked' /\ marker \cup S = marker'
  BY DEF Receive, ReceiptsLinked, TypeOK

LEMMA JournalFrame ==
    ASSUME JournalInv, UNCHANGED <<marker, receipts, results, ops>>
    PROVE  JournalInv'
  BY DEF JournalInv, JournalAt, ReceiptsLinked

LEMMA JournalClaim ==
    ASSUME TypeInv, JournalInv, NEW g, NEW t \in Turns, ClaimStep(g, t)
    PROVE  JournalInv'
  <1>0. /\ TypeOK /\ ops \in [Position -> OpRow]
        /\ results \in [Position -> {"none", "done", "failed", "rejected"}]
    BY DEF TypeInv, TypeOK
  <1>1. PICK k \in Index :
            \/ ClaimRefused(g, t, k) \/ ClaimNormal(g, t, k)
            \/ ClaimRejected(g, t, k) \/ ClaimParks(g, t, k)
            \/ ClaimApproved(g, t, k) \/ ClaimReplayed(g, t, k)
    BY DEF ClaimStep
  <1>2. LiveTurn(g, t)
    BY <1>1 DEF ClaimRefused, ClaimNormal, ClaimRejected, ClaimParks,
                ClaimApproved, ClaimReplayed, Claimable, Planned
  <1>3. PICK c \in Position : c = <<turns[t].input, k>> /\ c[1] \in Inputs
    BY <1>2, ClaimPosition DEF Position
  <1>4. Receive({c[1]})
    BY <1>1, <1>3 DEF ClaimRefused, ClaimNormal, ClaimRejected, ClaimParks,
                      ClaimApproved, ClaimReplayed, JournalResult
  <1>5. ReceiptsLinked' /\ marker' = marker \cup {c[1]}
    BY <1>0, <1>3, <1>4, ReceiveLinks DEF JournalInv
  <1>6. ASSUME NEW p \in Position, p # c
        PROVE  ops'[p] = ops[p] /\ results'[p] = results[p]
    BY <1>0, <1>1, <1>3, <1>6
    DEF ClaimRefused, ClaimNormal, ClaimRejected, ClaimParks, ClaimApproved,
        ClaimReplayed, Settle, JournalResult
  <1>7. ASSUME NEW r \in {"done", "failed", "rejected"}, JournalResult(c, r)
        PROVE  results'[c] # "none"
    BY <1>0, <1>7 DEF JournalResult
  <1>8. ops'[c].status = "done" => results'[c] # "none"
    <2>1. CASE ClaimParks(g, t, k)
      BY <1>0, <1>3, <2>1 DEF ClaimParks, Settle
    <2>2. CASE ClaimRejected(g, t, k)
      BY <1>3, <1>7, <2>2 DEF ClaimRejected
    <2>3. CASE ClaimReplayed(g, t, k)
      BY <1>3, <1>7, <2>3 DEF ClaimReplayed
    <2> QED
      BY <1>1, <1>3, <1>7, <2>1, <2>2, <2>3 DEF ClaimRefused, ClaimNormal, ClaimApproved
  <1>9. ASSUME NEW p \in Position PROVE JournalAt(p)'
    <2>1. CASE p = c
      BY <1>5, <1>8, <2>1 DEF JournalAt
    <2>2. CASE p # c
      BY <1>5, <1>6, <2>2 DEF JournalAt, JournalInv
    <2> QED
      BY <2>1, <2>2
  <1> QED
    BY <1>5, <1>9 DEF JournalInv

LEMMA JournalCommit ==
    ASSUME TypeInv, JournalInv, NEW g, NEW t \in Turns, CommitStep(g, t)
    PROVE  JournalInv'
  <1>1. CASE ReplayFail(g, t)
    BY <1>1, JournalFrame DEF ReplayFail
  <1>2. ASSUME NEW R \in SUBSET Inputs, Receive(R), UNCHANGED <<results, ops>>
        PROVE  JournalInv'
    <2>1. ReceiptsLinked' /\ marker \subseteq marker'
      BY <1>2, ReceiveLinks DEF JournalInv, TypeInv
    <2> QED
      BY <1>2, <2>1 DEF JournalInv, JournalAt
  <1> QED
    BY <1>1, <1>2 DEF CommitStep, CommitComplete, CommitRetry, CommitFail,
                      CommitAwait, CommitBudgetWait, Committing

LEMMA JournalStep == TypeInv /\ JournalInv /\ [Next]_vars => JournalInv'
  <1> SUFFICES ASSUME TypeInv, JournalInv, [Next]_vars PROVE JournalInv'
    OBVIOUS
  <1>1. CASE LeaseStep
    BY <1>1, JournalFrame DEF LeaseStep, AcquireWriter, RenewWriter, ReleaseWriter
  <1>2. CASE PlacementStep
    BY <1>2, JournalFrame DEF PlacementStep, Seal, Complete, Abort
  <1>3. CASE OutsideStep
    <2>1. ASSUME NEW d \in Decision, ResolveApproval(d) PROVE JournalInv'
      <3>1. ops \in [Position -> OpRow] /\ d.pos \in Position
        BY DEF TypeInv, TypeOK, Decision
      <3>2. ops' = ops \/ ops' = [ops EXCEPT ![d.pos].status = "failed"]
        BY <2>1 DEF ResolveApproval
      <3>3. ASSUME NEW p \in Position
            PROVE  ops'[p].status = ops[p].status \/ ops'[p].status = "failed"
        BY <3>1, <3>2 DEF OpRow
      <3>4. UNCHANGED <<marker, receipts, results>>
        BY <2>1 DEF ResolveApproval
      <3> QED
        BY <3>3, <3>4 DEF JournalInv, JournalAt, ReceiptsLinked
    <2> QED
      BY <1>3, <2>1, JournalFrame
      DEF OutsideStep, SubmitInput, BackoffElapses, BeginResolve, ResumeWaits,
          RecoverNotice
  <1>4. CASE CoreStep
    <2>1. PICK g \in 1 .. MaxGen :
             \/ Recover(g)
             \/ \E t \in Turns :
                   \/ \E i \in Inputs : LoadTurn(g, t, i)
                   \/ \E round \in 0 .. MaxRounds, d \in Decisions :
                         SavePlan(g, t, round, d)
                   \/ ClaimStep(g, t)
                   \/ CommitStep(g, t)
      BY <1>4 DEF CoreStep
    <2>2. ASSUME \/ Recover(g)
                 \/ \E t \in Turns :
                       \/ \E i \in Inputs : LoadTurn(g, t, i)
                       \/ \E round \in 0 .. MaxRounds, d \in Decisions :
                             SavePlan(g, t, round, d)
          PROVE  JournalInv'
      BY <2>2, JournalFrame DEF Recover, LoadTurn, SavePlan
    <2> QED
      BY <2>1, <2>2, JournalClaim, JournalCommit
  <1>5. CASE UNCHANGED vars
    BY <1>5, JournalFrame DEF vars
  <1> QED
    BY <1>1, <1>2, <1>3, <1>4, <1>5 DEF Next

\* The lease's generation never falls, and a row's generation is left alone,
\* cleared, or set to the lease's.
LEMMA GenMoves ==
    ASSUME TypeInv, TypeInv', GenInv, lease.gen <= lease'.gen,
           \A t \in Turns : turns'[t].gen \in {turns[t].gen, lease.gen},
           \A p \in Position : ops'[p].gen \in {ops[p].gen, lease.gen},
           \A i \in Inputs : inputs'[i].gen \in {inputs[i].gen, lease.gen, 0}
    PROVE  GenInv'
  <1>0. lease.gen \in Nat /\ lease'.gen \in Nat
    BY DEF TypeInv, TypeOK
  <1>1. ASSUME NEW t \in Turns PROVE turns'[t].gen < lease'.gen + 1
    <2>1. turns[t].gen \in Nat /\ turns[t].gen < lease.gen + 1
      BY DEF TypeInv, TypeOK, TurnRow, GenInv, GenerationsBelow
    <2> QED
      BY <1>0, <2>1
  <1>2. ASSUME NEW p \in Position PROVE ops'[p].gen < lease'.gen + 1
    <2>1. ops[p].gen \in Nat /\ ops[p].gen < lease.gen + 1
      BY DEF TypeInv, TypeOK, OpRow, GenInv, GenerationsBelow
    <2> QED
      BY <1>0, <2>1
  <1>3. ASSUME NEW i \in Inputs PROVE inputs'[i].gen < lease'.gen + 1
    <2>1. inputs[i].gen \in Nat /\ inputs[i].gen < lease.gen + 1
      BY DEF TypeInv, TypeOK, InputRow, GenInv, GenerationsBelow
    <2> QED
      BY <1>0, <2>1
  <1> QED
    BY <1>1, <1>2, <1>3 DEF GenInv, GenerationsBelow

LEMMA GenStep == TypeInv /\ TypeInv' /\ GenInv /\ [Next]_vars => GenInv'
  <1> SUFFICES ASSUME TypeInv, TypeInv', GenInv, [Next]_vars PROVE GenInv'
    OBVIOUS
  <1>0. /\ inputs \in [Inputs -> InputRow] /\ turns \in [Turns -> TurnRow]
        /\ ops \in [Position -> OpRow]
        /\ lease \in [gen : Nat, holder : Writers \cup {None}, live : BOOLEAN]
    BY DEF TypeInv, TypeOK
  <1>r. \A row \in InputRow : Requeued(row).gen = 0 /\ Resumed(row).gen = 0
    BY DEF Requeued, Resumed, InputRow
  <1>1. CASE LeaseStep
    <2>1. lease.gen <= lease'.gen
      BY <1>0, <1>1 DEF LeaseStep, AcquireWriter, RenewWriter, ReleaseWriter
    <2> QED
      BY <1>1, <2>1, GenMoves DEF LeaseStep, AcquireWriter, RenewWriter, ReleaseWriter
  <1>2. CASE PlacementStep
    <2>1. lease.gen <= lease'.gen /\ UNCHANGED <<turns, ops>>
      BY <1>0, <1>2 DEF PlacementStep, Seal, Complete, Abort
    <2>2. ASSUME NEW i \in Inputs PROVE inputs'[i].gen \in {inputs[i].gen, lease.gen, 0}
      BY <1>0, <1>r, <1>2 DEF PlacementStep, Seal, Complete, Abort, Unparked
    <2> QED
      BY <2>1, <2>2, GenMoves
  <1>3. CASE OutsideStep
    <2>1. UNCHANGED <<lease, turns>>
      BY <1>3 DEF OutsideStep, SubmitInput, BackoffElapses, BeginResolve,
                  ResolveApproval, ResumeWaits, RecoverNotice
    <2>2. ASSUME NEW p \in Position PROVE ops'[p].gen = ops[p].gen
      <3>1. ops' = ops \/ \E q \in Position : ops' = [ops EXCEPT ![q].status = "failed"]
        BY <1>3 DEF OutsideStep, SubmitInput, BackoffElapses, BeginResolve,
                    ResolveApproval, ResumeWaits, RecoverNotice, Decision
      <3> QED
        BY <1>0, <3>1 DEF OpRow
    <2>3. ASSUME NEW i \in Inputs PROVE inputs'[i].gen \in {inputs[i].gen, lease.gen, 0}
      <3>1. ASSUME NEW j \in Inputs, SubmitInput(j) \/ BackoffElapses(j)
            PROVE  inputs'[i].gen = inputs[i].gen
        BY <1>0, <3>1 DEF SubmitInput, BackoffElapses, InputRow
      <3>2. ASSUME NEW d \in Decision, BeginResolve(d) \/ ResolveApproval(d)
            PROVE  inputs'[i].gen \in {inputs[i].gen, 0}
        BY <1>0, <1>r, <3>2 DEF BeginResolve, ResolveApproval
      <3>3. ASSUME NEW S \in SUBSET Inputs, ResumeWaits(S)
            PROVE  inputs'[i].gen \in {inputs[i].gen, 0}
        BY <1>0, <1>r, <3>3 DEF ResumeWaits, Unparked
      <3>4. ASSUME NEW t \in Turns, RecoverNotice(t) PROVE inputs' = inputs
        BY <3>4 DEF RecoverNotice
      <3> QED
        BY <1>3, <3>1, <3>2, <3>3, <3>4 DEF OutsideStep
    <2> QED
      BY <1>0, <2>1, <2>2, <2>3, GenMoves
  <1>4. CASE CoreStep
    <2>1. PICK g \in 1 .. MaxGen :
             \/ Recover(g)
             \/ \E t \in Turns :
                   \/ \E i \in Inputs : LoadTurn(g, t, i)
                   \/ \E round \in 0 .. MaxRounds, d \in Decisions :
                         SavePlan(g, t, round, d)
                   \/ ClaimStep(g, t)
                   \/ CommitStep(g, t)
      BY <1>4 DEF CoreStep
    <2>2. CASE Recover(g)
      <3>1. UNCHANGED <<lease, ops>>
        BY <2>2 DEF Recover
      <3>2. ASSUME NEW t \in Turns PROVE turns'[t].gen = turns[t].gen
        BY <1>0, <2>2 DEF Recover, TurnRow
      <3>3. ASSUME NEW i \in Inputs PROVE inputs'[i].gen \in {inputs[i].gen, 0}
        BY <1>0, <1>r, <2>2 DEF Recover
      <3> QED
        BY <1>0, <3>1, <3>2, <3>3, GenMoves
    <2>3. ASSUME NEW t \in Turns, NEW i \in Inputs, LoadTurn(g, t, i) PROVE GenInv'
      <3>1. UNCHANGED <<lease, ops>> /\ g = lease.gen
        BY <2>3 DEF LoadTurn, RequireGeneration
      <3>2. ASSUME NEW u \in Turns PROVE turns'[u].gen \in {turns[u].gen, lease.gen}
        BY <1>0, <2>3, <3>1 DEF LoadTurn
      <3>3. ASSUME NEW j \in Inputs PROVE inputs'[j].gen \in {inputs[j].gen, lease.gen}
        BY <1>0, <2>3, <3>1 DEF LoadTurn, InputRow
      <3> QED
        BY <1>0, <3>1, <3>2, <3>3, GenMoves
    <2>4. ASSUME NEW t \in Turns, NEW round, NEW d, SavePlan(g, t, round, d)
          PROVE  GenInv'
      BY <1>0, <2>4, GenMoves DEF SavePlan
    <2>5. ASSUME NEW t \in Turns, ClaimStep(g, t) PROVE GenInv'
      <3>1. UNCHANGED <<lease, inputs, turns>> /\ g = lease.gen
        BY <2>5 DEF ClaimStep, ClaimRefused, ClaimNormal, ClaimRejected, ClaimParks,
                    ClaimApproved, ClaimReplayed, Claimable, Planned, LiveTurn,
                    RequireGeneration
      <3>2. ASSUME NEW p \in Position PROVE ops'[p].gen \in {ops[p].gen, lease.gen}
        <4>1. PICK k \in Index :
                 \/ ClaimRefused(g, t, k) \/ ClaimNormal(g, t, k)
                 \/ ClaimRejected(g, t, k) \/ ClaimParks(g, t, k)
                 \/ ClaimApproved(g, t, k) \/ ClaimReplayed(g, t, k)
          BY <2>5 DEF ClaimStep
        <4>2. \/ ops' = ops
              \/ \E q, s : ops' = [ops EXCEPT ![q] = [status |-> s, gen |-> g]]
              \/ \E q, s : ops' = [ops EXCEPT ![q].status = s]
          BY <4>1
          DEF ClaimRefused, ClaimNormal, ClaimRejected, ClaimParks, ClaimApproved,
              ClaimReplayed, Settle
        <4> QED
          BY <1>0, <3>1, <4>2 DEF OpRow
      <3> QED
        BY <1>0, <3>1, <3>2, GenMoves
    <2>6. ASSUME NEW t \in Turns, CommitStep(g, t) PROVE GenInv'
      <3>1. UNCHANGED <<lease, ops>>
        BY <2>6 DEF CommitStep, CommitComplete, CommitRetry, CommitFail, CommitAwait,
                    CommitBudgetWait, ReplayFail
      <3>2. ASSUME NEW u \in Turns PROVE turns'[u].gen = turns[u].gen
        <4>1. \/ turns' = turns
              \/ \E s \in TurnStatus, c \in CommitKind :
                    turns' = [turns EXCEPT ![t].status = s, ![t].commit = c]
          BY <2>6 DEF CommitStep, CommitComplete, CommitRetry, CommitFail,
                      CommitAwait, CommitBudgetWait, ReplayFail, Committing,
                      TurnStatus, CommitKind
        <4>2. ASSUME NEW s \in TurnStatus, NEW c \in CommitKind,
                     turns' = [turns EXCEPT ![t].status = s, ![t].commit = c]
              PROVE  turns'[u].gen = turns[u].gen
          BY <1>0, <4>2 DEF TurnRow
        <4> QED
          BY <4>1, <4>2
      <3>3. ASSUME NEW j \in Inputs PROVE inputs'[j].gen \in {inputs[j].gen, 0}
        <4> DEFINE i == turns[t].input
        <4>1. CASE inputs' = inputs
          BY <4>1
        <4>2. CASE inputs' = [inputs EXCEPT ![i] = Resumed(@)]
          BY <1>0, <1>r, <4>2
        <4>3. CASE inputs' = [inputs EXCEPT ![i] = [Requeued(@) EXCEPT !.delayed = TRUE]]
          BY <1>0, <4>3 DEF Requeued, InputRow
        <4>4. CASE \E s \in InputStatus : inputs' = [inputs EXCEPT ![i].status = s]
          BY <1>0, <4>4 DEF InputRow
        <4> QED
          BY <2>6, <4>1, <4>2, <4>3, <4>4
          DEF CommitStep, CommitComplete, CommitRetry, CommitFail, CommitAwait,
              CommitBudgetWait, ReplayFail, InputStatus
      <3> QED
        BY <1>0, <3>1, <3>2, <3>3, GenMoves
    <2> QED
      BY <2>1, <2>2, <2>3, <2>4, <2>5, <2>6
  <1>5. CASE UNCHANGED vars
    BY <1>0, <1>5, GenMoves DEF vars
  <1> QED
    BY <1>1, <1>2, <1>3, <1>4, <1>5 DEF Next

LEMMA JournalAlways ==
    Spec => [](TypeInv /\ LedgerInv /\ QueueInv /\ AnswerInv /\ JournalInv /\ GenInv)
  BY AnswerAlways, JournalInit, JournalStep, GenStep, PTL DEF Spec

\* In every reachable state the persona can be sealed: the seal's own verifyCut
\* accepts it, and the journal it exports tells every effect that ran (Seal,
\* verifyCut, journalExperienceTx).
THEOREM EveryCutTells == Spec => []CutTells
  <1>1. TypeInv /\ LedgerInv => ApprovalMatrix /\ OperationsPlanned
    BY DEF TypeInv, TypeOK, ApprovalStatus, LedgerInv, LedgerAt, ApprovalMatrix, OperationsPlanned
  <1>2. TypeInv /\ QueueInv => TurnsLinked
    BY DEF QueueInv, TurnHolds, InputHeld, RunningTurns, TurnsLinked
  <1>3. TypeInv /\ LedgerInv /\ JournalInv => JournalFollows
    BY DEF TypeInv, TypeOK, LedgerInv, LedgerAt, JournalInv, JournalAt, JournalFollows
  <1>4. TypeInv /\ LedgerInv /\ QueueInv /\ JournalInv /\ GenInv => CutTells
    BY <1>1, <1>2, <1>3 DEF CutTells, SealableCut, CutCoherent, GenInv, JournalInv
  <1> QED
    BY <1>4, JournalAlways, PTL

-----------------------------------------------------------------------------
(* What a step may never do *)

\* An input nobody submitted waits for no delay.
FreshInv == \A i \in Inputs : inputs[i].status = "absent" => ~inputs[i].delayed

LEMMA FreshInit == Init => FreshInv
  BY DEF Init, FreshInv

\* Only SubmitInput admits an input, and nothing else touches an absent one.
LEMMA AbsentStays ==
    ASSUME TypeInv, QueueInv, FreshInv, [Next]_vars,
           \A i \in Inputs : ~SubmitInput(i)
    PROVE  \A i \in Inputs :
              /\ inputs'[i].status = "absent" <=> inputs[i].status = "absent"
              /\ inputs[i].status = "absent" => inputs'[i] = inputs[i]
  <1> SUFFICES ASSUME NEW j \in Inputs
               PROVE  /\ inputs'[j].status = "absent" <=> inputs[j].status = "absent"
                      /\ inputs[j].status = "absent" => inputs'[j] = inputs[j]
    OBVIOUS
  <1>0. inputs \in [Inputs -> InputRow]
    BY DEF TypeInv, TypeOK
  <1>r. \A row \in InputRow : /\ Requeued(row).status = "queued"
                              /\ Resumed(row).status = "queued"
    BY DEF Requeued, Resumed, InputRow
  <1>1. CASE LeaseStep
    BY <1>1 DEF LeaseStep, AcquireWriter, RenewWriter, ReleaseWriter
  <1>2. CASE PlacementStep
    BY <1>0, <1>r, <1>2 DEF PlacementStep, Seal, Complete, Abort, Unparked
  <1>3. CASE OutsideStep
    <2>1. ASSUME NEW i \in Inputs, BackoffElapses(i)
          PROVE  inputs'[j].status = inputs[j].status /\ (j # i => inputs'[j] = inputs[j])
      BY <1>0, <2>1 DEF BackoffElapses, InputRow
    <2>2. ASSUME NEW i \in Inputs, BackoffElapses(i), inputs[j].status = "absent"
          PROVE  j # i
      BY <2>2 DEF BackoffElapses, FreshInv
    <2>3. ASSUME NEW d \in Decision, BeginResolve(d) \/ ResolveApproval(d)
          PROVE  \/ inputs'[j] = inputs[j]
                 \/ inputs[j].status = "waiting" /\ inputs'[j].status = "queued"
      BY <1>0, <1>r, <2>3 DEF BeginResolve, ResolveApproval
    <2>4. ASSUME NEW S \in SUBSET Inputs, ResumeWaits(S)
          PROVE  \/ inputs'[j] = inputs[j]
                 \/ inputs[j].status = "waiting" /\ inputs'[j].status = "queued"
      BY <1>0, <1>r, <2>4 DEF ResumeWaits, Unparked
    <2>5. ASSUME NEW t \in Turns, RecoverNotice(t) PROVE inputs' = inputs
      BY <2>5 DEF RecoverNotice
    <2> QED
      BY <1>3, <2>1, <2>2, <2>3, <2>4, <2>5 DEF OutsideStep
  <1>4. CASE CoreStep
    <2>1. PICK g \in 1 .. MaxGen :
             \/ Recover(g)
             \/ \E t \in Turns :
                   \/ \E i \in Inputs : LoadTurn(g, t, i)
                   \/ \E round \in 0 .. MaxRounds, d \in Decisions :
                         SavePlan(g, t, round, d)
                   \/ ClaimStep(g, t)
                   \/ CommitStep(g, t)
      BY <1>4 DEF CoreStep
    <2>2. CASE Recover(g)
      BY <1>0, <1>r, <2>2 DEF Recover
    <2>3. ASSUME NEW t \in Turns, NEW i \in Inputs, LoadTurn(g, t, i)
          PROVE  \/ inputs'[j] = inputs[j]
                 \/ inputs[j].status = "queued" /\ inputs'[j].status = "claimed"
      BY <1>0, <2>3 DEF LoadTurn, Due, InputRow
    <2>4. ASSUME NEW t \in Turns, NEW round, NEW d, SavePlan(g, t, round, d)
          PROVE  inputs' = inputs
      BY <2>4 DEF SavePlan
    <2>5. ASSUME NEW t \in Turns, ClaimStep(g, t) PROVE inputs' = inputs
      BY <2>5 DEF ClaimStep, ClaimRefused, ClaimNormal, ClaimRejected, ClaimParks,
                  ClaimApproved, ClaimReplayed
    <2>6. ASSUME NEW t \in Turns, CommitStep(g, t)
          PROVE  \/ inputs'[j] = inputs[j]
                 \/ inputs[j].status # "absent" /\ inputs'[j].status # "absent"
      <3> DEFINE i == turns[t].input
      <3>1. CASE ReplayFail(g, t)
        BY <3>1 DEF ReplayFail
      <3>2. CASE ~ReplayFail(g, t)
        <4>1. LiveTurn(g, t)
          BY <2>6, <3>2 DEF CommitStep, CommitComplete, CommitRetry, CommitFail,
                            CommitAwait, CommitBudgetWait, Committing
        <4>2. inputs[i].status = "claimed"
          BY <4>1 DEF LiveTurn, QueueInv, TurnHolds
        <4>3. CASE inputs' = [inputs EXCEPT ![i] = Resumed(@)]
          BY <1>0, <1>r, <4>2, <4>3
        <4>4. CASE inputs' = [inputs EXCEPT ![i] = [Requeued(@) EXCEPT !.delayed = TRUE]]
          BY <1>0, <4>2, <4>4 DEF Requeued, InputRow
        <4>5. CASE \E s \in {"waiting", "done"} : inputs' = [inputs EXCEPT ![i].status = s]
          BY <1>0, <4>2, <4>5 DEF InputRow
        <4> QED
          BY <2>6, <3>2, <4>3, <4>4, <4>5
          DEF CommitStep, CommitComplete, CommitRetry, CommitFail, CommitAwait,
              CommitBudgetWait
      <3> QED
        BY <3>1, <3>2
    <2> QED
      BY <2>1, <2>2, <2>3, <2>4, <2>5, <2>6
  <1>5. CASE UNCHANGED vars
    BY <1>5 DEF vars
  <1> QED
    BY <1>1, <1>2, <1>3, <1>4, <1>5 DEF Next

LEMMA FreshStep == TypeInv /\ QueueInv /\ FreshInv /\ [Next]_vars => FreshInv'
  <1> SUFFICES ASSUME TypeInv, QueueInv, FreshInv, [Next]_vars,
                      NEW j \in Inputs, inputs'[j].status = "absent"
               PROVE  ~inputs'[j].delayed
    BY DEF FreshInv
  <1>1. CASE \A i \in Inputs : ~SubmitInput(i)
    <2>1. inputs[j].status = "absent" /\ inputs'[j] = inputs[j]
      BY <1>1, AbsentStays
    <2> QED
      BY <2>1 DEF FreshInv
  <1>2. ASSUME NEW i \in Inputs, SubmitInput(i) PROVE ~inputs'[j].delayed
    <2>1. inputs[j].status = "absent" /\ inputs'[j] = inputs[j]
      BY <1>2 DEF SubmitInput, TypeInv, TypeOK, InputRow
    <2> QED
      BY <2>1 DEF FreshInv
  <1> QED
    BY <1>1, <1>2

\* The whole inductive invariant of the store.
StoreInv ==
    /\ TypeInv /\ LedgerInv /\ QueueInv /\ AnswerInv
    /\ JournalInv /\ GenInv /\ FreshInv

LEMMA StoreAlways == Spec => []StoreInv
  <1>1. TypeInv /\ LedgerInv /\ QueueInv /\ AnswerInv /\ JournalInv /\ GenInv /\ FreshInv
          => StoreInv
    BY DEF StoreInv
  <1> QED
    BY <1>1, JournalAlways, FreshInit, FreshStep, PTL DEF Spec

\* What serves a turn holds the lease's generation.
LEMMA LiveIsNewest ==
    ASSUME NEW g, NEW t \in Turns, ClaimStep(g, t) \/ CommitStep(g, t)
    PROVE  /\ authority = "active"
           /\ ~ReplayFail(g, t) => LiveTurn(g, t) /\ turns[t].gen = lease.gen
  BY DEF ClaimStep, CommitStep, CommitComplete, CommitRetry, CommitFail, CommitAwait,
         CommitBudgetWait, Committing, ClaimRefused, ClaimNormal, ClaimRejected,
         ClaimParks, ClaimApproved, ClaimReplayed, ReplayFail, Claimable, Planned,
         LiveTurn, RequireGeneration

LEMMA SupersededLeft ==
    ASSUME StoreInv, [Next]_vars, NEW t \in Turns, turns[t].status = "running",
           turns[t].gen < lease.gen
    PROVE  /\ turns'[t].status \in {"running", "interrupted"}
           /\ plan' = plan /\ effects' = effects
  <1>0. turns \in [Turns -> TurnRow] /\ turns[t].gen \in Nat /\ lease.gen \in Nat
    BY DEF StoreInv, TypeInv, TypeOK, TurnRow
  <1>1. ASSUME NEW g, NEW u \in Turns, LiveTurn(g, u) PROVE FALSE
    <2>1. u = t
      BY <1>1 DEF StoreInv, QueueInv, OneRunningTurn, RunningTurns, LiveTurn
    <2> QED
      BY <1>0, <1>1, <2>1 DEF LiveTurn, RequireGeneration
  <1>2. CASE LeaseStep
    BY <1>2 DEF LeaseStep, AcquireWriter, RenewWriter, ReleaseWriter
  <1>3. CASE PlacementStep
    BY <1>3 DEF PlacementStep, Seal, Complete, Abort
  <1>4. CASE OutsideStep
    BY <1>4 DEF OutsideStep, SubmitInput, BackoffElapses, BeginResolve,
                ResolveApproval, ResumeWaits, RecoverNotice
  <1>5. CASE CoreStep
    <2>1. PICK g \in 1 .. MaxGen :
             \/ Recover(g)
             \/ \E u \in Turns :
                   \/ \E i \in Inputs : LoadTurn(g, u, i)
                   \/ \E round \in 0 .. MaxRounds, d \in Decisions :
                         SavePlan(g, u, round, d)
                   \/ ClaimStep(g, u)
                   \/ CommitStep(g, u)
      BY <1>5 DEF CoreStep
    <2>2. CASE Recover(g)
      <3>1. plan' = plan /\ effects' = effects
        BY <2>2 DEF Recover
      <3>2. turns'[t].status \in {"running", "interrupted"}
        BY <1>0, <2>2 DEF Recover, TurnRow
      <3> QED
        BY <3>1, <3>2
    <2>3. ASSUME NEW u \in Turns, NEW i \in Inputs, LoadTurn(g, u, i) PROVE FALSE
      BY <2>3 DEF LoadTurn, RunningTurns
    <2>4. ASSUME NEW u \in Turns, NEW round, NEW d, SavePlan(g, u, round, d) PROVE FALSE
      BY <1>1, <2>4 DEF SavePlan
    <2>5. ASSUME NEW u \in Turns, ClaimStep(g, u) \/ CommitStep(g, u)
          PROVE  UNCHANGED <<turns, plan, effects>>
      BY <1>1, <2>5, LiveIsNewest DEF ReplayFail
    <2> QED
      BY <2>1, <2>2, <2>3, <2>4, <2>5
  <1>6. CASE UNCHANGED vars
    BY <1>6 DEF vars
  <1> QED
    BY <1>2, <1>3, <1>4, <1>5, <1>6 DEF Next

\* A turn whose generation was superseded can only be interrupted: whatever its
\* core still sends, it records no decision, applies no effect and commits
\* nothing (requireGeneration).
THEOREM SupersededTurnsFrozen == Spec => SupersededTurnFrozen
  <1>1. StoreInv /\ [Next]_vars => \A t \in Turns : SupersededStep(t)
    BY SupersededLeft DEF SupersededStep
  <1> QED
    BY <1>1, StoreAlways, PTL DEF Spec, SupersededTurnFrozen

LEMMA InactiveLeft ==
    ASSUME StoreInv, [Next]_vars, authority # "active"
    PROVE  UNCHANGED <<turns, plan, effects, terminal>>
  <1>2. CASE LeaseStep
    BY <1>2 DEF LeaseStep, AcquireWriter, RenewWriter, ReleaseWriter
  <1>3. CASE PlacementStep
    BY <1>3 DEF PlacementStep, Seal, Complete, Abort
  <1>4. CASE OutsideStep
    BY <1>4 DEF OutsideStep, SubmitInput, BackoffElapses, BeginResolve,
                ResolveApproval, ResumeWaits, RecoverNotice
  <1>5. CASE CoreStep
    <2>1. \A g : ~Recover(g)
      BY DEF Recover, RequireGeneration
    <2>2. \A g, t, i : ~LoadTurn(g, t, i)
      BY DEF LoadTurn, RequireGeneration
    <2>3. \A g, t, round, d : ~SavePlan(g, t, round, d)
      BY DEF SavePlan, LiveTurn, RequireGeneration
    <2>4. \A g : \A t \in Turns : ~ClaimStep(g, t) /\ ~CommitStep(g, t)
      BY LiveIsNewest
    <2> QED
      BY <1>5, <2>1, <2>2, <2>3, <2>4 DEF CoreStep
  <1>6. CASE UNCHANGED vars
    BY <1>6 DEF vars
  <1> QED
    BY <1>2, <1>3, <1>4, <1>5, <1>6 DEF Next

\* While this placement lacks the persona's authority (sealed, transferred) no
\* turn moves, no decision, effect or answer is recorded and no input admitted
\* here (requireGeneration, SubmitInput, sealInTx).
THEOREM InactivePlacementsIdle == Spec => InactivePlacementIdle
  <1>1. StoreInv /\ [Next]_vars => InactiveStep
    <2> SUFFICES ASSUME StoreInv, [Next]_vars, authority # "active"
                 PROVE  /\ UNCHANGED <<turns, plan, effects, terminal>>
                        /\ \A i \in Inputs \ Admitted : inputs'[i] = inputs[i]
      BY DEF InactiveStep
    <2>1. \A i \in Inputs : ~SubmitInput(i)
      BY DEF SubmitInput
    <2>2. \A i \in Inputs \ Admitted : inputs'[i] = inputs[i]
      BY <2>1, AbsentStays DEF StoreInv, Admitted
    <2> QED
      BY <2>2, InactiveLeft
  <1> QED
    BY <1>1, StoreAlways, PTL DEF Spec, InactivePlacementIdle

-----------------------------------------------------------------------------
(***************************************************************************)
(* SecretaryState implements SecretaryContract: under the mapping          *)
(*   known <- admitted inputs, calls <- recorded calls, verdict <- approvals, *)
(*   runs <- applied effects, reply <- terminal records                    *)
(* the initial state maps to the contract's, and every step to one of its  *)
(* steps or to a stutter.                                                   *)
(***************************************************************************)

\* The calls as the contract sees them.
MappedCalls == [i \in Inputs |-> plan[i].calls]

LEMMA ContractInit == Init => Contract!Init
  BY DEF Init, Contract!Init, Contract!Position, Contract!Index, Position, Index, Admitted

\* A live turn serves an input that is admitted and not answered.
LEMMA LiveIsOpen ==
    ASSUME StoreInv, NEW g, NEW t \in Turns, LiveTurn(g, t)
    PROVE  /\ turns[t].input \in Inputs
           /\ inputs[turns[t].input].status = "claimed"
           /\ Contract!Open(turns[t].input)
  <1>1. turns[t].input \in Inputs
    BY DEF StoreInv, TypeInv, TurnInputs, LiveTurn
  <1>2. inputs[turns[t].input].status = "claimed"
    BY DEF StoreInv, QueueInv, TurnHolds, LiveTurn
  <1>3. terminal[turns[t].input] = <<>>
    BY <1>1, <1>2 DEF StoreInv, AnswerInv
  <1> QED
    BY <1>1, <1>2, <1>3 DEF Contract!Open, Admitted

\* The contract sees nothing of a step that leaves the mapped state alone.
LEMMA ContractStutter ==
    ASSUME UNCHANGED <<plan, approvals, effects, terminal>>, Admitted' = Admitted
    PROVE  UNCHANGED Contract!contractVars
  BY DEF Contract!contractVars

\* Only SubmitInput changes the set of admitted inputs.
LEMMA KnownStays ==
    ASSUME StoreInv, [Next]_vars, \A i \in Inputs : ~SubmitInput(i)
    PROVE  Admitted' = Admitted
  BY AbsentStays DEF StoreInv, Admitted

LEMMA ContractOutside ==
    ASSUME StoreInv, [Next]_vars, OutsideStep
    PROVE  [Contract!Next]_(Contract!contractVars)
  <1>1. ASSUME NEW i \in Inputs, SubmitInput(i) PROVE Contract!Admit(i)
    <2>1. ASSUME NEW j \in Inputs
          PROVE  inputs'[j].status # "absent" <=> inputs[j].status # "absent" \/ j = i
      BY <1>1 DEF SubmitInput, StoreInv, TypeInv, TypeOK, InputRow
    <2>2. Admitted' = Admitted \cup {i}
      BY <2>1 DEF Admitted
    <2> QED
      BY <1>1, <2>2 DEF SubmitInput, Contract!Admit
  <1>2. CASE \A i \in Inputs : ~SubmitInput(i)
    <2>1. Admitted' = Admitted
      BY <1>2, KnownStays
    <2>2. ASSUME NEW d \in Decision, ResolveApproval(d)
          PROVE  \/ UNCHANGED Contract!contractVars
                 \/ Contract!Answer(d.pos, d.verdict)
      <3>1. UNCHANGED <<plan, effects, terminal>>
        BY <2>2 DEF ResolveApproval
      <3>2. CASE approvals[d.pos] # "pending"
        BY <2>1, <2>2, <3>1, <3>2, ContractStutter DEF ResolveApproval
      <3>3. CASE approvals[d.pos] = "pending"
        <4>1. approvals' = [approvals EXCEPT ![d.pos] = d.verdict]
          BY <2>2, <3>3 DEF ResolveApproval
        <4> QED
          BY <2>1, <3>1, <3>3, <4>1 DEF Contract!Answer
      <3> QED
        BY <3>2, <3>3
    <2>3. ASSUME NEW d \in Decision PROVE d.pos \in Contract!Position
                                          /\ d.verdict \in {"approved", "denied"}
      BY DEF Decision, Contract!Position, Contract!Index, Position, Index
    <2>4. ASSUME UNCHANGED <<plan, approvals, effects, terminal>>
          PROVE  UNCHANGED Contract!contractVars
      BY <2>1, <2>4, ContractStutter
    <2> QED
      BY <1>2, <2>2, <2>3, <2>4
      DEF OutsideStep, BackoffElapses, BeginResolve, ResumeWaits, RecoverNotice,
          Contract!Next
  <1> QED
    BY <1>1, <1>2 DEF Contract!Next

LEMMA ContractPlan ==
    ASSUME StoreInv, [Next]_vars, NEW g, NEW t \in Turns, NEW round, NEW d \in Decisions,
           SavePlan(g, t, round, d)
    PROVE  Contract!Next
  <1>1. LiveTurn(g, t)
    BY DEF SavePlan
  <1>2. PICK i \in Inputs : i = turns[t].input /\ Contract!Open(i)
    BY <1>1, LiveIsOpen
  <1>3. MappedCalls' = [MappedCalls EXCEPT ![i] = @ \o d]
    <2>1. plan \in [Inputs -> PlanRow]
      BY DEF StoreInv, TypeInv, TypeOK
    <2>2. plan'[i].calls = plan[i].calls \o d
      BY <1>2, <2>1 DEF SavePlan
    <2>3. ASSUME NEW j \in Inputs, j # i PROVE plan'[j] = plan[j]
      BY <1>2, <2>1, <2>3 DEF SavePlan
    <2> QED
      BY <2>2, <2>3 DEF MappedCalls
  <1>4. UNCHANGED <<inputs, approvals, effects, terminal>>
    BY DEF SavePlan
  <1>5. Contract!Decide(i, d)
    BY <1>2, <1>3, <1>4 DEF Contract!Decide, MappedCalls, Admitted
  <1> QED
    BY <1>5 DEF Contract!Next

\* A claim that applies an effect is a run of that call: the input is open, the
\* call is recorded, it never ran, and the human does not stand against it.
LEMMA ContractRun ==
    ASSUME StoreInv, NEW g, NEW t \in Turns, NEW k \in Index, NEW c \in Position,
           c = <<turns[t].input, k>>, Claimable(g, t, k), Apply(c),
           UNCHANGED <<inputs, plan, approvals, terminal>>,
           ops[c].status # "done",
           \/ MayRun(c)
           \/ Gated(c) /\ approvals[c] = "approved"
    PROVE  Contract!Run(c)
  <1>1. LiveTurn(g, t) /\ c[1] = turns[t].input /\ c[1] \in Inputs /\ c[2] = k
    BY LiveIsOpen DEF Claimable, Planned, Position
  <1>2. Contract!Open(c[1])
    BY <1>1, LiveIsOpen
  <1>3. Contract!Recorded(c)
    BY <1>1 DEF Contract!Recorded, Claimable, Planned
  <1>4. effects[c] = 0 /\ effects' = [effects EXCEPT ![c] = 1]
    <2>1. effects[c] = 0
      BY DEF StoreInv, LedgerInv, LedgerAt
    <2> QED
      BY <2>1 DEF Apply
  <1>5. ASSUME NEW m \in Index
        PROVE  Contract!CallOf(<<c[1], m>>) = CallAt(<<c[1], m>>)
    BY <1>1 DEF Contract!CallOf, CallAt
  <1>6. Contract!CallOf(c) = CallAt(c)
    BY <1>1 DEF Contract!CallOf, CallAt
  <1>7. Contract!RefusedBefore(c) <=> DeniedIdenticalCall(c)
    BY <1>5, <1>6 DEF Contract!RefusedBefore, Contract!Index, DeniedIdenticalCall, Index
  <1>8. Contract!Consented(c)
    BY <1>6, <1>7 DEF Contract!Consented, MayRun, Gated
  <1> QED
    BY <1>2, <1>3, <1>4, <1>8 DEF Contract!Run, Admitted

LEMMA ContractClaim ==
    ASSUME StoreInv, [Next]_vars, NEW g, NEW t \in Turns, ClaimStep(g, t)
    PROVE  [Contract!Next]_(Contract!contractVars)
  <1>1. PICK k \in Index :
            \/ ClaimRefused(g, t, k) \/ ClaimNormal(g, t, k)
            \/ ClaimRejected(g, t, k) \/ ClaimParks(g, t, k)
            \/ ClaimApproved(g, t, k) \/ ClaimReplayed(g, t, k)
    BY DEF ClaimStep
  <1>2. LiveTurn(g, t)
    BY <1>1 DEF ClaimRefused, ClaimNormal, ClaimRejected, ClaimParks,
                ClaimApproved, ClaimReplayed, Claimable, Planned
  <1>3. PICK c \in Position : c = <<turns[t].input, k>> /\ c[1] \in Inputs
    BY <1>2, ClaimPosition DEF StoreInv, Position
  <1>p. c \in Contract!Position
    BY DEF Contract!Position, Contract!Index, Position, Index
  <1>4. UNCHANGED <<inputs, plan, terminal>>
    BY <1>1 DEF ClaimRefused, ClaimNormal, ClaimRejected, ClaimParks,
                ClaimApproved, ClaimReplayed
  <1>5. ASSUME UNCHANGED <<approvals, effects>> PROVE UNCHANGED Contract!contractVars
    BY <1>4, <1>5, ContractStutter DEF Admitted
  <1>6. CASE ClaimRefused(g, t, k) \/ ClaimRejected(g, t, k) \/ ClaimReplayed(g, t, k)
    BY <1>5, <1>6 DEF ClaimRefused, ClaimRejected, ClaimReplayed
  <1>7. CASE ClaimNormal(g, t, k)
    <2>1. Contract!Run(c)
      BY <1>3, <1>4, <1>7, ContractRun DEF ClaimNormal, MayRun
    <2> QED
      BY <1>p, <2>1 DEF Contract!Next
  <1>8. CASE ClaimApproved(g, t, k)
    <2>1. CASE UNCHANGED effects
      BY <1>5, <1>8, <2>1 DEF ClaimApproved
    <2>2. CASE Apply(c)
      <3>1. Contract!Run(c)
        BY <1>3, <1>4, <1>8, <2>2, ContractRun DEF ClaimApproved
      <3> QED
        BY <1>p, <3>1 DEF Contract!Next
    <2> QED
      BY <1>3, <1>8, <2>1, <2>2 DEF ClaimApproved
  <1>9. CASE ClaimParks(g, t, k)
    <2>1. effects' = effects
      BY <1>9 DEF ClaimParks
    <2>2. CASE approvals' = approvals
      BY <1>5, <2>1, <2>2
    <2>3. CASE approvals' = [approvals EXCEPT ![c] = "pending"]
      <3>1. Contract!Open(c[1])
        BY <1>2, <1>3, LiveIsOpen
      <3>2. Contract!Recorded(c) /\ Contract!CallOf(c).route = "elevated"
        BY <1>3, <1>9 DEF ClaimParks, Claimable, Planned, Gated, CallAt,
                          Contract!Recorded, Contract!CallOf
      <3>3. approvals[c] = "absent"
        BY <1>3, <1>9 DEF ClaimParks, StoreInv, LedgerInv, LedgerAt
      <3>4. Contract!Ask(c)
        BY <1>4, <2>1, <2>3, <3>1, <3>2, <3>3 DEF Contract!Ask, Admitted
      <3> QED
        BY <1>p, <3>4 DEF Contract!Next
    <2> QED
      BY <1>3, <1>9, <2>2, <2>3 DEF ClaimParks
  <1> QED
    BY <1>1, <1>6, <1>7, <1>8, <1>9

\* A commit that answers is the one reply; any other is no step of the contract.
LEMMA ContractCommit ==
    ASSUME StoreInv, [Next]_vars, NEW g, NEW t \in Turns, CommitStep(g, t)
    PROVE  [Contract!Next]_(Contract!contractVars)
  <1>0. UNCHANGED <<plan, approvals, effects>>
    BY DEF CommitStep, CommitComplete, CommitRetry, CommitFail, CommitAwait,
           CommitBudgetWait, ReplayFail
  <1>t. turns \in [Turns -> TurnRow] /\ inputs \in [Inputs -> InputRow]
    BY DEF StoreInv, TypeInv, TypeOK
  <1>1. ASSUME NEW j \in Inputs PROVE ~SubmitInput(j)
    <2>1. CASE ReplayFail(g, t)
      BY <1>t, <2>1 DEF ReplayFail, SubmitInput, InputRow
    <2>2. CASE ~ReplayFail(g, t)
      <3>1. PICK R \in SUBSET Inputs, s \in {"done", "failed", "awaiting"},
                 c \in CommitKind : Committing(g, t, R, s, c)
        BY <2>2 DEF CommitStep, CommitComplete, CommitRetry, CommitFail, CommitAwait,
                    CommitBudgetWait, CommitKind
      <3>2. turns' # turns
        BY <1>t, <3>1 DEF Committing, LiveTurn, TurnRow
      <3> QED
        BY <3>2 DEF SubmitInput
    <2> QED
      BY <2>1, <2>2
  <1>2. Admitted' = Admitted
    BY <1>1, KnownStays
  <1>3. CASE terminal' = terminal
    BY <1>0, <1>2, <1>3, ContractStutter
  <1>4. ASSUME NEW r \in {"turn_completed", "turn_failed"}, LiveTurn(g, t),
               terminal' = [terminal EXCEPT ![turns[t].input] = Append(@, r)]
        PROVE  Contract!Next
    <2>1. PICK i \in Inputs : i = turns[t].input /\ Contract!Open(i)
      BY <1>4, LiveIsOpen
    <2>2. terminal[i] = <<>> /\ terminal \in [Inputs -> Seq({"turn_completed", "turn_failed"})]
      BY <2>1 DEF Contract!Open, StoreInv, TypeInv, TypeOK
    <2>3. terminal' = [terminal EXCEPT ![i] = <<r>>]
      BY <1>4, <2>1, <2>2
    <2>4. Contract!Reply(i, r)
      BY <1>0, <1>2, <2>1, <2>3 DEF Contract!Reply
    <2> QED
      BY <2>4 DEF Contract!Next
  <1> QED
    BY <1>3, <1>4 DEF CommitStep, CommitComplete, CommitRetry, CommitFail, CommitAwait,
                      CommitBudgetWait, ReplayFail, Committing

LEMMA ContractStep ==
    StoreInv /\ [Next]_vars => [Contract!Next]_(Contract!contractVars)
  <1> SUFFICES ASSUME StoreInv, [Next]_vars
               PROVE  [Contract!Next]_(Contract!contractVars)
    OBVIOUS
  <1>t. turns \in [Turns -> TurnRow] /\ inputs \in [Inputs -> InputRow]
    BY DEF StoreInv, TypeInv, TypeOK
  <1>1. ASSUME UNCHANGED <<plan, approvals, effects, terminal>>,
               \A i \in Inputs : ~SubmitInput(i)
        PROVE  UNCHANGED Contract!contractVars
    BY <1>1, KnownStays, ContractStutter
  <1>2. ASSUME UNCHANGED <<plan, approvals, effects, terminal, inputs>>
        PROVE  UNCHANGED Contract!contractVars
    BY <1>2, ContractStutter DEF Admitted
  <1>3. CASE LeaseStep
    BY <1>2, <1>3 DEF LeaseStep, AcquireWriter, RenewWriter, ReleaseWriter
  <1>4. CASE PlacementStep
    <2>1. CASE Seal
      <3>1. \A i \in Inputs : ~SubmitInput(i)
        BY <2>1 DEF Seal, SubmitInput
      <3> QED
        BY <1>1, <2>1, <3>1 DEF Seal
    <2>2. CASE Complete \/ Abort
      BY <1>2, <2>2 DEF Complete, Abort
    <2> QED
      BY <1>4, <2>1, <2>2 DEF PlacementStep
  <1>5. CASE CoreStep
    <2>1. PICK g \in 1 .. MaxGen :
             \/ Recover(g)
             \/ \E t \in Turns :
                   \/ \E i \in Inputs : LoadTurn(g, t, i)
                   \/ \E round \in 0 .. MaxRounds, d \in Decisions :
                         SavePlan(g, t, round, d)
                   \/ ClaimStep(g, t)
                   \/ CommitStep(g, t)
      BY <1>5 DEF CoreStep
    <2>2. CASE Recover(g)
      <3>1. ASSUME NEW j \in Inputs, SubmitInput(j) PROVE FALSE
        <4>1. inputs[j].status = "absent" /\ inputs'[j].status = "queued"
          BY <1>t, <3>1 DEF SubmitInput, InputRow
        <4> QED
          BY <2>2, <4>1 DEF Recover
      <3> QED
        BY <1>1, <2>2, <3>1 DEF Recover
    <2>3. ASSUME NEW t \in Turns, NEW i \in Inputs, LoadTurn(g, t, i)
          PROVE  UNCHANGED Contract!contractVars
      <3>1. turns' # turns
        BY <1>t, <2>3 DEF LoadTurn
      <3>2. \A j \in Inputs : ~SubmitInput(j)
        BY <3>1 DEF SubmitInput
      <3> QED
        BY <1>1, <2>3, <3>2 DEF LoadTurn
    <2> QED
      BY <2>1, <2>2, <2>3, ContractPlan, ContractClaim, ContractCommit
  <1>6. CASE UNCHANGED vars
    BY <1>2, <1>6 DEF vars
  <1> QED
    BY <1>3, <1>4, <1>5, <1>6, ContractOutside DEF Next

\* The store implements its contract: seen through the recorded calls, the
\* decisions, the applied effects and the answers, whatever turns, generations,
\* crashes, replays and seals do is one admission, a growing list of decided
\* calls, at most one consented run of each, and one answer per input.
THEOREM StoreImplementsContract == Spec => ImplementsContract
  BY ContractInit, ContractStep, StoreAlways, PTL DEF Spec, ImplementsContract, Contract!Spec

=============================================================================
