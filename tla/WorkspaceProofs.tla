--------------------------- MODULE WorkspaceProofs ---------------------------
(* Theorems about a terminal session and about the files of a return, for   *)
(* every value of the constants.                                            *)
EXTENDS TerminalSession, ReturnFiles, FiniteSetTheorems, WellFoundedInduction, TLAPS

-----------------------------------------------------------------------------
(* A terminal session: the inductive invariant *)

IsTyped(n) == \E k \in DOMAIN typed : typed[k] = n
\* The pump answers for an input it has dequeued.
InHand(i) == pump[i].at \in {"dequeued", "writing", "told"}
\* The pump has bound the operation: what an earlier one dequeued is settled.
Bound(i) == pump[i].at \in {"tick", "queue", "dequeued", "writing", "told", "terminate", "wait"}
Untouched == {"none", "intended", "expired", "failed"}

\* A claim's epoch belongs to one term; a session without a runner has no pump.
RowSound ==
    /\ session.lease # "none" => session.status \in Claimed
    /\ session.status = "requested" =>
          lateStarts = 0 /\ shell.op \in {"absent", "fenced"} /\ \A i \in Terms : pump[i].at = "none"
    /\ \A i \in Terms :
          /\ pump[i].epoch <= session.epoch
          /\ pump[i].at # "none" /\ pump[i].epoch = session.epoch => session.by \in {None, i}

\* What is over stays over: only a launch under the claim takes a fence away.
ShellSound ==
    /\ shell.up => shell.op \in {"live", "indeterminate"}
    /\ session.status = "ended" => \/ shell.op \in {"fenced", "exited", "cancelled"}
                                   \/ shell.op = "absent" /\ lateStarts = 0
    /\ authority = "sealed" => shell.op \in TerminalOp /\ ~shell.up
    /\ \A i \in Terms :
          pump[i].at = "report" /\ pump[i].epoch = session.epoch => shell.op \in TerminalOp

\* An input in a pump's hand is in no other's.
HandSound ==
    /\ \A i \in Terms : InHand(i) =>
          pump[i].in \in Inputs /\ ledger[pump[i].in].status \in {"dequeued", "unknown"}
    /\ \A i, j \in Terms : InHand(i) /\ InHand(j) /\ pump[i].in = pump[j].in => i = j
    /\ \A i \in Terms : pump[i].at = "dequeued" =>
          ~IsTyped(pump[i].in) /\ \A w \in wire : w.in # pump[i].in
    /\ \A i \in Terms : pump[i].at = "told" =>
          /\ pump[i].saw \in {"written", "failed", "unknown"}
          /\ pump[i].saw = "written" => IsTyped(pump[i].in)
          /\ pump[i].saw = "failed" => ~IsTyped(pump[i].in) /\ \A w \in wire : w.in # pump[i].in

\* An input is under way at most once, and then it is not typed yet.
WireSound ==
    /\ \A w \in wire : ~IsTyped(w.in)
    /\ \A w \in wire : w.by # None => pump[w.by].at = "writing" /\ pump[w.by].in = w.in
    /\ \A v, w \in wire : v.in = w.in => v = w
    /\ \A k, l \in DOMAIN typed : typed[k] = typed[l] => k = l

LedgerSound ==
    /\ \A n \in Inputs : ledger[n].status = "written" => IsTyped(n)
    /\ \A n \in Inputs : ledger[n].status \in Untouched => ~IsTyped(n) /\ \A w \in wire : w.in # n

\* Under a bound claim, an input that left the database is in the claim's hand.
ClaimSound ==
    \A i \in Terms : \A n \in Inputs :
        Bound(i) /\ Holds(i) /\ ledger[n] = [status |-> "dequeued", epoch |-> pump[i].epoch] =>
            InHand(i) /\ pump[i].in = n

TermInv == TermTypeOK /\ RowSound /\ ShellSound /\ HandSound /\ WireSound /\ LedgerSound /\ ClaimSound

PumpRows == [at : PumpAt, epoch : 0 .. MaxEpoch, ending : BOOLEAN, todo : SUBSET Inputs,
             in : Inputs \cup {0}, saw : OpState \cup InputStatus]
WireRows == [by : Terms \cup {None}, in : Inputs]

LEMMA PumpType ==
    TermTypeOK => /\ pump \in [Terms -> PumpRows] /\ wire \subseteq WireRows
                  /\ session.epoch \in Nat /\ \A i \in Terms : pump[i].epoch \in Nat
  <1>1. TermTypeOK => pump \in [Terms -> PumpRows] /\ wire \subseteq WireRows
    BY DEF TermTypeOK, PumpRows, WireRows
  <1>2. TermTypeOK => session.epoch \in Nat
    BY TermAssumption DEF TermTypeOK
  <1>3. \A p \in PumpRows : p.epoch \in Nat
    BY TermAssumption DEF PumpRows
  <1> QED
    BY <1>1, <1>2, <1>3

\* The rows a pump moves to.
LEMMA PumpRowMoves ==
    ASSUME NEW r \in PumpRows, NEW pt \in PumpAt
    PROVE  /\ \A saw \in OpState \cup InputStatus : [r EXCEPT !.at = pt, !.saw = saw] \in PumpRows
           /\ \A todo \in SUBSET Inputs : /\ [r EXCEPT !.at = pt, !.todo = todo] \in PumpRows
                                          /\ [r EXCEPT !.at = pt, !.todo = todo].at = pt
                                          /\ [r EXCEPT !.at = pt, !.todo = todo].epoch = r.epoch
  BY DEF PumpRows

LEMMA TermInvInit == TermInit => TermInv
  <1> SUFFICES ASSUME TermInit PROVE TermInv
    OBVIOUS
  <1>1. TermTypeOK
    BY TermAssumption DEF TermInit, TermTypeOK, Idle, SessionStatus, InputStatus, OpState, PumpAt, None, Inputs
  <1>2. RowSound /\ ShellSound /\ HandSound /\ WireSound /\ LedgerSound /\ ClaimSound
    BY TermAssumption DEF TermInit, RowSound, ShellSound, HandSound, WireSound, LedgerSound, ClaimSound, IsTyped, InHand,
        Bound, Holds, Untouched, Idle, None, Inputs, Claimed
  <1> QED
    BY <1>1, <1>2 DEF TermInv

\* Nothing is sent or typed, and no pump takes an input into its hand.
LEMMA HandsKept ==
    ASSUME TermInv, TermTypeOK', UNCHANGED <<wire, typed>>,
           \A i \in Terms : InHand(i)' \/ pump[i].at = "writing" => pump'[i] = pump[i],
           \A n \in Inputs : \/ ledger'[n].status = ledger[n].status
                             \/ ledger[n].status \in Untouched /\ ledger'[n].status \in Untouched
                             \/ ledger[n].status = "dequeued" /\ ledger'[n].status = "unknown"
    PROVE  HandSound' /\ WireSound' /\ LedgerSound'
  <1>1. \A n : IsTyped(n)' = IsTyped(n)
    BY DEF IsTyped
  <1>2. HandSound'
    BY <1>1 DEF HandSound, TermInv, InHand, Untouched
  <1>3. WireSound'
    <2>1. \A w \in wire : w.by = None \/ w.by \in Terms
      BY PumpType DEF WireRows, TermInv
    <2> QED
      BY <1>1, <2>1 DEF WireSound, TermInv
  <1>4. LedgerSound'
    BY <1>1 DEF LedgerSound, TermInv, Untouched
  <1> QED
    BY <1>2, <1>3, <1>4

\* The claims and what they dequeued stay as they are.
LEMMA ClaimKept ==
    ASSUME TermInv, UNCHANGED ledger,
           \A i \in Terms : Bound(i)' /\ Holds(i)' =>
               /\ Bound(i) /\ Holds(i) /\ pump'[i].epoch = pump[i].epoch
               /\ InHand(i) => InHand(i)' /\ pump'[i].in = pump[i].in
    PROVE  ClaimSound'
  BY DEF TermInv, ClaimSound

-----------------------------------------------------------------------------
(* The row *)

LEMMA SubmitStep ==
    ASSUME TermInv, NEW n \in Inputs, SubmitTerminalInput(n) PROVE TermInv'
  <1>1. TermTypeOK'
    BY DEF TermInv, TermTypeOK, SubmitTerminalInput, InputStatus
  <1>2. RowSound' /\ ShellSound'
    BY DEF TermInv, RowSound, ShellSound, SubmitTerminalInput, TerminalOp, Claimed
  <1>3. HandSound' /\ WireSound' /\ LedgerSound'
    <2>1. \A m \in Inputs : \/ ledger'[m].status = ledger[m].status
                            \/ ledger[m].status \in Untouched /\ ledger'[m].status \in Untouched
      BY DEF TermInv, TermTypeOK, SubmitTerminalInput, Untouched
    <2> QED
      BY <1>1, <2>1, HandsKept DEF SubmitTerminalInput
  <1>4. ClaimSound'
    BY DEF TermInv, TermTypeOK, ClaimSound, SubmitTerminalInput, Bound, Holds, InHand
  <1> QED
    BY <1>1, <1>2, <1>3, <1>4 DEF TermInv

\* An end settles every input.
LEMMA SettledFacts ==
    ASSUME TermTypeOK, ledger' = Settled
    PROVE  /\ ledger' \in [Inputs -> [status : InputStatus, epoch : 0 .. MaxEpoch]]
           /\ \A n \in Inputs :
                 /\ ledger'[n].status # "dequeued"
                 /\ \/ ledger'[n].status = ledger[n].status
                    \/ ledger[n].status \in Untouched /\ ledger'[n].status \in Untouched
                    \/ ledger[n].status = "dequeued" /\ ledger'[n].status = "unknown"
  BY DEF TermTypeOK, Settled, InputStatus, Untouched

LEMMA CloseStep == TermInv /\ CloseTerminalSession => TermInv'
  <1> SUFFICES ASSUME TermInv, CloseTerminalSession PROVE TermInv'
    OBVIOUS
  <1> USE DEF CloseTerminalSession
  <1>1. CASE UNCHANGED ledger /\ session'.status = "ending" /\ session'.epoch = session.epoch
             /\ session' \in {[session EXCEPT !.status = "ending"],
                              [session EXCEPT !.status = "ending", !.by = None, !.lease = "none"]}
             /\ session.status # "requested" /\ session.status \notin Over
             /\ (session.lease # "held" => session' = [session EXCEPT !.status = "ending", !.by = None, !.lease = "none"])
             /\ (session.lease = "held" => session.status \in Claimed)
    <2>1. TermTypeOK'
      BY <1>1 DEF TermInv, TermTypeOK, SessionStatus, Claimed, None
    <2>2. RowSound' /\ ShellSound'
      <3>1. session'.by \in {session.by, None} /\ (session'.lease # "none" => session.status \in Claimed)
        BY <1>1 DEF TermInv, TermTypeOK, RowSound
      <3>2. RowSound'
        BY <1>1, <3>1 DEF TermInv, RowSound, Claimed
      <3>3. ShellSound'
        BY <1>1 DEF TermInv, ShellSound
      <3> QED
        BY <3>2, <3>3
    <2>3. HandSound' /\ WireSound' /\ LedgerSound'
      BY <1>1, <2>1, HandsKept DEF InHand
    <2>4. ClaimSound'
      BY <1>1, ClaimKept DEF TermInv, TermTypeOK, Bound, Holds, InHand, Claimed
    <2> QED
      BY <2>1, <2>2, <2>3, <2>4 DEF TermInv
  <1>2. CASE session.status = "requested" /\ endTerminalSessionTx("ended")
    <2>1. TermTypeOK'
      BY <1>2, SettledFacts DEF TermInv, TermTypeOK, endTerminalSessionTx, SessionStatus, Over, None
    <2>2. RowSound' /\ ShellSound'
      BY <1>2 DEF TermInv, TermTypeOK, RowSound, ShellSound, endTerminalSessionTx, Claimed, TerminalOp, None
    <2>3. HandSound' /\ WireSound' /\ LedgerSound'
      BY <1>2, <2>1, HandsKept, SettledFacts DEF InHand, TermInv, endTerminalSessionTx
    <2>4. ClaimSound'
      BY <1>2, SettledFacts DEF TermInv, ClaimSound, endTerminalSessionTx
    <2> QED
      BY <2>1, <2>2, <2>3, <2>4 DEF TermInv
  <1> QED
    BY <1>1, <1>2 DEF TermInv, TermTypeOK, RowSound, Claimed

LEMMA LeaseStep == TermInv /\ (LeaseRunsOut \/ SweepExpiredTerminalClaims) => TermInv'
  <1> SUFFICES ASSUME TermInv, LeaseRunsOut \/ SweepExpiredTerminalClaims PROVE TermInv'
    OBVIOUS
  <1> USE DEF LeaseRunsOut, SweepExpiredTerminalClaims
  <1>0. /\ session' \in {[session EXCEPT !.lease = "over"],
                        [session EXCEPT !.by = None, !.lease = "none"],
                        [session EXCEPT !.status = "interrupted", !.by = None, !.lease = "none"]}
        /\ session.status \in Claimed /\ session.lease # "none"
    BY DEF TermInv, TermTypeOK, RowSound, Swept, Claimed
  <1>1. TermTypeOK'
    BY <1>0 DEF TermInv, TermTypeOK, SessionStatus, Claimed, None
  <1>2. RowSound' /\ ShellSound'
    <2>1. /\ session'.by \in {session.by, None} /\ session'.epoch = session.epoch
          /\ session'.status \in {session.status, "interrupted"}
          /\ session'.lease # "none" => session'.status = session.status
      BY <1>0 DEF TermInv, TermTypeOK
    <2>2. RowSound'
      BY <1>0, <2>1 DEF TermInv, RowSound, Claimed
    <2>3. ShellSound'
      BY <1>0, <2>1 DEF TermInv, ShellSound, Claimed
    <2> QED
      BY <2>2, <2>3
  <1>3. HandSound' /\ WireSound' /\ LedgerSound'
    BY <1>1, HandsKept DEF InHand
  <1>4. ClaimSound'
    BY <1>0, ClaimKept DEF TermInv, TermTypeOK, Bound, Holds, InHand, Claimed
  <1> QED
    BY <1>1, <1>2, <1>3, <1>4 DEF TermInv

-----------------------------------------------------------------------------
(* Driver terms *)

LEMMA LockStep ==
    ASSUME TermInv, NEW i \in Terms, TakeRunnerLock(i) \/ LoseRunnerLock(i) PROVE TermInv'
  <1> USE DEF TakeRunnerLock, LoseRunnerLock
  <1>0. runnerLock' \in Terms \cup {None} /\ term' \in [Terms -> {"unborn", "driving", "gone"}]
    BY DEF TermInv, TermTypeOK, None
  <1>1. TermTypeOK'
    BY <1>0 DEF TermInv, TermTypeOK
  <1>2. RowSound' /\ ShellSound'
    BY DEF TermInv, RowSound, ShellSound
  <1>3. HandSound' /\ WireSound' /\ LedgerSound'
    BY <1>1, HandsKept DEF InHand
  <1>4. ClaimSound'
    BY ClaimKept DEF Bound, Holds, InHand
  <1> QED
    BY <1>1, <1>2, <1>3, <1>4 DEF TermInv

LEMMA ClaimStep ==
    ASSUME TermInv, NEW i \in Terms, ClaimTerminalSessions(i) PROVE TermInv'
  <1> USE DEF ClaimTerminalSessions
  <1>0. /\ session' = [status |-> IF session.status = "ending" THEN "ending" ELSE "claimed",
                       epoch |-> session.epoch + 1, by |-> i, lease |-> "held"]
        /\ session.epoch + 1 \in 0 .. MaxEpoch /\ session.epoch \in Nat
        /\ session'.status \in {"ending", "claimed"}
    BY TermAssumption DEF TermInv, TermTypeOK
  <1>a. \A j \in Terms : pump'[j] = pump[j] \/ (pump'[j] = Adopted(session') /\ j = i /\ pump[j].at = "none")
    BY PumpType DEF TermInv
  <1>b. ledger' \in [Inputs -> [status : InputStatus, epoch : 0 .. MaxEpoch]]
    BY <1>0 DEF TermInv, TermTypeOK, Restamped, InputStatus
  <1>c. \A n \in Inputs : \/ ledger'[n].status = ledger[n].status /\ ledger[n].status # "dequeued"
                          \/ ledger[n].status = "dequeued" /\ ledger'[n].status = "unknown"
    BY <1>0 DEF TermInv, TermTypeOK, Restamped
  <1>1. TermTypeOK'
    <2>0. session'.epoch \in 0 .. MaxEpoch /\ (session'.status = "ending") \in BOOLEAN
      BY <1>0
    <2>1. Adopted(session') \in PumpRows
      BY <2>0 DEF Adopted, Idle, PumpAt, InputStatus, PumpRows
    <2>2. pump' \in [Terms -> PumpRows]
      BY <2>1, PumpType DEF TermInv
    <2>3. session' \in [status : SessionStatus, epoch : 0 .. MaxEpoch, by : Terms \cup {None},
                        lease : {"none", "held", "over"}]
      BY <1>0 DEF SessionStatus, Claimed
    <2> QED
      BY <1>b, <2>2, <2>3 DEF TermInv, TermTypeOK, PumpRows
  <1>2. RowSound'
    <2>1. \A j \in Terms : pump'[j].epoch <= session'.epoch
      BY <1>0, <1>a, PumpType DEF TermInv, RowSound, Adopted, Idle
    <2>2. \A j \in Terms : pump'[j].at # "none" /\ pump'[j].epoch = session'.epoch => session'.by = j
      BY <1>0, <1>a, PumpType DEF TermInv, RowSound, Adopted, Idle
    <2> QED
      BY <1>0, <2>1, <2>2 DEF RowSound, Claimed
  <1>3. ShellSound'
    BY <1>0, <1>a DEF TermInv, TermTypeOK, RowSound, ShellSound, TerminalOp, Adopted, Idle
  <1>4. HandSound' /\ WireSound' /\ LedgerSound'
    <2>1. \A j \in Terms : InHand(j)' \/ pump[j].at = "writing" => pump'[j] = pump[j]
      BY <1>a DEF InHand, Adopted, Idle
    <2> QED
      BY <1>1, <1>c, <2>1, HandsKept
  <1>5. ClaimSound'
    BY <1>1, <1>c, SMTT(30) DEF ClaimSound, TermTypeOK
  <1> QED
    BY <1>1, <1>2, <1>3, <1>4, <1>5 DEF TermInv

LEMMA AdoptStep ==
    ASSUME TermInv, NEW i \in Terms, AdoptOwned(i) PROVE TermInv'
  <1> USE DEF AdoptOwned
  <1>a. \A j \in Terms : pump'[j] = pump[j] \/ (pump'[j] = Adopted(session) /\ j = i /\ pump[j].at = "none")
    BY PumpType DEF TermInv
  <1>1. TermTypeOK'
    <2>0. session.epoch \in 0 .. MaxEpoch /\ (session.status = "ending") \in BOOLEAN
      BY DEF TermInv, TermTypeOK
    <2>1. Adopted(session) \in PumpRows
      BY <2>0 DEF Adopted, Idle, PumpAt, InputStatus, PumpRows
    <2>2. pump' \in [Terms -> PumpRows]
      BY <2>1, PumpType DEF TermInv
    <2> QED
      BY <2>2 DEF TermInv, TermTypeOK, PumpRows
  <1>2. RowSound' /\ ShellSound'
    <2>1. session.status \in Claimed /\ session.by = i /\ session.epoch \in Nat
      BY DEF OwnedTerminalSessions, TermInv, TermTypeOK
    <2>2. RowSound'
      BY <1>a, <2>1 DEF TermInv, RowSound, Adopted, Idle, Claimed
    <2>3. ShellSound'
      BY <1>a DEF TermInv, ShellSound, Adopted, Idle
    <2> QED
      BY <2>2, <2>3
  <1>3. HandSound' /\ WireSound' /\ LedgerSound'
    <2>1. \A j \in Terms : InHand(j)' \/ pump[j].at = "writing" => pump'[j] = pump[j]
      BY <1>a DEF InHand, Adopted, Idle
    <2> QED
      BY <1>1, <2>1, HandsKept
  <1>4. ClaimSound'
    BY <1>a, ClaimKept DEF Bound, Holds, InHand, Adopted, Idle
  <1> QED
    BY <1>1, <1>2, <1>3, <1>4 DEF TermInv

LEMMA StopStep ==
    ASSUME TermInv, NEW i \in Terms, StopTerm(i) PROVE TermInv'
  <1> USE DEF StopTerm
  <1>a. \A j \in Terms : pump'[j] = IF j = i THEN Idle ELSE pump[j]
    BY PumpType DEF TermInv
  <1>b. \A w \in wire : w.by \in Terms \cup {None} /\ w.in \in Inputs
    BY PumpType DEF WireRows, TermInv
  <1>c. \A v \in wire' : \E w \in wire : /\ v.in = w.in /\ v.by = IF w.by = i THEN None ELSE w.by
                                         /\ v = [w EXCEPT !.by = IF w.by = i THEN None ELSE w.by]
    BY PumpType DEF WireRows, TermInv, Orphaned
  <1>1. TermTypeOK'
    <2>1. pump' \in [Terms -> PumpRows]
      BY PumpType, TermAssumption DEF TermInv, PumpRows, Idle, PumpAt, InputStatus
    <2>2. wire' \subseteq WireRows
      BY <1>b, PumpType DEF WireRows, Orphaned, TermInv
    <2> QED
      BY <2>1, <2>2 DEF TermInv, TermTypeOK, PumpRows, WireRows, None
  <1>2. RowSound' /\ ShellSound'
    <2>1. RowSound'
      BY <1>a, PumpType DEF TermInv, RowSound, Idle
    <2>2. ShellSound'
      BY <1>a DEF TermInv, ShellSound, Idle
    <2> QED
      BY <2>1, <2>2
  <1>3. \A n : IsTyped(n)' = IsTyped(n)
    BY DEF IsTyped
  <1>4. HandSound'
    BY <1>a, <1>c, <1>3 DEF HandSound, TermInv, InHand, Idle
  <1>5. WireSound'
    <2>1. \A w \in wire' : ~IsTyped(w.in)'
      BY <1>c, <1>3 DEF WireSound, TermInv
    <2>2. \A w \in wire' : w.by # None => pump'[w.by].at = "writing" /\ pump'[w.by].in = w.in
      BY <1>a, <1>b, <1>c DEF WireSound, TermInv
    <2>3. \A v, w \in wire' : v.in = w.in => v = w
      BY <1>c DEF WireSound, TermInv
    <2> QED
      BY <2>1, <2>2, <2>3 DEF WireSound, TermInv
  <1>6. LedgerSound'
    BY <1>c, <1>3 DEF LedgerSound, TermInv
  <1>7. ClaimSound'
    BY <1>a, ClaimKept DEF Bound, Holds, InHand, Idle
  <1> QED
    BY <1>1, <1>2, <1>4, <1>5, <1>6, <1>7 DEF TermInv

-----------------------------------------------------------------------------
(* The provisioner and the placement *)

\* Only the operation or the authority moves.
LEMMA OnlyShell ==
    ASSUME TermInv, UNCHANGED <<session, ledger, runnerLock, term, pump, wire, typed>>,
           authority' \in {"active", "sealing", "sealed"},
           shell' \in [op : OpState, stop : BOOLEAN, up : BOOLEAN], lateStarts' \in 0 .. lateStarts,
           shell.op \in TerminalOp => shell'.op = shell.op /\ (shell'.up => shell.up),
           shell.op = "absent" => \/ shell'.op \in {"absent", "fenced"} /\ ~shell'.up
                                  \/ lateStarts # 0 /\ shell'.op = "live",
           shell'.up => shell'.op \in {"live", "indeterminate"},
           authority' = "sealed" => authority = "sealed" \/ Quiesced
    PROVE  TermInv'
  <1>1. TermTypeOK'
    BY TermAssumption DEF TermInv, TermTypeOK
  <1>2. RowSound'
    BY TermAssumption DEF TermInv, TermTypeOK, RowSound, TerminalOp
  <1>3. ShellSound'
    <2>0. lateStarts \in Nat
      BY TermAssumption DEF TermInv, TermTypeOK
    <2>1. session'.status = "ended" => \/ shell'.op \in {"fenced", "exited", "cancelled"}
                                       \/ shell'.op = "absent" /\ lateStarts' = 0
      BY <2>0 DEF TermInv, ShellSound, TerminalOp
    <2>2. authority' = "sealed" => shell'.op \in TerminalOp /\ ~shell'.up
      BY DEF TermInv, ShellSound, Quiesced
    <2>3. \A i \in Terms :
             pump'[i].at = "report" /\ pump'[i].epoch = session'.epoch => shell'.op \in TerminalOp
      BY DEF TermInv, ShellSound
    <2> QED
      BY <2>1, <2>2, <2>3 DEF ShellSound
  <1>4. HandSound' /\ WireSound' /\ LedgerSound'
    BY <1>1, HandsKept DEF InHand
  <1>5. ClaimSound'
    BY ClaimKept DEF Bound, Holds, InHand
  <1> QED
    BY <1>1, <1>2, <1>3, <1>4, <1>5 DEF TermInv

LEMMA CancelFacts ==
    ASSUME TermInv, shell' = CancelProcess(shell)
    PROVE  /\ shell' \in [op : OpState, stop : BOOLEAN, up : BOOLEAN]
           /\ shell.op \in TerminalOp => shell'.op = shell.op /\ shell'.up = shell.up
           /\ shell.op = "absent" => shell'.op = "fenced" /\ ~shell'.up
           /\ shell'.up => shell'.op \in {"live", "indeterminate"}
           /\ shell'.up = shell.up /\ (shell.op # "absent" => shell'.op = shell.op)
  <1>1. shell \in [op : OpState, stop : BOOLEAN, up : BOOLEAN]
    BY DEF TermInv, TermTypeOK
  <1>2. shell.up => shell.op \in {"live", "indeterminate"}
    BY DEF TermInv, ShellSound
  <1> QED
    BY <1>1, <1>2 DEF CancelProcess, TerminalOp, OpState

LEMMA ShellSteps ==
    TermInv /\ (ShellStep \/ LateStart \/ quiesceTerminalWriters \/ SealOrRefuse \/ ReturnCancelled) => TermInv'
  <1> SUFFICES ASSUME TermInv, ShellStep \/ LateStart \/ quiesceTerminalWriters \/ SealOrRefuse \/ ReturnCancelled
               PROVE TermInv'
    OBVIOUS
  <1>0. /\ shell \in [op : OpState, stop : BOOLEAN, up : BOOLEAN] /\ lateStarts \in 0 .. lateStarts
        /\ shell.up => shell.op \in {"live", "indeterminate"}
        /\ authority \in {"active", "sealing", "sealed"} /\ lateStarts \in Nat
    BY TermAssumption DEF TermInv, TermTypeOK, ShellSound
  <1>1. CASE ShellStep
    <2>1. /\ shell' \in [op : OpState, stop : BOOLEAN, up : BOOLEAN]
          /\ shell.op \in TerminalOp => shell'.op = shell.op /\ (shell'.up => shell.up)
          /\ shell.op # "absent" /\ (shell'.up => shell'.op \in {"live", "indeterminate"})
      BY <1>0, <1>1 DEF ShellStep, OpState, TerminalOp
    <2> QED
      BY <1>0, <1>1, <2>1, OnlyShell DEF ShellStep
  <1>2. CASE LateStart
    <2>1. /\ shell' \in [op : OpState, stop : BOOLEAN, up : BOOLEAN]
          /\ shell.op \in TerminalOp => shell'.op = shell.op /\ (shell'.up => shell.up)
          /\ shell.op = "absent" => \/ shell'.op \in {"absent", "fenced"} /\ ~shell'.up
                                    \/ lateStarts # 0 /\ shell'.op = "live"
          /\ shell'.up => shell'.op \in {"live", "indeterminate"}
      <3>1. shell' = shell \/ (shell.op = "absent" /\ shell' = [shell EXCEPT !.op = "live", !.up = TRUE])
        BY <1>2 DEF LateStart, StartProcess
      <3>2. lateStarts # 0
        BY <1>0, <1>2 DEF LateStart
      <3> QED
        BY <1>0, <3>1, <3>2 DEF OpState, TerminalOp
    <2>2. lateStarts' \in 0 .. lateStarts
      BY <1>0, <1>2 DEF LateStart
    <2> QED
      BY <1>0, <1>2, <2>1, <2>2, OnlyShell DEF LateStart
  <1>3. CASE quiesceTerminalWriters
    BY <1>0, <1>3, CancelFacts, OnlyShell DEF quiesceTerminalWriters
  <1>4. CASE SealOrRefuse \/ ReturnCancelled
    BY <1>0, <1>4, OnlyShell DEF SealOrRefuse, ReturnCancelled
  <1> QED
    BY <1>1, <1>2, <1>3, <1>4

-----------------------------------------------------------------------------
(* A pump that has nothing in its hand *)

\* The inputs a pump has still to send have a first one.
LEMMA LeastInput ==
    ASSUME NEW S \in SUBSET Nat, S # {} PROVE \E k \in S : \A m \in S : k <= m
  <1>1. IsWellFoundedOn(OpToRel(<, Nat), Nat)
    BY NatLessThanWellFounded
  <1>2. PICK k \in S : \A m \in S : ~ (<<m, k>> \in OpToRel(<, Nat))
    BY <1>1, WFMin
  <1>3. \A m \in S : ~(m < k)
    BY <1>2 DEF OpToRel
  <1> QED
    BY <1>3

\* The pump of i takes a step, under the claim it has, or is gone.
PumpOf(i) ==
    /\ \A j \in Terms \ {i} : pump'[j] = pump[j]
    /\ \/ pump'[i] = Idle
       \/ pump[i].at # "none" /\ pump'[i].epoch = pump[i].epoch

LEMMA RowKept ==
    ASSUME TermInv, NEW i \in Terms, UNCHANGED <<authority, session, lateStarts, shell>>, PumpOf(i),
           pump'[i].at = "report" => pump[i].at = "report" \/ shell.op \in TerminalOp
    PROVE  RowSound' /\ ShellSound'
  <1>1. RowSound'
    BY PumpType DEF TermInv, RowSound, PumpOf, Idle
  <1>2. ShellSound'
    BY DEF TermInv, ShellSound, PumpOf, Idle
  <1> QED
    BY <1>1, <1>2

LEMMA GoesFacts ==
    ASSUME TermTypeOK, NEW i \in Terms, NEW pt \in PumpAt, Goes(i, pt), pump[i].at # "none"
    PROVE  /\ pump' \in [Terms -> PumpRows] /\ PumpOf(i)
           /\ pump'[i].at = pt /\ pump'[i].in = pump[i].in /\ pump'[i].saw = pump[i].saw
           /\ pump'[i].epoch = pump[i].epoch
  BY PumpType DEF Goes, PumpOf, PumpRows

LEMMA LeavesFacts ==
    ASSUME TermTypeOK, NEW i \in Terms, Leaves(i)
    PROVE  /\ pump' \in [Terms -> PumpRows] /\ PumpOf(i) /\ pump'[i] = Idle
           /\ pump'[i].at = "none" /\ ~InHand(i)' /\ ~Bound(i)'
  <1>1. Idle \in PumpRows
    BY TermAssumption DEF Idle, PumpRows, PumpAt, InputStatus
  <1> QED
    BY <1>1, PumpType DEF Leaves, PumpOf, Idle, InHand, Bound

\* Nothing but the pump moves.
LEMMA OnlyPump ==
    ASSUME TermInv, NEW i \in Terms, RowAndShellSame, PumpOf(i), pump' \in [Terms -> PumpRows],
           ~InHand(i)', pump[i].at # "writing", pump'[i].at = "report" => shell.op \in TerminalOp,
           Bound(i)' => Bound(i) /\ ~InHand(i)
    PROVE  TermInv'
  <1> USE DEF RowAndShellSame
  <1>1. TermTypeOK'
    BY DEF TermInv, TermTypeOK, PumpRows
  <1>2. RowSound' /\ ShellSound'
    BY RowKept
  <1>3. HandSound' /\ WireSound' /\ LedgerSound'
    BY <1>1, HandsKept DEF PumpOf, InHand
  <1>4. ClaimSound'
    <2>1. \A j \in Terms : Bound(j)' /\ Holds(j)' =>
               /\ Bound(j) /\ Holds(j) /\ pump'[j].epoch = pump[j].epoch
               /\ InHand(j) => InHand(j)' /\ pump'[j].in = pump[j].in
      BY DEF PumpOf, Bound, Holds, InHand, Idle
    <2> QED
      BY <2>1, ClaimKept
  <1> QED
    BY <1>1, <1>2, <1>3, <1>4 DEF TermInv

LEMMA PollStep ==
    ASSUME TermInv, NEW i \in Terms, PumpPoll(i) \/ PumpWait(i) PROVE TermInv'
  <1> USE DEF PumpPoll, PumpWait
  <1>0. TermTypeOK /\ pump[i].at \in {"queue", "wait"} /\ RowAndShellSame
    BY DEF TermInv
  <1>1. CASE Leaves(i)
    BY <1>0, <1>1, LeavesFacts, OnlyPump DEF Idle
  <1>2. ASSUME NEW pt \in {"terminate", "report", "tick"}, Goes(i, pt), pt = "report" => shell.op \in TerminalOp
        PROVE  TermInv'
    <2>1. pt \in PumpAt
      BY DEF PumpAt
    <2> QED
      BY <1>0, <1>2, <2>1, GoesFacts, OnlyPump DEF InHand, Bound
  <1> QED
    BY <1>0, <1>1, <1>2

LEMMA FetchStep ==
    ASSUME TermInv, NEW i \in Terms, PumpFetch(i) PROVE TermInv'
  <1> USE DEF PumpFetch
  <1>1. CASE Leaves(i)
    BY <1>1, LeavesFacts, OnlyPump DEF Idle, TermInv
  <1>2. CASE pump' = [pump EXCEPT ![i].at = "queue", ![i].todo = PendingTerminalInputs(i)]
    <2>1. PendingTerminalInputs(i) \subseteq Inputs
      BY DEF PendingTerminalInputs
    <2>2. pump' \in [Terms -> PumpRows] /\ PumpOf(i) /\ pump'[i].at = "queue"
      <3> DEFINE row == [pump[i] EXCEPT !.at = "queue", !.todo = PendingTerminalInputs(i)]
      <3>1. pump \in [Terms -> PumpRows] /\ pump[i] \in PumpRows /\ "queue" \in PumpAt
        BY PumpType DEF TermInv, PumpAt
      <3>2. row \in PumpRows /\ row.at = "queue" /\ row.epoch = pump[i].epoch
        BY <2>1, <3>1, PumpRowMoves
      <3>3. pump' = [pump EXCEPT ![i] = row]
        BY <1>2, <3>1 DEF PumpRows
      <3> HIDE DEF row
      <3>4. pump' \in [Terms -> PumpRows] /\ pump'[i] = row /\ \A j \in Terms \ {i} : pump'[j] = pump[j]
        BY <3>1, <3>2, <3>3
      <3>5. pump[i].at # "none"
        OBVIOUS
      <3> QED
        BY <3>2, <3>4, <3>5 DEF PumpOf
    <2> QED
      BY <2>2, OnlyPump DEF InHand, Bound
  <1> QED
    BY <1>1, <1>2

LEMMA HeartbeatStep ==
    ASSUME TermInv, NEW i \in Terms, PumpHeartbeat(i) PROVE TermInv'
  <1> USE DEF PumpHeartbeat
  <1>1. CASE ~Holds(i)
    <2>1. Leaves(i) /\ RowAndShellSame
      BY <1>1 DEF RowAndShellSame
    <2> QED
      BY <2>1, LeavesFacts, OnlyPump DEF Idle, TermInv
  <1>2. CASE Holds(i)
    <2>1. session' = session
      BY <1>2 DEF HeartbeatTerminalSession, Holds, TermInv, TermTypeOK
    <2>2. pump' \in [Terms -> PumpRows] /\ PumpOf(i) /\ pump'[i].at = "tick"
      <3>1. (pump[i].ending \/ session.status = "ending") \in BOOLEAN
        OBVIOUS
      <3>2. pump' = [pump EXCEPT ![i].ending = pump[i].ending \/ session.status = "ending"]
        BY <1>2
      <3>3. \A e \in BOOLEAN : [pump[i] EXCEPT !.ending = e] \in PumpRows
        BY PumpType DEF PumpRows, TermInv
      <3>4. pump' = [pump EXCEPT ![i] = [pump[i] EXCEPT !.ending = pump[i].ending \/ session.status = "ending"]]
        BY <3>2
      <3>5. pump' \in [Terms -> PumpRows]
        BY <3>1, <3>3, <3>4, PumpType DEF TermInv
      <3>6. pump'[i].at = "tick" /\ pump'[i].epoch = pump[i].epoch
        BY <3>2, PumpType DEF TermInv, PumpRows
      <3> QED
        BY <3>2, <3>5, <3>6, PumpType DEF PumpOf, TermInv
    <2> QED
      BY <2>1, <2>2, OnlyPump DEF InHand, Bound, RowAndShellSame
  <1> QED
    BY <1>1, <1>2

LEMMA TerminateStep ==
    ASSUME TermInv, NEW i \in Terms, PumpTerminate(i) \/ PumpEnding(i) PROVE TermInv'
  <1> USE DEF PumpTerminate, PumpEnding
  <1>0. /\ shell' \in [op : OpState, stop : BOOLEAN, up : BOOLEAN]
        /\ shell.op # "absent" => shell'.op = shell.op
        /\ shell.op = "absent" => shell'.op = "fenced"
        /\ shell'.up = shell.up
    BY CancelFacts DEF TermInv, TermTypeOK
  <1>a. \E pt \in {"wait", "report", "bind"} :
           /\ Goes(i, pt) /\ (pt = "report" => shell'.op \in TerminalOp)
           /\ pt # "bind" /\ pt # "report" => Bound(i) /\ ~InHand(i)
    BY DEF Bound, InHand
  <1> PICK pt \in {"wait", "report", "bind"} :
           /\ Goes(i, pt) /\ (pt = "report" => shell'.op \in TerminalOp)
           /\ pt # "bind" /\ pt # "report" => Bound(i) /\ ~InHand(i)
    BY <1>a
  <1>b. /\ pump' \in [Terms -> PumpRows] /\ PumpOf(i) /\ pump'[i].at = pt
        /\ pump'[i].epoch = pump[i].epoch /\ pump[i].at \in {"adopted", "terminate"}
    BY GoesFacts DEF TermInv, PumpAt
  <1>1. TermTypeOK'
    BY <1>0, <1>b DEF TermInv, TermTypeOK, PumpRows
  <1>2. RowSound'
    BY <1>0, <1>b, PumpType DEF TermInv, RowSound, PumpOf, Idle
  <1>3. ShellSound'
    <2>1. shell'.op \in TerminalOp \/ shell'.op = shell.op
      BY <1>0 DEF TerminalOp
    <2>2. shell.op \in TerminalOp => shell'.op = shell.op
      BY <1>0 DEF TerminalOp
    <2>3. \A j \in Terms :
             pump'[j].at = "report" /\ pump'[j].epoch = session'.epoch => shell'.op \in TerminalOp
      BY <1>b, <2>2 DEF TermInv, ShellSound, PumpOf
    <2> QED
      BY <1>0, <2>2, <2>3 DEF TermInv, ShellSound, TerminalOp
  <1>4. HandSound' /\ WireSound' /\ LedgerSound'
    BY <1>1, <1>b, HandsKept DEF PumpOf, InHand
  <1>5. ClaimSound'
    <2>1. \A j \in Terms : Bound(j)' /\ Holds(j)' =>
               /\ Bound(j) /\ Holds(j) /\ pump'[j].epoch = pump[j].epoch
               /\ InHand(j) => InHand(j)' /\ pump'[j].in = pump[j].in
      BY <1>b DEF PumpOf, Bound, Holds, InHand, Idle
    <2> QED
      BY <2>1, ClaimKept
  <1> QED
    BY <1>1, <1>2, <1>3, <1>4, <1>5 DEF TermInv

LEMMA LaunchStep ==
    ASSUME TermInv, NEW i \in Terms, PumpLaunch(i) PROVE TermInv'
  <1> USE DEF PumpLaunch
  <1>1. CASE Leaves(i) /\ UNCHANGED <<shell, lateStarts>>
    BY <1>1, LeavesFacts, OnlyPump DEF Idle, TermInv, RowAndShellSame
  <1>2. CASE LaunchAdmitted(i) /\ shell' = StartProcess(ReleaseProcessTombstone(shell))
             /\ Goes(i, IF shell'.op \in TerminalOp THEN "report" ELSE "bind") /\ UNCHANGED lateStarts
    <2>0. /\ shell' \in [op : OpState, stop : BOOLEAN, up : BOOLEAN]
          /\ shell.op \in {"fenced", "absent"} \/ shell' = shell
          /\ shell'.up => shell'.op \in {"live", "indeterminate"}
      <3>1. shell \in [op : OpState, stop : BOOLEAN, up : BOOLEAN]
        BY DEF TermInv, TermTypeOK
      <3>2. shell.up => shell.op \in {"live", "indeterminate"}
        BY DEF TermInv, ShellSound
      <3> QED
        BY <1>2, <3>1, <3>2 DEF StartProcess, ReleaseProcessTombstone, OpState
    <2>1. /\ authority = "active" /\ session.status \in {"claimed", "active"}
          /\ session.by = i /\ session.epoch = pump[i].epoch
      BY <1>2 DEF LaunchAdmitted
    <2>2. PICK pt \in {"report", "bind"} : Goes(i, pt) /\ (pt = "report" => shell'.op \in TerminalOp)
      BY <1>2
    <2>3. /\ pump' \in [Terms -> PumpRows] /\ PumpOf(i) /\ pump'[i].at = pt
          /\ pump'[i].epoch = pump[i].epoch /\ pump[i].at = "adopted"
      BY <2>2, GoesFacts DEF TermInv, PumpAt
    <2>4. TermTypeOK'
      BY <1>2, <2>0, <2>3 DEF TermInv, TermTypeOK, PumpRows
    <2>5. RowSound'
      BY <2>1, <2>3, PumpType DEF TermInv, RowSound, PumpOf, Idle
    <2>6. ShellSound'
      <3>1. \A j \in Terms : pump'[j].at = "report" /\ pump'[j].epoch = session'.epoch => j = i
        <4> SUFFICES ASSUME NEW j \in Terms \ {i}, pump'[j].at = "report", pump'[j].epoch = session'.epoch
                     PROVE FALSE
          OBVIOUS
        <4>1. pump[j].at # "none" /\ pump[j].epoch = session.epoch
          BY <2>3 DEF PumpOf
        <4>2. session.by \in {None, j}
          BY <4>1 DEF TermInv, RowSound
        <4> QED
          BY <2>1, <4>2, TermAssumption DEF None
      <3> QED
        BY <2>0, <2>1, <2>2, <2>3, <3>1 DEF ShellSound
    <2>7. HandSound' /\ WireSound' /\ LedgerSound'
      BY <2>3, <2>4, HandsKept DEF PumpOf, InHand
    <2>8. ClaimSound'
      <3>1. \A j \in Terms : Bound(j)' /\ Holds(j)' =>
                 /\ Bound(j) /\ Holds(j) /\ pump'[j].epoch = pump[j].epoch
                 /\ InHand(j) => InHand(j)' /\ pump'[j].in = pump[j].in
        BY <2>3 DEF PumpOf, Bound, Holds, InHand, Idle
      <3> QED
        BY <3>1, ClaimKept
    <2> QED
      BY <2>4, <2>5, <2>6, <2>7, <2>8 DEF TermInv
  <1>3. CASE LaunchAdmitted(i) /\ lateStarts < MaxLate /\ lateStarts' = lateStarts + 1
             /\ Leaves(i) /\ UNCHANGED shell
    <2>1. /\ session.status \in {"claimed", "active"}
          /\ pump' \in [Terms -> PumpRows] /\ PumpOf(i) /\ pump'[i] = Idle /\ ~InHand(i)' /\ ~Bound(i)'
      BY <1>3, LeavesFacts DEF LaunchAdmitted, TermInv
    <2>2. TermTypeOK'
      BY <1>3, <2>1, TermAssumption DEF TermInv, TermTypeOK, PumpRows
    <2>3. RowSound'
      BY <2>1, <1>3, PumpType DEF TermInv, RowSound, PumpOf, Idle
    <2>4. ShellSound'
      BY <2>1, <1>3 DEF TermInv, ShellSound, PumpOf, Idle
    <2>5. HandSound' /\ WireSound' /\ LedgerSound'
      BY <2>1, <2>2, HandsKept DEF PumpOf, InHand
    <2>6. ClaimSound'
      <3>1. \A j \in Terms : Bound(j)' /\ Holds(j)' =>
                 /\ Bound(j) /\ Holds(j) /\ pump'[j].epoch = pump[j].epoch
                 /\ InHand(j) => InHand(j)' /\ pump'[j].in = pump[j].in
        BY <2>1 DEF PumpOf, Bound, Holds, InHand, Idle
      <3> QED
        BY <3>1, ClaimKept
    <2> QED
      BY <2>2, <2>3, <2>4, <2>5, <2>6 DEF TermInv
  <1> QED
    BY <1>1, <1>2, <1>3

LEMMA BindStep ==
    ASSUME TermInv, NEW i \in Terms, PumpBind(i) PROVE TermInv'
  <1> USE DEF PumpBind
  <1>1. CASE ~Holds(i) /\ Leaves(i)
    BY <1>1, LeavesFacts, OnlyPump DEF Idle, TermInv, RowAndShellSame
  <1>2. CASE Goes(i, "tick")
    <2>0. /\ pump' \in [Terms -> PumpRows] /\ PumpOf(i) /\ pump'[i].at = "tick"
          /\ pump'[i].epoch = pump[i].epoch /\ pump[i].at = "bind"
      BY <1>2, GoesFacts DEF TermInv, PumpAt
    <2>1. \/ session' = session
          \/ Holds(i) /\ session' = [session EXCEPT !.status = IF @ = "ending" THEN @ ELSE "active"]
      BY DEF ReportActive
    <2>2. /\ session'.epoch = session.epoch /\ session'.by = session.by /\ session'.lease = session.lease
          /\ session'.status = session.status \/ (session.status \in Claimed /\ session'.status \in {"ending", "active"})
          /\ session' \in [status : SessionStatus, epoch : 0 .. MaxEpoch, by : Terms \cup {None},
                           lease : {"none", "held", "over"}]
      <3>1. session \in [status : SessionStatus, epoch : 0 .. MaxEpoch, by : Terms \cup {None},
                         lease : {"none", "held", "over"}]
        BY DEF TermInv, TermTypeOK
      <3> QED
        BY <2>1, <3>1 DEF Holds, SessionStatus, Claimed
    <2>3. /\ ledger' \in [Inputs -> [status : InputStatus, epoch : 0 .. MaxEpoch]]
          /\ \A n \in Inputs : \/ ledger'[n] = ledger[n]
                               \/ ledger[n].status = "dequeued" /\ ledger'[n].status = "unknown"
          /\ Holds(i) => \A n \in Inputs : ledger'[n] # [status |-> "dequeued", epoch |-> pump[i].epoch]
      <3>1. ledger \in [Inputs -> [status : InputStatus, epoch : 0 .. MaxEpoch]]
        BY DEF TermInv, TermTypeOK
      <3> QED
        BY <3>1 DEF ResolveDequeuedTerminalInputs, InputStatus
    <2>4. TermTypeOK'
      BY <2>0, <2>2, <2>3 DEF TermInv, TermTypeOK, PumpRows
    <2>5. RowSound'
      BY <2>0, <2>2, PumpType DEF TermInv, RowSound, PumpOf, Idle, Claimed
    <2>6. ShellSound'
      BY <2>0, <2>2 DEF TermInv, ShellSound, PumpOf, Idle
    <2>7. HandSound' /\ WireSound' /\ LedgerSound'
      BY <2>0, <2>3, <2>4, HandsKept DEF PumpOf, InHand
    <2>8. ClaimSound'
      <3> SUFFICES ASSUME NEW j \in Terms, NEW n \in Inputs, Bound(j)', Holds(j)',
                          ledger'[n] = [status |-> "dequeued", epoch |-> pump'[j].epoch]
                   PROVE InHand(j)' /\ pump'[j].in = n
        BY DEF ClaimSound
      <3>1. CASE j = i
        <4>1. ~Holds(i)
          BY <2>0, <2>3, <3>1
        <4> QED
          BY <2>0, <2>2, <2>1, <3>1, <4>1 DEF Holds
      <3>2. CASE j # i
        <4>1. pump'[j] = pump[j] /\ ledger'[n] = ledger[n]
          BY <2>0, <2>3, <3>2 DEF PumpOf
        <4>2. Bound(j) /\ Holds(j)
          BY <2>2, <4>1 DEF Bound, Holds, Claimed
        <4> QED
          BY <4>1, <4>2 DEF TermInv, ClaimSound, InHand
      <3> QED
        BY <3>1, <3>2
    <2> QED
      BY <2>4, <2>5, <2>6, <2>7, <2>8 DEF TermInv
  <1> QED
    BY <1>1, <1>2

LEMMA ReportStep ==
    ASSUME TermInv, NEW i \in Terms, PumpReport(i) PROVE TermInv'
  <1> USE DEF PumpReport
  <1>0. /\ pump' \in [Terms -> PumpRows] /\ PumpOf(i) /\ pump'[i] = Idle /\ ~InHand(i)' /\ ~Bound(i)'
    BY LeavesFacts DEF TermInv
  <1>1. CASE ~Holds(i)
    BY <1>0, <1>1, OnlyPump DEF Idle, RowAndShellSame
  <1>2. CASE Holds(i)
    <2>1. endTerminalSessionTx(Verdict) /\ shell.op \in TerminalOp
      BY <1>2 DEF TermInv, ShellSound, Holds
    <2>2. /\ session'.epoch = session.epoch /\ session'.by = None /\ session'.lease = "none"
          /\ session'.status = Verdict /\ Verdict \in {"ended", "lost"}
          /\ session' \in [status : SessionStatus, epoch : 0 .. MaxEpoch, by : Terms \cup {None},
                           lease : {"none", "held", "over"}]
      BY <2>1 DEF TermInv, TermTypeOK, endTerminalSessionTx, Verdict, SessionStatus, Over
    <2>3. TermTypeOK'
      BY <1>0, <2>1, <2>2, SettledFacts DEF TermInv, TermTypeOK, PumpRows, endTerminalSessionTx
    <2>4. RowSound'
      BY <1>0, <2>2, PumpType DEF TermInv, RowSound, PumpOf, Idle
    <2>5. ShellSound'
      BY <1>0, <2>1, <2>2 DEF TermInv, ShellSound, PumpOf, Idle, Verdict, TerminalOp
    <2>6. HandSound' /\ WireSound' /\ LedgerSound'
      BY <1>0, <2>1, <2>3, HandsKept, SettledFacts DEF PumpOf, InHand, TermInv, endTerminalSessionTx
    <2>7. ClaimSound'
      BY <2>1, SettledFacts DEF ClaimSound, TermInv, endTerminalSessionTx
    <2> QED
      BY <2>3, <2>4, <2>5, <2>6, <2>7 DEF TermInv
  <1> QED
    BY <1>1, <1>2

-----------------------------------------------------------------------------
(* An input in the pump's hand *)

LEMMA DequeueStep ==
    ASSUME TermInv, NEW i \in Terms, PumpDequeue(i) PROVE TermInv'
  <1> DEFINE n == CHOOSE k \in pump[i].todo : \A m \in pump[i].todo : k <= m
  <1>1. CASE Leaves(i) /\ UNCHANGED ledger
    BY <1>1, LeavesFacts, OnlyPump DEF Idle, TermInv, RowAndShellSame, PumpDequeue
  <1>2. CASE Disposed(i, n, "dequeued")
             /\ pump' = [pump EXCEPT ![i].at = "dequeued", ![i].in = n, ![i].todo = @ \ {n}]
    <2>0. /\ ledger \in [Inputs -> [status : InputStatus, epoch : 0 .. MaxEpoch]]
          /\ pump[i].todo \subseteq Inputs /\ pump[i].todo # {} /\ pump[i].at = "queue"
      BY DEF TermInv, TermTypeOK, PumpDequeue
    <2> UNCHANGED <<authority, session, runnerLock, term, wire, lateStarts, shell, typed>>
      BY DEF PumpDequeue
    <2>1. n \in Inputs
      <3> HIDE DEF n
      <3>1. \E k \in pump[i].todo : \A m \in pump[i].todo : k <= m
        <4>1. pump[i].todo \in SUBSET Nat
          <5>1. \A x \in Inputs : x \in Nat
            BY TermAssumption DEF Inputs
          <5> QED
            BY <2>0, <5>1
        <4> QED
          BY <2>0, <4>1, LeastInput
      <3> QED
        BY <2>0, <3>1 DEF n
    <2> HIDE DEF n
    <2>2. /\ Holds(i) /\ ledger[n].epoch = pump[i].epoch /\ ledger[n].status \in {"intended", "dequeued"}
          /\ ledger' = [ledger EXCEPT ![n].status = "dequeued"]
      BY <1>2 DEF Disposed
    <2>3. ledger[n].status = "intended"
      <3>1. Bound(i) /\ ~InHand(i)
        BY <2>0 DEF Bound, InHand
      <3>2. ledger[n] # [status |-> "dequeued", epoch |-> pump[i].epoch]
        BY <2>1, <2>2, <3>1 DEF TermInv, ClaimSound
      <3> QED
        BY <2>0, <2>1, <2>2, <3>2
    <2>4. ~IsTyped(n) /\ \A w \in wire : w.in # n
      BY <2>1, <2>3 DEF TermInv, LedgerSound, Untouched
    <2>5. /\ pump' \in [Terms -> PumpRows] /\ PumpOf(i) /\ pump'[i].at = "dequeued" /\ pump'[i].in = n
          /\ pump'[i].epoch = pump[i].epoch
      <3>1. [pump[i] EXCEPT !.at = "dequeued", !.in = n, !.todo = @ \ {n}] \in PumpRows
        BY <2>1, PumpType DEF PumpRows, PumpAt, TermInv
      <3>2. pump' = [pump EXCEPT ![i] = [pump[i] EXCEPT !.at = "dequeued", !.in = n, !.todo = @ \ {n}]]
        BY <1>2, PumpType DEF TermInv
      <3>3. pump' \in [Terms -> PumpRows]
        BY <3>1, <3>2, PumpType DEF TermInv
      <3>4. pump'[i].at = "dequeued" /\ pump'[i].in = n /\ pump'[i].epoch = pump[i].epoch
        BY <3>2, PumpType DEF PumpRows, TermInv
      <3> QED
        BY <2>0, <3>2, <3>3, <3>4, PumpType DEF PumpOf, TermInv
    <2>6. TermTypeOK'
      <3>1. ledger' \in [Inputs -> [status : InputStatus, epoch : 0 .. MaxEpoch]]
        BY <2>0, <2>1, <2>2 DEF InputStatus
      <3> QED
        BY <2>5, <3>1 DEF TermInv, TermTypeOK, PumpRows
    <2>7. RowSound' /\ ShellSound'
      BY <2>5, RowKept
    <2>8. \A m : IsTyped(m)' = IsTyped(m)
      BY DEF IsTyped
    <2>9. \A m \in Inputs : m # n => ledger'[m] = ledger[m]
      BY <2>0, <2>2
    <2>a. ledger'[n].status = "dequeued"
      BY <2>0, <2>1, <2>2
    <2>b. \A j \in Terms : InHand(j) => pump[j].in # n
      BY <2>3 DEF TermInv, HandSound
    <2>c. HandSound'
      <3>1. \A j \in Terms \ {i} : pump'[j] = pump[j] /\ (InHand(j)' <=> InHand(j))
        BY <2>5 DEF PumpOf, InHand
      <3>2. \A j \in Terms : InHand(j)' =>
               pump'[j].in \in Inputs /\ ledger'[pump'[j].in].status \in {"dequeued", "unknown"}
        BY <2>1, <2>5, <2>9, <2>a, <2>b, <3>1 DEF TermInv, HandSound
      <3>3. \A j, k \in Terms : InHand(j)' /\ InHand(k)' /\ pump'[j].in = pump'[k].in => j = k
        BY <2>5, <2>b, <3>1 DEF TermInv, HandSound
      <3>4. \A j \in Terms : pump'[j].at = "dequeued" =>
               ~IsTyped(pump[j].in)' /\ \A w \in wire' : w.in # pump'[j].in
        BY <2>4, <2>5, <2>8, <3>1 DEF TermInv, HandSound
      <3>5. \A j \in Terms : pump'[j].at = "told" =>
               /\ pump'[j].saw \in {"written", "failed", "unknown"}
               /\ pump'[j].saw = "written" => IsTyped(pump[j].in)'
               /\ pump'[j].saw = "failed" => ~IsTyped(pump[j].in)' /\ \A w \in wire' : w.in # pump'[j].in
        BY <2>5, <2>8, <3>1 DEF TermInv, HandSound
      <3> QED
        BY <3>2, <3>3, <3>4, <3>5 DEF HandSound
    <2>d. WireSound'
      <3>1. \A w \in wire : w.by # None => w.by \in Terms /\ w.by # i
        BY <2>0, PumpType DEF TermInv, WireSound, WireRows
      <3> QED
        BY <2>5, <2>8, <3>1 DEF TermInv, WireSound, PumpOf
    <2>e. LedgerSound'
      BY <2>8, <2>9, <2>a DEF TermInv, LedgerSound, Untouched
    <2>f. ClaimSound'
      <3> SUFFICES ASSUME NEW j \in Terms, NEW m \in Inputs, Bound(j)', Holds(j)',
                          ledger'[m] = [status |-> "dequeued", epoch |-> pump'[j].epoch]
                   PROVE InHand(j)' /\ pump'[j].in = m
        BY DEF ClaimSound
      <3>1. j = i
        BY <2>2 DEF Holds
      <3>2. CASE m = n
        BY <2>5, <3>1, <3>2 DEF InHand
      <3>3. CASE m # n
        <4>1. ledger[m] = [status |-> "dequeued", epoch |-> pump[i].epoch]
          BY <2>5, <2>9, <3>1, <3>3
        <4>2. Bound(i) /\ ~InHand(i)
          BY <2>0 DEF Bound, InHand
        <4> QED
          BY <2>2, <4>1, <4>2 DEF TermInv, ClaimSound
      <3> QED
        BY <3>2, <3>3
    <2> QED
      BY <2>6, <2>7, <2>c, <2>d, <2>e, <2>f DEF TermInv
  <1> QED
    BY <1>1, <1>2 DEF PumpDequeue

LEMMA DeliverStep ==
    ASSUME TermInv, NEW i \in Terms, PumpDeliver(i) PROVE TermInv'
  <1> USE DEF PumpDeliver
  <1>0. /\ pump[i].at = "dequeued" /\ pump[i].in \in Inputs
        /\ ~IsTyped(pump[i].in) /\ \A w \in wire : w.in # pump[i].in
    BY DEF TermInv, HandSound, InHand
  <1>a. \A m : IsTyped(m)' = IsTyped(m)
    BY DEF IsTyped
  <1>b. /\ pump' \in [Terms -> PumpRows] /\ PumpOf(i) /\ pump'[i].at \in {"writing", "told"}
        /\ pump'[i].in = pump[i].in /\ pump'[i].epoch = pump[i].epoch
        /\ pump'[i].at = "told" => pump'[i].saw = "failed"
    <2>1. CASE Goes(i, "writing")
      BY <1>0, <2>1, GoesFacts DEF PumpAt, TermInv
    <2>2. CASE pump' = [pump EXCEPT ![i].at = "told", ![i].saw = "failed"]
      <3>1. [pump[i] EXCEPT !.at = "told", !.saw = "failed"] \in PumpRows
        <4>1. pump[i] \in PumpRows /\ "told" \in PumpAt /\ "failed" \in OpState \cup InputStatus
          BY PumpType DEF TermInv, PumpAt, InputStatus
        <4> QED
          BY <4>1, PumpRowMoves
      <3>2. pump' = [pump EXCEPT ![i] = [pump[i] EXCEPT !.at = "told", !.saw = "failed"]]
        BY <2>2, PumpType DEF TermInv
      <3>3. pump' \in [Terms -> PumpRows]
        BY <3>1, <3>2, PumpType DEF TermInv
      <3>4. /\ pump'[i].at = "told" /\ pump'[i].saw = "failed" /\ pump'[i].in = pump[i].in
            /\ pump'[i].epoch = pump[i].epoch
        BY <3>2, PumpType DEF PumpRows, TermInv
      <3> QED
        BY <1>0, <3>2, <3>3, <3>4, PumpType DEF PumpOf, TermInv
    <2> QED
      BY <2>1, <2>2
  <1>c. /\ wire' = IF pump'[i].at = "writing" THEN wire \cup {[by |-> i, in |-> pump[i].in]} ELSE wire
        /\ wire' \subseteq WireRows
    <2>1. wire \subseteq WireRows /\ [by |-> i, in |-> pump[i].in] \in WireRows
      BY <1>0, PumpType DEF WireRows, TermInv
    <2>2. CASE shell.op = "live"
      BY <1>0, <2>1, <2>2, GoesFacts DEF PumpAt, TermInv
    <2>3. CASE shell.op # "live"
      BY <1>0, <2>1, <2>3, PumpType DEF TermInv, PumpRows
    <2> QED
      BY <2>2, <2>3
  <1>d. \A j \in Terms \ {i} : pump'[j] = pump[j] /\ (InHand(j)' <=> InHand(j))
    BY <1>b DEF PumpOf, InHand
  <1>e. \A j \in Terms \ {i} : InHand(j) => pump[j].in # pump[i].in
    BY <1>0 DEF TermInv, HandSound, InHand
  <1>1. TermTypeOK'
    BY <1>b, <1>c DEF TermInv, TermTypeOK, PumpRows, WireRows
  <1>2. RowSound' /\ ShellSound'
    BY <1>b, RowKept
  <1>3. HandSound'
    <2>2. \A j \in Terms : InHand(j)' =>
             pump'[j].in \in Inputs /\ ledger'[pump'[j].in].status \in {"dequeued", "unknown"}
      BY <1>0, <1>b, <1>d DEF TermInv, HandSound, InHand
    <2>3. \A j, k \in Terms : InHand(j)' /\ InHand(k)' /\ pump'[j].in = pump'[k].in => j = k
      BY <1>b, <1>d, <1>e DEF TermInv, HandSound
    <2>4. \A j \in Terms \ {i} : InHand(j) => \A w \in wire' : w.in = pump[j].in => w \in wire
      BY <1>c, <1>e
    <2>5. \A j \in Terms : pump'[j].at = "dequeued" =>
             ~IsTyped(pump[j].in)' /\ \A w \in wire' : w.in # pump'[j].in
      BY <1>a, <1>b, <1>d, <2>4 DEF TermInv, HandSound, InHand
    <2>6. \A j \in Terms : pump'[j].at = "told" =>
             /\ pump'[j].saw \in {"written", "failed", "unknown"}
             /\ pump'[j].saw = "written" => IsTyped(pump[j].in)'
             /\ pump'[j].saw = "failed" => ~IsTyped(pump[j].in)' /\ \A w \in wire' : w.in # pump'[j].in
      <3>1. CASE pump'[i].at = "told"
        BY <1>0, <1>a, <1>b, <1>c, <1>d, <3>1 DEF TermInv, HandSound
      <3>2. CASE pump'[i].at # "told"
        BY <1>a, <1>b, <1>d, <2>4, <3>2 DEF TermInv, HandSound, InHand
      <3> QED
        BY <3>1, <3>2
    <2> QED
      BY <2>2, <2>3, <2>5, <2>6 DEF HandSound
  <1>4. WireSound'
    <2>1. \A w \in wire' : w \in wire \/ (w.by = i /\ w.in = pump[i].in /\ pump'[i].at = "writing")
      BY <1>c
    <2>2. \A w \in wire' : ~IsTyped(w.in)'
      BY <1>0, <1>a, <2>1 DEF TermInv, WireSound
    <2>3. \A w \in wire : w.by # None => w.by \in Terms /\ w.by # i
      BY <1>0, PumpType DEF TermInv, WireSound, WireRows
    <2>4. \A w \in wire' : w.by # None => pump'[w.by].at = "writing" /\ pump'[w.by].in = w.in
      BY <1>b, <1>d, <2>1, <2>3 DEF TermInv, WireSound
    <2>5. \A v, w \in wire' : v.in = w.in => v = w
      BY <1>0, <1>c DEF TermInv, WireSound
    <2> QED
      BY <2>2, <2>4, <2>5 DEF WireSound, TermInv
  <1>5. LedgerSound'
    <2>1. ledger[pump[i].in].status \notin Untouched
      BY <1>0 DEF TermInv, HandSound, InHand, Untouched
    <2>2. \A n \in Inputs : ledger[n].status \in Untouched => \A w \in wire' : w.in # n
      BY <1>c, <2>1 DEF TermInv, LedgerSound
    <2> QED
      BY <1>a, <2>2 DEF TermInv, LedgerSound
  <1>6. ClaimSound'
    <2>1. \A j \in Terms : Bound(j)' /\ Holds(j)' =>
               /\ Bound(j) /\ Holds(j) /\ pump'[j].epoch = pump[j].epoch
               /\ InHand(j) => InHand(j)' /\ pump'[j].in = pump[j].in
      BY <1>0, <1>b DEF PumpOf, Bound, Holds, InHand
    <2> QED
      BY <2>1, ClaimKept
  <1> QED
    BY <1>1, <1>2, <1>3, <1>4, <1>5, <1>6 DEF TermInv

\* A call that ended, told or not: its write is gone from the wire, or nobody's.
LEMMA ToldStep ==
    ASSUME TermInv, NEW i \in Terms, pump[i].at = "writing", NEW saw \in {"written", "failed", "unknown"},
           pump' = [pump EXCEPT ![i].at = "told", ![i].saw = saw],
           UNCHANGED <<authority, session, ledger, runnerLock, term, lateStarts, shell>>,
           wire' \subseteq WireRows, typed' \in Seq(Inputs),
           \A v \in wire' : \E w \in wire : v.in = w.in /\ (v.by = w.by \/ v.by = None) /\ v.by # i,
           \A v, w \in wire' : v.in = w.in => v = w,
           \A n \in Inputs : n # pump[i].in => IsTyped(n)' = IsTyped(n),
           saw = "written" => IsTyped(pump[i].in)',
           saw = "failed" => IsTyped(pump[i].in)' = FALSE /\ \A w \in wire' : w.in # pump[i].in,
           \A w \in wire' : w.in = pump[i].in => ~IsTyped(pump[i].in)',
           IsTyped(pump[i].in) => IsTyped(pump[i].in)',
           \A k, l \in DOMAIN typed' : typed'[k] = typed'[l] => k = l
    PROVE  TermInv'
  <1>0. pump[i].in \in Inputs /\ ledger[pump[i].in].status \in {"dequeued", "unknown"} /\ InHand(i)
    BY DEF TermInv, HandSound, InHand
  <1>b. /\ pump' \in [Terms -> PumpRows] /\ PumpOf(i) /\ pump'[i].at = "told" /\ pump'[i].saw = saw
        /\ pump'[i].in = pump[i].in /\ pump'[i].epoch = pump[i].epoch
    <2>1. [pump[i] EXCEPT !.at = "told", !.saw = saw] \in PumpRows
      <3>1. pump[i] \in PumpRows /\ "told" \in PumpAt /\ saw \in OpState \cup InputStatus
        BY PumpType DEF TermInv, PumpAt, InputStatus
      <3> QED
        BY <3>1, PumpRowMoves
    <2>2. pump' = [pump EXCEPT ![i] = [pump[i] EXCEPT !.at = "told", !.saw = saw]]
      BY PumpType DEF TermInv
    <2>3. pump' \in [Terms -> PumpRows]
      BY <2>1, <2>2, PumpType DEF TermInv
    <2>4. /\ pump'[i].at = "told" /\ pump'[i].saw = saw /\ pump'[i].in = pump[i].in
          /\ pump'[i].epoch = pump[i].epoch
      BY <2>2, PumpType DEF PumpRows, TermInv
    <2> QED
      BY <2>2, <2>3, <2>4, PumpType DEF PumpOf, TermInv
  <1>d. \A j \in Terms \ {i} : pump'[j] = pump[j] /\ (InHand(j)' <=> InHand(j))
    BY <1>b DEF PumpOf, InHand
  <1>e. \A j \in Terms \ {i} : InHand(j) => pump[j].in # pump[i].in /\ pump[j].in \in Inputs
    BY <1>0 DEF TermInv, HandSound
  <1>1. TermTypeOK'
    BY <1>b DEF TermInv, TermTypeOK, PumpRows, WireRows
  <1>2. RowSound' /\ ShellSound'
    BY <1>b, RowKept
  <1>f. IsTyped(pump[i].in)' = \E k \in DOMAIN typed' : typed'[k] = pump[i].in
    BY <1>b DEF IsTyped
  <1>3. HandSound'
    <2>2. \A j \in Terms : InHand(j)' =>
             pump'[j].in \in Inputs /\ ledger'[pump'[j].in].status \in {"dequeued", "unknown"}
      BY <1>0, <1>b, <1>d DEF TermInv, HandSound
    <2>3. \A j, k \in Terms : InHand(j)' /\ InHand(k)' /\ pump'[j].in = pump'[k].in => j = k
      BY <1>b, <1>d, <1>e DEF TermInv, HandSound
    <2>4. \A j \in Terms \ {i} : InHand(j) =>
             /\ IsTyped(pump[j].in)' = IsTyped(pump[j].in)
             /\ \A v \in wire' : \E w \in wire : v.in = w.in
      BY <1>d, <1>e
    <2>5. \A j \in Terms : pump'[j].at = "dequeued" =>
             ~IsTyped(pump[j].in)' /\ \A w \in wire' : w.in # pump'[j].in
      BY <1>b, <1>d, <2>4 DEF TermInv, HandSound, InHand
    <2>6. \A j \in Terms : pump'[j].at = "told" =>
             /\ pump'[j].saw \in {"written", "failed", "unknown"}
             /\ pump'[j].saw = "written" => IsTyped(pump[j].in)'
             /\ pump'[j].saw = "failed" => ~IsTyped(pump[j].in)' /\ \A w \in wire' : w.in # pump'[j].in
      <3>1. CASE saw = "unknown"
        BY <1>b, <1>d, <2>4, <3>1 DEF TermInv, HandSound, InHand
      <3>2. CASE saw # "unknown"
        BY <1>b, <1>d, <2>4, <3>2 DEF TermInv, HandSound, InHand
      <3> QED
        BY <3>1, <3>2
    <2> QED
      BY <2>2, <2>3, <2>5, <2>6 DEF HandSound
  <1>4. WireSound'
    <2>1. \A w \in wire' : w.in \in Inputs /\ w.by \in Terms \cup {None}
      BY DEF WireRows
    <2>2. \A w \in wire' : ~IsTyped(w.in)'
      <3> SUFFICES ASSUME NEW w \in wire' PROVE ~IsTyped(w.in)'
        OBVIOUS
      <3>1. PICK v \in wire : w.in = v.in
        OBVIOUS
      <3>2. CASE w.in = pump[i].in
        BY <3>2, <1>b DEF IsTyped
      <3>3. CASE w.in # pump[i].in
        BY <2>1, <3>1, <3>3 DEF TermInv, WireSound
      <3> QED
        BY <3>2, <3>3
    <2>4. \A w \in wire' : w.by # None => pump'[w.by].at = "writing" /\ pump'[w.by].in = w.in
      <3> SUFFICES ASSUME NEW w \in wire', w.by # None
                   PROVE  pump'[w.by].at = "writing" /\ pump'[w.by].in = w.in
        OBVIOUS
      <3>1. PICK v \in wire : w.in = v.in /\ (w.by = v.by \/ w.by = None) /\ w.by # i
        OBVIOUS
      <3>2. w.by = v.by /\ w.by \in Terms \ {i}
        BY <2>1, <3>1
      <3>3. pump[v.by].at = "writing" /\ pump[v.by].in = v.in
        BY <3>2 DEF TermInv, WireSound
      <3>4. pump'[v.by] = pump[v.by]
        BY <1>d, <3>2
      <3> QED
        BY <3>1, <3>2, <3>3, <3>4
    <2> QED
      BY <2>2, <2>4 DEF WireSound
  <1>5. LedgerSound'
    <2>1. ledger[pump[i].in].status \notin Untouched \cup {"written"}
      BY <1>0 DEF Untouched
    <2>2. \A n \in Inputs : ledger[n].status \in Untouched => \A w \in wire' : w.in # n
      BY DEF TermInv, LedgerSound
    <2> QED
      BY <2>1, <2>2 DEF TermInv, LedgerSound
  <1>6. ClaimSound'
    <2>1. \A j \in Terms : Bound(j)' /\ Holds(j)' =>
               /\ Bound(j) /\ Holds(j) /\ pump'[j].epoch = pump[j].epoch
               /\ InHand(j) => InHand(j)' /\ pump'[j].in = pump[j].in
      BY <1>b DEF PumpOf, Bound, Holds, InHand
    <2> QED
      BY <2>1, ClaimKept
  <1> QED
    BY <1>1, <1>2, <1>3, <1>4, <1>5, <1>6 DEF TermInv

LEMMA GivesUpStep ==
    ASSUME TermInv, NEW i \in Terms, PumpGivesUp(i) PROVE TermInv'
  <1> USE DEF PumpGivesUp
  <1>0. wire \subseteq WireRows /\ pump[i].in \in Inputs /\ None \notin Terms
    BY PumpType, TermAssumption DEF TermInv, HandSound, InHand, None
  <1>1. wire' \subseteq WireRows
    BY <1>0 DEF WireRows, Orphaned
  <1>2. \A v \in wire' : \E w \in wire : /\ v.in = w.in /\ v.by = IF w.by = i THEN None ELSE w.by
                                         /\ v = [w EXCEPT !.by = IF w.by = i THEN None ELSE w.by]
    BY <1>0 DEF WireRows, Orphaned
  <1>3. \A v \in wire' : \E w \in wire : v.in = w.in /\ (v.by = w.by \/ v.by = None) /\ v.by # i
    BY <1>0, <1>2
  <1>4. \A v, w \in wire' : v.in = w.in => v = w
    BY <1>2 DEF WireSound, TermInv
  <1>5. \A n : IsTyped(n)' = IsTyped(n)
    BY DEF IsTyped
  <1>6. pump'[i].in = pump[i].in
    BY PumpType DEF TermInv, PumpRows
  <1>7. IsTyped(pump[i].in)' = IsTyped(pump[i].in)
    BY <1>6 DEF IsTyped
  <1>8. \A w \in wire' : w.in = pump[i].in => ~IsTyped(pump[i].in)'
    BY <1>3, <1>7 DEF TermInv, WireSound
  <1>9. typed' \in Seq(Inputs) /\ \A k, l \in DOMAIN typed' : typed'[k] = typed'[l] => k = l
    BY DEF TermInv, TermTypeOK, WireSound
  <1> DEFINE saw == "unknown"
  <1>10. saw \in {"written", "failed", "unknown"} /\ pump' = [pump EXCEPT ![i].at = "told", ![i].saw = saw]
    OBVIOUS
  <1>11. saw # "written" /\ saw # "failed"
    OBVIOUS
  <1> HIDE DEF saw
  <1> QED
    BY <1>1, <1>3, <1>4, <1>5, <1>7, <1>8, <1>9, <1>10, <1>11, ToldStep

\* A write lands: the shell gets it, or it does not, and nobody writes it again.
LEMMA LandFacts ==
    ASSUME TermInv, NEW w \in wire, typed' \in {typed, Append(typed, w.in)}
    PROVE  /\ typed' \in Seq(Inputs)
           /\ \A n \in Inputs : n # w.in => ((\E k \in DOMAIN typed' : typed'[k] = n) <=> IsTyped(n))
           /\ typed' = Append(typed, w.in) => \E k \in DOMAIN typed' : typed'[k] = w.in
           /\ typed' = typed => ~ \E k \in DOMAIN typed' : typed'[k] = w.in
           /\ \A k, l \in DOMAIN typed' : typed'[k] = typed'[l] => k = l
           /\ ~IsTyped(w.in)
  <1>0. /\ typed \in Seq(Inputs) /\ w.in \in Inputs /\ ~IsTyped(w.in)
        /\ \A k, l \in DOMAIN typed : typed[k] = typed[l] => k = l
    BY PumpType DEF TermInv, TermTypeOK, WireRows, WireSound
  <1>1. CASE typed' = typed
    BY <1>0, <1>1 DEF IsTyped
  <1>2. CASE typed' = Append(typed, w.in)
    <2>1. /\ DOMAIN typed' = 1 .. Len(typed) + 1 /\ DOMAIN typed = 1 .. Len(typed)
          /\ \A k \in DOMAIN typed : typed'[k] = typed[k]
          /\ typed'[Len(typed) + 1] = w.in /\ Len(typed) \in Nat /\ typed' \in Seq(Inputs)
      BY <1>0, <1>2
    <2>2. \A k \in DOMAIN typed' : k \in DOMAIN typed \/ k = Len(typed) + 1
      BY <2>1
    <2>3. \A n \in Inputs : n # w.in => ((\E k \in DOMAIN typed' : typed'[k] = n) <=> IsTyped(n))
      BY <2>1, <2>2 DEF IsTyped
    <2>4. \A k \in DOMAIN typed : typed[k] # w.in
      BY <1>0 DEF IsTyped
    <2>5. \A k, l \in DOMAIN typed' : typed'[k] = typed'[l] => k = l
      BY <1>0, <2>1, <2>2, <2>4
    <2>6. Len(typed) + 1 \in DOMAIN typed' /\ typed' # typed
      BY <2>1
    <2> QED
      BY <1>0, <2>1, <2>3, <2>5, <2>6
  <1> QED
    BY <1>1, <1>2

LEMMA LandStep ==
    ASSUME TermInv, NEW w \in wire, Land(w) PROVE TermInv'
  <1> USE DEF Land
  <1>0. wire \subseteq WireRows /\ w.in \in Inputs /\ w.by \in Terms \cup {None}
    BY PumpType DEF TermInv, WireRows
  <1>1. PICK saw \in {"written", "failed", "unknown"} :
           /\ saw = "written" => shell.op = "live"
           /\ typed' \in {IF saw = "failed" \/ shell.op # "live" THEN typed ELSE Append(typed, w.in)} \cup
                         (IF saw = "unknown" THEN {typed} ELSE {})
           /\ pump' = IF w.by = None THEN pump
                      ELSE [pump EXCEPT ![w.by].at = "told", ![w.by].saw = saw]
    OBVIOUS
  <1>2. typed' \in {typed, Append(typed, w.in)}
    BY <1>1
  <1>3. /\ saw = "written" => typed' = Append(typed, w.in)
        /\ saw = "failed" => typed' = typed
    BY <1>1
  <1>4. /\ typed' \in Seq(Inputs)
        /\ \A n \in Inputs : n # w.in => IsTyped(n)' = IsTyped(n)
        /\ \A k, l \in DOMAIN typed' : typed'[k] = typed'[l] => k = l
    BY <1>2, LandFacts DEF IsTyped
  <1>5. wire' \subseteq WireRows /\ \A v \in wire' : v \in wire /\ v.in # w.in
    BY <1>0 DEF TermInv, WireSound
  <1>6. CASE w.by # None
    <2> DEFINE i == w.by
    <2>1. i \in Terms /\ pump[i].at = "writing" /\ pump[i].in = w.in
      BY <1>0, <1>6 DEF TermInv, WireSound
    <2>2. pump' = [pump EXCEPT ![i].at = "told", ![i].saw = saw]
      BY <1>1, <1>6
    <2>3. \A v \in wire' : v.by # i
      BY <1>5, <1>6, <2>1 DEF TermInv, WireSound
    <2> HIDE DEF i
    <2>4. pump'[i].in = w.in
      BY <2>1, <2>2, PumpType DEF TermInv, PumpRows
    <2>5. IsTyped(pump[i].in)' <=> \E k \in DOMAIN typed' : typed'[k] = w.in
      BY <2>4 DEF IsTyped
    <2>6. saw = "written" => IsTyped(pump[i].in)'
      BY <1>2, <1>3, <2>5, LandFacts
    <2>7. saw = "failed" => IsTyped(pump[i].in)' = FALSE
      BY <1>2, <1>3, <2>5, LandFacts
    <2>8. ~IsTyped(pump[i].in)
      BY <1>2, <2>1, LandFacts
    <2>9. \A v \in wire' : v.in # pump[i].in
      BY <1>5, <2>1
    <2>10. \A v \in wire' : \E x \in wire : v.in = x.in /\ (v.by = x.by \/ v.by = None) /\ v.by # i
      BY <1>5, <2>3
    <2>11. \A v, x \in wire' : v.in = x.in => v = x
      BY <1>5 DEF TermInv, WireSound
    <2>12. \A n \in Inputs : n # pump[i].in => IsTyped(n)' = IsTyped(n)
      BY <1>4, <2>1
    <2> QED
      BY <1>4, <1>5, <2>1, <2>2, <2>6, <2>7, <2>8, <2>9, <2>10, <2>11, <2>12, ToldStep
  <1>7. CASE w.by = None
    <2>0. pump' = pump
      BY <1>1, <1>7
    <2>1. TermTypeOK'
      BY <1>4, <1>5, <2>0 DEF TermInv, TermTypeOK, WireRows
    <2>2. RowSound' /\ ShellSound'
      <3>1. RowSound'
        BY <2>0 DEF TermInv, RowSound
      <3>2. ShellSound'
        BY <2>0 DEF TermInv, ShellSound
      <3> QED
        BY <3>1, <3>2
    <2>3. IsTyped(w.in) = FALSE
      BY <1>2, LandFacts
    <2>4. HandSound'
      <3>1. \A j \in Terms : InHand(j)' <=> InHand(j)
        BY <2>0 DEF InHand
      <3>2. \A j \in Terms : InHand(j) => pump[j].in \in Inputs
        BY DEF TermInv, HandSound
      <3>3. \A j \in Terms : InHand(j) /\ pump[j].in # w.in => IsTyped(pump[j].in)' = IsTyped(pump[j].in)
        BY <1>4, <2>0, <3>2
      <3>4. \A j \in Terms : pump[j].at = "dequeued" \/ (pump[j].at = "told" /\ pump[j].saw \in {"failed", "written"})
               => pump[j].in # w.in
        BY <2>3 DEF TermInv, HandSound
      <3>5. \A j \in Terms : pump[j].at = "dequeued" \/ pump[j].at = "told" => InHand(j)
        BY DEF InHand
      <3>6. \A j \in Terms : pump[j].at = "dequeued" =>
               ~IsTyped(pump[j].in)' /\ \A v \in wire' : v.in # pump[j].in
        BY <1>5, <3>3, <3>4, <3>5 DEF TermInv, HandSound
      <3>7. \A j \in Terms : pump[j].at = "told" =>
               /\ pump[j].saw \in {"written", "failed", "unknown"}
               /\ pump[j].saw = "written" => IsTyped(pump[j].in)'
               /\ pump[j].saw = "failed" => ~IsTyped(pump[j].in)' /\ \A v \in wire' : v.in # pump[j].in
        BY <1>5, <3>3, <3>4, <3>5 DEF TermInv, HandSound
      <3> QED
        BY <2>0, <3>1, <3>6, <3>7 DEF TermInv, HandSound
    <2>5. WireSound'
      <3>1. \A v \in wire' : v.in \in Inputs
        BY <1>5 DEF WireRows
      <3> QED
        BY <1>4, <1>5, <2>0, <3>1 DEF TermInv, WireSound
    <2>6. LedgerSound'
      <3>1. ledger[w.in].status \notin Untouched \cup {"written"}
        BY <1>0, <2>3 DEF TermInv, LedgerSound
      <3> QED
        BY <1>4, <1>5, <3>1 DEF TermInv, LedgerSound
    <2>7. ClaimSound'
      BY <2>0, ClaimKept DEF Bound, Holds, InHand
    <2> QED
      BY <2>1, <2>2, <2>4, <2>5, <2>6, <2>7 DEF TermInv
  <1> QED
    BY <1>6, <1>7

LEMMA DisposeStep ==
    ASSUME TermInv, NEW i \in Terms, PumpDispose(i) PROVE TermInv'
  <1> USE DEF PumpDispose
  <1>1. CASE Leaves(i) /\ UNCHANGED ledger
    BY <1>1, LeavesFacts, OnlyPump DEF Idle, TermInv, RowAndShellSame
  <1>2. CASE Disposed(i, pump[i].in, pump[i].saw)
             /\ pump' = [pump EXCEPT ![i].at = "queue", ![i].in = 0, ![i].saw = "none"]
    <2> DEFINE n == pump[i].in
               saw == pump[i].saw
    <2>0. /\ n \in Inputs /\ saw \in {"written", "failed", "unknown"} /\ InHand(i)
          /\ saw = "written" => IsTyped(n)
          /\ saw = "failed" => ~IsTyped(n) /\ \A w \in wire : w.in # n
      BY DEF TermInv, HandSound, InHand
    <2>1. ledger \in [Inputs -> [status : InputStatus, epoch : 0 .. MaxEpoch]]
      BY DEF TermInv, TermTypeOK
    <2>2. Holds(i) /\ ledger' = [ledger EXCEPT ![n].status = saw]
      BY <1>2 DEF Disposed
    <2>3. \A j \in Terms \ {i} : InHand(j) => pump[j].in # n
      BY <2>0 DEF TermInv, HandSound
    <2>4. /\ pump' \in [Terms -> PumpRows] /\ PumpOf(i) /\ pump'[i].at = "queue"
          /\ pump'[i].epoch = pump[i].epoch
      <3>1. [pump[i] EXCEPT !.at = "queue", !.in = 0, !.saw = "none"] \in PumpRows
        BY PumpType DEF PumpRows, PumpAt, TermInv, InputStatus
      <3>2. pump' = [pump EXCEPT ![i] = [pump[i] EXCEPT !.at = "queue", !.in = 0, !.saw = "none"]]
        BY <1>2, PumpType DEF TermInv
      <3>3. pump' \in [Terms -> PumpRows]
        BY <3>1, <3>2, PumpType DEF TermInv
      <3>4. pump'[i].at = "queue" /\ pump'[i].epoch = pump[i].epoch
        BY <3>2, PumpType DEF PumpRows, TermInv
      <3> QED
        BY <3>2, <3>3, <3>4, PumpType DEF PumpOf, TermInv
    <2> HIDE DEF n, saw
    <2>5. /\ ledger' \in [Inputs -> [status : InputStatus, epoch : 0 .. MaxEpoch]]
          /\ ledger'[n].status = saw /\ \A m \in Inputs : m # n => ledger'[m] = ledger[m]
      BY <2>0, <2>1, <2>2 DEF InputStatus
    <2>6. TermTypeOK'
      BY <2>4, <2>5 DEF TermInv, TermTypeOK, PumpRows
    <2>7. RowSound' /\ ShellSound'
      BY <2>4, RowKept
    <2>8. \A m : IsTyped(m)' = IsTyped(m)
      BY DEF IsTyped
    <2>9. \A j \in Terms \ {i} : pump'[j] = pump[j] /\ (InHand(j)' <=> InHand(j))
      BY <2>4 DEF PumpOf, InHand
    <2>10. ~InHand(i)'
      BY <2>4 DEF InHand
    <2>11. HandSound'
      <3>1. \A j \in Terms : InHand(j)' =>
               pump'[j].in \in Inputs /\ ledger'[pump'[j].in].status \in {"dequeued", "unknown"}
        BY <2>3, <2>5, <2>9, <2>10 DEF TermInv, HandSound
      <3>2. \A j, k \in Terms : InHand(j)' /\ InHand(k)' /\ pump'[j].in = pump'[k].in => j = k
        BY <2>9, <2>10 DEF TermInv, HandSound
      <3>3. \A j \in Terms : pump'[j].at \in {"dequeued", "told"} => j # i
        BY <2>4
      <3>4. \A j \in Terms \ {i} : IsTyped(pump[j].in)' = IsTyped(pump[j].in)
        BY <2>8, <2>9
      <3> QED
        BY <2>9, <3>1, <3>2, <3>3, <3>4 DEF TermInv, HandSound
    <2>12. WireSound'
      <3>1. \A w \in wire : w.by # None => w.by \in Terms /\ w.by # i
        BY PumpType DEF TermInv, WireSound, WireRows
      <3> QED
        BY <2>8, <2>9, <3>1 DEF TermInv, WireSound
    <2>13. LedgerSound'
      BY <2>0, <2>5, <2>8 DEF TermInv, LedgerSound, Untouched
    <2>14. ClaimSound'
      <3> SUFFICES ASSUME NEW j \in Terms, NEW m \in Inputs, Bound(j)', Holds(j)',
                          ledger'[m] = [status |-> "dequeued", epoch |-> pump'[j].epoch]
                   PROVE FALSE
        BY DEF ClaimSound
      <3>1. j = i
        BY <2>2 DEF Holds
      <3>2. m # n
        BY <2>0, <2>5
      <3>3. ledger[m] = [status |-> "dequeued", epoch |-> pump[i].epoch]
        BY <2>4, <2>5, <3>1, <3>2
      <3>4. Bound(i)
        BY DEF Bound
      <3>5. m = pump[i].in
        BY <2>2, <3>3, <3>4 DEF TermInv, ClaimSound
      <3> QED
        BY <3>2, <3>5 DEF n
    <2> QED
      BY <2>6, <2>7, <2>11, <2>12, <2>13, <2>14 DEF TermInv
  <1> QED
    BY <1>1, <1>2

-----------------------------------------------------------------------------
LEMMA TermInvNext == TermInv /\ [TermNext]_termVars => TermInv'
  <1> SUFFICES ASSUME TermInv, [TermNext]_termVars PROVE TermInv'
    OBVIOUS
  <1>1. CASE UNCHANGED termVars
    <2>1. TermTypeOK' /\ RowSound'
      BY <1>1 DEF TermInv, TermTypeOK, RowSound, termVars
    <2>2. ShellSound' /\ HandSound' /\ WireSound' /\ LedgerSound' /\ ClaimSound'
      BY <1>1 DEF TermInv, ShellSound, HandSound, WireSound, LedgerSound, ClaimSound, IsTyped, InHand, Bound,
                  Holds, termVars
    <2> QED
      BY <2>1, <2>2 DEF TermInv
  <1>2. ASSUME NEW i \in Terms, PumpNext(i) PROVE TermInv'
    BY <1>2, LaunchStep, TerminateStep, BindStep, HeartbeatStep, FetchStep, DequeueStep, DeliverStep,
       GivesUpStep, DisposeStep, PollStep, ReportStep DEF PumpNext
  <1>3. CASE TermNext
    BY <1>2, <1>3, SubmitStep, CloseStep, LeaseStep, LockStep, StopStep, ClaimStep, AdoptStep, LandStep, ShellSteps
       DEF TermNext
  <1> QED
    BY <1>1, <1>3

\* No input typed twice means one place at most in what the shell received.
LEMMA TypedOnce == TermInv => SessionTrue
  <1> SUFFICES ASSUME TermInv PROVE SessionTrue
    OBVIOUS
  <1>1. NoShellAfterEnd
    BY DEF TermInv, ShellSound, NoShellAfterEnd
  <1>2. ASSUME NEW n \in Inputs, ~IsTyped(n) PROVE Times(n) = 0
    <2>1. {k \in DOMAIN typed : typed[k] = n} = {}
      BY <1>2 DEF IsTyped
    <2> QED
      BY <2>1, FS_EmptySet DEF Times
  <1>3. ASSUME NEW n \in Inputs, IsTyped(n) PROVE Times(n) = 1
    <2>1. PICK k \in DOMAIN typed : typed[k] = n
      BY <1>3 DEF IsTyped
    <2>2. {l \in DOMAIN typed : typed[l] = n} = {k}
      BY <2>1 DEF TermInv, WireSound
    <2> QED
      BY <2>2, FS_Singleton DEF Times
  <1>4. InputsTruth
    BY <1>2, <1>3 DEF InputsTruth, TermInv, LedgerSound, Untouched
  <1> QED
    BY <1>1, <1>4 DEF SessionTrue

(* A terminal's ledger is true of what its shell received, no input is     *)
(* typed twice and no shell is up in a session that ended or whose persona *)
(* is sealed: for any number of driver terms, inputs, claims and late      *)
(* starts (terminalClaimTx, ReportTerminalInputDisposition,                *)
(* WithTerminalLaunchFence).                                               *)
THEOREM SessionStaysTrue == TermSpec => []SessionTrue
  <1>1. TermSpec => []TermInv
    BY TermInvInit, TermInvNext, PTL DEF TermSpec
  <1> QED
    BY <1>1, TypedOnce, PTL

-----------------------------------------------------------------------------
(* The files of a return *)

Holdings == {"absent", "own", "cloud", "edit"}
Entries == [st : {"verified", "placed"}, sha : BOOLEAN, quar : BOOLEAN]
JournalPhases == {"none", "copying", "staged", "promoted", "restored"}
IsJournal(j) ==
    /\ j = [phase |-> j.phase, cap |-> j.cap, ent |-> j.ent, coll |-> j.coll]
    /\ j.phase \in JournalPhases /\ j.ent \in [Carried -> Entries]
FilesTypes ==
    /\ IsJournal(mem) /\ IsJournal(disk)
    /\ dir \in [Slots -> Holdings] /\ quar \in [Slots -> Holdings] /\ before \in [Slots -> Holdings]
    /\ rest \subseteq Carried /\ fsess \in {"sealed", "active", "over", "cancelling", "cancelled"}
    /\ mode \in {"local", "cloud"} /\ done \in BOOLEAN /\ torn \in BOOLEAN

Cancels == fsess \in {"cancelling", "cancelled"}
Quiet == {"idle", "config", "retarget", "reactive", "ready", "active", "converge"}

\* Where the command is says whether the session ends, and what is saved.
WhereSound ==
    /\ Cancels => fpc \in {"idle", "restore", "unconfig"}
    /\ fsess = "cancelled" => fpc = "idle"
    /\ fpc \in {"restore", "unconfig"} => Cancels
    /\ fpc \in Quiet => mem = disk
    /\ mem.phase = "restored" \/ disk.phase = "restored" => Cancels

\* A journal that has not begun records nothing.
BlankJournal(j) == j.phase = "none" => j.coll = {} /\ \A p \in Carried : j.ent[p].st # "placed"

\* What the journal calls placed is there, and a pass has placed what it left behind.
PlacedSound ==
    /\ BlankJournal(mem) /\ BlankJournal(disk)
    /\ ~Cancels => \A p \in Carried \ edited :
          mem.ent[p].st = "placed" \/ disk.ent[p].st = "placed" => dir[Own(p)] = "cloud"
    /\ fpc \in {"promote", "mark"} => \A p \in Carried \ rest : mem.ent[p].st = "placed"
    /\ fpc = "promoted" => \A p \in Carried : mem.ent[p].st = "placed"
    /\ fpc \in {"config", "retarget", "ready"} /\ mode = "local" =>
          \A p \in Carried \ edited : dir[Own(p)] = "cloud"

\* The install's own file is at its path or in the quarantine under its own
\* name, and the journal j knows how to undo what was done to the path.
Undoable(p, j) ==
    /\ before[Own(p)] = "own" =>
          \/ dir[Own(p)] = "own" /\ quar[Own(p)] = Absent /\ (Cancels \/ Own(p) \notin j.coll)
          \/ /\ dir[Own(p)] \in {Absent, "cloud"} /\ quar[Own(p)] = "own" /\ Own(p) \in j.coll
             /\ dir[Own(p)] = "cloud" => j.ent[p].st = "placed"
    /\ before[Own(p)] = Absent =>
          /\ dir[Own(p)] \in {Absent, "cloud"} /\ quar[Own(p)] = Absent
          /\ dir[Own(p)] = "cloud" => j.ent[p].st = "placed"

Undone == fpc = "unconfig" \/ fsess = "cancelled" \/ mem.phase = "restored" \/ disk.phase = "restored"

\* While every displacement reached the journal on disk.
UndoSound ==
    ~torn => \A p \in Carried \ edited :
        /\ before[Own(p)] \in {"absent", "own", "cloud"}
        /\ Undoable(p, mem)
        /\ fpc \notin {"promote", "mark"} => Undoable(p, disk)
        /\ before[Own(p)] # "cloud" =>
              /\ fpc = "restore" /\ p \notin rest => dir[Own(p)] # "cloud"
              /\ Undone => dir[Own(p)] = before[Own(p)]

\* The service reads the configured store, or is one that a restart is owed to.
StoreSound ==
    /\ store = [keys |-> store.keys, svc |-> store.svc, owed |-> store.owed, live |-> store.live]
    /\ mode = "local" => store.keys = 0 /\ store.svc \in {0, Off}
    /\ mode = "cloud" /\ fsess # "cancelled" =>
          store.keys = store.live /\ (done => store.svc \in {Off, store.keys})
    /\ fpc = "converge" \/ fsess = "over" => done

FilesInv == FilesTypes /\ WhereSound /\ PlacedSound /\ UndoSound /\ StoreSound

LEMMA FilesInvMeans == FilesInv => WorkspaceIsCarried
  <1> SUFFICES ASSUME FilesInv PROVE WorkspaceIsCarried
    OBVIOUS
  <1>1. ReadyIsWhole
    BY DEF FilesInv, PlacedSound, ReadyIsWhole
  <1>2. OriginalsKept
    <2> SUFFICES ASSUME ~torn, NEW p \in Carried \ edited, before[Own(p)] = "own"
                 PROVE  \E s \in Slots : s[1] = p /\ "own" \in {dir[s], quar[s]}
      BY DEF OriginalsKept
    <2>1. dir[Own(p)] = "own" \/ quar[Own(p)] = "own"
      BY DEF FilesInv, UndoSound, Undoable
    <2>2. Own(p) \in Slots /\ Own(p)[1] = p
      BY DEF Own, Slots
    <2> QED
      BY <2>1, <2>2
  <1>3. CancelUndoes
    BY DEF FilesInv, UndoSound, Undone, CancelUndoes
  <1>4. ServesChosenStore
    BY DEF FilesInv, StoreSound, ServesChosenStore, FilesTypes
  <1> QED
    BY <1>1, <1>2, <1>3, <1>4 DEF WorkspaceIsCarried

LEMMA OwnSlots ==
    /\ \A p \in Carried : Own(p) \in Slots
    /\ \A p, q : Own(p) = Own(q) => p = q
  BY DEF Own, Slots

LEMMA FilesInvInit == FilesInit => FilesInv
  <1> SUFFICES ASSUME FilesInit PROVE FilesInv
    OBVIOUS
  <1> USE DEF FilesInit
  <1>1. IsJournal(NoJournal) /\ NoJournal.phase = "none" /\ NoJournal.coll = {} /\ \A p \in Carried : NoJournal.ent[p].st = "verified"
    <2>1. NoEntry \in Entries /\ NoEntry.st = "verified"
      BY DEF NoEntry, Entries
    <2> QED
      BY <2>1 DEF IsJournal, NoJournal, JournalPhases
  <1>2. FilesTypes
    <2>1. Befores \cup {Absent} \subseteq Holdings
      BY FilesAssumption DEF Absent, Holdings
    <2>2. dir \in [Slots -> Befores \cup {Absent}] /\ before = dir
      OBVIOUS
    <2>3. dir \in [Slots -> Holdings]
      BY <2>1, <2>2
    <2>4. quar \in [Slots -> Holdings]
      BY DEF Absent, Holdings
    <2>5. mode \in {"local", "cloud"}
      BY FilesAssumption
    <2> QED
      BY <1>1, <2>2, <2>3, <2>4, <2>5 DEF FilesTypes
  <1>3. WhereSound
    BY <1>1 DEF WhereSound, Cancels
  <1>4. PlacedSound
    BY <1>1 DEF PlacedSound, BlankJournal, Cancels
  <1>5. UndoSound
    <2> SUFFICES ASSUME NEW p \in Carried
                 PROVE  before[Own(p)] \in {"absent", "own", "cloud"} /\ Undoable(p, mem) /\ Undoable(p, disk)
      BY <1>1 DEF UndoSound, Undone
    <2>1. Own(p) \in Slots /\ before[Own(p)] = dir[Own(p)] /\ quar[Own(p)] = Absent
      BY OwnSlots
    <2>2. before[Own(p)] \in {"absent", "own", "cloud"}
      BY <2>1, FilesAssumption DEF Absent
    <2> QED
      BY <1>1, <2>1, <2>2 DEF Undoable, Absent
  <1>6. StoreSound
    BY DEF StoreSound
  <1> QED
    BY <1>2, <1>3, <1>4, <1>5, <1>6 DEF FilesInv

-----------------------------------------------------------------------------
(* The Cloud's captures, the saved journal, a stop, an edit *)

LEMMA SaveKeeps == ASSUME FilesInv, SaveJournal PROVE FilesInv'
  <1> USE DEF SaveJournal, Synced
  <1>1. FilesTypes' /\ StoreSound'
    BY DEF FilesInv, FilesTypes, StoreSound, Off, IsJournal
  <1>2. WhereSound'
    BY DEF FilesInv, WhereSound, Cancels
  <1>3. PlacedSound'
    BY DEF FilesInv, PlacedSound, Cancels, BlankJournal, Own
  <1>4. UndoSound'
    BY DEF FilesInv, UndoSound, Undone, Cancels, Undoable, Own
  <1> QED
    BY <1>1, <1>2, <1>3, <1>4 DEF FilesInv

LEMMA StopKeeps == ASSUME FilesInv, CommandStops PROVE FilesInv'
  <1> USE DEF CommandStops, Synced, Go
  <1>0. torn \in BOOLEAN /\ (~torn' => ~torn /\ (mem = disk \/ fpc \notin {"promote", "mark"}))
    BY DEF FilesInv, FilesTypes
  <1>1. FilesTypes' /\ StoreSound'
    BY <1>0 DEF FilesInv, FilesTypes, StoreSound, Off, IsJournal
  <1>2. WhereSound'
    BY DEF FilesInv, WhereSound, Cancels, Quiet
  <1>3. PlacedSound'
    BY DEF FilesInv, PlacedSound, Cancels, BlankJournal, Own
  <1>4. UndoSound'
    <2> SUFFICES ASSUME ~torn', NEW p \in Carried \ edited
                 PROVE  /\ before[Own(p)] \in {"absent", "own", "cloud"}
                        /\ Undoable(p, disk)'
                        /\ before[Own(p)] # "cloud" =>
                              (fsess = "cancelled" \/ disk.phase = "restored" => dir[Own(p)] = before[Own(p)])
      BY DEF UndoSound, Undone, Own, Undoable
    <2>1. Undoable(p, disk)
      BY <1>0 DEF FilesInv, UndoSound
    <2>2. Undoable(p, disk)'
      BY <2>1 DEF Undoable, Own, Cancels
    <2> QED
      BY <1>0, <2>2 DEF FilesInv, UndoSound, Undone
  <1> QED
    BY <1>1, <1>2, <1>3, <1>4 DEF FilesInv

LEMMA EditKeeps == ASSUME FilesInv, NEW q \in Carried, OperatorEdit(q) PROVE FilesInv'
  <1> USE DEF OperatorEdit
  <1>0. Own(q) \in Slots /\ dir \in [Slots -> Holdings]
    BY OwnSlots DEF FilesInv, FilesTypes
  <1>0a. \A p \in Carried \ edited' : p \in Carried \ edited /\ Own(p) # Own(q) /\ dir'[Own(p)] = dir[Own(p)]
    BY <1>0, OwnSlots
  <1>1. FilesTypes' /\ StoreSound'
    BY <1>0 DEF FilesInv, FilesTypes, StoreSound, Off, IsJournal, Holdings
  <1>2. WhereSound'
    BY DEF FilesInv, WhereSound, Cancels
  <1>3. PlacedSound'
    <2>1. BlankJournal(mem)' /\ BlankJournal(disk)'
      BY DEF FilesInv, PlacedSound, BlankJournal
    <2> QED
      BY <1>0a, <2>1 DEF FilesInv, PlacedSound, Cancels, Own
  <1>4. UndoSound'
    <2> SUFFICES ASSUME ~torn, NEW p \in Carried \ edited'
                 PROVE  /\ before[Own(p)] \in {"absent", "own", "cloud"}
                        /\ Undoable(p, mem)'
                        /\ fpc \notin {"promote", "mark"} => Undoable(p, disk)'
                        /\ before[Own(p)] # "cloud" =>
                              /\ fpc = "restore" /\ p \notin rest => dir'[Own(p)] # "cloud"
                              /\ Undone => dir'[Own(p)] = before[Own(p)]
      BY DEF UndoSound, Undone, Own
    <2>0. dir'[Own(p)] = dir[Own(p)]
      BY <1>0a
    <2>1. /\ Undoable(p, mem)' <=> Undoable(p, mem)
          /\ Undoable(p, disk)' <=> Undoable(p, disk)
      BY <2>0 DEF Undoable, Own, Cancels
    <2> QED
      BY <1>0a, <2>0, <2>1 DEF FilesInv, UndoSound
  <1> QED
    BY <1>1, <1>2, <1>3, <1>4 DEF FilesInv
LEMMA FilesFacts ==
    ASSUME FilesInv
    PROVE  /\ IsJournal(mem) /\ IsJournal(disk) /\ dir \in [Slots -> Holdings] /\ quar \in [Slots -> Holdings]
           /\ \A p \in Carried : mem.ent[p] \in Entries /\ mem.ent[p].st \in {"verified", "placed"}
           /\ ~Cancels => mem.phase # "restored" /\ disk.phase # "restored"
  <1>1. /\ IsJournal(mem) /\ IsJournal(disk) /\ dir \in [Slots -> Holdings] /\ quar \in [Slots -> Holdings]
        /\ ~Cancels => mem.phase # "restored" /\ disk.phase # "restored"
    BY DEF FilesInv, FilesTypes, WhereSound
  <1>2. \A p \in Carried : mem.ent[p] \in Entries
    BY <1>1 DEF IsJournal
  <1>3. \A e \in Entries : e.st \in {"verified", "placed"}
    BY DEF Entries
  <1> QED
    BY <1>1, <1>2, <1>3

\* The files stay where they are and the journal still knows what was displaced.
LEMMA CopyFrame ==
    ASSUME FilesInv, ~Cancels, UNCHANGED <<dir, quar, before, edited, torn, mode, fsess, disk, store>>,
           IsJournal(mem)', BlankJournal(mem)', mem'.phase # "restored", mem'.coll = mem.coll,
           rest' \subseteq Carried, done' \in BOOLEAN, done => done', mode = "cloud" => done' = done,
           fpc' \notin {"restore", "unconfig", "converge"},
           fpc' \in Quiet => mem' = disk,
           fpc \in {"promote", "mark"} /\ fpc' \notin {"promote", "mark"} => mem = disk,
           \A p \in Carried : mem'.ent[p].st = "placed" => mem.ent[p].st = "placed" \/ dir[Own(p)] = "cloud",
           \A p \in Carried : mem.ent[p].st = "placed" /\ dir[Own(p)] = "cloud" => mem'.ent[p].st = "placed",
           fpc' \in {"promote", "mark"} => \A p \in Carried \ rest' : mem'.ent[p].st = "placed",
           fpc' = "promoted" => \A p \in Carried : mem'.ent[p].st = "placed",
           fpc' \in {"config", "retarget", "ready"} /\ mode = "local" =>
               \A p \in Carried \ edited : dir[Own(p)] = "cloud"
    PROVE  FilesInv'
  <1>1. FilesTypes'
    BY DEF FilesInv, FilesTypes, IsJournal
  <1>2. WhereSound'
    BY DEF FilesInv, WhereSound, Cancels
  <1>3. PlacedSound'
    <2>1. BlankJournal(disk)'
      BY DEF FilesInv, PlacedSound, BlankJournal
    <2>2. \A p \in Carried \ edited : mem'.ent[p].st = "placed" \/ disk.ent[p].st = "placed" => dir[Own(p)] = "cloud"
      BY DEF FilesInv, PlacedSound
    <2> QED
      BY <2>1, <2>2 DEF PlacedSound, Own
  <1>4. UndoSound'
    <2> SUFFICES ASSUME ~torn, NEW p \in Carried \ edited
                 PROVE  /\ before[Own(p)] \in {"absent", "own", "cloud"}
                        /\ Undoable(p, mem)'
                        /\ fpc' \notin {"promote", "mark"} => Undoable(p, disk)'
                        /\ ~Undone' /\ fpc' # "restore"
      BY DEF UndoSound, Own
    <2>1. Undoable(p, mem) => Undoable(p, mem)'
      BY DEF Undoable, Own, Cancels
    <2>2. Undoable(p, disk) => Undoable(p, disk)'
      BY DEF Undoable, Own, Cancels
    <2>3. fpc' \notin {"promote", "mark"} => Undoable(p, disk)
      BY DEF FilesInv, UndoSound
    <2>4. ~Undone' /\ fpc' # "restore"
      BY FilesFacts DEF Undone, Cancels
    <2> QED
      BY <2>1, <2>2, <2>3, <2>4 DEF FilesInv, UndoSound
  <1>5. StoreSound'
    <2>1. fpc' = "converge" \/ fsess' = "over" => done'
      BY DEF FilesInv, StoreSound
    <2> QED
      BY <2>1 DEF FilesInv, StoreSound, Off
  <1> QED
    BY <1>1, <1>2, <1>3, <1>4, <1>5 DEF FilesInv

\* Only the store, the session and the place of the command change.
LEMMA StoreFrame ==
    ASSUME FilesInv, UNCHANGED <<mem, disk, dir, quar, rest, before, edited, torn, mode>>,
           fpc \notin {"promote", "mark", "promoted"},
           fpc' \notin {"promote", "mark", "promoted", "restore", "config"},
           fsess' \in {"sealed", "active", "over", "cancelled"} \cup {fsess}, done' \in BOOLEAN,
           Cancels' = Cancels, Undone' => Undone, WhereSound', StoreSound',
           fpc' \in {"retarget", "ready"} /\ mode = "local" =>
               \A p \in Carried \ edited : dir[Own(p)] = "cloud"
    PROVE  FilesInv'
  <1>1. FilesTypes'
    BY DEF FilesInv, FilesTypes, IsJournal
  <1>3. PlacedSound'
    BY DEF FilesInv, PlacedSound, BlankJournal, Own
  <1>4. UndoSound'
    <2> SUFFICES ASSUME ~torn, NEW p \in Carried \ edited
                 PROVE  /\ before[Own(p)] \in {"absent", "own", "cloud"}
                        /\ Undoable(p, mem)' /\ Undoable(p, disk)'
                        /\ before[Own(p)] # "cloud" => (Undone' => dir[Own(p)] = before[Own(p)])
      BY DEF UndoSound, Own
    <2>1. Undoable(p, mem) => Undoable(p, mem)'
      BY DEF Undoable, Own
    <2>2. Undoable(p, disk) => Undoable(p, disk)'
      BY DEF Undoable, Own
    <2> QED
      BY <2>1, <2>2 DEF FilesInv, UndoSound
  <1> QED
    BY <1>1, <1>3, <1>4 DEF FilesInv

-----------------------------------------------------------------------------
(* The copy *)

\* A change of one entry.
WithEntry(j, p, e) == [phase |-> j.phase, cap |-> j.cap, ent |-> [j.ent EXCEPT ![p] = e], coll |-> j.coll]
LEMMA EntryKept ==
    ASSUME NEW j, IsJournal(j), NEW p \in Carried, NEW e \in Entries
    PROVE  /\ IsJournal(WithEntry(j, p, e)) /\ WithEntry(j, p, e).phase = j.phase /\ WithEntry(j, p, e).coll = j.coll
           /\ WithEntry(j, p, e).ent[p] = e /\ \A q \in Carried : q # p => WithEntry(j, p, e).ent[q] = j.ent[q]
  <1>1. [j.ent EXCEPT ![p] = e] \in [Carried -> Entries] /\ j.phase \in JournalPhases /\ j.ent \in [Carried -> Entries]
    BY DEF IsJournal
  <1> QED
    BY <1>1 DEF IsJournal, WithEntry

LEMMA PhaseKept ==
    ASSUME NEW j, IsJournal(j), NEW ph \in JournalPhases, NEW k, k = [j EXCEPT !.phase = ph]
    PROVE  IsJournal(k) /\ k.phase = ph /\ k.coll = j.coll /\ k.ent = j.ent
  <1>1. k = [phase |-> ph, cap |-> j.cap, ent |-> j.ent, coll |-> j.coll]
    BY DEF IsJournal
  <1> QED
    BY <1>1 DEF IsJournal

LEMMA BeginKeeps == ASSUME FilesInv, CopyBegin PROVE FilesInv'
  <1> USE DEF CopyBegin, Keep, Go, Visit
  <1>1. mem = disk /\ ~Cancels
    BY DEF FilesInv, WhereSound, Quiet, Cancels
  <1>2. IsJournal(disk) /\ disk.phase # "restored" /\ BlankJournal(disk)
    BY <1>1, FilesFacts DEF FilesInv, PlacedSound
  <1>3. /\ IsJournal(mem)' /\ mem'.coll = mem.coll /\ mem'.ent = mem.ent
        /\ mem'.phase \in JournalPhases \ {"none", "restored"}
    <2>1. CASE disk.phase = "none"
      BY <1>1, <1>2, <2>1, PhaseKept DEF JournalPhases
    <2>2. CASE disk.phase # "none"
      BY <1>1, <1>2, <2>2 DEF IsJournal
    <2> QED
      BY <2>1, <2>2
  <1>4. BlankJournal(mem)'
    BY <1>3 DEF BlankJournal
  <1>5. fpc' \in {"stage", "promote"} /\ rest' = Carried /\ fpc = "idle"
    OBVIOUS
  <1>6. done \in BOOLEAN /\ UNCHANGED <<dir, quar, before, edited, torn, mode, fsess, disk, store, done>>
    BY DEF FilesInv, FilesTypes
  <1> QED
    BY <1>1, <1>3, <1>4, <1>5, <1>6, CopyFrame DEF Quiet

LEMMA VerifyKeeps == ASSUME FilesInv, VerifyPromotedTree PROVE FilesInv'
  <1> USE DEF VerifyPromotedTree, Keep, Go, Visit
  <1>1. mem = disk /\ ~Cancels
    BY DEF FilesInv, WhereSound, Quiet, Cancels
  <1>2. IsJournal(disk) /\ disk.phase # "restored" /\ BlankJournal(disk)
    BY <1>1, FilesFacts DEF FilesInv, PlacedSound
  <1>3. done \in BOOLEAN /\ rest \subseteq Carried /\ UNCHANGED <<dir, quar, before, edited, torn, mode, fsess, disk, store>>
        /\ mode = "local" /\ fpc = "idle"
    BY DEF FilesInv, FilesTypes
  <1>4. CASE Unproved(disk) = {}
    <2>1. mem' = disk /\ fpc' = "config" /\ rest' = rest /\ done' = TRUE
      BY <1>4
    <2>2. \A p \in Carried : dir[Own(p)] = "cloud"
      BY <1>4 DEF Unproved
    <2>3. IsJournal(mem)' /\ BlankJournal(mem)' /\ mem'.phase # "restored" /\ mem'.coll = mem.coll
      BY <1>1, <1>2, <2>1 DEF IsJournal, BlankJournal
    <2> QED
      BY <1>1, <1>3, <2>1, <2>2, <2>3, CopyFrame
  <1>5. CASE Unproved(disk) # {}
    <2> DEFINE ent == [p \in Carried |-> IF p \in Unproved(disk) THEN [disk.ent[p] EXCEPT !.st = "verified"]
                                         ELSE disk.ent[p]]
    <2>1. mem' = [phase |-> "staged", cap |-> disk.cap, ent |-> ent, coll |-> disk.coll]
      BY <1>2, <1>5 DEF IsJournal
    <2>2. fpc' = "promote" /\ rest' = Carried /\ done' = done
      BY <1>5
    <2>3. \A p \in Carried : disk.ent[p] \in Entries
      BY <1>2 DEF IsJournal
    <2>4. ent \in [Carried -> Entries]
      BY <2>3 DEF Entries
    <2>5. \A p \in Carried : ent[p].st = "placed" => disk.ent[p].st = "placed"
      BY <2>3 DEF Entries
    <2>6. \A p \in Carried : disk.ent[p].st = "placed" /\ dir[Own(p)] = "cloud" => ent[p].st = "placed"
      BY DEF Unproved
    <2> HIDE DEF ent
    <2>7. IsJournal(mem)' /\ BlankJournal(mem)' /\ mem'.phase = "staged" /\ mem'.coll = mem.coll /\ mem'.ent = ent
      BY <1>1, <2>1, <2>4 DEF IsJournal, BlankJournal, JournalPhases
    <2> QED
      BY <1>1, <1>3, <2>2, <2>5, <2>6, <2>7, CopyFrame DEF Quiet
  <1> QED
    BY <1>4, <1>5
\* What every step of the copy starts from.
LEMMA CopyFacts ==
    ASSUME FilesInv, NEW pc, CopyStep(pc), pc \in {"stage", "promote", "mark", "promoted", "lost", "replaced"}
    PROVE  /\ ~Cancels /\ mem = disk /\ fpc = pc /\ mode = "local" /\ mem.phase # "restored" /\ BlankJournal(mem)
           /\ IsJournal(mem) /\ done \in BOOLEAN /\ rest \subseteq Carried
           /\ UNCHANGED <<before, edited, torn, mode, fsess, store>>
  <1>1. /\ fpc = pc /\ mem = disk /\ mode = "local" /\ UNCHANGED <<before, edited, torn, mode, fsess, store>>
    BY DEF CopyStep, Synced, Keep
  <1>2. ~Cancels
    BY <1>1 DEF FilesInv, WhereSound
  <1>3. done \in BOOLEAN /\ rest \subseteq Carried /\ BlankJournal(mem)
    BY DEF FilesInv, FilesTypes, PlacedSound
  <1> QED
    BY <1>1, <1>2, <1>3, FilesFacts

\* A new plan keeps what is placed and what is displaced.
LEMMA PlanKeeps ==
    ASSUME FilesInv, NEW pc, CopyStep(pc), pc \in {"stage", "lost", "replaced"}, NEW c, Plan(c),
           UNCHANGED <<disk, dir, quar, done>>
    PROVE  FilesInv'
  <1>1. /\ ~Cancels /\ mem = disk /\ fpc = pc /\ mode = "local" /\ mem.phase # "restored" /\ BlankJournal(mem)
        /\ IsJournal(mem) /\ done \in BOOLEAN
        /\ UNCHANGED <<before, edited, torn, mode, fsess, store>>
    BY CopyFacts
  <1>2. fpc' \in {"stage", "promote"} /\ rest' = Carried
    BY DEF Plan, Go, Visit, After
  <1>3. /\ IsJournal(mem)' /\ BlankJournal(mem)' /\ mem'.phase # "restored" /\ mem'.coll = mem.coll
        /\ \A p \in Carried : mem'.ent[p].st = mem.ent[p].st
    <2>1. CASE UNCHANGED mem
      BY <1>1, <2>1 DEF IsJournal, BlankJournal
    <2>2. CASE mem' = replanForBinding(mem, c.bound)
      <3> DEFINE ent == [p \in Carried |-> IF mem.ent[p].st = "placed" THEN mem.ent[p]
                                           ELSE [mem.ent[p] EXCEPT !.sha = FALSE]]
                 ph == IF \E p \in Carried : ent[p].st # "placed" THEN "copying" ELSE mem.phase
      <3>1. \A p \in Carried : mem.ent[p] \in Entries
        BY <1>1 DEF IsJournal
      <3>2. ent \in [Carried -> Entries] /\ \A p \in Carried : ent[p].st = mem.ent[p].st
        BY <3>1 DEF Entries
      <3>3. mem' = [phase |-> ph, cap |-> c.bound, ent |-> ent, coll |-> mem.coll]
        BY <1>1, <2>2 DEF replanForBinding, IsJournal
      <3> HIDE DEF ent
      <3>4. ph \in {"copying", mem.phase} /\ ph \in JournalPhases
        BY <1>1 DEF JournalPhases, IsJournal
      <3> HIDE DEF ph
      <3>5. IsJournal(mem)' /\ mem'.phase = ph /\ mem'.coll = mem.coll /\ mem'.ent = ent
        BY <3>2, <3>3, <3>4 DEF IsJournal
      <3> QED
        BY <1>1, <3>2, <3>4, <3>5 DEF BlankJournal
    <2> QED
      BY <2>1, <2>2 DEF Plan, Replanned
  <1> QED
    BY <1>1, <1>2, <1>3, CopyFrame DEF Quiet

LEMMA FetchKeeps ==
    ASSUME FilesInv, NEW p \in Carried, StageFetch(p) \/ RefetchCaptured(p)
    PROVE  FilesInv'
  <1>1. PICK pc \in {"stage", "promote"} : CopyStep(pc)
    BY DEF StageFetch, RefetchCaptured, Promoting
  <1>2. /\ ~Cancels /\ mem = disk /\ fpc = pc /\ mode = "local" /\ mem.phase # "restored" /\ BlankJournal(mem)
        /\ IsJournal(mem) /\ done \in BOOLEAN /\ rest \subseteq Carried
        /\ UNCHANGED <<before, edited, torn, mode, fsess, store>>
    BY <1>1, CopyFacts
  <1>3. /\ UNCHANGED <<disk, dir, quar, rest, done>>
        /\ \/ fpc' = fpc /\ FetchRow(p)
           \/ fpc' \in {"lost", "replaced"} /\ UNCHANGED mem
    <2>1. CaptureRead(capture, mem.cap) \in {"ok", "lost", "replaced"}
      BY DEF CaptureRead
    <2> QED
      BY <2>1, <1>2 DEF StageFetch, RefetchCaptured, Promoting, CopyStep, Go
  <1>4. /\ IsJournal(mem)' /\ BlankJournal(mem)' /\ mem'.phase = mem.phase /\ mem'.coll = mem.coll
        /\ \A q \in Carried : mem'.ent[q].st = mem.ent[q].st
    <2>1. CASE FetchRow(p)
      <3> DEFINE e == [mem.ent[p] EXCEPT !.sha = TRUE]
      <3>1. mem.ent[p] \in Entries
        BY <1>2 DEF IsJournal
      <3>2. e \in Entries /\ e.st = mem.ent[p].st
        BY <3>1 DEF Entries
      <3>3. mem' = WithEntry(mem, p, e)
        BY <1>2, <2>1, <3>1 DEF FetchRow, IsJournal, Entries, WithEntry
      <3> HIDE DEF e
      <3>4. /\ IsJournal(mem') /\ mem'.phase = mem.phase /\ mem'.coll = mem.coll
            /\ mem'.ent[p] = e /\ \A q \in Carried : q # p => mem'.ent[q] = mem.ent[q]
        BY <1>2, <3>2, <3>3, EntryKept
      <3>5. \A q \in Carried : mem'.ent[q].st = mem.ent[q].st
        BY <3>2, <3>4
      <3>6. IsJournal(mem)'
        BY <3>4 DEF IsJournal
      <3> QED
        BY <1>2, <3>4, <3>5, <3>6 DEF BlankJournal
    <2>2. CASE UNCHANGED mem
      BY <1>2, <2>2 DEF IsJournal, BlankJournal
    <2> QED
      BY <1>3, <2>1, <2>2
  <1>5. fpc = "promote" => \A q \in Carried \ rest : mem.ent[q].st = "placed"
    BY DEF FilesInv, PlacedSound
  <1>6. fpc' \in {"stage", "promote", "lost", "replaced"} /\ (fpc' = "promote" => fpc = "promote")
    BY <1>2, <1>3
  <1> QED
    BY <1>2, <1>3, <1>4, <1>5, <1>6, CopyFrame DEF Quiet

LEMMA PhaseStepsKeep == ASSUME FilesInv, StageDone \/ PromoteDone \/ FilesDone PROVE FilesInv'
  <1>1. PICK pc \in {"stage", "promote", "promoted"} : CopyStep(pc)
    BY DEF StageDone, PromoteDone, FilesDone
  <1>2. /\ ~Cancels /\ mem = disk /\ fpc = pc /\ mode = "local" /\ mem.phase # "restored" /\ BlankJournal(mem)
        /\ IsJournal(mem) /\ done \in BOOLEAN /\ rest \subseteq Carried
        /\ UNCHANGED <<before, edited, torn, mode, fsess, store>>
    BY <1>1, CopyFacts
  <1>3. CASE StageDone
    <2>1. /\ IsJournal(mem') /\ mem'.phase = "staged" /\ mem'.coll = mem.coll /\ mem'.ent = mem.ent
      BY <1>2, <1>3, PhaseKept DEF StageDone, JournalPhases
    <2>2. IsJournal(mem)' /\ BlankJournal(mem)'
      BY <2>1 DEF IsJournal, BlankJournal
    <2>3. fpc' = "promote" /\ rest' = Carried /\ UNCHANGED <<disk, dir, quar, done>>
      BY <1>3 DEF StageDone, Go, Visit
    <2> QED
      BY <1>2, <2>1, <2>2, <2>3, CopyFrame DEF Quiet
  <1>4. CASE PromoteDone
    <2>1. /\ IsJournal(mem') /\ mem'.phase = "promoted" /\ mem'.coll = mem.coll /\ mem'.ent = mem.ent
      BY <1>2, <1>4, PhaseKept DEF PromoteDone, JournalPhases
    <2>2. IsJournal(mem)' /\ BlankJournal(mem)'
      BY <2>1 DEF IsJournal, BlankJournal
    <2>3. fpc = "promote" /\ rest = {} /\ fpc' = "promoted" /\ UNCHANGED <<disk, dir, quar, done, rest>>
      BY <1>4 DEF PromoteDone, Go, CopyStep
    <2>4. \A p \in Carried : mem.ent[p].st = "placed"
      BY <2>3 DEF FilesInv, PlacedSound
    <2> QED
      BY <1>2, <2>1, <2>2, <2>3, <2>4, CopyFrame DEF Quiet
  <1>5. CASE FilesDone
    <2>1. fpc = "promoted" /\ fpc' = "config" /\ done' = TRUE /\ UNCHANGED <<mem, disk, dir, quar, rest>>
      BY <1>5 DEF FilesDone, Go, CopyStep
    <2>2. IsJournal(mem)' /\ BlankJournal(mem)'
      BY <1>2, <2>1 DEF IsJournal, BlankJournal
    <2>3. \A p \in Carried \ edited : dir[Own(p)] = "cloud"
      BY <1>2, <2>1 DEF FilesInv, PlacedSound
    <2> QED
      BY <1>2, <2>1, <2>2, <2>3, CopyFrame DEF Quiet
  <1> QED
    BY <1>3, <1>4, <1>5
\* An entry that becomes placed, and one that is marked.
LEMMA PlacedEntry ==
    ASSUME NEW e \in Entries
    PROVE  /\ [e EXCEPT !.st = "placed"] \in Entries /\ [e EXCEPT !.st = "placed"].st = "placed"
           /\ [e EXCEPT !.quar = TRUE] \in Entries /\ [e EXCEPT !.quar = TRUE].st = e.st
  BY DEF Entries

LEMMA KeptKeeps == ASSUME FilesInv, NEW p \in Carried, PromoteKept(p) PROVE FilesInv'
  <1>1. /\ ~Cancels /\ mem = disk /\ fpc = "promote" /\ mode = "local" /\ mem.phase # "restored" /\ BlankJournal(mem)
        /\ IsJournal(mem) /\ done \in BOOLEAN /\ rest \subseteq Carried
        /\ UNCHANGED <<before, edited, torn, mode, fsess, store>>
    BY CopyFacts DEF PromoteKept, Promoting
  <1> DEFINE e == [mem.ent[p] EXCEPT !.st = "placed"]
  <1>2. mem.ent[p] \in Entries /\ e \in Entries /\ e.st = "placed"
    BY <1>1, PlacedEntry DEF IsJournal
  <1>3. mem' = WithEntry(mem, p, e)
    BY <1>1, <1>2 DEF PromoteKept, IsJournal, Entries, WithEntry
  <1> HIDE DEF e
  <1>4. /\ IsJournal(mem') /\ mem'.phase = mem.phase /\ mem'.coll = mem.coll
        /\ mem'.ent[p] = e /\ \A q \in Carried : q # p => mem'.ent[q] = mem.ent[q]
    BY <1>1, <1>2, <1>3, EntryKept
  <1>5. /\ dir[Own(p)] = "cloud" /\ rest' = rest \ {p} /\ UNCHANGED <<disk, dir, quar, done, fpc>> /\ mem.phase = "staged"
    BY DEF PromoteKept, Promoting, Visit
  <1>6. IsJournal(mem)' /\ BlankJournal(mem)'
    BY <1>4, <1>5 DEF IsJournal, BlankJournal
  <1>7. \A q \in Carried \ rest : mem.ent[q].st = "placed"
    BY <1>1 DEF FilesInv, PlacedSound
  <1>8. \A q \in Carried \ rest' : mem'.ent[q].st = "placed"
    BY <1>2, <1>4, <1>5, <1>7
  <1>9. /\ \A q \in Carried : mem'.ent[q].st = "placed" => mem.ent[q].st = "placed" \/ dir[Own(q)] = "cloud"
        /\ \A q \in Carried : mem.ent[q].st = "placed" => mem'.ent[q].st = "placed"
    BY <1>2, <1>4, <1>5
  <1> QED
    BY <1>1, <1>4, <1>5, <1>6, <1>8, <1>9, CopyFrame DEF Quiet

LEMMA MarkKeeps == ASSUME FilesInv, NEW p \in Carried, MarkQuarantined(p) PROVE FilesInv'
  <1>1. /\ ~Cancels /\ mem = disk /\ fpc = "mark" /\ mode = "local" /\ mem.phase # "restored" /\ BlankJournal(mem)
        /\ IsJournal(mem) /\ done \in BOOLEAN /\ rest \subseteq Carried
        /\ UNCHANGED <<before, edited, torn, mode, fsess, store>>
    BY CopyFacts DEF MarkQuarantined
  <1> DEFINE e == [mem.ent[p] EXCEPT !.quar = TRUE]
  <1>2. mem.ent[p] \in Entries /\ e \in Entries /\ e.st = mem.ent[p].st
    BY <1>1, PlacedEntry DEF IsJournal
  <1>3. mem' = WithEntry(mem, p, e)
    BY <1>1, <1>2 DEF MarkQuarantined, IsJournal, Entries, WithEntry
  <1> HIDE DEF e
  <1>4. /\ IsJournal(mem') /\ mem'.phase = mem.phase /\ mem'.coll = mem.coll
        /\ mem'.ent[p] = e /\ \A q \in Carried : q # p => mem'.ent[q] = mem.ent[q]
    BY <1>1, <1>2, <1>3, EntryKept
  <1>5. fpc' = "promote" /\ UNCHANGED <<disk, dir, quar, done, rest>>
    BY DEF MarkQuarantined, Go
  <1>6. \A q \in Carried : mem'.ent[q].st = mem.ent[q].st
    BY <1>2, <1>4
  <1>7. IsJournal(mem)' /\ BlankJournal(mem)'
    BY <1>1, <1>4, <1>6 DEF IsJournal, BlankJournal
  <1>8. \A q \in Carried \ rest : mem.ent[q].st = "placed"
    BY <1>1 DEF FilesInv, PlacedSound
  <1> QED
    BY <1>1, <1>4, <1>5, <1>6, <1>7, <1>8, CopyFrame DEF Quiet

\* One path changes on disk while the pass is at it.
LEMMA PathFrame ==
    ASSUME FilesInv, ~Cancels, NEW p \in Carried, UNCHANGED <<before, edited, torn, mode, fsess, disk, store, done>>,
           IsJournal(mem)', mem'.phase = "staged", mem = disk, fpc = "promote", fpc' \in {"promote", "mark"},
           rest' \subseteq Carried, \A q \in Carried \ rest' : mem'.ent[q].st = "placed",
           dir' \in [Slots -> Holdings], quar' \in [Slots -> Holdings],
           \A q \in Carried : q # p => /\ dir'[Own(q)] = dir[Own(q)] /\ quar'[Own(q)] = quar[Own(q)]
                                       /\ mem'.ent[q] = mem.ent[q] /\ (Own(q) \in mem'.coll <=> Own(q) \in mem.coll),
           p \notin edited => (mem'.ent[p].st = "placed" \/ disk.ent[p].st = "placed" => dir'[Own(p)] = "cloud"),
           p \notin edited /\ ~torn => Undoable(p, mem)'
    PROVE  FilesInv'
  <1>1. FilesTypes'
    BY DEF FilesInv, FilesTypes, IsJournal
  <1>2. WhereSound'
    BY FilesFacts DEF FilesInv, WhereSound, Cancels, Quiet
  <1>3. PlacedSound'
    <2>1. BlankJournal(disk)' /\ BlankJournal(mem)'
      BY DEF FilesInv, PlacedSound, BlankJournal
    <2>2. \A q \in Carried \ edited : mem'.ent[q].st = "placed" \/ disk.ent[q].st = "placed" => dir'[Own(q)] = "cloud"
      BY DEF FilesInv, PlacedSound
    <2> QED
      BY <2>1, <2>2 DEF PlacedSound, Own
  <1>4. UndoSound'
    <2> SUFFICES ASSUME ~torn, NEW q \in Carried \ edited
                 PROVE  /\ before[Own(q)] \in {"absent", "own", "cloud"}
                        /\ Undoable(q, mem)' /\ ~Undone'
      BY DEF UndoSound, Own
    <2>1. ASSUME q # p PROVE Undoable(q, mem)'
      <3>1. Undoable(q, mem)
        BY DEF FilesInv, UndoSound
      <3>2. /\ dir'[Own(q)] = dir[Own(q)] /\ quar'[Own(q)] = quar[Own(q)]
            /\ mem'.ent[q] = mem.ent[q] /\ (Own(q) \in mem'.coll <=> Own(q) \in mem.coll)
        BY <2>1
      <3> QED
        BY <3>1, <3>2 DEF Undoable, Own, Cancels
    <2>2. Undoable(q, mem)'
      BY <2>1
    <2>3. ~Undone'
      BY FilesFacts DEF Undone, Cancels
    <2> QED
      BY <2>2, <2>3 DEF FilesInv, UndoSound
  <1>5. StoreSound'
    BY DEF FilesInv, StoreSound, Off
  <1> QED
    BY <1>1, <1>2, <1>3, <1>4, <1>5 DEF FilesInv

LEMMA PlaceKeeps == ASSUME FilesInv, NEW p \in Carried, PromotePlace(p) PROVE FilesInv'
  <1>1. /\ ~Cancels /\ mem = disk /\ fpc = "promote" /\ mode = "local"
        /\ IsJournal(mem) /\ done \in BOOLEAN /\ rest \subseteq Carried
        /\ UNCHANGED <<before, edited, torn, mode, fsess, store>>
    BY CopyFacts DEF PromotePlace, Promoting
  <1> DEFINE e == [mem.ent[p] EXCEPT !.st = "placed"]
  <1>2. mem.ent[p] \in Entries /\ e \in Entries /\ e.st = "placed"
    BY <1>1, PlacedEntry DEF IsJournal
  <1>3. mem' = WithEntry(mem, p, e)
    BY <1>1, <1>2 DEF PromotePlace, IsJournal, Entries, WithEntry
  <1> HIDE DEF e
  <1>4. /\ IsJournal(mem') /\ mem'.phase = mem.phase /\ mem'.coll = mem.coll
        /\ mem'.ent[p] = e /\ \A q \in Carried : q # p => mem'.ent[q] = mem.ent[q]
    BY <1>1, <1>2, <1>3, EntryKept
  <1>5. /\ dir[Own(p)] = Absent /\ dir' = [dir EXCEPT ![Own(p)] = "cloud"] /\ rest' = rest \ {p}
        /\ UNCHANGED <<disk, quar, done, fpc>> /\ mem.phase = "staged"
    BY DEF PromotePlace, Promoting, Visit
  <1>6. dir \in [Slots -> Holdings] /\ quar \in [Slots -> Holdings] /\ Own(p) \in Slots
    BY FilesFacts, OwnSlots
  <1>7. /\ dir' \in [Slots -> Holdings] /\ dir'[Own(p)] = "cloud"
        /\ \A q \in Carried : q # p => dir'[Own(q)] = dir[Own(q)]
    BY <1>5, <1>6, OwnSlots DEF Holdings
  <1>8. IsJournal(mem)'
    BY <1>4 DEF IsJournal
  <1>9. \A q \in Carried \ rest' : mem'.ent[q].st = "placed"
    BY <1>1, <1>2, <1>4, <1>5 DEF FilesInv, PlacedSound
  <1>10. ASSUME p \notin edited, ~torn PROVE Undoable(p, mem)'
    <2>1. Undoable(p, mem)
      BY <1>10 DEF FilesInv, UndoSound
    <2> QED
      BY <1>1, <1>2, <1>4, <1>5, <1>7, <2>1 DEF Undoable, Own, Absent
  <1> QED
    BY <1>1, <1>4, <1>5, <1>6, <1>7, <1>8, <1>9, <1>10, PathFrame

LEMMA QuarantineKeeps == ASSUME FilesInv, NEW p \in Carried, QuarantineOccupant(p) PROVE FilesInv'
  <1>1. /\ ~Cancels /\ mem = disk /\ fpc = "promote" /\ mode = "local"
        /\ IsJournal(mem) /\ done \in BOOLEAN /\ rest \subseteq Carried
        /\ UNCHANGED <<before, edited, torn, mode, fsess, store>>
    BY CopyFacts DEF QuarantineOccupant, Promoting
  <1> DEFINE f == FreeSlot(p)
  <1>2. /\ dir[Own(p)] \notin {Absent, "cloud"} /\ quar' = [quar EXCEPT ![f] = dir[Own(p)]]
        /\ dir' = [dir EXCEPT ![Own(p)] = Absent] /\ mem' = [mem EXCEPT !.coll = mem.coll \cup {f}]
        /\ fpc' = "mark" /\ UNCHANGED <<disk, done, rest>> /\ mem.phase = "staged"
    BY DEF QuarantineOccupant, Promoting, Go
  <1>3. \A q : q # p => Own(q) # f
    BY DEF FreeSlot, Own
  <1>4. ASSUME Own(p) \notin mem.coll PROVE f = Own(p)
    <2> DEFINE Free(i) == <<p, i>> \notin mem.coll /\ \A k \in 1..(i - 1) : <<p, k>> \in mem.coll
    <2>1. <<p, 1>> \notin mem.coll
      BY <1>4 DEF Own
    <2>2. Free(1) /\ \A i \in 1..3 : Free(i) => i = 1
      <3>1. 1..(1 - 1) = {} /\ \A i \in 1..3 : i # 1 => 1 \in 1..(i - 1)
        OBVIOUS
      <3> QED
        BY <2>1, <3>1
    <2> HIDE DEF Free
    <2>3. (CHOOSE i \in 1..3 : Free(i)) = 1
      BY <2>2
    <2> QED
      BY <2>3 DEF FreeSlot, Own, Free
  <1> HIDE DEF f
  <1>5. dir \in [Slots -> Holdings] /\ quar \in [Slots -> Holdings] /\ Own(p) \in Slots /\ Absent \in Holdings
    BY FilesFacts, OwnSlots DEF Absent, Holdings
  <1>6. /\ dir' \in [Slots -> Holdings] /\ dir'[Own(p)] = Absent
        /\ \A q \in Carried : q # p => dir'[Own(q)] = dir[Own(q)]
    BY <1>2, <1>5, OwnSlots
  <1>7. /\ quar' \in [Slots -> Holdings] /\ \A q \in Carried : q # p => quar'[Own(q)] = quar[Own(q)]
        /\ f = Own(p) => quar'[Own(p)] = dir[Own(p)]
    BY <1>2, <1>3, <1>5, OwnSlots
  <1>8. mem' = [phase |-> mem.phase, cap |-> mem.cap, ent |-> mem.ent, coll |-> mem.coll \cup {f}]
    BY <1>1, <1>2 DEF IsJournal
  <1>9. IsJournal(mem)' /\ mem'.phase = "staged" /\ mem'.ent = mem.ent /\ mem'.coll = mem.coll \cup {f}
    BY <1>1, <1>2, <1>8 DEF IsJournal
  <1>10. \A q \in Carried : q # p => (Own(q) \in mem'.coll <=> Own(q) \in mem.coll)
    BY <1>3, <1>9
  <1>11. \A q \in Carried \ rest' : mem'.ent[q].st = "placed"
    BY <1>1, <1>2, <1>9 DEF FilesInv, PlacedSound
  <1>12. p \notin edited => mem'.ent[p].st # "placed" /\ disk.ent[p].st # "placed"
    BY <1>1, <1>2, <1>9 DEF FilesInv, PlacedSound
  <1>13. ASSUME p \notin edited, ~torn PROVE Undoable(p, mem)'
    <2>1. Undoable(p, mem) /\ before[Own(p)] \in {"absent", "own", "cloud"}
      BY <1>13 DEF FilesInv, UndoSound
    <2>2. before[Own(p)] # Absent
      BY <1>2, <2>1 DEF Undoable
    <2>3. before[Own(p)] = "own" => dir[Own(p)] = "own" /\ Own(p) \notin mem.coll
      BY <1>1, <1>2, <2>1 DEF Undoable
    <2>4. before[Own(p)] = "own" => dir'[Own(p)] = Absent /\ quar'[Own(p)] = "own" /\ Own(p) \in mem'.coll
      BY <1>4, <1>6, <1>7, <1>9, <2>3
    <2> QED
      BY <1>1, <2>2, <2>4 DEF Undoable, Own, Absent
  <1> QED
    BY <1>1, <1>2, <1>6, <1>7, <1>9, <1>10, <1>11, <1>12, <1>13, PathFrame
-----------------------------------------------------------------------------
(* The configured store and the service *)

LEMMA StoreStepsKeep ==
    ASSUME FilesInv,
           \/ FilesConfigCloud \/ FilesConfigLocal \/ CloudConfigured \/ FilesActivate \/ FinishActive
           \/ \E b \in BOOLEAN : PrepareServiceRetarget(b) \/ ConvergeFileService(b)
    PROVE  FilesInv'
  <1>1. UNCHANGED <<mem, disk, dir, quar, rest, before, edited, torn, mode>>
    BY DEF FilesConfigCloud, FilesConfigLocal, CloudConfigured, FilesActivate, FinishActive,
           PrepareServiceRetarget, ConvergeFileService, CopyOnly, Keep
  <1>2. /\ fpc \in Quiet /\ fpc' \in Quiet \ {"config"}
        /\ fsess' \in {"sealed", "active", "over"} \cup {fsess}
        /\ fsess' # fsess => fpc # "idle"
    BY DEF FilesConfigCloud, FilesConfigLocal, CloudConfigured, FilesActivate, FinishActive,
           PrepareServiceRetarget, ConvergeFileService, Go, Keep, Quiet
  <1>3. fpc = "idle" => fsess \in {"sealed", "active"} /\ fsess' = fsess
    BY DEF FilesConfigCloud, FilesConfigLocal, CloudConfigured, FilesActivate, FinishActive,
           PrepareServiceRetarget, ConvergeFileService, Keep
  <1>4. ~Cancels /\ ~Cancels'
    BY <1>2, <1>3 DEF FilesInv, WhereSound, Quiet, Cancels
  <1>5. done' \in BOOLEAN /\ mode \in {"local", "cloud"} /\ done \in BOOLEAN
    BY DEF FilesInv, FilesTypes, FilesConfigCloud, FilesConfigLocal, CloudConfigured, FilesActivate, FinishActive,
           PrepareServiceRetarget, ConvergeFileService, CopyOnly, Keep
  <1>6. fpc' \in {"retarget", "ready"} /\ mode = "local" => fpc \in {"config", "retarget", "ready"}
    BY DEF FilesConfigCloud, FilesConfigLocal, CloudConfigured, FilesActivate, FinishActive,
           PrepareServiceRetarget, ConvergeFileService, Go
  <1>7. fpc' \in {"retarget", "ready"} /\ mode = "local" => \A p \in Carried \ edited : dir[Own(p)] = "cloud"
    BY <1>6 DEF FilesInv, PlacedSound
  <1>8. WhereSound' /\ (Undone' => Undone)
    BY <1>1, <1>2, <1>4 DEF FilesInv, WhereSound, Undone, Quiet, Cancels
  <1>9. StoreSound'
    <2>0. store = [keys |-> store.keys, svc |-> store.svc, owed |-> store.owed, live |-> store.live]
      BY DEF FilesInv, StoreSound
    <2>0a. /\ mode = "local" => store.keys = 0 /\ store.svc \in {0, Off}
           /\ mode = "cloud" => store.keys = store.live /\ (done => store.svc \in {Off, store.keys})
           /\ fpc = "converge" \/ fsess = "over" => done
      BY <1>4 DEF FilesInv, StoreSound, Cancels
    <2>1. CASE FilesConfigCloud
      <3>1. /\ store' = [keys |-> store.live + 1, svc |-> store.svc, owed |-> store.owed, live |-> store.live + 1]
            /\ mode = "cloud" /\ ~done /\ done' = done /\ fpc' = "retarget" /\ fsess' = "sealed"
        BY <2>0, <2>1 DEF FilesConfigCloud, Go, Keep
      <3> QED
        BY <1>1, <3>1 DEF StoreSound, Off
    <2>2. CASE FilesConfigLocal
      <3>1. /\ store' = [keys |-> 0, svc |-> store.svc, owed |-> store.owed, live |-> store.live]
            /\ mode = "local" /\ done' = done /\ fpc' \in {"retarget", "reactive"} /\ fsess' = fsess
        BY <2>0, <2>2 DEF FilesConfigLocal, Go, Keep
      <3> QED
        BY <1>1, <2>0a, <3>1 DEF StoreSound, Off
    <2>3. CASE CloudConfigured
      <3>1. store' = store /\ done /\ done' = done /\ fsess' = fsess
        BY <2>3 DEF CloudConfigured, Keep
      <3> QED
        BY <1>1, <2>0, <2>0a, <3>1 DEF StoreSound, Off
    <2>4. CASE FilesActivate \/ FinishActive
      <3>1. store' = store /\ done' = done /\ fsess' = "active" /\ fpc' = "active"
        BY <2>4 DEF FilesActivate, FinishActive, Go, Keep
      <3> QED
        BY <1>1, <2>0, <2>0a, <3>1 DEF StoreSound, Off
    <2>5. ASSUME NEW b \in BOOLEAN, PrepareServiceRetarget(b) PROVE StoreSound'
      <3>1. /\ \/ store' = store
               \/ store' = [keys |-> store.keys, svc |-> Off, owed |-> TRUE, live |-> store.live]
            /\ fsess' = fsess
        BY <2>0, <2>5 DEF PrepareServiceRetarget, Keep
      <3>2. \/ done' = done /\ fpc' = "idle"
            \/ done' = TRUE /\ store'.svc \in {Off, store'.keys} /\ fpc' \in {"converge", "ready"}
        BY <2>0, <2>5 DEF PrepareServiceRetarget, Go
      <3>3. store' = [keys |-> store'.keys, svc |-> store'.svc, owed |-> store'.owed, live |-> store'.live]
            /\ store'.keys = store.keys /\ store'.live = store.live /\ store'.svc \in {store.svc, Off}
        BY <2>0, <3>1
      <3> QED
        BY <1>1, <2>0a, <3>1, <3>2, <3>3 DEF StoreSound, Off
    <2>6. ASSUME NEW b \in BOOLEAN, ConvergeFileService(b) PROVE StoreSound'
      <3>1. /\ \/ store' = store
               \/ store' = [keys |-> store.keys, svc |-> IF store.svc = Off THEN store.keys ELSE store.svc,
                            owed |-> FALSE, live |-> store.live]
            /\ fpc = "converge" /\ done' = done /\ fpc' = "idle"
        BY <2>0, <2>6 DEF ConvergeFileService, Go
      <3>3. store' = [keys |-> store'.keys, svc |-> store'.svc, owed |-> store'.owed, live |-> store'.live]
            /\ store'.keys = store.keys /\ store'.live = store.live /\ store'.svc \in {store.svc, store.keys}
        BY <2>0, <3>1
      <3> QED
        BY <1>1, <1>5, <2>0a, <3>1, <3>3 DEF StoreSound, Off
    <2> QED
      BY <2>1, <2>2, <2>3, <2>4, <2>5, <2>6
  <1>10. /\ fpc \notin {"promote", "mark", "promoted"}
         /\ fpc' \notin {"promote", "mark", "promoted", "restore", "config"}
         /\ fsess' \in {"sealed", "active", "over", "cancelled"} \cup {fsess}
    BY <1>2 DEF Quiet
  <1>11. Cancels' = Cancels
    BY <1>4 DEF Cancels
  <1> QED
    BY <1>1, <1>5, <1>7, <1>8, <1>9, <1>10, <1>11, StoreFrame

LEMMA ServiceKeeps == ASSUME FilesInv, OperatorService PROVE FilesInv'
  <1>1. /\ UNCHANGED <<mem, disk, dir, quar, rest, before, edited, torn, mode, fsess, done, fpc>> /\ fpc = "idle"
        /\ store' = [store EXCEPT !.svc = IF @ = Off THEN store.keys ELSE Off]
    BY DEF OperatorService
  <1>2. store = [keys |-> store.keys, svc |-> store.svc, owed |-> store.owed, live |-> store.live]
    BY DEF FilesInv, StoreSound
  <1>3. store' = [keys |-> store.keys, svc |-> IF store.svc = Off THEN store.keys ELSE Off,
                  owed |-> store.owed, live |-> store.live]
    BY <1>1, <1>2
  <1>4. StoreSound'
    BY <1>1, <1>3 DEF FilesInv, StoreSound, Off
  <1>5. WhereSound' /\ (Undone' => Undone) /\ Cancels' = Cancels
    BY <1>1 DEF FilesInv, WhereSound, Undone, Cancels
  <1>6. done' \in BOOLEAN
    BY <1>1 DEF FilesInv, FilesTypes
  <1> QED
    BY <1>1, <1>4, <1>5, <1>6, StoreFrame

LEMMA LostKeeps == ASSUME FilesInv, CaptureLost PROVE FilesInv'
  <1> USE DEF CaptureLost
  <1>1. FilesTypes' /\ WhereSound'
    BY DEF FilesInv, FilesTypes, IsJournal, WhereSound, Cancels
  <1>2. PlacedSound' /\ StoreSound'
    BY DEF FilesInv, PlacedSound, BlankJournal, Cancels, Own, StoreSound, Off
  <1>3. UndoSound'
    BY DEF FilesInv, UndoSound, Undone, Undoable, Cancels, Own
  <1> QED
    BY <1>1, <1>2, <1>3 DEF FilesInv
-----------------------------------------------------------------------------
(* Cancelling *)

LEMMA CancelKeeps == ASSUME FilesInv, ReturnFilesCancel PROVE FilesInv'
  <1>1. /\ fpc = "idle" /\ fsess \in {"sealed", "cancelling"} /\ fsess' = "cancelling" /\ mem' = disk /\ rest' = Carried
        /\ fpc' = (IF disk.phase \in {"none", "restored"} THEN "unconfig" ELSE "restore")
        /\ UNCHANGED <<mode, disk, dir, quar, done, store, before, edited, torn>>
    BY DEF ReturnFilesCancel, Visit, Go
  <1>2. mem = disk
    BY <1>1 DEF FilesInv, WhereSound, Quiet
  <1>3. FilesTypes'
    BY <1>1, <1>2 DEF FilesInv, FilesTypes, IsJournal
  <1>4. WhereSound'
    BY <1>1 DEF WhereSound, Cancels, Quiet
  <1>5. PlacedSound'
    <2>1. BlankJournal(mem)' /\ BlankJournal(disk)'
      BY <1>1, <1>2 DEF FilesInv, PlacedSound, BlankJournal
    <2>2. Cancels' /\ fpc' \in {"unconfig", "restore"}
      BY <1>1 DEF Cancels
    <2> QED
      BY <2>1, <2>2 DEF PlacedSound
  <1>6. StoreSound'
    BY <1>1 DEF FilesInv, StoreSound, Off
  <1>7. UndoSound'
    <2> SUFFICES ASSUME ~torn, NEW p \in Carried \ edited
                 PROVE  /\ before[Own(p)] \in {"absent", "own", "cloud"}
                        /\ Undoable(p, mem)' /\ Undoable(p, disk)'
                        /\ before[Own(p)] # "cloud" => (Undone' => dir[Own(p)] = before[Own(p)])
      BY <1>1 DEF UndoSound, Own
    <2>1. Undoable(p, disk) /\ before[Own(p)] \in {"absent", "own", "cloud"}
      BY <1>1 DEF FilesInv, UndoSound
    <2>2. Undoable(p, mem)' /\ Undoable(p, disk)'
      BY <1>1, <2>1 DEF Undoable, Own, Cancels
    <2>3. ASSUME before[Own(p)] # "cloud", Undone' PROVE dir[Own(p)] = before[Own(p)]
      <3>1. disk.phase \in {"none", "restored"}
        BY <1>1, <2>3 DEF Undone
      <3>2. CASE disk.phase = "restored"
        BY <2>3, <3>2 DEF FilesInv, UndoSound, Undone
      <3>3. CASE disk.phase = "none"
        <4>1. disk.coll = {} /\ disk.ent[p].st # "placed"
          BY <3>3 DEF FilesInv, PlacedSound, BlankJournal
        <4> QED
          BY <2>1, <2>3, <4>1 DEF Undoable, Absent
      <3> QED
        BY <3>1, <3>2, <3>3
    <2> QED
      BY <2>1, <2>2, <2>3
  <1> QED
    BY <1>3, <1>4, <1>5, <1>6, <1>7 DEF FilesInv

LEMMA RestoreKeeps == ASSUME FilesInv, NEW p \in Carried, RestorePath(p) PROVE FilesInv'
  <1> DEFINE o == Own(p)
             back == mem.ent[p].quar /\ Cleared(p) = Absent /\ quar[o] # Absent
  <1>1. /\ fpc = "restore" /\ p \in rest /\ rest' = rest \ {p}
        /\ dir' = [dir EXCEPT ![o] = IF back THEN quar[o] ELSE Cleared(p)]
        /\ quar' = IF back THEN [quar EXCEPT ![o] = Absent] ELSE quar
        /\ mem' = IF back THEN [mem EXCEPT !.coll = mem.coll \ {o}] ELSE mem
        /\ UNCHANGED <<mode, fsess, before, edited, torn, disk, fpc, done, store>>
    BY DEF RestorePath, Visit, Keep
  <1>2. Cancels /\ Cancels' /\ fsess # "cancelled" /\ IsJournal(mem) /\ rest \subseteq Carried
    BY <1>1 DEF FilesInv, WhereSound, FilesTypes, Cancels
  <1>3. dir \in [Slots -> Holdings] /\ quar \in [Slots -> Holdings] /\ o \in Slots /\ Absent \in Holdings
    BY FilesFacts, OwnSlots DEF Absent, Holdings
  <1>4. Cleared(p) \in {dir[o], Absent} /\ Cleared(p) \in Holdings
        /\ (mem.ent[p].st = "placed" => Cleared(p) # "cloud") /\ (dir[o] # "cloud" => Cleared(p) = dir[o])
    BY <1>3 DEF Cleared, Absent
  <1>5. /\ mem' = [phase |-> mem.phase, cap |-> mem.cap, ent |-> mem.ent, coll |-> mem'.coll]
        /\ mem'.coll = IF back THEN mem.coll \ {o} ELSE mem.coll
    <2>1. mem = [phase |-> mem.phase, cap |-> mem.cap, ent |-> mem.ent, coll |-> mem.coll]
      BY <1>2 DEF IsJournal
    <2> HIDE DEF back, o
    <2> QED
      BY <1>1, <2>1
  <1>6. IsJournal(mem)' /\ mem'.phase = mem.phase /\ mem'.ent = mem.ent
    BY <1>2, <1>5 DEF IsJournal
  <1>7. /\ dir' \in [Slots -> Holdings] /\ quar' \in [Slots -> Holdings]
        /\ dir'[o] = (IF back THEN quar[o] ELSE Cleared(p)) /\ quar'[o] = (IF back THEN Absent ELSE quar[o])
        /\ \A q \in Carried : q # p => dir'[Own(q)] = dir[Own(q)] /\ quar'[Own(q)] = quar[Own(q)]
    <2>1. \A q \in Carried : q # p => Own(q) # o
      BY OwnSlots
    <2> HIDE DEF back, o
    <2> QED
      BY <1>1, <1>3, <1>4, <2>1
  <1>8. FilesTypes'
    BY <1>1, <1>6, <1>7 DEF FilesInv, FilesTypes, IsJournal
  <1>9. WhereSound'
    BY <1>1, <1>2 DEF WhereSound, Quiet, Cancels
  <1>10. PlacedSound'
    <2>1. BlankJournal(mem)' /\ BlankJournal(disk)'
      BY <1>1, <1>5, <1>6 DEF FilesInv, PlacedSound, BlankJournal
    <2> QED
      BY <1>1, <1>2, <2>1 DEF PlacedSound
  <1>11. StoreSound'
    BY <1>1 DEF FilesInv, StoreSound, Off
  <1> HIDE DEF back
  <1>12. UndoSound'
    <2> SUFFICES ASSUME ~torn, NEW q \in Carried \ edited
                 PROVE  /\ before[Own(q)] \in {"absent", "own", "cloud"}
                        /\ Undoable(q, mem)' /\ Undoable(q, disk)'
                        /\ before[Own(q)] # "cloud" =>
                              /\ q \notin rest' => dir'[Own(q)] # "cloud"
                              /\ Undone' => dir'[Own(q)] = before[Own(q)]
      BY <1>1 DEF UndoSound, Own
    <2>0. Undone' <=> Undone
      BY <1>1, <1>6 DEF Undone
    <2>1. /\ before[Own(q)] \in {"absent", "own", "cloud"} /\ Undoable(q, mem) /\ Undoable(q, disk)
          /\ before[Own(q)] # "cloud" =>
                /\ q \notin rest => dir[Own(q)] # "cloud"
                /\ Undone => dir[Own(q)] = before[Own(q)]
      BY <1>1 DEF FilesInv, UndoSound
    <2>2. CASE q # p
      <3>1. /\ dir'[Own(q)] = dir[Own(q)] /\ quar'[Own(q)] = quar[Own(q)] /\ (q \in rest' <=> q \in rest)
            /\ (Own(q) \in mem'.coll <=> Own(q) \in mem.coll)
        BY <1>1, <1>5, <1>7, <2>2, OwnSlots
      <3>2. Undoable(q, mem)' /\ Undoable(q, disk)'
        BY <1>1, <1>2, <1>6, <2>1, <3>1 DEF Undoable, Own, Cancels
      <3> QED
        BY <2>0, <2>1, <3>1, <3>2
    <2>3. CASE q = p
      <3>1. ASSUME before[o] = "own"
            PROVE  \/ dir'[o] = "own" /\ quar'[o] = Absent
                   \/ dir'[o] = Absent /\ quar'[o] = "own" /\ o \in mem'.coll /\ o \in disk.coll /\ dir[o] # "own"
        <4>1. CASE dir[o] = "own" /\ quar[o] = Absent
          BY <1>4, <1>7, <4>1 DEF back
        <4>2. CASE /\ dir[o] \in {Absent, "cloud"} /\ quar[o] = "own" /\ o \in mem.coll /\ o \in disk.coll
                   /\ dir[o] = "cloud" => mem.ent[p].st = "placed"
          <5>1. Cleared(p) = Absent
            BY <1>4, <4>2 DEF Absent
          <5> QED
            BY <1>5, <1>7, <4>2, <5>1 DEF Absent
        <4> QED
          BY <2>1, <2>3, <3>1, <4>1, <4>2 DEF Undoable, Absent
      <3>2. ASSUME before[o] = Absent PROVE dir'[o] = Absent /\ quar'[o] = Absent
        <4>1. dir[o] \in {Absent, "cloud"} /\ quar[o] = Absent /\ (dir[o] = "cloud" => mem.ent[p].st = "placed")
          BY <2>1, <2>3, <3>2 DEF Undoable
        <4> QED
          BY <1>4, <1>7, <4>1 DEF back
      <3>3. Undoable(q, mem)' /\ Undoable(q, disk)'
        BY <1>1, <1>2, <2>3, <3>1, <3>2 DEF Undoable, Own, Absent, Cancels
      <3> QED
        BY <2>0, <2>1, <2>3, <3>1, <3>2, <3>3 DEF Absent
    <2> QED
      BY <2>2, <2>3
  <1> QED
    BY <1>8, <1>9, <1>10, <1>11, <1>12 DEF FilesInv

LEMMA CollateralKeeps == ASSUME FilesInv, RestoreCollateral PROVE FilesInv'
  <1> DEFINE free == {s \in mem.coll : dir[s] = Absent}
  <1>1. /\ fpc = "restore" /\ rest = {} /\ fpc' = "unconfig"
        /\ dir' = [s \in Slots |-> IF s \in free THEN quar[s] ELSE dir[s]]
        /\ quar' = [s \in Slots |-> IF s \in free THEN Absent ELSE quar[s]]
        /\ mem' = [mem EXCEPT !.coll = mem.coll \ free, !.phase = "restored"]
        /\ UNCHANGED <<mode, fsess, before, edited, torn, disk, rest, done, store>>
    BY DEF RestoreCollateral, Go, Keep
  <1>2. Cancels /\ Cancels' /\ fsess # "cancelled" /\ IsJournal(mem)
    BY <1>1 DEF FilesInv, WhereSound, FilesTypes, Cancels
  <1>3. dir \in [Slots -> Holdings] /\ quar \in [Slots -> Holdings] /\ Absent \in Holdings
    BY FilesFacts DEF Absent, Holdings
  <1>4. mem' = [phase |-> "restored", cap |-> mem.cap, ent |-> mem.ent, coll |-> mem.coll \ free]
    BY <1>1, <1>2 DEF IsJournal
  <1>5. IsJournal(mem)' /\ mem'.phase = "restored" /\ mem'.ent = mem.ent
    BY <1>2, <1>4 DEF IsJournal, JournalPhases
  <1>6. dir' \in [Slots -> Holdings] /\ quar' \in [Slots -> Holdings]
    BY <1>1, <1>3
  <1>7. \A q \in Carried : /\ dir'[Own(q)] = IF Own(q) \in mem.coll /\ dir[Own(q)] = Absent THEN quar[Own(q)] ELSE dir[Own(q)]
                           /\ quar'[Own(q)] = IF Own(q) \in mem.coll /\ dir[Own(q)] = Absent THEN Absent ELSE quar[Own(q)]
    BY <1>1, OwnSlots
  <1>8. FilesTypes'
    BY <1>1, <1>5, <1>6 DEF FilesInv, FilesTypes, IsJournal
  <1>9. WhereSound'
    BY <1>1, <1>2 DEF WhereSound, Quiet, Cancels
  <1>10. PlacedSound'
    <2>1. BlankJournal(mem)' /\ BlankJournal(disk)'
      BY <1>1, <1>5 DEF FilesInv, PlacedSound, BlankJournal
    <2> QED
      BY <1>1, <1>2, <2>1 DEF PlacedSound
  <1>11. StoreSound'
    BY <1>1 DEF FilesInv, StoreSound, Off
  <1>12. UndoSound'
    <2> SUFFICES ASSUME ~torn, NEW q \in Carried \ edited
                 PROVE  /\ before[Own(q)] \in {"absent", "own", "cloud"}
                        /\ Undoable(q, mem)' /\ Undoable(q, disk)'
                        /\ before[Own(q)] # "cloud" => dir'[Own(q)] = before[Own(q)]
      BY <1>1 DEF UndoSound, Own
    <2>1. /\ before[Own(q)] \in {"absent", "own", "cloud"} /\ Undoable(q, mem)
          /\ before[Own(q)] # "cloud" => dir[Own(q)] # "cloud"
      BY <1>1 DEF FilesInv, UndoSound
    <2>2. before[Own(q)] = "own" => dir'[Own(q)] = "own" /\ quar'[Own(q)] = Absent
      BY <1>7, <2>1 DEF Undoable, Absent
    <2>3. before[Own(q)] = Absent => dir'[Own(q)] = Absent /\ quar'[Own(q)] = Absent
      BY <1>7, <2>1 DEF Undoable, Absent
    <2>4. Undoable(q, mem)' /\ Undoable(q, disk)'
      BY <1>1, <1>2, <2>2, <2>3 DEF Undoable, Own, Absent, Cancels
    <2> QED
      BY <2>1, <2>2, <2>3, <2>4 DEF Absent
  <1> QED
    BY <1>8, <1>9, <1>10, <1>11, <1>12 DEF FilesInv

LEMMA CancelConfigKeeps == ASSUME FilesInv, CancelConfig PROVE FilesInv'
  <1>1. /\ fpc = "unconfig" /\ mem = disk /\ fsess' = "cancelled" /\ fpc' = "idle"
        /\ store' = [store EXCEPT !.keys = IF mode = "cloud" /\ done THEN 0 ELSE store.keys, !.owed = FALSE, !.live = 0]
        /\ UNCHANGED <<mem, disk, dir, quar, rest, before, edited, torn, mode, done>>
    BY DEF CancelConfig, Synced, Go, CopyOnly
  <1>2. Cancels /\ Cancels'
    BY <1>1 DEF FilesInv, WhereSound, Cancels
  <1>3. store' = [keys |-> IF mode = "cloud" /\ done THEN 0 ELSE store.keys, svc |-> store.svc,
                  owed |-> FALSE, live |-> 0]
    BY <1>1 DEF FilesInv, StoreSound
  <1>4. StoreSound'
    BY <1>1, <1>3 DEF FilesInv, StoreSound, Off
  <1>5. WhereSound' /\ (Undone' => Undone)
    BY <1>1, <1>2 DEF WhereSound, Undone, Cancels
  <1>6. done' \in BOOLEAN /\ Cancels' = Cancels
    BY <1>1, <1>2 DEF FilesInv, FilesTypes, Cancels
  <1> QED
    BY <1>1, <1>4, <1>5, <1>6, StoreFrame

LEMMA FilesStep == ASSUME FilesInv, [FilesNext]_fileVars PROVE FilesInv'
  <1>1. CASE UNCHANGED fileVars
    <2> USE <1>1 DEF fileVars
    <2>1. FilesTypes' /\ WhereSound'
      BY DEF FilesInv, FilesTypes, IsJournal, WhereSound, Cancels
    <2>2. PlacedSound' /\ StoreSound'
      BY DEF FilesInv, PlacedSound, BlankJournal, Cancels, Own, StoreSound, Off
    <2>3. UndoSound'
      BY DEF FilesInv, UndoSound, Undone, Undoable, Cancels, Own
    <2> QED
      BY <2>1, <2>2, <2>3 DEF FilesInv
  <1>2. CASE CopyNext
    <2>1. CASE StageEnsure
      BY <2>1, PlanKeeps DEF StageEnsure
    <2>2. CASE CopyReplaced
      BY <2>2, PlanKeeps DEF CopyReplaced
    <2>3. CASE CopyLost
      BY <2>3, PlanKeeps DEF CopyLost
    <2> QED
      BY <1>2, <2>1, <2>2, <2>3, BeginKeeps, VerifyKeeps, PhaseStepsKeep, FetchKeeps, KeptKeeps,
         QuarantineKeeps, MarkKeeps, PlaceKeeps DEF CopyNext
  <1>3. CASE StoreNext
    BY <1>3, StoreStepsKeep DEF StoreNext
  <1>4. CASE CancelNext
    BY <1>4, CancelKeeps, CollateralKeeps, CancelConfigKeeps, RestoreKeeps DEF CancelNext
  <1>5. CASE SaveJournal \/ CaptureLost \/ CommandStops \/ OperatorService \/ \E p \in Carried : OperatorEdit(p)
    BY <1>5, SaveKeeps, LostKeeps, StopKeeps, ServiceKeeps, EditKeeps
  <1> QED
    BY <1>1, <1>2, <1>3, <1>4, <1>5 DEF FilesNext

(* A return's files (WorkspaceIsCarried): the copy activates only over a    *)
(* complete workspace, no original of the install is lost while its         *)
(* displacement reached the journal, a cancel undoes what the copy did, and *)
(* the service runs on the store the owner chose; for any files, any number *)
(* of lost captures, edits and credentials, and wherever the command was    *)
(* stopped (copyFilesLocal, promoteStagedFiles, restoreWorkspace,           *)
(* prepareServiceRetarget).                                                 *)
THEOREM WorkspaceStaysCarried == FilesSpec => []WorkspaceIsCarried
  <1>1. FilesInit => FilesInv
    BY FilesInvInit
  <1>2. FilesInv /\ [FilesNext]_fileVars => FilesInv'
    BY FilesStep
  <1>3. FilesInv => WorkspaceIsCarried
    BY FilesInvMeans
  <1> QED
    BY <1>1, <1>2, <1>3, PTL DEF FilesSpec
=============================================================================
