------------------------ MODULE SecretaryMovesProofs ------------------------
(***************************************************************************)
(* The sessions and the commands that move a secretary keep the custody of *)
(* CustodyProofs: what each of them remembers of a transfer stays true of  *)
(* the two ledgers, however old the view it acts on, and the source of a   *)
(* return stays still while it is copied.                                  *)
(***************************************************************************)
EXTENDS CustodyProofs, FiniteSetTheorems

MoveSessions == [st : MoveStatuses, src : {Nothing, Home, Foreign},
                 admit : BOOLEAN, claim : BOOLEAN]
MoveViews == [st : MoveStatuses, src : {Nothing, Home, Foreign}, act : BOOLEAN, ret : BOOLEAN]
Movers == [rec : Moves \cup {Nothing}, bound : BOOLEAN,
           outcome : {"none", "completed", "aborted", "cancelled_unsealed"},
           pc : {"idle", "drive", "act", "bound", "sending"}, view : MoveViews]

\* A session says activated only once the import is; a mover that runs has a
\* record; an admitted upload is still the cut of its source, until the Cloud
\* has heard of its transfer.
MoveSessionsTold(s, cp) ==
    /\ s \in [Moves -> MoveSessions]
    /\ \A m \in Moves : s[m].st = "activated" => Activated(cp[Cloud], m)
MoverTold(mv) == mv \in Movers /\ (mv.pc # "idle" => mv.rec \in Moves)
UploadsTold(us, cp) ==
    us \subseteq Bundles /\ \A b \in us : b.t \in Moves /\ Carried(cp, b)
MoveInv == MoveSessionsTold(msess, copy) /\ MoverTold(mover) /\ UploadsTold(upload, copy)

LEMMA MoveFrame ==
    ASSUME NEW cp, NEW cq, KeepsBundles(cp, cq), KeepsActivated(cp, cq)
    PROVE  /\ \A s : MoveSessionsTold(s, cp) => MoveSessionsTold(s, cq)
           /\ \A us : UploadsTold(us, cp) => UploadsTold(us, cq)
  <1>1. Cloud \in Places /\ Moves \subseteq Transfers
    BY PortableAssumption, MoveAssumption
  <1>2. ASSUME NEW s, MoveSessionsTold(s, cp) PROVE MoveSessionsTold(s, cq)
    BY <1>1, <1>2 DEF MoveSessionsTold, KeepsActivated
  <1>3. ASSUME NEW us, UploadsTold(us, cp) PROVE UploadsTold(us, cq)
    BY <1>3 DEF UploadsTold, KeepsBundles
  <1> QED
    BY <1>2, <1>3

-----------------------------------------------------------------------------
(* Moves *)

\* Followed and CleanedUp: a session that ends as activated has activated
\* its import, and one that closed has retired what was staged.
LEMMA ReconcileKeeps ==
    ASSUME NEW cp, Custody(cp), NEW m \in Moves, NEW s \in MoveSessions,
           s.st = "activated" => Activated(cp[Cloud], m),
           NEW r, r = Reconciled(m, s, cp[Cloud]),
           NEW cq, cq = [cp EXCEPT ![Cloud] = r.c]
    PROVE  /\ Custody(cq) /\ Follows(cp, cq)
           /\ r.s \in MoveSessions /\ (r.s.st = "activated" => Activated(cq[Cloud], m))
  <1>m. m \in Transfers /\ Cloud \in Places /\ cp[Cloud] \in Copies
    BY MoveAssumption, PortableAssumption DEF Custody
  <1> DEFINE f == Followed(m, s, cp[Cloud])
  <1>r. r.s = f /\ r.c = CleanedUp(m, f, cp[Cloud])
    BY DEF Reconciled
  <1>1. f \in MoveSessions
    BY DEF Followed, MoveSessions, MoveStatuses
  <1>2. f.st = "activated" => Activated(cp[Cloud], m) \/ ActivateOK(cp[Cloud], m)
    BY DEF Followed, MoveSessions
  <1> HIDE DEF f
  <1>3. CASE f.st = "activated"
    <2>1. r.c = ActivatedCopy(cp[Cloud], m) /\ ActivateOK(cp[Cloud], m)
      BY <1>2, <1>3, <1>r DEF CleanedUp, ActivateOK, ClosedMove
    <2> QED
      BY <1>1, <1>m, <1>r, <2>1, ActivationKeeps
  <1>4. CASE f.st \in ClosedMove /\ cp[Cloud].imp[m].st = "staged"
    <2>1. r.c = RetiredCopy(cp[Cloud], m) /\ f.st # "activated"
      BY <1>4, <1>r DEF CleanedUp, ClosedMove
    <2> QED
      BY <1>1, <1>4, <1>m, <1>r, <2>1, RetireKeeps
  <1>5. CASE f.st # "activated" /\ ~(f.st \in ClosedMove /\ cp[Cloud].imp[m].st = "staged")
    <2>1. r.c = cp[Cloud]
      BY <1>5, <1>r DEF CleanedUp
    <2>2. cq = cp
      BY <1>m, <2>1, SameCopies
    <2> QED
      BY <1>1, <1>5, <1>r, <2>2, FollowsRefl
  <1> QED
    BY <1>3, <1>4, <1>5

LEMMA SettleKeeps ==
    ASSUME Custody(copy), MoveInv, NEW m \in Moves, NEW s \in MoveSessions,
           NEW c, NEW cp, cp = [copy EXCEPT ![Cloud] = c], Custody(cp), Follows(copy, cp),
           s.st = "activated" => Activated(c, m), Settle(m, s, c)
    PROVE  Custody(copy') /\ Follows(copy, copy') /\ MoveSessionsTold(msess', copy')
  <1>1. copy \in [Places -> Copies] /\ cp[Cloud] = c
    BY PortableAssumption DEF Custody
  <1> DEFINE r == Reconciled(m, s, c)
  <1>2. /\ msess' = [msess EXCEPT ![m] = r.s]
        /\ copy' = [cp EXCEPT ![Cloud] = r.c]
    BY <1>1 DEF Settle
  <1>3. /\ Custody(copy') /\ Follows(cp, copy')
        /\ r.s \in MoveSessions /\ (r.s.st = "activated" => Activated(copy'[Cloud], m))
    BY <1>1, <1>2, ReconcileKeeps
  <1>4. Follows(copy, copy')
    BY <1>3, FollowsTrans
  <1>5. MoveSessionsTold(msess, copy')
    BY <1>4, MoveFrame DEF MoveInv, Follows
  <1> HIDE DEF r
  <1> QED
    BY <1>2, <1>3, <1>4, <1>5 DEF MoveSessionsTold

\* Reconciling what is there.
LEMMA SettleHere ==
    ASSUME Custody(copy), MoveInv, NEW m \in Moves, NEW s \in MoveSessions,
           s.st = "activated" => msess[m].st = "activated", Settle(m, s, copy[Cloud])
    PROVE  Custody(copy') /\ Follows(copy, copy') /\ MoveSessionsTold(msess', copy')
  <1>1. [copy EXCEPT ![Cloud] = copy[Cloud]] = copy
    BY PortableAssumption, SameCopies
  <1>2. s.st = "activated" => Activated(copy[Cloud], m)
    BY DEF MoveInv, MoveSessionsTold
  <1> QED
    BY <1>1, <1>2, SettleKeeps, FollowsRefl

LEMMA CancelledSession ==
    ASSUME MoveInv, NEW m \in Moves, NEW expect
    PROVE  /\ Cancelled(m, expect) \in MoveSessions
           /\ Cancelled(m, expect).st = "activated" => msess[m].st = "activated"
  BY DEF MoveInv, MoveSessionsTold, Cancelled, MoveSessions, MoveStatuses

LEMMA AnswerType ==
    ASSUME Custody(copy), MoveInv, NEW m \in Moves
    PROVE  /\ Answer(m, msess[m], copy[Cloud]) \in MoveViews
           /\ \A s \in MoveSessions : \A c : MoveView(m, s, c) \in MoveViews
  <1>1. ASSUME NEW s \in MoveSessions, NEW c PROVE MoveView(m, s, c) \in MoveViews
    BY DEF MoveView, MoveViews, MoveSessions, Activated, Retired
  <1>2. Reconciled(m, msess[m], copy[Cloud]).s \in MoveSessions
    BY ReconcileKeeps DEF MoveInv, MoveSessionsTold
  <1> QED
    BY <1>1, <1>2 DEF Answer

\* The steps that leave the copies alone.
LEMMA QuietMoves ==
    ASSUME Custody(copy), MoveInv,
           \/ \E m \in Moves : CreateMove(m) \/ ForeignBind(m) \/ MoveDeadline(m) \/ MoveStart(m)
           \/ RegisterFresh \/ MoveResume \/ DriveLedger \/ RefusedURL \/ UnsealedEnd
           \/ MoveWait \/ CancelUnbound \/ MoverStops
           \/ \E b \in upload : UploadLost(b)
    PROVE  UNCHANGED copy /\ MoveInv'
  <1>0. /\ msess \in [Moves -> MoveSessions] /\ mover \in Movers
        /\ (mover.pc # "idle" => mover.rec \in Moves)
    BY DEF MoveInv, MoveSessionsTold, MoverTold
  <1>u. UNCHANGED copy
    BY DEF CreateMove, ForeignBind, MoveDeadline, MoveStart, RegisterFresh, MoveResume, DriveLedger,
           RefusedURL, UnsealedEnd, MoveWait, CancelUnbound, MoverStops, UploadLost
  <1>n. NoMove \in Movers /\ NoMove.pc = "idle" /\ NoView \in MoveViews
    BY DEF NoMove, Movers, NoView, MoveViews, MoveStatuses
  <1>1. ASSUME NEW m \in Moves, CreateMove(m) \/ ForeignBind(m) \/ MoveDeadline(m)
        PROVE  MoveInv'
    <2>1. msess' \in [Moves -> MoveSessions] /\ UNCHANGED <<mover, upload>>
      <3>m. msess[m] \in MoveSessions
        BY <1>0
      <3>1. CASE CreateMove(m)
        <4>1. [msess[m] EXCEPT !.st = "awaiting"] \in MoveSessions
          BY <3>m DEF MoveSessions, MoveStatuses
        <4> QED
          BY <1>0, <3>1, <4>1 DEF CreateMove
      <3>2. CASE ForeignBind(m)
        <4>1. [msess[m] EXCEPT !.src = Foreign] \in MoveSessions
          BY <3>m DEF MoveSessions
        <4> QED
          BY <1>0, <3>2, <4>1 DEF ForeignBind
      <3>3. CASE MoveDeadline(m)
        <4>1. /\ [msess[m] EXCEPT !.admit = FALSE] \in MoveSessions
              /\ [msess[m] EXCEPT !.claim = FALSE] \in MoveSessions
          BY <3>m DEF MoveSessions
        <4> QED
          BY <1>0, <3>3, <4>1 DEF MoveDeadline
      <3> QED
        BY <1>1, <3>1, <3>2, <3>3
    <2>2. \A n \in Moves : msess'[n].st = "activated" => msess[n].st = "activated"
      BY <1>0, <1>1 DEF CreateMove, ForeignBind, MoveDeadline, MoveSessions
    <2> QED
      BY <1>u, <2>1, <2>2 DEF MoveInv, MoveSessionsTold
  <1>2. CASE RegisterFresh
    <2>1. msess' \in [Moves -> MoveSessions] /\ UNCHANGED <<mover, upload>>
      BY <1>0, <1>2 DEF RegisterFresh, MoveSessions, MoveStatuses
    <2>2. \A n \in Moves : msess'[n].st = "activated" => msess[n].st = "activated"
      BY <1>0, <1>2 DEF RegisterFresh, MoveSessions
    <2> QED
      BY <1>u, <2>1, <2>2 DEF MoveInv, MoveSessionsTold
  <1>3. ASSUME UNCHANGED msess, upload' \subseteq upload, MoverTold(mover') PROVE MoveInv'
    BY <1>3, <1>u DEF MoveInv, UploadsTold
  <1>4. ASSUME NEW m \in Moves, MoveStart(m) PROVE MoveInv'
    <2>1. mover' = [NoMove EXCEPT !.rec = m, !.pc = "drive"] /\ UNCHANGED <<msess, upload>>
      BY <1>4 DEF MoveStart
    <2>2. MoverTold(mover')
      BY <1>n, <2>1 DEF MoverTold, Movers
    <2> QED
      BY <1>3, <2>1, <2>2
  <1>s. MoverTold(Stop(mover)) /\ MoverTold(NoMove)
    BY <1>0, <1>n DEF MoverTold, Movers, Stop
  <1>e. ASSUME NEW o \in {"completed", "aborted", "cancelled_unsealed"}, Finish(o) PROVE MoverTold(mover')
    BY <1>e, <1>s DEF Finish, MoverTold, Movers
  <1>c. ASSUME mover.rec \in Moves, Continue PROVE MoverTold(mover')
    BY <1>0, <1>c, <1>n DEF Continue, MoverTold, Movers
  <1>5. CASE MoveResume
    <2>1. mover.rec \in Moves
      BY <1>0, <1>5 DEF MoveResume, Rec, Movers
    <2> QED
      BY <1>3, <1>5, <1>c, <2>1 DEF MoveResume
  <1>6. CASE DriveLedger
    BY <1>3, <1>6, <1>e DEF DriveLedger
  <1>7. CASE RefusedURL
    BY <1>3, <1>7, <1>s DEF RefusedURL
  <1>8. CASE UnsealedEnd
    BY <1>3, <1>8, <1>e, <1>s DEF UnsealedEnd
  <1>9. CASE MoveWait
    BY <1>0, <1>3, <1>9, <1>c DEF MoveWait, Holding
  <1>10. CASE CancelUnbound
    BY <1>3, <1>10, <1>s DEF CancelUnbound
  <1>11. CASE MoverStops
    BY <1>3, <1>11, <1>s DEF MoverStops
  <1>12. ASSUME NEW b \in upload, UploadLost(b) PROVE MoveInv'
    <2>1. MoverTold(mover')
      BY <1>0, <1>12 DEF UploadLost, MoverTold, Movers
    <2> QED
      BY <1>12, <1>3, <2>1 DEF UploadLost
  <1> QED
    BY <1>1, <1>2, <1>4, <1>5, <1>6, <1>7, <1>8, <1>9, <1>10, <1>11, <1>12, <1>u

\* The Cloud's handlers for a move, each ended by a reconcile.
LEMMA CloudMoves ==
    ASSUME Custody(copy), MoveInv, NEW m \in Moves,
           \/ MoveSweep(m) \/ (\E expect : CancelBySubject(m, expect))
           \/ ClaimAndProvision(m)
    PROVE  Custody(copy') /\ Follows(copy, copy') /\ MoveInv'
  <1>0. /\ msess \in [Moves -> MoveSessions] /\ copy \in [Places -> Copies]
        /\ Cloud \in Places
    BY PortableAssumption DEF MoveInv, MoveSessionsTold, Custody
  <1>f. ASSUME Custody(copy'), Follows(copy, copy'), MoveSessionsTold(msess', copy'),
               UNCHANGED <<mover, upload>>
        PROVE  MoveInv'
    BY <1>f, MoveFrame DEF MoveInv, Follows
  <1>1. CASE MoveSweep(m)
    <2>1. Custody(copy') /\ Follows(copy, copy') /\ MoveSessionsTold(msess', copy')
      BY <1>0, <1>1, SettleHere DEF MoveSweep
    <2> QED
      BY <1>1, <1>f, <2>1 DEF MoveSweep
  <1>2. ASSUME NEW expect, CancelBySubject(m, expect)
        PROVE  Custody(copy') /\ Follows(copy, copy') /\ MoveInv'
    <2>1. Custody(copy') /\ Follows(copy, copy') /\ MoveSessionsTold(msess', copy')
      BY <1>2, SettleHere, CancelledSession DEF CancelBySubject
    <2> QED
      BY <1>2, <1>f, <2>1 DEF CancelBySubject
  <1>3. CASE ClaimAndProvision(m)
    <2> DEFINE x == [copy[Cloud] EXCEPT !.human = TRUE]
    <2>1. copy' = [copy EXCEPT ![Cloud] = x]
      BY <1>0, <1>3 DEF ClaimAndProvision
    <2>2. /\ x \in Copies /\ x.auth = copy[Cloud].auth /\ x.hold = copy[Cloud].hold
          /\ x.exp = copy[Cloud].exp /\ x.imp = copy[Cloud].imp
          /\ x.lived = copy[Cloud].lived /\ x.epoch = copy[Cloud].epoch
      BY <1>0 DEF Copies
    <2> HIDE DEF x
    <2>3. Custody(copy') /\ Follows(copy, copy')
      BY <1>0, <2>1, <2>2, LifeKeeps
    <2>4. MoveSessionsTold(msess, copy')
      BY <2>3, MoveFrame DEF MoveInv, Follows
    <2>5. MoveSessionsTold(msess', copy')
      BY <1>3, <2>4 DEF ClaimAndProvision, MoveSessionsTold, MoveSessions, MoveStatuses
    <2> QED
      BY <1>3, <1>f, <2>3, <2>5 DEF ClaimAndProvision
  <1> QED
    BY <1>1, <1>2, <1>3

\* The mover's requests to the Cloud.
LEMMA MoverAsks ==
    ASSUME Custody(copy), MoveInv,
           DriveFetch \/ BindSource \/ UploadAdmit \/ CancelUnsealed
    PROVE  Custody(copy') /\ Follows(copy, copy') /\ MoveInv'
  <1>0. /\ msess \in [Moves -> MoveSessions] /\ copy \in [Places -> Copies] /\ mover \in Movers
        /\ Cloud \in Places /\ Home \in Places /\ (mover.pc # "idle" => mover.rec \in Moves)
        /\ NoView \in MoveViews
    BY PortableAssumption, MoveAssumption
       DEF MoveInv, MoveSessionsTold, MoverTold, Custody, NoView, MoveViews, MoveStatuses
  <1>m. PICK m \in Moves : m = mover.rec
    BY <1>0 DEF DriveFetch, BindSource, UploadAdmit, CancelUnsealed, Idle, Unsealed, Holding, Rec, Movers
  <1>f. ASSUME Custody(copy'), Follows(copy, copy'), MoveSessionsTold(msess', copy'),
               UNCHANGED upload, MoverTold(mover')
        PROVE  MoveInv'
    BY <1>f, MoveFrame DEF MoveInv, Follows
  <1>t. /\ MoverTold(Stop(mover)) /\ MoverTold(NoMove)
        /\ MoverTold([mover EXCEPT !.pc = "drive", !.view = NoView])
        /\ MoverTold([mover EXCEPT !.pc = "sending", !.view = NoView])
    <2>1. NoMove \in Movers /\ NoMove.pc = "idle"
      BY DEF NoMove, Movers, NoView, MoveViews, MoveStatuses
    <2> QED
      BY <1>0, <1>m, <2>1 DEF MoverTold, Movers, Stop
  \* What a reconcile inside a handler leaves.
  <1>r. ASSUME NEW r, r = Reconciled(m, msess[m], copy[Cloud]),
               copy' = [copy EXCEPT ![Cloud] = r.c]
        PROVE  /\ Custody(copy') /\ Follows(copy, copy') /\ r.s \in MoveSessions
               /\ (r.s.st = "activated" => Activated(copy'[Cloud], m))
               /\ MoveSessionsTold(msess, copy')
    <2>1. /\ Custody(copy') /\ Follows(copy, copy') /\ r.s \in MoveSessions
          /\ (r.s.st = "activated" => Activated(copy'[Cloud], m))
      BY <1>0, <1>r, ReconcileKeeps DEF MoveInv, MoveSessionsTold
    <2> QED
      BY <2>1, MoveFrame DEF MoveInv, Follows
  <1>1. CASE DriveFetch
    <2>1. Settle(m, msess[m], copy[Cloud]) /\ Seen(Answer(m, msess[m], copy[Cloud]), "act")
      BY <1>1, <1>m DEF DriveFetch, Rec
    <2>2. Custody(copy') /\ Follows(copy, copy') /\ MoveSessionsTold(msess', copy')
      BY <1>0, <2>1, SettleHere
    <2>3. Answer(m, msess[m], copy[Cloud]) \in MoveViews
      BY AnswerType
    <2>4. MoverTold(mover')
      BY <1>0, <1>m, <2>1, <2>3 DEF Seen, MoverTold, Movers
    <2> QED
      BY <1>1, <1>f, <2>2, <2>4 DEF DriveFetch
  <1>2. CASE BindSource
    <2> DEFINE r == Reconciled(m, msess[m], copy[Cloud])
               free == r.s.src = Nothing /\ r.s.st = "awaiting" /\ r.s.admit /\ ~account
               s == IF free THEN [r.s EXCEPT !.src = Home] ELSE r.s
               v == MoveView(m, s, r.c)
    <2>1. /\ msess' = [msess EXCEPT ![m] = s]
          /\ copy' = [copy EXCEPT ![Cloud] = r.c]
          /\ mover' = CASE s.src = Home -> [mover EXCEPT !.view = v, !.pc = "bound", !.bound = TRUE]
                        [] s.src = Foreign -> (IF mover.bound THEN Stop(mover) ELSE NoMove)
                        [] s.src = Nothing /\ s.st \in ClosedMove -> [mover EXCEPT !.view = v, !.pc = "bound"]
                        [] OTHER -> Stop(mover)
          /\ UNCHANGED upload
      BY <1>2, <1>m DEF BindSource, Rec
    <2>2. /\ Custody(copy') /\ Follows(copy, copy') /\ r.s \in MoveSessions
          /\ (r.s.st = "activated" => Activated(copy'[Cloud], m))
          /\ MoveSessionsTold(msess, copy')
      BY <1>r, <2>1
    <2> HIDE DEF r
    <2>3. s \in MoveSessions /\ s.st = r.s.st
      BY <2>2 DEF MoveSessions
    <2>4. v \in MoveViews
      BY <2>3, AnswerType
    <2> HIDE DEF s, v
    <2>5. MoveSessionsTold(msess', copy')
      BY <1>0, <2>1, <2>2, <2>3 DEF MoveSessionsTold
    <2>6. /\ MoverTold([mover EXCEPT !.view = v, !.pc = "bound", !.bound = TRUE])
          /\ MoverTold([mover EXCEPT !.view = v, !.pc = "bound"])
      BY <1>0, <1>m, <2>4 DEF MoverTold, Movers
    <2>7. MoverTold(mover')
      BY <1>t, <2>1, <2>6
    <2> QED
      BY <1>f, <2>1, <2>2, <2>5, <2>7
  <1>3. CASE UploadAdmit
    <2> DEFINE r == Reconciled(m, msess[m], copy[Cloud])
    <2>1. /\ msess' = [msess EXCEPT ![m] = r.s]
          /\ copy' = [copy EXCEPT ![Cloud] = r.c]
          /\ \/ /\ ExportOK(copy[Home], m) /\ upload' = upload \cup {Bundle(copy[Home], m)}
                /\ mover' = [mover EXCEPT !.pc = "sending", !.view = NoView]
             \/ UNCHANGED upload /\ mover' = [mover EXCEPT !.pc = "drive", !.view = NoView]
      BY <1>3, <1>m DEF UploadAdmit, Rec, Continue
    <2>2. /\ Custody(copy') /\ Follows(copy, copy') /\ r.s \in MoveSessions
          /\ (r.s.st = "activated" => Activated(copy'[Cloud], m))
          /\ MoveSessionsTold(msess, copy')
      BY <1>r, <2>1
    <2> HIDE DEF r
    <2>3. MoveSessionsTold(msess', copy')
      BY <1>0, <2>1, <2>2 DEF MoveSessionsTold
    <2>4. MoverTold(mover')
      BY <1>t, <2>1
    <2>5. UploadsTold(upload', copy)
      <3>1. CASE UNCHANGED upload
        BY <3>1 DEF MoveInv
      <3>2. CASE ExportOK(copy[Home], m) /\ upload' = upload \cup {Bundle(copy[Home], m)}
        <4>1. m \in Transfers
          BY MoveAssumption
        <4>2. /\ Bundle(copy[Home], m) \in Bundles /\ Bundle(copy[Home], m).t = m
              /\ Carried(copy, Bundle(copy[Home], m))
          BY <1>0, <3>2, <4>1, BundleCarried
        <4> QED
          BY <3>2, <4>2 DEF MoveInv, UploadsTold
      <3> QED
        BY <2>1, <3>1, <3>2
    <2>6. UploadsTold(upload', copy')
      BY <2>2, <2>5, MoveFrame DEF Follows
    <2> QED
      BY <2>2, <2>3, <2>4, <2>6 DEF MoveInv
  <1>4. CASE CancelUnsealed
    <2>1. /\ \/ Settle(m, Cancelled(m, "any"), copy[Cloud]) \/ UNCHANGED <<copy, msess>>
          /\ UNCHANGED mover \/ Finish("cancelled_unsealed")
          /\ UNCHANGED upload
      BY <1>4, <1>m DEF CancelUnsealed, Rec
    <2>2. Custody(copy') /\ Follows(copy, copy') /\ MoveSessionsTold(msess', copy')
      <3>1. CASE UNCHANGED <<copy, msess>>
        BY <3>1, FollowsRefl DEF MoveInv
      <3>2. CASE Settle(m, Cancelled(m, "any"), copy[Cloud])
        BY <3>2, SettleHere, CancelledSession
      <3> QED
        BY <2>1, <3>1, <3>2
    <2>3. MoverTold(mover')
      BY <1>t, <2>1 DEF Finish, MoverTold, Movers, MoveInv
    <2> QED
      BY <1>f, <2>1, <2>2, <2>3
  <1> QED
    BY <1>1, <1>2, <1>3, <1>4

\* The exports of the returns, for what the return sessions know of them.
KeepsReturns(cp, cq) ==
    \A r \in Returns : /\ cq[Cloud].exp[r].dest = cp[Cloud].exp[r].dest
                       /\ (cq[Cloud].exp[r].st = "none") <=> (cp[Cloud].exp[r].st = "none")

LEMMA FollowsReturns ==
    ASSUME NEW cp, NEW cq, Follows(cp, cq)
    PROVE  KeepsBundles(cp, cq) /\ KeepsActivated(cp, cq) /\ KeepsReturns(cp, cq)
  BY PortableAssumption, ReturnAssumption DEF Follows, KeepsExports, KeepsReturns

LEMMA SealHomeKeeps ==
    ASSUME NEW cp, Custody(cp), NEW m \in Moves, cp[Home].auth = "active",
           cp[Home].exp[m].st = "none",
           NEW cq, cq = [cp EXCEPT ![Home] = SealedCopy(cp[Home], m, Cloud)]
    PROVE  /\ Custody(cq) /\ KeepsBundles(cp, cq) /\ KeepsActivated(cp, cq)
           /\ KeepsReturns(cp, cq)
  <1>1. m \in Moves \cup Returns /\ Cloud \in Dests(m)
    BY DEF Dests
  <1>2. Src(m) = Home /\ Home \in Places
    BY MoveAssumption DEF Src
  <1>4. Custody(cq) /\ KeepsBundles(cp, cq) /\ KeepsActivated(cp, cq)
    BY <1>1, <1>2, SealKeeps
  <1>5. KeepsReturns(cp, cq)
    <2>1. OtherExportsSame(cp, cq, m)
      BY <1>1, <1>2, SealKeeps
    <2> QED
      BY <1>2, <2>1, PortableAssumption, MovesAssumption, ReturnAssumption
         DEF KeepsReturns, OtherExportsSame
  <1> QED
    BY <1>4, <1>5

\* The mover's steps on its own placement's ledger.
LEMMA MoverEnds ==
    ASSUME Custody(copy), MoveInv, MoveSeal \/ MoveComplete \/ MoveAbort
    PROVE  /\ Custody(copy') /\ MoveInv'
           /\ KeepsBundles(copy, copy') /\ KeepsReturns(copy, copy')
  <1>0. /\ mover \in Movers /\ (mover.pc # "idle" => mover.rec \in Moves)
        /\ Cloud \in Places /\ Home \in Places /\ NoView \in MoveViews
    BY PortableAssumption, MoveAssumption
       DEF MoveInv, MoverTold, NoView, MoveViews, MoveStatuses
  <1>m. PICK m \in Moves : m = mover.rec
    BY <1>0 DEF MoveSeal, MoveComplete, MoveAbort, Unsealed, Holding
  <1>p. m \in Transfers
    BY MoveAssumption
  <1>t. /\ MoverTold(Stop(mover)) /\ MoverTold([mover EXCEPT !.pc = "drive", !.view = NoView])
    BY <1>0, <1>m DEF MoverTold, Movers, Stop
  <1>u. UNCHANGED <<msess, upload>> /\ MoverTold(mover')
    BY <1>t DEF MoveSeal, MoveComplete, MoveAbort, Continue
  <1>f. ASSUME KeepsBundles(copy, copy'), KeepsActivated(copy, copy') PROVE MoveInv'
    BY <1>f, <1>u, MoveFrame DEF MoveInv
  <1>1. CASE UNCHANGED copy
    BY <1>1, <1>f, FollowsRefl, FollowsReturns
  <1>2. CASE MoveSeal /\ ~UNCHANGED copy
    <2>1. /\ SealOK(copy[Home], m, Cloud) /\ copy[Home].exp[m].st = "none"
          /\ copy' = [copy EXCEPT ![Home] = SealedCopy(copy[Home], m, Cloud)]
      BY <1>2, <1>m DEF MoveSeal, Unsealed, Sealed, Export, Rec
    <2>2. copy[Home].auth = "active"
      BY <2>1 DEF SealOK, SealReplays, CheckSealable
    <2> QED
      BY <1>f, <2>1, <2>2, SealHomeKeeps
  <1>3. CASE MoveComplete /\ ~UNCHANGED copy
    <2>1. CompleteOK(copy[Home], m, copy[Cloud]) /\ copy' = [copy EXCEPT ![Home] = CompletedCopy(copy[Home], m)]
      BY <1>3, <1>m DEF MoveComplete, Rec
    <2>2. Custody(copy') /\ Follows(copy, copy')
      BY <1>0, <1>p, <2>1, CompleteKeeps
    <2> QED
      BY <1>f, <2>2, FollowsReturns
  <1>4. CASE MoveAbort /\ ~UNCHANGED copy
    <2>1. AbortOK(copy[Home], m, copy[Cloud]) /\ copy' = [copy EXCEPT ![Home] = AbortedCopy(copy[Home], m)]
      BY <1>4, <1>m DEF MoveAbort, Rec
    <2>2. copy[Home].exp[m].dest = Cloud
      BY <1>0, <1>p, <2>1 DEF AbortOK, Custody, ExportsAtSource, Dests
    <2>3. Custody(copy') /\ Follows(copy, copy')
      BY <1>0, <1>p, <2>1, <2>2, AbortKeeps
    <2> QED
      BY <1>f, <2>3, FollowsReturns
  <1> QED
    BY <1>1, <1>2, <1>3, <1>4

\* A cancel by grant leaves a tombstone, or nothing.
LEMMA GrantKeeps ==
    ASSUME Custody(copy), NEW m \in Moves, NEW refused \in BOOLEAN, NEW c,
           c = IF refused THEN copy[Cloud] ELSE GrantCancelled(m, TRUE),
           NEW cp, cp = [copy EXCEPT ![Cloud] = c]
    PROVE  Custody(cp) /\ Follows(copy, cp) /\ cp[Cloud] = c
  <1>0. copy \in [Places -> Copies] /\ Cloud \in Places /\ m \in Transfers
    BY PortableAssumption, MoveAssumption DEF Custody
  <1>1. CASE c = copy[Cloud]
    <2>1. cp = copy
      BY <1>0, <1>1, SameCopies
    <2> QED
      BY <1>1, <2>1, FollowsRefl
  <1>2. CASE RetireOK(copy[Cloud], m, TRUE) /\ c = RetiredCopy(copy[Cloud], m)
    BY <1>0, <1>2, RetirementKeeps
  <1> QED
    BY <1>1, <1>2 DEF GrantCancelled

\* The Cloud's answer to a mover that asks for the end of its transfer.
LEMMA MoverCancels ==
    ASSUME Custody(copy), MoveInv, RequestRetire \/ CancelSealed
    PROVE  Custody(copy') /\ Follows(copy, copy') /\ MoveInv'
  <1>0. /\ mover \in Movers /\ (mover.pc # "idle" => mover.rec \in Moves)
        /\ Cloud \in Places /\ Home \in Places /\ NoView \in MoveViews
        /\ copy \in [Places -> Copies] /\ msess \in [Moves -> MoveSessions] /\ Home # Cloud
    BY PortableAssumption, MoveAssumption, MovesAssumption
       DEF MoveInv, MoverTold, NoView, MoveViews, MoveStatuses, Custody, MoveSessionsTold
  <1>m. PICK m \in Moves : m = mover.rec
    BY <1>0 DEF RequestRetire, CancelSealed, Holding, Idle, Rec, Movers
  <1>p. m \in Transfers
    BY MoveAssumption
  <1>t. /\ MoverTold(Stop(mover)) /\ MoverTold([mover EXCEPT !.pc = "drive", !.view = NoView])
        /\ \A o \in {"completed", "aborted"} : MoverTold([Stop(mover) EXCEPT !.outcome = o])
    <2>1. MoverTold(Stop(mover)) /\ Stop(mover).pc = "idle"
      BY <1>0 DEF MoverTold, Movers, Stop
    <2>2. MoverTold([mover EXCEPT !.pc = "drive", !.view = NoView])
      BY <1>0, <1>m DEF MoverTold, Movers
    <2> QED
      BY <2>1, <2>2 DEF MoverTold, Movers
  <1>f. ASSUME Follows(copy, copy'), MoveSessionsTold(msess', copy'), UNCHANGED upload, MoverTold(mover')
        PROVE  MoveInv'
    BY <1>f, MoveFrame DEF MoveInv, Follows
  <1> DEFINE refused == CancelRefused(m, "any")
             c == IF refused THEN copy[Cloud] ELSE GrantCancelled(m, TRUE)
             cp == [copy EXCEPT ![Cloud] = c]
             s == Cancelled(m, "any")
  <1>c. Custody(cp) /\ Follows(copy, cp) /\ cp[Cloud] = c
    <2>1. refused \in BOOLEAN
      BY DEF CancelRefused
    <2> QED
      BY <2>1, GrantKeeps
  <1>s. s \in MoveSessions /\ (s.st = "activated" => Activated(c, m))
    <2>1. s \in MoveSessions /\ (s.st = "activated" => Activated(copy[Cloud], m))
      BY CancelledSession DEF MoveInv, MoveSessionsTold
    <2> QED
      BY <1>0, <1>c, <1>p, <2>1 DEF Follows, KeepsActivated
  <1>1. CASE RequestRetire
    <2>1. Settle(m, s, c) /\ UNCHANGED upload /\ MoverTold(mover')
      BY <1>1, <1>m, <1>t DEF RequestRetire, Rec, Continue
    <2> HIDE DEF s, c
    <2>2. Custody(copy') /\ Follows(copy, copy') /\ MoveSessionsTold(msess', copy')
      BY <1>c, <1>s, <2>1, SettleKeeps
    <2> QED
      BY <1>f, <2>1, <2>2
  <1>3. CASE CancelSealed /\ Export \in {"completed", "aborted"}
    <2>1. UNCHANGED <<copy, msess, upload>> /\ MoverTold(mover')
      BY <1>3, <1>t DEF CancelSealed, Finish
    <2> QED
      BY <2>1, FollowsRefl DEF MoveInv
  <1>4. CASE CancelSealed /\ Export \notin {"completed", "aborted"}
    <2> DEFINE r == Reconciled(m, s, c)
               aborts == ~refused /\ AbortOK(copy[Home], m, r.c)
               cq == [cp EXCEPT ![Cloud] = r.c]
    <2>1. /\ msess' = [msess EXCEPT ![m] = r.s]
          /\ copy' = [copy EXCEPT ![Cloud] = r.c, ![Home] = IF aborts THEN AbortedCopy(@, m) ELSE @]
          /\ IF aborts THEN Finish("aborted") ELSE UNCHANGED mover
          /\ UNCHANGED upload
      BY <1>4, <1>m DEF CancelSealed, Rec
    <2>2. /\ Custody(cq) /\ Follows(cp, cq) /\ r.s \in MoveSessions
          /\ (r.s.st = "activated" => Activated(cq[Cloud], m))
      <3> HIDE DEF s, c, cp
      <3> QED
        BY <1>c, <1>s, ReconcileKeeps
    <2>3. cq = [copy EXCEPT ![Cloud] = r.c] /\ cq[Cloud] = r.c /\ cq[Home] = copy[Home]
      BY <1>0
    <2>4. copy' = [cq EXCEPT ![Home] = IF aborts THEN AbortedCopy(cq[Home], m) ELSE cq[Home]]
      BY <1>0, <2>1, <2>3
    <2>5. AbortOK(copy[Home], m, r.c) <=> AbortOK(cq[Home], m, cq[Cloud])
      BY <2>3
    <2> HIDE DEF r, cq, cp
    <2>6. Custody(copy') /\ Follows(cq, copy')
      <3>1. CASE aborts
        <4>1. cq[Home].exp[m].dest = Cloud
          BY <1>0, <1>p, <2>2, <2>5, <3>1 DEF AbortOK, Custody, ExportsAtSource, Dests
        <4> QED
          BY <1>0, <1>p, <2>2, <2>4, <2>5, <3>1, <4>1, AbortKeeps
      <3>2. CASE ~aborts
        <4>1. copy' = cq
          BY <1>0, <2>2, <2>4, <3>2, SameCopies
        <4> QED
          BY <2>2, <4>1, FollowsRefl
      <3> QED
        BY <3>1, <3>2
    <2>7. Follows(copy, copy')
      BY <1>c, <2>2, <2>6, FollowsTrans
    <2>8. MoveSessionsTold(msess, copy')
      BY <2>7, MoveFrame DEF MoveInv, Follows
    <2>9. MoveSessionsTold(msess', copy')
      <3>1. r.s.st = "activated" => Activated(copy'[Cloud], m)
        BY <1>0, <1>p, <2>2, <2>6 DEF Follows, KeepsActivated
      <3> QED
        BY <1>0, <2>1, <2>2, <2>8, <3>1 DEF MoveSessionsTold
    <2>10. MoverTold(mover')
      BY <1>t, <2>1 DEF Finish, MoveInv
    <2> QED
      BY <1>f, <2>1, <2>6, <2>7, <2>9, <2>10
  <1> QED
    BY <1>1, <1>3, <1>4

\* An admitted upload arrives, however long after it was admitted.
LEMMA UploadArrives ==
    ASSUME Custody(copy), MoveInv, NEW b \in upload, UploadImport(b)
    PROVE  Custody(copy') /\ Follows(copy, copy') /\ MoveInv'
  <1>0. /\ b \in Bundles /\ b.t \in Moves /\ Carried(copy, b) /\ Cloud \in Places
        /\ copy \in [Places -> Copies] /\ msess \in [Moves -> MoveSessions]
        /\ mover \in Movers /\ (mover.pc # "idle" => mover.rec \in Moves)
    BY PortableAssumption DEF MoveInv, UploadsTold, MoveSessionsTold, MoverTold, Custody
  <1>t. b.t \in Transfers
    BY <1>0, MoveAssumption
  <1> DEFINE c == IF ImportOK(copy[Cloud], Cloud, b, Nothing)
                  THEN ImportedCopy(copy[Cloud], b, Nothing) ELSE copy[Cloud]
             cp == [copy EXCEPT ![Cloud] = c]
  <1>1. /\ Settle(b.t, msess[b.t], c) /\ upload' = upload \ {b}
        /\ mover' \in {mover, [mover EXCEPT !.pc = "drive"]}
        /\ mover.pc = "idle" => mover' = mover
    BY DEF UploadImport
  <1>2. Custody(cp) /\ Follows(copy, cp)
    <2>1. CASE ImportOK(copy[Cloud], Cloud, b, Nothing)
      BY <1>0, <2>1, ImportKeeps
    <2>2. CASE ~ImportOK(copy[Cloud], Cloud, b, Nothing)
      <3>1. cp = copy
        BY <1>0, <2>2, SameCopies
      <3> QED
        BY <3>1, FollowsRefl
    <2> QED
      BY <2>1, <2>2
  <1>3. cp[Cloud] = c
    BY <1>0
  <1>4. msess[b.t].st = "activated" => Activated(c, b.t)
    BY <1>0, <1>2, <1>3, <1>t DEF MoveInv, MoveSessionsTold, Follows, KeepsActivated
  <1> HIDE DEF c
  <1>5. Custody(copy') /\ Follows(copy, copy') /\ MoveSessionsTold(msess', copy')
    BY <1>0, <1>1, <1>2, <1>4, SettleKeeps
  <1>6. MoverTold(mover')
    BY <1>0, <1>1 DEF MoverTold, Movers
  <1>7. UploadsTold(upload', copy')
    <2>1. UploadsTold(upload, copy')
      BY <1>5, MoveFrame DEF MoveInv, Follows
    <2> QED
      BY <1>1, <2>1 DEF UploadsTold
  <1> QED
    BY <1>5, <1>6, <1>7 DEF MoveInv

\* Every step of a move.
LEMMA MoveSteps ==
    ASSUME Custody(copy), MoveInv, MoveNext
    PROVE  /\ Custody(copy') /\ MoveInv'
           /\ KeepsBundles(copy, copy') /\ KeepsReturns(copy, copy')
  <1>f. ASSUME Follows(copy, copy') PROVE KeepsBundles(copy, copy') /\ KeepsReturns(copy, copy')
    BY <1>f, FollowsReturns
  <1>1. CASE \/ \E m \in Moves : CreateMove(m) \/ ForeignBind(m) \/ MoveDeadline(m) \/ MoveStart(m)
             \/ RegisterFresh \/ MoveResume \/ DriveLedger \/ RefusedURL \/ UnsealedEnd
             \/ MoveWait \/ CancelUnbound \/ MoverStops
             \/ \E b \in upload : UploadLost(b)
    BY <1>1, <1>f, QuietMoves, FollowsRefl
  <1>2. CASE \E m \in Moves : \/ MoveSweep(m) \/ (\E expect : CancelBySubject(m, expect))
                              \/ ClaimAndProvision(m)
    BY <1>2, <1>f, CloudMoves
  <1>3. CASE DriveFetch \/ BindSource \/ UploadAdmit \/ CancelUnsealed
    BY <1>3, <1>f, MoverAsks
  <1>4. CASE MoveSeal \/ MoveComplete \/ MoveAbort
    BY <1>4, MoverEnds
  <1>5. CASE RequestRetire \/ CancelSealed
    BY <1>5, <1>f, MoverCancels
  <1>6. CASE \E b \in upload : UploadImport(b)
    BY <1>6, <1>f, UploadArrives
  <1> QED
    BY <1>1, <1>2, <1>3, <1>4, <1>5, <1>6
       DEF MoveNext, CloudMoveNext, MoverNext, MoverStep, UploadNext

-----------------------------------------------------------------------------
(* Returns *)

RSessions == [st : ReturnStatuses, dest : Locals \cup {Nothing}, mode : {"local", "cloud"},
              epoch : Nat, live : BOOLEAN]
Returners == [rec : Returns \cup {Nothing}, outcome : {"active", "elsewhere"} \cup ReturnStatuses,
              pc : {"idle", "drive", "act"}, view : ReturnStatuses,
              held : SUBSET Bundles, files : BOOLEAN]

\* A session that is bound has begun, only a bound one is being sealed, and
\* the export of a return is addressed to the destination its session has
\* bound; a command that runs has a record, and the bundle it holds is still
\* the cut until its own placement has heard of the transfer.
ReturnSessionsTold(s, sl, cp) ==
    /\ s \in [Returns -> RSessions] /\ sl \in [Returns -> {"no", "bound", "fenced"}]
    /\ IsFiniteSet({q \in Returns : s[q].st # "none"})
    /\ \A r \in Returns :
          /\ s[r].dest # Nothing => s[r].st # "none"
          /\ sl[r] # "no" => s[r].dest # Nothing
          /\ cp[Cloud].exp[r].st # "none" => cp[Cloud].exp[r].dest = s[r].dest
ReturnersTold(rt, cp) ==
    /\ rt \in [Locals -> Returners]
    /\ \A l \in Locals : /\ rt[l].pc # "idle" => rt[l].rec \in Returns
                         /\ \A b \in rt[l].held : Carried(cp, b)
ReturnInv == ReturnSessionsTold(rsess, sealing, copy) /\ ReturnersTold(returner, copy)

LEMMA ReturnPlaces ==
    /\ Cloud \in Places /\ Returns \subseteq Transfers
    /\ \A l \in Locals : l \in Places /\ l # Cloud /\ l # Nothing
    /\ \A r \in Returns : r \notin Moves /\ Src(r) = Cloud /\ r # Nothing
  BY PortableAssumption, ReturnAssumption, MovesAssumption DEF Src

LEMMA ReturnFrame ==
    ASSUME NEW cp, NEW cq, KeepsBundles(cp, cq)
    PROVE  /\ \A rt : ReturnersTold(rt, cp) => ReturnersTold(rt, cq)
           /\ KeepsReturns(cp, cq) =>
                \A s, sl : ReturnSessionsTold(s, sl, cp) => ReturnSessionsTold(s, sl, cq)
  <1>1. ASSUME NEW rt, ReturnersTold(rt, cp) PROVE ReturnersTold(rt, cq)
    <2>1. \A l \in Locals : \A b \in rt[l].held : b \in Bundles
      BY <1>1 DEF ReturnersTold, Returners
    <2> QED
      BY <1>1, <2>1 DEF ReturnersTold, KeepsBundles
  <1>2. ASSUME KeepsReturns(cp, cq), NEW s, NEW sl, ReturnSessionsTold(s, sl, cp)
        PROVE  ReturnSessionsTold(s, sl, cq)
    BY <1>2 DEF ReturnSessionsTold, KeepsReturns
  <1> QED
    BY <1>1, <1>2

\* A handler writes one session's row.
LEMMA SessionKept ==
    ASSUME NEW s, NEW sl, NEW cp, ReturnSessionsTold(s, sl, cp), NEW r \in Returns,
           NEW x \in RSessions, x.dest # Nothing => x.st # "none",
           \/ x.dest = s[r].dest
           \/ x.dest # Nothing /\ cp[Cloud].exp[r].st = "none",
           NEW z, z = [s EXCEPT ![r] = x]
    PROVE  ReturnSessionsTold(z, sl, cp)
  <1>0. s \in [Returns -> RSessions] /\ IsFiniteSet({q \in Returns : s[q].st # "none"})
    BY DEF ReturnSessionsTold
  <1>1. z \in [Returns -> RSessions]
    BY <1>0
  <1>2. IsFiniteSet({q \in Returns : z[q].st # "none"})
    <2>1. IsFiniteSet({q \in Returns : s[q].st # "none"} \cup {r})
      BY <1>0, FS_AddElement
    <2>2. {q \in Returns : z[q].st # "none"} \subseteq {q \in Returns : s[q].st # "none"} \cup {r}
      BY <1>0
    <2> QED
      BY <2>1, <2>2, FS_Subset
  <1>3. ASSUME NEW q \in Returns
        PROVE  /\ z[q].dest # Nothing => z[q].st # "none"
               /\ sl[q] # "no" => z[q].dest # Nothing
               /\ cp[Cloud].exp[q].st # "none" => cp[Cloud].exp[q].dest = z[q].dest
    <2>1. CASE q = r
      BY <1>0, <2>1 DEF ReturnSessionsTold
    <2>2. CASE q # r
      BY <1>0, <2>2 DEF ReturnSessionsTold
    <2> QED
      BY <2>1, <2>2
  <1> QED
    BY <1>1, <1>2, <1>3 DEF ReturnSessionsTold

LEMMA SealingKept ==
    ASSUME NEW s, NEW sl, NEW cp, ReturnSessionsTold(s, sl, cp), NEW r \in Returns,
           NEW x \in {"no", "bound", "fenced"}, x # "no" => s[r].dest # Nothing,
           NEW z, z = [sl EXCEPT ![r] = x]
    PROVE  ReturnSessionsTold(s, z, cp)
  BY DEF ReturnSessionsTold

LEMMA ReturnerKept ==
    ASSUME NEW rt, NEW cp, ReturnersTold(rt, cp), NEW l \in Locals, NEW y \in Returners,
           y.pc # "idle" => y.rec \in Returns, \A b \in y.held : Carried(cp, b),
           NEW z, z = [rt EXCEPT ![l] = y]
    PROVE  ReturnersTold(z, cp)
  BY DEF ReturnersTold

\* The status half of Reconcile.
LEMMA StatusType ==
    ASSUME NEW r \in Returns, NEW x \in RSessions, NEW c \in Copies
    PROVE  /\ StatusOf(r, x, c) \in ReturnStatuses
           /\ x.st # "none" => StatusOf(r, x, c) # "none"
           /\ StatusOf(r, x, c) = "awaiting" => c.exp[r].st = "none"
           /\ [x EXCEPT !.st = StatusOf(r, x, c)] \in RSessions
  <1>1. /\ StatusOf(r, x, c) \in ReturnStatuses
        /\ x.st # "none" => StatusOf(r, x, c) # "none"
        /\ StatusOf(r, x, c) = "awaiting" => c.exp[r].st = "none"
    BY DEF StatusOf, RSessions, ReturnStatuses
  <1> QED
    BY <1>1 DEF RSessions

LEMMA ReconcileToKeeps ==
    ASSUME Custody(copy), ReturnInv, NEW r \in Returns, NEW x \in RSessions,
           x.dest = rsess[r].dest, rsess[r].st # "none" => x.st # "none",
           NEW c, NEW cp, cp = [copy EXCEPT ![Cloud] = c], Custody(cp), Follows(copy, cp),
           ReconcileTo(r, x, c), UNCHANGED sealing
    PROVE  /\ Custody(copy') /\ Follows(copy, copy')
           /\ ReturnSessionsTold(rsess', sealing', copy') /\ ReturnersTold(returner, copy')
  <1> DEFINE z == [x EXCEPT !.st = StatusOf(r, x, c)]
  <1>1. copy' = cp /\ rsess' = [rsess EXCEPT ![r] = z]
    BY DEF ReconcileTo
  <1>2. c \in Copies
    BY PortableAssumption DEF Custody
  <1>3. ReturnSessionsTold(rsess, sealing, cp) /\ ReturnersTold(returner, cp)
    BY ReturnFrame, FollowsReturns DEF ReturnInv
  <1>4. z \in RSessions /\ z.dest = rsess[r].dest /\ (z.dest # Nothing => z.st # "none")
    <2>1. z \in RSessions /\ z.dest = x.dest /\ z.st = StatusOf(r, x, c)
      BY <1>2, StatusType DEF RSessions
    <2>2. x.dest # Nothing => x.st # "none"
      BY DEF ReturnInv, ReturnSessionsTold
    <2>3. x.st # "none" => StatusOf(r, x, c) # "none"
      BY <1>2, StatusType
    <2> QED
      BY <2>1, <2>2, <2>3
  <1> HIDE DEF z
  <1>5. ReturnSessionsTold(rsess', sealing, cp)
    BY <1>1, <1>3, <1>4, SessionKept
  <1> QED
    BY <1>1, <1>3, <1>5

LEMMA ReconcileHere ==
    ASSUME Custody(copy), ReturnInv, NEW r \in Returns, NEW x \in RSessions,
           x.dest = rsess[r].dest, rsess[r].st # "none" => x.st # "none",
           ReconcileTo(r, x, copy[Cloud]), UNCHANGED sealing
    PROVE  /\ Custody(copy') /\ Follows(copy, copy')
           /\ ReturnSessionsTold(rsess', sealing', copy') /\ ReturnersTold(returner, copy')
  <1>1. [copy EXCEPT ![Cloud] = copy[Cloud]] = copy
    BY PortableAssumption, SameCopies
  <1> QED
    BY <1>1, ReconcileToKeeps, FollowsRefl

LEMMA CancelledReturnType ==
    ASSUME ReturnInv, NEW r \in Returns
    PROVE  /\ CancelledReturn(r) \in RSessions /\ CancelledReturn(r).dest = rsess[r].dest
           /\ rsess[r].st # "none" => CancelledReturn(r).st # "none"
  <1>1. rsess[r] \in RSessions
    BY DEF ReturnInv, ReturnSessionsTold
  <1> QED
    BY <1>1 DEF CancelledReturn, RSessions, ReturnStatuses

\* The Cloud's steps that leave the copies alone.
LEMMA QuietReturns ==
    ASSUME Custody(copy), ReturnInv,
           \/ \E r \in Returns :
                \/ (\E mode \in {"local", "cloud"} : CreateReturn(r, mode))
                \/ ReturnDeadline(r) \/ SweepStrandedFences(r) \/ SealBegin(r)
                \/ (\E reached \in BOOLEAN : SealRefused(r, reached) \/ Converge(r, reached))
           \/ RevokeTokens \/ CloudCrash \/ TerminalAttach \/ TerminalDetach
    PROVE  UNCHANGED copy /\ ReturnInv'
  <1>0. /\ ReturnSessionsTold(rsess, sealing, copy) /\ ReturnersTold(returner, copy)
        /\ rsess \in [Returns -> RSessions] /\ sealing \in [Returns -> {"no", "bound", "fenced"}]
    BY DEF ReturnInv, ReturnSessionsTold
  <1>u. UNCHANGED <<copy, returner>>
    BY DEF CreateReturn, ReturnDeadline, SweepStrandedFences, SealBegin, SealRefused, Converge,
           RevokeTokens, CloudCrash, TerminalAttach, TerminalDetach
  <1>f. ASSUME ReturnSessionsTold(rsess', sealing', copy) PROVE ReturnInv'
    BY <1>0, <1>f, <1>u DEF ReturnInv
  <1>s. ASSUME UNCHANGED <<rsess, sealing>> PROVE ReturnInv'
    BY <1>0, <1>f, <1>s
  <1>1. ASSUME NEW r \in Returns, NEW mode \in {"local", "cloud"}, CreateReturn(r, mode)
        PROVE  ReturnInv'
    <2> DEFINE n == Cardinality({q \in Returns : rsess[q].st # "none"})
               x == [NoReturn EXCEPT !.st = "awaiting", !.mode = mode, !.epoch = 1 + n]
    <2>1. rsess' = [rsess EXCEPT ![r] = x] /\ UNCHANGED sealing /\ rsess[r].st = "none"
      BY <1>1 DEF CreateReturn
    <2>2. n \in Nat
      BY <1>0, FS_CardinalityType DEF ReturnSessionsTold
    <2> HIDE DEF n
    <2>3. x \in RSessions /\ x.dest = Nothing
      <3>1. PICK k \in Nat : k = 1 + n
        BY <2>2
      <3>2. x = [NoReturn EXCEPT !.st = "awaiting", !.mode = mode, !.epoch = k]
        BY <3>1
      <3> QED
        BY <3>2 DEF NoReturn, RSessions, ReturnStatuses
    <2>4. rsess[r].dest = Nothing
      BY <1>0, <2>1 DEF ReturnSessionsTold
    <2> HIDE DEF x
    <2>5. ReturnSessionsTold(rsess', sealing, copy)
      BY <1>0, <2>1, <2>3, <2>4, SessionKept
    <2> QED
      BY <1>f, <2>1, <2>5
  <1>2. ASSUME NEW r \in Returns, ReturnDeadline(r) PROVE ReturnInv'
    <2> DEFINE x == [rsess[r] EXCEPT !.live = FALSE]
    <2>1. rsess' = [rsess EXCEPT ![r] = x] /\ UNCHANGED sealing /\ rsess[r].st = "awaiting"
      BY <1>2 DEF ReturnDeadline
    <2>2. x \in RSessions /\ x.dest = rsess[r].dest /\ x.st = rsess[r].st
      BY <1>0 DEF RSessions
    <2> HIDE DEF x
    <2>3. ReturnSessionsTold(rsess', sealing, copy)
      BY <1>0, <2>1, <2>2, SessionKept
    <2> QED
      BY <1>f, <2>1, <2>3
  <1>3. ASSUME NEW r \in Returns,
               SweepStrandedFences(r) \/ (\E reached \in BOOLEAN : Converge(r, reached))
        PROVE  ReturnInv'
    BY <1>3, <1>s DEF SweepStrandedFences, Converge
  <1>4. ASSUME NEW r \in Returns, SealBegin(r) \/ (\E reached \in BOOLEAN : SealRefused(r, reached))
        PROVE  ReturnInv'
    <2>1. PICK x \in {"no", "fenced"} : sealing' = [sealing EXCEPT ![r] = x]
      BY <1>4 DEF SealBegin, SealRefused
    <2>2. UNCHANGED rsess /\ sealing[r] # "no"
      BY <1>4 DEF SealBegin, SealRefused
    <2>3. rsess[r].dest # Nothing
      BY <1>0, <2>2 DEF ReturnSessionsTold
    <2>4. ReturnSessionsTold(rsess, sealing', copy)
      BY <1>0, <2>1, <2>3, SealingKept
    <2> QED
      BY <1>f, <2>2, <2>4
  <1>5. CASE RevokeTokens \/ TerminalAttach \/ TerminalDetach
    BY <1>5, <1>s DEF RevokeTokens, TerminalAttach, TerminalDetach
  <1>6. CASE CloudCrash
    <2>1. ReturnSessionsTold(rsess', sealing', copy)
      BY <1>0, <1>6 DEF CloudCrash, ReturnSessionsTold
    <2> QED
      BY <1>f, <1>u, <2>1
  <1> QED
    BY <1>1, <1>2, <1>3, <1>4, <1>5, <1>6, <1>u

LEMMA SealCloudKeeps ==
    ASSUME NEW cp, Custody(cp), NEW r \in Returns, NEW d \in Locals,
           cp[Cloud].auth = "active", cp[Cloud].exp[r].st = "none",
           NEW cq, cq = [cp EXCEPT ![Cloud] = SealedCopy(cp[Cloud], r, d)]
    PROVE  /\ Custody(cq) /\ KeepsBundles(cp, cq) /\ KeepsActivated(cp, cq)
           /\ ExportedTo(cq, Cloud, r, d) /\ OtherExportsSame(cp, cq, r)
  <1>1. r \in Moves \cup Returns /\ d \in Dests(r)
    BY ReturnPlaces DEF Dests
  <1>2. Src(r) = Cloud /\ Cloud \in Places
    BY ReturnPlaces
  <1>4. Custody(cq) /\ KeepsBundles(cp, cq) /\ KeepsActivated(cp, cq)
    BY <1>1, <1>2, SealKeeps
  <1>5. ExportedTo(cq, Cloud, r, d)
    BY <1>1, <1>2, SealKeeps
  <1>6. OtherExportsSame(cp, cq, r)
    BY <1>1, <1>2, SealKeeps
  <1> QED
    BY <1>4, <1>5, <1>6

\* The second transaction of a bind seals what the first one bound.
LEMMA ReturnSeals ==
    ASSUME Custody(copy), ReturnInv, NEW r \in Returns, SealCommit(r)
    PROVE  /\ Custody(copy') /\ ReturnInv'
           /\ KeepsBundles(copy, copy') /\ KeepsActivated(copy, copy')
  <1>0. /\ ReturnSessionsTold(rsess, sealing, copy) /\ ReturnersTold(returner, copy)
        /\ rsess \in [Returns -> RSessions] /\ copy \in [Places -> Copies]
    BY DEF ReturnInv, ReturnSessionsTold, Custody
  <1>d. PICK d \in Locals : d = rsess[r].dest
    BY <1>0 DEF SealCommit, ReturnSessionsTold, RSessions
  <1>1. /\ SealOK(copy[Cloud], r, d) /\ UNCHANGED returner
        /\ copy' = [copy EXCEPT ![Cloud] = SealedCopy(copy[Cloud], r, d)]
        /\ rsess' = [rsess EXCEPT ![r].st = "sealed"] /\ sealing' = [sealing EXCEPT ![r] = "no"]
    BY <1>d DEF SealCommit
  <1>2. /\ Custody(copy') /\ KeepsBundles(copy, copy') /\ KeepsActivated(copy, copy')
        /\ ReturnSessionsTold(rsess, sealing, copy')
    <2>1. CASE SealReplays(copy[Cloud], r, d)
      <3>1. SealedCopy(copy[Cloud], r, d) = copy[Cloud]
        BY <2>1 DEF SealedCopy
      <3>2. copy' = copy
        BY <1>1, <3>1, SameCopies, ReturnPlaces
      <3> QED
        BY <1>0, <3>2, FollowsRefl, FollowsReturns
    <2>2. CASE ~SealReplays(copy[Cloud], r, d)
      <3>1. copy[Cloud].auth = "active" /\ copy[Cloud].exp[r].st = "none"
        BY <1>1, <2>2 DEF SealOK, CheckSealable
      <3>2. /\ Custody(copy') /\ KeepsBundles(copy, copy') /\ KeepsActivated(copy, copy')
            /\ ExportedTo(copy', Cloud, r, d) /\ OtherExportsSame(copy, copy', r)
        BY <1>1, <3>1, SealCloudKeeps
      <3>3. \A q \in Returns : q # r => copy'[Cloud].exp[q] = copy[Cloud].exp[q]
        BY <3>2, ReturnPlaces DEF OtherExportsSame
      <3>4. ReturnSessionsTold(rsess, sealing, copy')
        BY <1>0, <1>d, <3>2, <3>3 DEF ReturnSessionsTold, ExportedTo
      <3> QED
        BY <3>2, <3>4
    <2> QED
      BY <2>1, <2>2
  <1> DEFINE x == [rsess[r] EXCEPT !.st = "sealed"]
  <1>3. x \in RSessions /\ x.dest = rsess[r].dest /\ x.st = "sealed"
    BY <1>0 DEF RSessions, ReturnStatuses
  <1>4. rsess' = [rsess EXCEPT ![r] = x]
    BY <1>0, <1>1
  <1> HIDE DEF x
  <1>5. ReturnSessionsTold(rsess', sealing, copy')
    BY <1>2, <1>3, <1>4, SessionKept
  <1>6. ReturnSessionsTold(rsess', sealing', copy')
    BY <1>1, <1>5, SealingKept
  <1>7. ReturnersTold(returner', copy')
    BY <1>0, <1>1, <1>2, ReturnFrame
  <1> QED
    BY <1>2, <1>6, <1>7 DEF ReturnInv

\* The owner's cancel and the sweep.
LEMMA CloudReturns ==
    ASSUME Custody(copy), ReturnInv, NEW r \in Returns, CancelByOwner(r) \/ ReturnSweep(r)
    PROVE  Custody(copy') /\ Follows(copy, copy') /\ ReturnInv'
  <1>0. rsess[r] \in RSessions
    BY DEF ReturnInv, ReturnSessionsTold
  <1>1. UNCHANGED <<sealing, returner>>
    BY DEF CancelByOwner, ReturnSweep
  <1>2. /\ Custody(copy') /\ Follows(copy, copy')
        /\ ReturnSessionsTold(rsess', sealing', copy') /\ ReturnersTold(returner, copy')
    <2>1. CASE CancelByOwner(r)
      BY <1>1, <2>1, ReconcileHere, CancelledReturnType DEF CancelByOwner
    <2>2. CASE ReturnSweep(r)
      BY <1>0, <1>1, <2>2, ReconcileHere DEF ReturnSweep, Reconcile
    <2> QED
      BY <2>1, <2>2
  <1> QED
    BY <1>1, <1>2 DEF ReturnInv

\* How a command's step leaves its state file.
LEMMA ReturnerSteps ==
    ASSUME NEW cp, ReturnersTold(returner, cp), NEW l \in Locals
    PROVE  /\ Pend(l) => ReturnersTold(returner', cp)
           /\ returner[l].rec \in Returns /\ Again(l) => ReturnersTold(returner', cp)
           /\ \A o \in {"active", "elsewhere"} \cup ReturnStatuses :
                 EndAt(l, o) => ReturnersTold(returner', cp)
  <1>0. /\ returner \in [Locals -> Returners] /\ returner[l] \in Returners
        /\ \A b \in returner[l].held : Carried(cp, b)
    BY DEF ReturnersTold
  <1>1. ASSUME Pend(l) PROVE ReturnersTold(returner', cp)
    <2> DEFINE y == [returner[l] EXCEPT !.pc = "idle", !.view = "none"]
    <2>1. returner' = [returner EXCEPT ![l] = y]
      BY <1>0, <1>1 DEF Pend
    <2>2. y \in Returners /\ y.pc = "idle" /\ y.held = returner[l].held
      BY <1>0 DEF Returners, ReturnStatuses
    <2> HIDE DEF y
    <2> QED
      BY <1>0, <2>1, <2>2, ReturnerKept
  <1>2. ASSUME returner[l].rec \in Returns, Again(l) PROVE ReturnersTold(returner', cp)
    <2> DEFINE y == [returner[l] EXCEPT !.pc = "drive", !.view = "none"]
    <2>1. returner' = [returner EXCEPT ![l] = y]
      BY <1>0, <1>2 DEF Again
    <2>2. y \in Returners /\ y.rec = returner[l].rec /\ y.held = returner[l].held
      BY <1>0 DEF Returners, ReturnStatuses
    <2> HIDE DEF y
    <2> QED
      BY <1>0, <1>2, <2>1, <2>2, ReturnerKept
  <1>3. ASSUME NEW o \in {"active", "elsewhere"} \cup ReturnStatuses, EndAt(l, o)
        PROVE  ReturnersTold(returner', cp)
    <2> DEFINE y == [returner[l] EXCEPT !.outcome = o, !.pc = "idle", !.view = "none"]
    <2>1. returner' = [returner EXCEPT ![l] = y]
      BY <1>0, <1>3 DEF EndAt
    <2>2. y \in Returners /\ y.pc = "idle" /\ y.held = returner[l].held
      BY <1>0 DEF Returners, ReturnStatuses
    <2> HIDE DEF y
    <2> QED
      BY <1>0, <2>1, <2>2, ReturnerKept
  <1> QED
    BY <1>1, <1>2, <1>3

\* The command's requests to the Cloud.
LEMMA ReturnerAsks ==
    ASSUME Custody(copy), ReturnInv, NEW l \in Locals,
           ReturnFetch(l) \/ ReportActivated(l) \/ ReportRetired(l) \/ ReturnCancel(l)
    PROVE  Custody(copy') /\ Follows(copy, copy') /\ ReturnInv'
  <1>0. /\ ReturnSessionsTold(rsess, sealing, copy) /\ ReturnersTold(returner, copy)
        /\ rsess \in [Returns -> RSessions] /\ copy \in [Places -> Copies]
        /\ returner \in [Locals -> Returners] /\ returner[l] \in Returners
        /\ \A b \in returner[l].held : b \in Bundles /\ Carried(copy, b)
    BY DEF ReturnInv, ReturnSessionsTold, ReturnersTold, Returners, Custody
  <1>r. PICK r \in Returns : r = returner[l].rec
    BY <1>0 DEF ReturnFetch, ReportActivated, ReportRetired, ReturnCancel, Acting, At, Ses,
                ReturnersTold, Returners
  <1>p. /\ Cloud \in Places /\ l \in Places /\ r \in Transfers /\ rsess[r] \in RSessions
        /\ UNCHANGED sealing
    BY <1>0, ReturnPlaces DEF ReturnFetch, ReportActivated, ReportRetired, ReturnCancel
  \* A command whose next state has the same bundle.
  <1>y. ASSUME NEW y \in Returners, y.held = returner[l].held, y.rec = r, ReturnersTold(returner, copy'),
               returner' = [returner EXCEPT ![l] = y]
        PROVE  ReturnersTold(returner', copy')
    <2>1. \A b \in y.held : Carried(copy', b)
      BY <1>y DEF ReturnersTold
    <2> QED
      BY <1>y, <2>1, ReturnerKept
  <1>1. CASE ReturnFetch(l)
    <2> DEFINE v == StatusOf(r, rsess[r], copy[Cloud])
               y == [returner[l] EXCEPT !.pc = "act", !.view = v]
    <2>1. ReconcileTo(r, rsess[r], copy[Cloud]) /\ returner' = [returner EXCEPT ![l] = y]
      BY <1>0, <1>1, <1>r DEF ReturnFetch, Reconcile, Ses
    <2>2. v \in ReturnStatuses
      BY <1>0, <1>p, StatusType
    <2> HIDE DEF v
    <2>3. y \in Returners /\ y.rec = r /\ y.held = returner[l].held
      BY <1>0, <1>r, <2>2 DEF Returners
    <2> HIDE DEF y
    <2>4. /\ Custody(copy') /\ Follows(copy, copy')
          /\ ReturnSessionsTold(rsess', sealing', copy') /\ ReturnersTold(returner, copy')
      BY <1>p, <2>1, ReconcileHere
    <2> QED
      BY <1>y, <2>1, <2>3, <2>4 DEF ReturnInv
  <1>2. CASE ReturnCancel(l)
    <2> DEFINE y == [returner[l] EXCEPT !.outcome = "none", !.pc = "drive", !.files = FALSE]
    <2>1. ReconcileTo(r, CancelledReturn(r), copy[Cloud]) /\ returner' = [returner EXCEPT ![l] = y]
      BY <1>0, <1>2, <1>r DEF ReturnCancel, Ses
    <2>3. y \in Returners /\ y.rec = r /\ y.held = returner[l].held
      BY <1>0, <1>r DEF Returners, ReturnStatuses
    <2> HIDE DEF y
    <2>4. /\ Custody(copy') /\ Follows(copy, copy')
          /\ ReturnSessionsTold(rsess', sealing', copy') /\ ReturnersTold(returner, copy')
      BY <1>p, <2>1, ReconcileHere, CancelledReturnType
    <2> QED
      BY <1>y, <2>1, <2>3, <2>4 DEF ReturnInv
  <1>3. CASE ReportActivated(l)
    <2> DEFINE c == copy[Cloud]
               ends == rsess[r].st \in {"sealed", "cancelling"} /\ CompleteOK(c, r, copy[l])
               x == IF ends THEN CompletedCopy(c, r) ELSE c
               cp == [copy EXCEPT ![Cloud] = x]
    <2>1. ReconcileTo(r, rsess[r], x) /\ Again(l)
      BY <1>3, <1>r DEF ReportActivated, Ses
    <2>2. Custody(cp) /\ Follows(copy, cp)
      <3>1. CASE ends
        BY <1>p, <3>1, CompleteKeeps
      <3>2. CASE ~ends
        <4>1. cp = copy
          BY <1>p, <3>2, SameCopies
        <4> QED
          BY <4>1, FollowsRefl
      <3> QED
        BY <3>1, <3>2
    <2> HIDE DEF x
    <2>3. /\ Custody(copy') /\ Follows(copy, copy')
          /\ ReturnSessionsTold(rsess', sealing', copy') /\ ReturnersTold(returner, copy')
      BY <1>p, <2>1, <2>2, ReconcileToKeeps
    <2>4. ReturnersTold(returner', copy')
      BY <1>r, <2>1, <2>3, ReturnerSteps
    <2> QED
      BY <2>3, <2>4 DEF ReturnInv
  <1>4. CASE ReportRetired(l)
    <2> DEFINE c == copy[Cloud]
               ends == /\ rsess[r].st \in {"sealed", "cancelling"} /\ rsess[r].dest = l
                       /\ AbortOK(c, r, copy[l])
               x == IF ends THEN AbortedCopy(c, r) ELSE c
               cp == [copy EXCEPT ![Cloud] = x]
    <2>1. ReconcileTo(r, rsess[r], x) /\ (Again(l) \/ Pend(l))
      BY <1>4, <1>r DEF ReportRetired, Ses
    <2>2. Custody(cp) /\ Follows(copy, cp)
      <3>1. CASE ends
        <4>1. copy[Cloud].exp[r].dest = l
          BY <1>0, <3>1 DEF AbortOK, ReturnSessionsTold
        <4> QED
          BY <1>p, <3>1, <4>1, AbortKeeps
      <3>2. CASE ~ends
        <4>1. cp = copy
          BY <1>p, <3>2, SameCopies
        <4> QED
          BY <4>1, FollowsRefl
      <3> QED
        BY <3>1, <3>2
    <2> HIDE DEF x
    <2>3. /\ Custody(copy') /\ Follows(copy, copy')
          /\ ReturnSessionsTold(rsess', sealing', copy') /\ ReturnersTold(returner, copy')
      BY <1>p, <2>1, <2>2, ReconcileToKeeps
    <2>4. ReturnersTold(returner', copy')
      BY <1>r, <2>1, <2>3, ReturnerSteps
    <2> QED
      BY <2>3, <2>4 DEF ReturnInv
  <1> QED
    BY <1>1, <1>2, <1>3, <1>4

\* The first transaction of a bind: a destination is recorded before there
\* is an export, and kept.
LEMMA ReturnBinds ==
    ASSUME Custody(copy), ReturnInv, NEW l \in Locals, ReturnBind(l)
    PROVE  UNCHANGED copy /\ ReturnInv'
  <1>0. /\ ReturnSessionsTold(rsess, sealing, copy) /\ ReturnersTold(returner, copy)
        /\ rsess \in [Returns -> RSessions] /\ copy[Cloud] \in Copies
    BY ReturnPlaces DEF ReturnInv, ReturnSessionsTold, Custody
  <1>r. PICK r \in Returns : r = returner[l].rec
    BY <1>0 DEF ReturnBind, Acting, At, ReturnersTold
  <1> DEFINE s == [rsess[r] EXCEPT !.st = StatusOf(r, rsess[r], copy[Cloud])]
             free == s.dest = Nothing /\ s.st = "awaiting" /\ s.live
             ours == free \/ (s.dest = l /\ s.st \notin {"cancelled", "expired"})
             goes == SlotFree(l) /\ ours /\ sealing[r] = "no"
             x == IF SlotFree(l) /\ free THEN [s EXCEPT !.dest = l] ELSE s
  <1>1. /\ rsess' = [rsess EXCEPT ![r] = x] /\ UNCHANGED copy
        /\ sealing' = IF goes THEN [sealing EXCEPT ![r] = "bound"] ELSE sealing
        /\ Again(l) \/ Pend(l)
    BY <1>r DEF ReturnBind, Ses
  <1>2. /\ s \in RSessions /\ s.dest = rsess[r].dest
        /\ (s.dest # Nothing => s.st # "none")
        /\ s.st = "awaiting" => copy[Cloud].exp[r].st = "none"
    <2>1. s \in RSessions /\ s.dest = rsess[r].dest /\ s.st = StatusOf(r, rsess[r], copy[Cloud])
      BY <1>0, StatusType DEF RSessions
    <2>2. /\ rsess[r].st # "none" => StatusOf(r, rsess[r], copy[Cloud]) # "none"
          /\ StatusOf(r, rsess[r], copy[Cloud]) = "awaiting" => copy[Cloud].exp[r].st = "none"
      BY <1>0, StatusType
    <2>3. rsess[r].dest # Nothing => rsess[r].st # "none"
      BY <1>0 DEF ReturnSessionsTold
    <2> QED
      BY <2>1, <2>2, <2>3
  <1> HIDE DEF s
  <1>3. /\ x \in RSessions /\ (x.dest # Nothing => x.st # "none")
        /\ \/ x.dest = rsess[r].dest
           \/ x.dest # Nothing /\ copy[Cloud].exp[r].st = "none"
        /\ goes => x.dest # Nothing
    <2>1. CASE SlotFree(l) /\ free
      BY <1>2, <2>1, ReturnPlaces DEF RSessions
    <2>2. CASE ~(SlotFree(l) /\ free)
      BY <1>2, <2>2, ReturnPlaces
    <2> QED
      BY <2>1, <2>2
  <1> HIDE DEF x
  <1>4. ReturnSessionsTold(rsess', sealing, copy)
    BY <1>0, <1>1, <1>3, SessionKept
  <1>5. ReturnSessionsTold(rsess', sealing', copy)
    <2>1. CASE goes
      <3>1. rsess'[r].dest # Nothing /\ sealing' = [sealing EXCEPT ![r] = "bound"]
        BY <1>0, <1>1, <1>3, <2>1
      <3> QED
        BY <1>4, <3>1, SealingKept
    <2>2. CASE ~goes
      BY <1>1, <1>4, <2>2
    <2> QED
      BY <2>1, <2>2
  <1>6. ReturnersTold(returner', copy)
    BY <1>0, <1>1, <1>r, ReturnerSteps
  <1> QED
    BY <1>1, <1>5, <1>6 DEF ReturnInv

\* The command's steps on its own placement.
LEMMA ReturnerHere ==
    ASSUME Custody(copy), ReturnInv, NEW l \in Locals,
           \/ \E r \in Returns : ReturnStart(l, r)
           \/ ReturnResume(l) \/ Download(l) \/ ImportReturning(l) \/ DiscardBundle(l)
           \/ FilesPhase(l) \/ ActivateHere(l) \/ RetireHere(l) \/ FinishReturn(l)
           \/ ReturnerStops(l)
    PROVE  Custody(copy') /\ Follows(copy, copy') /\ ReturnInv'
  <1>0. /\ ReturnSessionsTold(rsess, sealing, copy) /\ ReturnersTold(returner, copy)
        /\ copy \in [Places -> Copies]
        /\ returner \in [Locals -> Returners] /\ returner[l] \in Returners
        /\ returner[l].held \subseteq Bundles /\ \A b \in returner[l].held : Carried(copy, b)
    BY DEF ReturnInv, ReturnSessionsTold, ReturnersTold, Returners, Custody
  <1>p. Cloud \in Places /\ l \in Places /\ Returns \subseteq Transfers
    BY ReturnPlaces
  <1>u. UNCHANGED <<rsess, sealing>>
    BY DEF ReturnStart, ReturnResume, Download, ImportReturning, DiscardBundle, FilesPhase,
           ActivateHere, RetireHere, FinishReturn, ReturnerStops, LocalStep, LocalOnly
  \* What the copies keep, the sessions and the other commands keep.
  <1>f. ASSUME Custody(copy'), Follows(copy, copy'),
               ReturnersTold(returner, copy') => ReturnersTold(returner', copy')
        PROVE  Custody(copy') /\ Follows(copy, copy') /\ ReturnInv'
    BY <1>0, <1>f, <1>u, ReturnFrame, FollowsReturns DEF ReturnInv
  <1>q. ASSUME UNCHANGED copy, ReturnersTold(returner', copy)
        PROVE  Custody(copy') /\ Follows(copy, copy') /\ ReturnInv'
    BY <1>f, <1>q, FollowsRefl
  <1>a. ASSUME returner[l].pc # "idle" PROVE returner[l].rec \in Returns
    BY <1>0, <1>a DEF ReturnersTold
  <1>1. ASSUME NEW r \in Returns, ReturnStart(l, r)
        PROVE  Custody(copy') /\ Follows(copy, copy') /\ ReturnInv'
    <2> DEFINE y == [NoReturner EXCEPT !.rec = r, !.pc = "drive"]
    <2>1. returner' = [returner EXCEPT ![l] = y] /\ UNCHANGED copy
      BY <1>1 DEF ReturnStart, LocalStep
    <2>2. y \in Returners /\ y.rec = r /\ y.held = {}
      BY DEF NoReturner, Returners, ReturnStatuses
    <2> HIDE DEF y
    <2>3. ReturnersTold(returner', copy)
      BY <1>0, <2>1, <2>2, ReturnerKept
    <2> QED
      BY <1>q, <2>1, <2>3
  <1>2. CASE ReturnResume(l)
    <2>1. returner[l].rec \in Returns /\ Again(l) /\ UNCHANGED copy
      BY <1>0, <1>2 DEF ReturnResume, LocalStep, Ses, Returners
    <2> QED
      BY <1>0, <1>q, <2>1, ReturnerSteps
  <1>3. CASE ReturnerStops(l)
    <2>1. Pend(l) /\ UNCHANGED copy
      BY <1>3 DEF ReturnerStops, LocalStep
    <2> QED
      BY <1>0, <1>q, <2>1, ReturnerSteps
  <1>4. CASE FinishReturn(l)
    <2>1. PICK o \in {"active", "elsewhere"} \cup ReturnStatuses : EndAt(l, o)
      BY <1>0, <1>4 DEF FinishReturn, Acting, At, Returners, ReturnStatuses, DeadReturn
    <2>2. UNCHANGED copy
      BY <1>4 DEF FinishReturn, LocalStep
    <2> QED
      BY <1>0, <1>q, <2>1, <2>2, ReturnerSteps
  <1>5. CASE Download(l)
    <2>1. PICK r \in Returns : r = returner[l].rec
      BY <1>5, <1>a DEF Download, Acting, At
    <2>2. CASE Pend(l)
      <3>1. UNCHANGED copy
        BY <1>5 DEF Download, LocalStep
      <3> QED
        BY <1>0, <1>q, <2>2, <3>1, ReturnerSteps
    <2>3. CASE ~Pend(l)
      <3> DEFINE b == Bundle(copy[Cloud], r)
                 y == [returner[l] EXCEPT !.held = {b}]
      <3>1. /\ ExportOK(copy[Cloud], r) /\ returner' = [returner EXCEPT ![l] = y] /\ UNCHANGED copy
        BY <1>0, <1>5, <2>1, <2>3 DEF Download, LocalStep, Ses
      <3>2. b \in Bundles /\ Carried(copy, b)
        BY <1>p, <3>1, BundleCarried
      <3> HIDE DEF b
      <3>3. y \in Returners /\ y.rec = r /\ y.held = {b}
        BY <1>0, <2>1, <3>2 DEF Returners
      <3> HIDE DEF y
      <3>4. ReturnersTold(returner', copy)
        BY <1>0, <3>1, <3>2, <3>3, ReturnerKept
      <3> QED
        BY <1>q, <3>1, <3>4
    <2> QED
      BY <2>2, <2>3
  <1>6. CASE DiscardBundle(l)
    <2> DEFINE y == [returner[l] EXCEPT !.held = {}, !.pc = "drive", !.view = "none"]
    <2>1. /\ returner' = [returner EXCEPT ![l] = y] /\ UNCHANGED copy
          /\ returner[l].rec \in Returns
      BY <1>0, <1>6, <1>a DEF DiscardBundle, LocalStep, Acting, At
    <2>2. y \in Returners /\ y.rec = returner[l].rec /\ y.held = {}
      BY <1>0 DEF Returners, ReturnStatuses
    <2> HIDE DEF y
    <2>3. ReturnersTold(returner', copy)
      BY <1>0, <2>1, <2>2, ReturnerKept
    <2> QED
      BY <1>q, <2>1, <2>3
  \* The same command with its files flag moved.
  <1>w. ASSUME NEW f \in BOOLEAN, returner[l].rec \in Returns,
               returner' = [returner EXCEPT ![l].files = f], NEW cp, ReturnersTold(returner, cp)
        PROVE  ReturnersTold(returner', cp)
    <2> DEFINE y == [returner[l] EXCEPT !.files = f]
    <2>1. returner' = [returner EXCEPT ![l] = y]
      BY <1>0, <1>w
    <2>2. y \in Returners /\ y.rec = returner[l].rec /\ y.held = returner[l].held
      BY <1>0 DEF Returners
    <2>3. \A b \in y.held : Carried(cp, b)
      BY <1>w, <2>2 DEF ReturnersTold
    <2> HIDE DEF y
    <2> QED
      BY <1>w, <2>1, <2>2, <2>3, ReturnerKept
  <1>7. CASE FilesPhase(l)
    <2>1. /\ UNCHANGED copy /\ returner[l].rec \in Returns
          /\ Pend(l) \/ returner' = [returner EXCEPT ![l].files = TRUE]
      BY <1>7, <1>a DEF FilesPhase, Acting, At
    <2> QED
      BY <1>0, <1>q, <1>w, <2>1, ReturnerSteps
  <1>8. CASE ImportReturning(l)
    <2> DEFINE over == IF copy[l].auth = "transferred" THEN copy[l].hold ELSE Nothing
    <2>1. PICK b \in returner[l].held :
            IF SlotFree(l) /\ ImportOK(copy[l], l, b, over)
            THEN copy' = [copy EXCEPT ![l] = ImportedCopy(@, b, over)] /\ Again(l)
            ELSE UNCHANGED copy /\ Pend(l)
      BY <1>8 DEF ImportReturning, At
    <2>2. over \in Transfers \cup {Nothing} /\ returner[l].rec \in Returns
      <3>1. copy[l].hold \in Transfers \cup {Nothing}
        BY <1>0, <1>p, CopyType
      <3> QED
        BY <1>8, <1>a, <3>1 DEF ImportReturning, Acting, At
    <2> HIDE DEF over
    <2>3. CASE SlotFree(l) /\ ImportOK(copy[l], l, b, over)
      <3>1. copy' = [copy EXCEPT ![l] = ImportedCopy(copy[l], b, over)] /\ Again(l)
        BY <2>1, <2>3
      <3>2. b \in Bundles /\ Carried(copy, b)
        BY <1>0
      <3>3. Custody(copy') /\ Follows(copy, copy')
        BY <1>p, <2>2, <2>3, <3>1, <3>2, ImportKeeps
      <3> QED
        BY <1>f, <2>2, <3>1, <3>3, ReturnerSteps
    <2>4. CASE ~(SlotFree(l) /\ ImportOK(copy[l], l, b, over))
      <3>1. UNCHANGED copy /\ Pend(l)
        BY <2>1, <2>4
      <3> QED
        BY <1>0, <1>q, <3>1, ReturnerSteps
    <2> QED
      BY <2>3, <2>4
  <1>9. CASE ActivateHere(l)
    <2>1. PICK r \in Returns : r = returner[l].rec
      BY <1>9, <1>a DEF ActivateHere, Acting, At
    <2>2. CASE ActivateOK(copy[l], r)
      <3>1. copy' = [copy EXCEPT ![l] = ActivatedCopy(copy[l], r)] /\ UNCHANGED returner
        BY <1>9, <2>1, <2>2 DEF ActivateHere, Ses
      <3>2. Custody(copy') /\ Follows(copy, copy')
        BY <1>p, <2>2, <3>1, ActivationKeeps
      <3> QED
        BY <1>f, <3>1, <3>2
    <2>3. CASE ~ActivateOK(copy[l], r)
      <3>1. UNCHANGED copy /\ Pend(l)
        BY <1>9, <2>1, <2>3 DEF ActivateHere, Ses
      <3> QED
        BY <1>0, <1>q, <3>1, ReturnerSteps
    <2> QED
      BY <2>2, <2>3
  <1>10. CASE RetireHere(l)
    <2>1. PICK r \in Returns : r = returner[l].rec
      BY <1>10, <1>a DEF RetireHere, Acting, At
    <2>2. CASE RetireOK(copy[l], r, TRUE)
      <3>1. /\ copy' = [copy EXCEPT ![l] = RetiredCopy(copy[l], r)]
            /\ returner' = [returner EXCEPT ![l].files = FALSE]
        BY <1>10, <2>1, <2>2 DEF RetireHere, Ses
      <3>2. Custody(copy') /\ Follows(copy, copy')
        BY <1>p, <2>2, <3>1, RetirementKeeps
      <3> QED
        BY <1>f, <1>w, <2>1, <3>1, <3>2
    <2>3. CASE ~RetireOK(copy[l], r, TRUE)
      <3>1. UNCHANGED copy /\ Pend(l)
        BY <1>10, <2>1, <2>3 DEF RetireHere, Ses
      <3> QED
        BY <1>0, <1>q, <3>1, ReturnerSteps
    <2> QED
      BY <2>2, <2>3
  <1> QED
    BY <1>1, <1>2, <1>3, <1>4, <1>5, <1>6, <1>7, <1>8, <1>9, <1>10

\* Every step of a return.
LEMMA ReturnSteps ==
    ASSUME Custody(copy), ReturnInv, ReturnNext \/ TerminalAttach \/ TerminalDetach
    PROVE  /\ Custody(copy') /\ ReturnInv'
           /\ KeepsBundles(copy, copy') /\ KeepsActivated(copy, copy')
  <1>f. ASSUME Follows(copy, copy') PROVE KeepsBundles(copy, copy') /\ KeepsActivated(copy, copy')
    BY <1>f, FollowsReturns
  <1>1. CASE \/ \E r \in Returns :
                  \/ (\E mode \in {"local", "cloud"} : CreateReturn(r, mode))
                  \/ ReturnDeadline(r) \/ SweepStrandedFences(r) \/ SealBegin(r)
                  \/ (\E reached \in BOOLEAN : SealRefused(r, reached) \/ Converge(r, reached))
             \/ RevokeTokens \/ CloudCrash \/ TerminalAttach \/ TerminalDetach
    BY <1>1, <1>f, QuietReturns, FollowsRefl
  <1>2. CASE \E r \in Returns : SealCommit(r)
    BY <1>2, ReturnSeals
  <1>3. CASE \E r \in Returns : CancelByOwner(r) \/ ReturnSweep(r)
    BY <1>3, <1>f, CloudReturns
  <1>4. CASE \E l \in Locals : ReturnFetch(l) \/ ReportActivated(l) \/ ReportRetired(l) \/ ReturnCancel(l)
    BY <1>4, <1>f, ReturnerAsks
  <1>5. CASE \E l \in Locals : ReturnBind(l)
    BY <1>5, <1>f, ReturnBinds, FollowsRefl
  <1>6. CASE \E l \in Locals :
                \/ \E r \in Returns : ReturnStart(l, r)
                \/ ReturnResume(l) \/ Download(l) \/ ImportReturning(l) \/ DiscardBundle(l)
                \/ FilesPhase(l) \/ ActivateHere(l) \/ RetireHere(l) \/ FinishReturn(l)
                \/ ReturnerStops(l)
    BY <1>6, <1>f, ReturnerHere
  <1> QED
    BY <1>1, <1>2, <1>3, <1>4, <1>5, <1>6
       DEF ReturnNext, CloudReturnNext, ReturnerNext, ReturnerStep

-----------------------------------------------------------------------------
(* The composition *)

\* What the secretary does at the placement that runs it.
LEMMA LifeSteps ==
    ASSUME Custody(copy), NEW p \in Places, Live(p) \/ Work(p) \/ Ask(p)
    PROVE  Custody(copy') /\ Follows(copy, copy')
  <1>0. copy \in [Places -> Copies] /\ copy[p] \in Copies
    BY DEF Custody
  <1>n. copy[p].lived \in Nat /\ copy[p].epoch \in Nat
    BY <1>0, CopyType
  <1>1. CASE Live(p)
    <2>1. PICK e \in Nat, n \in Nat : e = copy[p].epoch + 1 /\ n = copy[p].lived + 1
      BY <1>n
    <2> DEFINE x == [copy[p] EXCEPT !.epoch = e, !.lived = n]
    <2>2. copy' = [copy EXCEPT ![p] = x] /\ copy[p].auth = "active"
      BY <1>0, <1>1, <2>1 DEF Live
    <2>3. /\ x \in Copies /\ x.auth = copy[p].auth /\ x.hold = copy[p].hold
          /\ x.exp = copy[p].exp /\ x.imp = copy[p].imp /\ x.lived = n /\ x.epoch = e
      BY <1>0 DEF Copies
    <2> HIDE DEF x
    <2>4. x.lived >= copy[p].lived /\ x.epoch >= copy[p].epoch
      BY <1>n, <2>1, <2>3
    <2> QED
      BY <2>2, <2>3, <2>4, LifeKeeps
  <1>2. CASE Work(p)
    <2> DEFINE x == [copy[p] EXCEPT !.busy = ~@]
    <2>1. copy' = [copy EXCEPT ![p] = x]
      BY <1>0, <1>2 DEF Work
    <2>2. /\ x \in Copies /\ x.auth = copy[p].auth /\ x.hold = copy[p].hold
          /\ x.exp = copy[p].exp /\ x.imp = copy[p].imp
          /\ x.lived = copy[p].lived /\ x.epoch = copy[p].epoch
      BY <1>0 DEF Copies
    <2> HIDE DEF x
    <2> QED
      BY <2>1, <2>2, LifeKeeps
  <1>3. CASE Ask(p)
    <2>1. PICK a \in Approvals : copy' = [copy EXCEPT ![p].appr = a]
      <3>1. \A v : (CASE v = "none" -> "pending" [] v = "pending" -> "approved"
                      [] OTHER -> "none") \in Approvals
        BY DEF Approvals
      <3> QED
        BY <1>3, <3>1 DEF Ask
    <2> DEFINE x == [copy[p] EXCEPT !.appr = a]
    <2>2. copy' = [copy EXCEPT ![p] = x]
      BY <1>0, <2>1
    <2>3. /\ x \in Copies /\ x.auth = copy[p].auth /\ x.hold = copy[p].hold
          /\ x.exp = copy[p].exp /\ x.imp = copy[p].imp
          /\ x.lived = copy[p].lived /\ x.epoch = copy[p].epoch
      BY <1>0 DEF Copies
    <2> HIDE DEF x
    <2> QED
      BY <2>2, <2>3, LifeKeeps
  <1> QED
    BY <1>1, <1>2, <1>3

\* A secretary that lives at one placement and was never anywhere else.
NoTransfers(cp) ==
    \A p \in Places, t \in Transfers : cp[p].exp[t].st = "none" /\ cp[p].imp[t].st = "none"

LEMMA BornCustody ==
    ASSUME NEW h \in Places, NEW u \in BOOLEAN,
           NEW cp, cp = [p \in Places |-> IF p = h THEN ActiveCopy(u) ELSE AbsentCopy]
    PROVE  Custody(cp) /\ NoTransfers(cp)
  <1>e. /\ [t \in Transfers |-> NoExport] \in [Transfers -> [st : ExportStatuses, dest : Places \cup {Nothing}]]
        /\ [t \in Transfers |-> NoImport] \in
              [Transfers -> [st : ImportStatuses, content : BOOLEAN, over : Transfers \cup {Nothing}]]
        /\ \A t \in Transfers : /\ [v \in Transfers |-> NoExport][t].st = "none"
                                /\ [v \in Transfers |-> NoImport][t].st = "none"
    BY DEF NoExport, NoImport, ExportStatuses, ImportStatuses
  <1>1. /\ AbsentCopy \in Copies /\ AbsentCopy.auth = "absent" /\ AbsentCopy.hold = Nothing
        /\ AbsentCopy.lived = 0 /\ AbsentCopy.epoch = 0
        /\ AbsentCopy.exp = [t \in Transfers |-> NoExport]
        /\ AbsentCopy.imp = [t \in Transfers |-> NoImport]
    BY <1>e DEF AbsentCopy, Copies, Authorities, Approvals
  <1>2. /\ ActiveCopy(u) \in Copies /\ ActiveCopy(u).auth = "active"
        /\ ActiveCopy(u).lived = 1 /\ ActiveCopy(u).epoch = 1
        /\ ActiveCopy(u).exp = AbsentCopy.exp /\ ActiveCopy(u).imp = AbsentCopy.imp
    BY <1>1 DEF ActiveCopy, Copies, Authorities
  <1>3. /\ cp \in [Places -> Copies] /\ cp[h] = ActiveCopy(u)
        /\ \A p \in Places : p # h => cp[p] = AbsentCopy
    BY <1>1, <1>2
  <1>4. \A p \in Places, t \in Transfers : cp[p].exp[t].st = "none" /\ cp[p].imp[t].st = "none"
    BY <1>1, <1>2, <1>3, <1>e
  <1>5. ExportsAtSource(cp) /\ ImportsExported(cp) /\ StagedIsCut(cp) /\ Decided(cp)
    BY <1>4 DEF ExportsAtSource, ImportsExported, StagedIsCut, Decided
  <1>6. RowFollowsLedgers(cp)
    BY <1>1, <1>2, <1>3, <1>4 DEF RowFollowsLedgers
  <1>7. \A p \in Places : Custodian(cp, p) => p = h
    BY <1>1, <1>3, <1>4 DEF Custodian
  <1>8. OneCustodian(cp) /\ CustodianNewest(cp)
    BY <1>1, <1>2, <1>3, <1>7 DEF OneCustodian, CustodianNewest
  <1> QED
    BY <1>3, <1>4, <1>5, <1>6, <1>8 DEF Custody, NoTransfers

\* A secretary that has completed its first move: the transfer's operations
\* from the placement it was born at.
LEMMA SurrenderedCustody ==
    ASSUME Moves # {}, NEW cp, cp = Begins("surrendered")
    PROVE  /\ Custody(cp) /\ FirstMove \in Moves /\ Activated(cp[Cloud], FirstMove)
           /\ \A r \in Returns : cp[Cloud].exp[r].st = "none"
  <1>m. FirstMove \in Moves
    BY DEF FirstMove
  <1>p. /\ FirstMove \in Transfers /\ Home \in Places /\ Cloud \in Places /\ Home # Cloud
        /\ Nothing \in Transfers \cup {Nothing}
    BY <1>m, MoveAssumption, PortableAssumption, MovesAssumption
  <1> DEFINE m == FirstMove
             c0 == [p \in Places |-> IF p = Home THEN ActiveCopy(FALSE) ELSE AbsentCopy]
             sealed == SealedCopy(ActiveCopy(FALSE), m, Cloud)
             c1 == [c0 EXCEPT ![Home] = sealed]
             b == Bundle(sealed, m)
             came == StagedCopy(AbsentCopy, b, Nothing)
             c2 == [c1 EXCEPT ![Cloud] = came]
             runs == ActivatedCopy(came, m)
             c3 == [c2 EXCEPT ![Cloud] = runs]
             owned == [runs EXCEPT !.human = TRUE]
             c4 == [c3 EXCEPT ![Cloud] = owned]
             left == CompletedCopy(sealed, m)
             c5 == [c4 EXCEPT ![Home] = left]
  <1>0. /\ Custody(c0) /\ c0 \in [Places -> Copies] /\ c0[Home] = ActiveCopy(FALSE) /\ c0[Cloud] = AbsentCopy
        /\ \A p \in Places, t \in Transfers : c0[p].exp[t].st = "none" /\ c0[p].imp[t].st = "none"
    <2>1. Custody(c0) /\ NoTransfers(c0)
      BY <1>p, BornCustody
    <2> QED
      BY <1>p, <2>1 DEF Custody, NoTransfers
  <1>a. ActiveCopy(FALSE).auth = "active" /\ AbsentCopy.auth = "absent"
    BY DEF ActiveCopy, AbsentCopy
  <1>1. /\ Custody(c1) /\ KeepsReturns(c0, c1)
        /\ c1 \in [Places -> Copies] /\ c1[Home] = sealed /\ c1[Cloud] = AbsentCopy
    <2>1. Custody(c1) /\ KeepsReturns(c0, c1)
      BY <1>0, <1>a, <1>m, <1>p, SealHomeKeeps
    <2> QED
      BY <1>0, <1>p, <2>1 DEF Custody
  <1>b. /\ b \in Bundles /\ b.t = m /\ Carried(c1, b) /\ b.dest = Cloud
        /\ sealed.exp[m].st = "sealed"
    <2>1. /\ sealed.auth = "sealed" /\ sealed.hold = m /\ sealed.exp[m].st = "sealed"
          /\ sealed.exp[m].dest = Cloud
      <3>1. ActiveCopy(FALSE) \in Copies /\ ActiveCopy(FALSE).exp[m].st = "none"
        BY <1>0, <1>p
      <3>2. PICK x : x = sealed
        OBVIOUS
      <3>3. PICK a \in Copies, t \in Transfers, d \in Places :
               a = ActiveCopy(FALSE) /\ t = m /\ d = Cloud
        BY <1>p, <3>1
      <3>4. a.exp[t].st = "none" /\ x = SealedCopy(a, t, d)
        BY <3>1, <3>2, <3>3
      <3>5. x.auth = "sealed" /\ x.hold = t
        BY <3>4, SealFields
      <3>6. x.exp[t].st = "sealed" /\ x.exp[t].dest = d
        BY <3>4, SealFields
      <3> HIDE DEF sealed
      <3> QED
        BY <3>2, <3>3, <3>5, <3>6
    <2> HIDE DEF sealed, c1
    <2>2. ExportOK(c1[Home], m)
      BY <1>1, <2>1 DEF ExportOK, HeldBy
    <2>3. b \in Bundles /\ b.t = m /\ Carried(c1, b)
      BY <1>1, <1>p, <2>2, BundleCarried
    <2> QED
      BY <2>1, <2>3 DEF Bundle
  <1>2. /\ Custody(c2) /\ Follows(c1, c2)
        /\ c2 \in [Places -> Copies] /\ c2[Home] = sealed /\ c2[Cloud] = came
    <2>1. c1[Cloud].imp[m].st = "none"
      BY <1>0, <1>1, <1>p
    <2> HIDE DEF b, c1
    <2>2. Custody(c2) /\ Follows(c1, c2)
      BY <1>1, <1>a, <1>b, <1>p, <2>1, StageKeeps
    <2> QED
      BY <1>1, <1>p, <2>2 DEF Custody
  <1>3. /\ Custody(c3) /\ Follows(c2, c3) /\ Activated(c3[Cloud], m)
        /\ c3 \in [Places -> Copies] /\ c3[Home] = sealed /\ c3[Cloud] = runs
    <2>1. c2[Cloud].imp[m].st = "staged"
      <3>1. AbsentCopy \in Copies
        BY <1>0, <1>p
      <3>2. PICK x : x = came
        OBVIOUS
      <3> HIDE DEF b
      <3>3. x.imp[m].st = "staged"
        BY <1>b, <1>p, <3>1, <3>2, StageFields
      <3> HIDE DEF came, c2
      <3> QED
        BY <1>2, <3>2, <3>3
    <2> HIDE DEF c2
    <2>2. Custody(c3) /\ Follows(c2, c3) /\ Activated(c3[Cloud], m)
      BY <1>2, <1>p, <2>1, ActivateKeeps
    <2> QED
      BY <1>2, <1>p, <2>2 DEF Custody
  <1>4. /\ Custody(c4) /\ Follows(c3, c4)
        /\ c4 \in [Places -> Copies] /\ c4[Home] = sealed /\ c4[Cloud] = owned
    <2>1. runs \in Copies
      BY <1>3, <1>p
    <2> HIDE DEF runs, c3
    <2>2. /\ owned \in Copies /\ owned.auth = runs.auth /\ owned.hold = runs.hold
          /\ owned.exp = runs.exp /\ owned.imp = runs.imp
          /\ owned.lived = runs.lived /\ owned.epoch = runs.epoch
      BY <2>1 DEF Copies
    <2> HIDE DEF owned
    <2>3. Custody(c4) /\ Follows(c3, c4)
      BY <1>3, <1>p, <2>2, LifeKeeps
    <2> QED
      BY <1>3, <1>p, <2>2, <2>3
  <1>5. Custody(c5) /\ Follows(c4, c5) /\ c5[Cloud] = owned
    <2>1. Activated(c4[Cloud], m)
      BY <1>3, <1>4, <1>p DEF Follows, KeepsActivated
    <2> HIDE DEF c4, sealed, owned
    <2>2. c4[Home].auth = "sealed" /\ c4[Home].hold = m
      BY <1>4, <1>b, <1>p DEF Custody, RowFollowsLedgers
    <2>3. CompleteOK(c4[Home], m, c4[Cloud])
      BY <1>4, <1>b, <2>1, <2>2 DEF CompleteOK, HeldBy
    <2>4. Custody(c5) /\ Follows(c4, c5)
      BY <1>4, <1>p, <2>3, CompleteKeeps
    <2> QED
      BY <1>4, <1>p, <2>4
  <1>6. cp = c5
    <2>1. cp = [p \in Places |-> CASE p = Home -> left [] p = Cloud -> owned [] OTHER -> AbsentCopy]
      BY DEF Begins
    <2> HIDE DEF left, owned, runs, came, sealed
    <2> QED
      BY <1>p, <2>1
  <1>7. Activated(c5[Cloud], m)
    BY <1>3, <1>4, <1>5, <1>p DEF Follows, KeepsActivated
  <1>8. \A r \in Returns : c5[Cloud].exp[r].st = "none"
    <2> HIDE DEF c0, c1, c2, c3, c4, c5
    <2>1. KeepsReturns(c1, c2) /\ KeepsReturns(c2, c3) /\ KeepsReturns(c3, c4) /\ KeepsReturns(c4, c5)
      BY <1>2, <1>3, <1>4, <1>5, FollowsReturns
    <2> QED
      BY <1>0, <1>1, <1>p, <2>1, ReturnPlaces DEF KeepsReturns
  <1> QED
    BY <1>5, <1>6, <1>7, <1>8, <1>m

\* The inductive invariant of the composition.
MovesCustody == Custody(copy) /\ MoveInv /\ ReturnInv

LEMMA MovesBegin == MovesInit => MovesCustody
  <1> SUFFICES ASSUME MovesInit PROVE MovesCustody
    OBVIOUS
  <1>p. Home \in Places /\ Cloud \in Places /\ Moves \subseteq Transfers
    BY MoveAssumption, PortableAssumption
  <1>h. PICK how : how = scene.begins
    OBVIOUS
  <1>i. /\ copy = Begins(how) /\ upload = {}
        /\ how \in {"local", "cloud"} \/ (how = "surrendered" /\ Moves # {})
        /\ msess = [m \in Moves |-> IF how = "surrendered" /\ m = FirstMove
                                    THEN [NoSession EXCEPT !.st = "activated", !.src = Home]
                                    ELSE NoSession]
        /\ mover = IF how = "surrendered"
                   THEN [NoMove EXCEPT !.rec = FirstMove, !.bound = TRUE, !.outcome = "completed"]
                   ELSE NoMove
    BY <1>h, MovesAssumption DEF MovesInit
  <1>c. /\ Custody(copy) /\ \A r \in Returns : copy[Cloud].exp[r].st = "none"
        /\ how = "surrendered" => FirstMove \in Moves /\ Activated(copy[Cloud], FirstMove)
    <2>1. CASE how = "local"
      <3>1. copy = [p \in Places |-> IF p = Home THEN ActiveCopy(FALSE) ELSE AbsentCopy]
        BY <1>i, <2>1 DEF Begins
      <3>2. Custody(copy) /\ NoTransfers(copy)
        BY <1>p, <3>1, BornCustody
      <3> QED
        BY <2>1, <3>2, ReturnPlaces DEF NoTransfers
    <2>2. CASE how = "cloud"
      <3>1. copy = [p \in Places |-> IF p = Cloud THEN ActiveCopy(TRUE) ELSE AbsentCopy]
        BY <1>i, <2>2 DEF Begins
      <3>2. Custody(copy) /\ NoTransfers(copy)
        BY <1>p, <3>1, BornCustody
      <3> QED
        BY <2>2, <3>2, ReturnPlaces DEF NoTransfers
    <2>3. CASE how = "surrendered" /\ Moves # {}
      BY <1>i, <2>3, SurrenderedCustody
    <2> QED
      BY <1>i, <2>1, <2>2, <2>3
  <1>1. MoveInv
    <2>1. msess \in [Moves -> MoveSessions]
      <3>1. /\ NoSession \in MoveSessions
            /\ [NoSession EXCEPT !.st = "activated", !.src = Home] \in MoveSessions
        BY DEF NoSession, MoveSessions, MoveStatuses
      <3> QED
        BY <1>i, <3>1
    <2>2. \A m \in Moves : msess[m].st = "activated" => how = "surrendered" /\ m = FirstMove
      BY <1>i DEF NoSession
    <2>3. MoverTold(mover)
      <3>1. NoMove \in Movers /\ NoMove.pc = "idle"
        BY DEF NoMove, Movers, NoView, MoveViews, MoveStatuses
      <3> QED
        BY <1>c, <1>i, <3>1 DEF MoverTold, Movers
    <2> QED
      BY <1>c, <1>i, <2>1, <2>2, <2>3 DEF MoveInv, MoveSessionsTold, UploadsTold
  <1>2. ReturnInv
    <2>0. /\ rsess = [r \in Returns |-> NoReturn] /\ sealing = [r \in Returns |-> "no"]
          /\ returner = [l \in Locals |-> NoReturner]
      BY DEF MovesInit, ReturnInit
    <2>1. NoReturn \in RSessions /\ NoReturn.st = "none" /\ NoReturn.dest = Nothing
      BY DEF NoReturn, RSessions, ReturnStatuses
    <2>2. /\ NoReturner \in Returners /\ NoReturner.pc = "idle" /\ NoReturner.held = {}
      BY DEF NoReturner, Returners, ReturnStatuses
    <2>3. IsFiniteSet({q \in Returns : rsess[q].st # "none"})
      <3>1. {q \in Returns : rsess[q].st # "none"} = {}
        BY <2>0, <2>1
      <3> QED
        BY <3>1, FS_EmptySet
    <2>4. ReturnSessionsTold(rsess, sealing, copy)
      BY <1>c, <2>0, <2>1, <2>3 DEF ReturnSessionsTold
    <2>5. ReturnersTold(returner, copy)
      BY <2>0, <2>2 DEF ReturnersTold
    <2> QED
      BY <2>4, <2>5 DEF ReturnInv
  <1> QED
    BY <1>c, <1>1, <1>2 DEF MovesCustody

LEMMA MovesStep == MovesCustody /\ [MovesNext]_movesVars => MovesCustody'
  <1> SUFFICES ASSUME MovesCustody, [MovesNext]_movesVars PROVE MovesCustody'
    OBVIOUS
  <1>0. Custody(copy) /\ MoveInv /\ ReturnInv
    BY DEF MovesCustody
  <1>m. ASSUME UNCHANGED moveVars, KeepsBundles(copy, copy'), KeepsActivated(copy, copy')
        PROVE  MoveInv'
    BY <1>0, <1>m, MoveFrame DEF MoveInv, moveVars
  <1>r. ASSUME UNCHANGED returnVars, KeepsBundles(copy, copy'), KeepsReturns(copy, copy')
        PROVE  ReturnInv'
    BY <1>0, <1>r, ReturnFrame DEF ReturnInv, returnVars
  <1>1. CASE LifeNext
    <2>1. CASE \E p \in Places : (Live(p) \/ Work(p) \/ Ask(p)) /\ UNCHANGED <<moveVars, returnVars>>
      <3>1. Custody(copy') /\ Follows(copy, copy')
        BY <1>0, <2>1, LifeSteps
      <3> QED
        BY <1>m, <1>r, <2>1, <3>1, FollowsReturns DEF MovesCustody
    <2>2. CASE (TerminalAttach \/ TerminalDetach) /\ UNCHANGED moveVars
      BY <1>0, <1>m, <2>2, ReturnSteps DEF MovesCustody
    <2> QED
      BY <1>1, <2>1, <2>2 DEF LifeNext
  <1>2. CASE MoveNext /\ UNCHANGED returnVars
    BY <1>0, <1>2, <1>r, MoveSteps DEF MovesCustody
  <1>3. CASE ReturnNext /\ UNCHANGED moveVars
    BY <1>0, <1>3, <1>m, ReturnSteps DEF MovesCustody
  <1>4. CASE UNCHANGED movesVars
    <2>1. UNCHANGED <<copy, moveVars, returnVars>>
      BY <1>4 DEF movesVars
    <2> QED
      BY <1>0, <1>m, <1>r, <2>1, FollowsRefl, FollowsReturns DEF MovesCustody
  <1> QED
    BY <1>1, <1>2, <1>3, <1>4 DEF MovesNext

LEMMA CustodyInvariant == MovesSpec => []MovesCustody
  BY MovesBegin, MovesStep, PTL DEF MovesSpec

(***************************************************************************)
(* However the mover, the two kinds of sessions, their sweeps, deadlines,  *)
(* crashes, late uploads and stale views interleave, at most one placement *)
(* may run the secretary, and it runs the newest life at the highest       *)
(* writer generation (portable Seal, Import, Activate, Complete, Abort,    *)
(* Retire).  For any number of transfers and Local installs.               *)
(***************************************************************************)
THEOREM SecretaryRunsOnce == MovesSpec => []OneNewestActive
  <1>1. ASSUME MovesCustody PROVE OneNewestActive
    <2>0. OneCustodian(copy) /\ CustodianNewest(copy)
      BY <1>1 DEF MovesCustody, Custody
    <2>1. \A p \in Places : copy[p].auth = "active" => Custodian(copy, p)
      BY DEF Custodian
    <2>2. OneActive
      <3> DEFINE A == {p \in Places : copy[p].auth = "active"}
      <3>1. CASE A = {}
        BY <3>1, FS_EmptySet DEF OneActive
      <3>2. CASE A # {}
        <4>1. PICK p \in Places : copy[p].auth = "active"
          BY <3>2
        <4>2. A = {p}
          BY <2>0, <2>1, <4>1 DEF OneCustodian
        <4>3. Cardinality(A) = 1
          BY <4>2, FS_Singleton
        <4> QED
          BY <4>3 DEF OneActive
      <3> QED
        BY <3>1, <3>2
    <2>3. ActiveIsNewest
      BY <2>0, <2>1 DEF ActiveIsNewest, CustodianNewest
    <2> QED
      BY <2>2, <2>3 DEF OneNewestActive
  <1> QED
    BY <1>1, CustodyInvariant, PTL

(***************************************************************************)
(* The export ledger of a transfer's source and the import ledger of its   *)
(* destination never decide differently: a source surrenders only what its *)
(* destination activated and takes back only what its destination retired  *)
(* (portable Complete and Abort, the Cloud's cancels, the reports of a     *)
(* Local).                                                                 *)
(***************************************************************************)
THEOREM TransfersEndAlike == MovesSpec => []LedgersAgree
  <1>1. ASSUME MovesCustody PROVE LedgersAgree
    <2>1. Decided(copy)
      BY <1>1 DEF MovesCustody, Custody
    <2> QED
      BY <2>1 DEF Decided, LedgersAgree
  <1> QED
    BY <1>1, CustodyInvariant, PTL

-----------------------------------------------------------------------------
(* The source of a return *)

\* A session that may still decide where the working store lives.
AliveReturn(s) == s.st \notin {"none"} \cup DeadReturn

\* At most one session lives; while its seal is being made the barrier is up,
\* unless the file service knows a later lineage; the Cloud's ledger has an
\* export only for the session that lives, which keeps the barrier up; and
\* a return that completed leaves the Cloud's copy surrendered for good.
ReturnStill(r, s, sl, b, tm, c) ==
    /\ sl[r] = "fenced" =>
          /\ s[r].st \in {"awaiting", "sealed"}
          /\ s[r].mode = "local" /\ FreezeOK(b, s[r].epoch) => b.up
    /\ s[r].st = "completed" => c.auth = "transferred"
    /\ c.exp[r].st = "sealed" => c.auth = "sealed" /\ s[r].st \in {"sealed", "cancelling"} /\ tm = "none"
    /\ c.exp[r].st = "completed" => c.auth = "transferred" /\ s[r].st \in {"sealed", "cancelling", "completed"}
    /\ c.exp[r].st \in {"sealed", "completed"} => s[r].dest # Nothing /\ (s[r].mode = "local" => b.up)
StillInv(s, sl, b, tm, c) ==
    /\ \A q, r \in Returns : AliveReturn(s[q]) /\ AliveReturn(s[r]) => q = r
    /\ \A r \in Returns : ReturnStill(r, s, sl, b, tm, c)
SourceInv == StillInv(rsess, sealing, barrier, term, copy[Cloud])

\* What nothing but a return's own steps change: the Cloud's exports, and a
\* copy that was surrendered.
SameExports(c, d) == d.exp = c.exp /\ (c.auth = "transferred" => d.auth = "transferred")

LEMMA SameTrans ==
    ASSUME NEW c, NEW d, NEW e, SameExports(c, d), SameExports(d, e) PROVE SameExports(c, e)
  BY DEF SameExports

LEMMA StagedRow ==
    ASSUME NEW cp, Custody(cp), NEW t \in Transfers, cp[Cloud].imp[t].st = "staged"
    PROVE  cp[Cloud].auth = "staged"
  BY PortableAssumption DEF Custody, RowFollowsLedgers

LEMMA ActivateSame ==
    ASSUME NEW c \in Copies, NEW t \in Transfers, ActivateOK(c, t), NEW x, x = ActivatedCopy(c, t)
    PROVE  SameExports(c, x)
  <1>1. CASE Activated(c, t)
    BY <1>1 DEF ActivatedCopy, SameExports
  <1>2. CASE ~Activated(c, t)
    BY <1>2, ActivateFields DEF ActivateOK, SameExports
  <1> QED
    BY <1>1, <1>2

LEMMA RetireSame ==
    ASSUME NEW c \in Copies, NEW t \in Transfers, c.imp[t].st \in {"none", "staged", "retired"},
           c.imp[t].st = "staged" => c.auth = "staged", NEW x, x = RetiredCopy(c, t)
    PROVE  SameExports(c, x)
  <1>1. CASE c.imp[t].st = "retired"
    BY <1>1 DEF RetiredCopy, Retired, SameExports
  <1>2. CASE c.imp[t].st = "none"
    BY <1>2, TombstoneFields DEF SameExports
  <1>3. CASE c.imp[t].st = "staged"
    BY <1>3, RetireFields DEF SameExports
  <1> QED
    BY <1>1, <1>2, <1>3

LEMMA ReconciledSame ==
    ASSUME NEW cp, Custody(cp), NEW m \in Moves, NEW s \in MoveSessions,
           s.st = "activated" => Activated(cp[Cloud], m),
           NEW r, r = Reconciled(m, s, cp[Cloud])
    PROVE  SameExports(cp[Cloud], r.c)
  <1>m. m \in Transfers /\ Cloud \in Places /\ cp[Cloud] \in Copies
    BY MoveAssumption, PortableAssumption DEF Custody
  <1> DEFINE f == Followed(m, s, cp[Cloud])
  <1>r. r.c = CleanedUp(m, f, cp[Cloud])
    BY DEF Reconciled
  <1>2. f.st = "activated" => Activated(cp[Cloud], m) \/ ActivateOK(cp[Cloud], m)
    BY DEF Followed, MoveSessions
  <1> HIDE DEF f
  <1>3. CASE f.st = "activated"
    <2>1. r.c = ActivatedCopy(cp[Cloud], m) /\ ActivateOK(cp[Cloud], m)
      BY <1>2, <1>3, <1>r DEF CleanedUp, ActivateOK, ClosedMove
    <2> QED
      BY <1>m, <2>1, ActivateSame
  <1>4. CASE f.st \in ClosedMove /\ cp[Cloud].imp[m].st = "staged"
    <2>1. r.c = RetiredCopy(cp[Cloud], m)
      BY <1>4, <1>r DEF CleanedUp, ClosedMove
    <2> QED
      BY <1>m, <1>4, <2>1, RetireSame, StagedRow
  <1>5. CASE f.st # "activated" /\ ~(f.st \in ClosedMove /\ cp[Cloud].imp[m].st = "staged")
    BY <1>5, <1>r DEF CleanedUp, SameExports
  <1> QED
    BY <1>3, <1>4, <1>5

LEMMA SettleSame ==
    ASSUME Custody(copy), NEW m \in Moves, NEW s \in MoveSessions,
           NEW c, NEW cp, cp = [copy EXCEPT ![Cloud] = c], Custody(cp), SameExports(copy[Cloud], c),
           s.st = "activated" => Activated(c, m), Settle(m, s, c)
    PROVE  SameExports(copy[Cloud], copy'[Cloud])
  <1>1. copy \in [Places -> Copies] /\ cp[Cloud] = c /\ Cloud \in Places
    BY PortableAssumption DEF Custody
  <1> DEFINE r == Reconciled(m, s, c)
  <1>2. copy' = [copy EXCEPT ![Cloud] = r.c]
    BY DEF Settle
  <1>3. SameExports(c, r.c)
    BY <1>1, ReconciledSame
  <1> HIDE DEF r
  <1>4. copy'[Cloud] = r.c
    BY <1>1, <1>2
  <1> QED
    BY <1>3, <1>4, SameTrans

LEMMA SettleHereSame ==
    ASSUME Custody(copy), MoveInv, NEW m \in Moves, NEW s \in MoveSessions,
           s.st = "activated" => msess[m].st = "activated", Settle(m, s, copy[Cloud])
    PROVE  SameExports(copy[Cloud], copy'[Cloud])
  <1>1. [copy EXCEPT ![Cloud] = copy[Cloud]] = copy
    BY PortableAssumption, SameCopies
  <1>2. s.st = "activated" => Activated(copy[Cloud], m)
    BY DEF MoveInv, MoveSessionsTold
  <1>3. SameExports(copy[Cloud], copy[Cloud])
    BY DEF SameExports
  <1> QED
    BY <1>1, <1>2, <1>3, SettleSame

LEMMA GrantSame ==
    ASSUME Custody(copy), NEW m \in Moves, NEW refused \in BOOLEAN, NEW c,
           c = IF refused THEN copy[Cloud] ELSE GrantCancelled(m, TRUE)
    PROVE  SameExports(copy[Cloud], c)
  <1>0. copy[Cloud] \in Copies /\ m \in Transfers
    BY PortableAssumption, MoveAssumption DEF Custody
  <1>1. CASE c = copy[Cloud]
    BY <1>1 DEF SameExports
  <1>2. CASE /\ copy[Cloud].imp[m].st = "none" \/ BareTombstone(copy[Cloud], m)
             /\ c = RetiredCopy(copy[Cloud], m)
    BY <1>0, <1>2, RetireSame DEF BareTombstone, Retired
  <1> QED
    BY <1>1, <1>2 DEF GrantCancelled

LEMMA ImportSame ==
    ASSUME Custody(copy), NEW b \in Bundles, NEW c,
           c = IF ImportOK(copy[Cloud], Cloud, b, Nothing)
               THEN ImportedCopy(copy[Cloud], b, Nothing) ELSE copy[Cloud]
    PROVE  SameExports(copy[Cloud], c)
  <1>0. copy[Cloud] \in Copies
    BY PortableAssumption DEF Custody
  <1>1. CASE c = copy[Cloud]
    BY <1>1 DEF SameExports
  <1>2. CASE /\ ImportOK(copy[Cloud], Cloud, b, Nothing) /\ ~ImportReplays(copy[Cloud], b)
             /\ c = StagedCopy(copy[Cloud], b, Nothing)
    <2>1. copy[Cloud].auth = "absent"
      BY <1>2, PortableAssumption DEF ImportOK, PrepareReclaimOK
    <2>2. c.exp = copy[Cloud].exp
      BY <1>0, <1>2, StageFields
    <2> QED
      BY <2>1, <2>2 DEF SameExports
  <1> QED
    BY <1>1, <1>2 DEF ImportedCopy

\* A step of a move.
LEMMA MoveSame ==
    ASSUME Custody(copy), MoveInv, MoveNext
    PROVE  SameExports(copy[Cloud], copy'[Cloud])
  <1>0. /\ msess \in [Moves -> MoveSessions] /\ copy \in [Places -> Copies] /\ mover \in Movers
        /\ Cloud \in Places /\ Home \in Places /\ Home # Cloud
        /\ (mover.pc # "idle" => mover.rec \in Moves)
    BY PortableAssumption, MoveAssumption, MovesAssumption
       DEF MoveInv, MoveSessionsTold, MoverTold, Custody
  <1>u. ASSUME UNCHANGED copy PROVE SameExports(copy[Cloud], copy'[Cloud])
    BY <1>u DEF SameExports
  <1>1. CASE \/ \E m \in Moves : CreateMove(m) \/ ForeignBind(m) \/ MoveDeadline(m) \/ MoveStart(m)
             \/ RegisterFresh \/ MoveResume \/ DriveLedger \/ RefusedURL \/ UnsealedEnd
             \/ MoveWait \/ CancelUnbound \/ MoverStops
             \/ \E b \in upload : UploadLost(b)
    <2>1. UNCHANGED copy
      BY <1>1, QuietMoves
    <2> QED
      BY <1>u, <2>1
  <1>2. ASSUME NEW m \in Moves, MoveSweep(m) \/ (\E expect : CancelBySubject(m, expect))
        PROVE  SameExports(copy[Cloud], copy'[Cloud])
    <2>1. CASE MoveSweep(m)
      BY <1>0, <2>1, SettleHereSame DEF MoveSweep
    <2>2. ASSUME NEW expect, CancelBySubject(m, expect)
          PROVE  SameExports(copy[Cloud], copy'[Cloud])
      BY <2>2, SettleHereSame, CancelledSession DEF CancelBySubject
    <2> QED
      BY <1>2, <2>1, <2>2
  <1>3. ASSUME NEW m \in Moves, ClaimAndProvision(m)
        PROVE  SameExports(copy[Cloud], copy'[Cloud])
    <2> DEFINE x == [copy[Cloud] EXCEPT !.human = TRUE]
    <2>1. copy'[Cloud] = x
      BY <1>0, <1>3 DEF ClaimAndProvision
    <2>2. x.auth = copy[Cloud].auth /\ x.exp = copy[Cloud].exp
      BY <1>0 DEF Copies
    <2> HIDE DEF x
    <2> QED
      BY <2>1, <2>2 DEF SameExports
  <1>m. ASSUME \/ DriveFetch \/ BindSource \/ UploadAdmit \/ CancelUnsealed
               \/ RequestRetire \/ CancelSealed
        PROVE  \E m \in Moves : m = mover.rec
    BY <1>0, <1>m DEF DriveFetch, BindSource, UploadAdmit, CancelUnsealed, Idle, Unsealed, Holding,
       Rec, Movers, RequestRetire, CancelSealed
  <1>4. CASE DriveFetch
    <2>m. PICK m \in Moves : m = mover.rec
      BY <1>4, <1>m
    <2>1. Settle(m, msess[m], copy[Cloud])
      BY <1>4, <2>m DEF DriveFetch, Rec
    <2> QED
      BY <1>0, <2>1, SettleHereSame
  <1>5. CASE BindSource \/ UploadAdmit
    <2>m. PICK m \in Moves : m = mover.rec
      BY <1>5, <1>m
    <2>r. PICK r : r = Reconciled(m, msess[m], copy[Cloud])
      OBVIOUS
    <2>1. copy' = [copy EXCEPT ![Cloud] = r.c]
      BY <1>5, <2>m, <2>r DEF BindSource, UploadAdmit, Rec
    <2>2. SameExports(copy[Cloud], r.c)
      BY <1>0, <2>r, ReconciledSame DEF MoveInv, MoveSessionsTold
    <2>3. copy'[Cloud] = r.c
      BY <1>0, <2>1
    <2> QED
      BY <2>2, <2>3
  <1>6. CASE CancelUnsealed
    <2>m. PICK m \in Moves : m = mover.rec
      BY <1>6, <1>m
    <2>1. Settle(m, Cancelled(m, "any"), copy[Cloud]) \/ UNCHANGED copy
      BY <1>6, <2>m DEF CancelUnsealed, Rec
    <2> QED
      BY <1>u, <2>1, SettleHereSame, CancelledSession
  <1>7. CASE MoveSeal \/ MoveComplete \/ MoveAbort
    <2>1. copy'[Cloud] = copy[Cloud]
      BY <1>0, <1>7 DEF MoveSeal, MoveComplete, MoveAbort
    <2> QED
      BY <2>1 DEF SameExports
  <1>8. CASE RequestRetire \/ CancelSealed
    <2>m. PICK m \in Moves : m = mover.rec
      BY <1>8, <1>m
    <2>f. PICK refused \in BOOLEAN : refused = CancelRefused(m, "any")
      BY DEF CancelRefused
    <2>c. PICK c : c = IF refused THEN copy[Cloud] ELSE GrantCancelled(m, TRUE)
      OBVIOUS
    <2>p. PICK cp : cp = [copy EXCEPT ![Cloud] = c]
      OBVIOUS
    <2>1. Custody(cp) /\ Follows(copy, cp) /\ cp[Cloud] = c
      BY <2>c, <2>p, GrantKeeps
    <2>2. SameExports(copy[Cloud], c)
      BY <2>c, GrantSame
    <2>s. PICK s : s = Cancelled(m, "any")
      OBVIOUS
    <2>3. s \in MoveSessions /\ (s.st = "activated" => Activated(c, m))
      <3>1. s \in MoveSessions /\ (s.st = "activated" => Activated(copy[Cloud], m))
        BY <2>s, CancelledSession DEF MoveInv, MoveSessionsTold
      <3> QED
        BY <1>0, <2>1, <3>1, MoveAssumption DEF Follows, KeepsActivated
    <2>4. CASE RequestRetire
      <3>1. Settle(m, s, c)
        BY <2>4, <2>m, <2>f, <2>c, <2>s DEF RequestRetire, Rec
      <3> QED
        BY <2>p, <2>1, <2>2, <2>3, <3>1, SettleSame
    <2>5. CASE CancelSealed /\ Export \in {"completed", "aborted"}
      BY <1>u, <2>5 DEF CancelSealed
    <2>6. CASE CancelSealed /\ Export \notin {"completed", "aborted"}
      <3>r. PICK r : r = Reconciled(m, s, c)
        OBVIOUS
      <3>1. \E h : copy' = [copy EXCEPT ![Cloud] = r.c, ![Home] = h]
        BY <2>6, <2>m, <2>f, <2>c, <2>s, <3>r DEF CancelSealed, Rec
      <3>2. copy'[Cloud] = r.c
        BY <1>0, <3>1
      <3>3. SameExports(c, r.c)
        BY <2>1, <2>3, <3>r, ReconciledSame
      <3> QED
        BY <2>2, <3>2, <3>3, SameTrans
    <2> QED
      BY <1>8, <2>4, <2>5, <2>6
  <1>9. ASSUME NEW b \in upload, UploadImport(b) PROVE SameExports(copy[Cloud], copy'[Cloud])
    <2>0. b \in Bundles /\ b.t \in Moves /\ Carried(copy, b)
      BY DEF MoveInv, UploadsTold
    <2>c. PICK c : c = IF ImportOK(copy[Cloud], Cloud, b, Nothing)
                       THEN ImportedCopy(copy[Cloud], b, Nothing) ELSE copy[Cloud]
      OBVIOUS
    <2>p. PICK cp : cp = [copy EXCEPT ![Cloud] = c]
      OBVIOUS
    <2>1. SameExports(copy[Cloud], c)
      BY <2>0, <2>c, ImportSame
    <2>2. Custody(cp) /\ Follows(copy, cp)
      <3>1. CASE ImportOK(copy[Cloud], Cloud, b, Nothing)
        BY <1>0, <2>0, <2>c, <2>p, <3>1, ImportKeeps
      <3>2. CASE ~ImportOK(copy[Cloud], Cloud, b, Nothing)
        <4>1. cp = copy
          BY <1>0, <2>c, <2>p, <3>2, SameCopies
        <4> QED
          BY <4>1, FollowsRefl
      <3> QED
        BY <3>1, <3>2
    <2>3. cp[Cloud] = c
      BY <1>0, <2>p
    <2>4. msess[b.t] \in MoveSessions /\ (msess[b.t].st = "activated" => Activated(c, b.t))
      BY <1>0, <2>0, <2>2, <2>3, MoveAssumption DEF MoveInv, MoveSessionsTold, Follows, KeepsActivated
    <2>5. Settle(b.t, msess[b.t], c)
      BY <1>9, <2>c DEF UploadImport
    <2> QED
      BY <2>0, <2>p, <2>1, <2>2, <2>4, <2>5, SettleSame
  <1> QED
    BY <1>1, <1>2, <1>3, <1>4, <1>5, <1>6, <1>7, <1>8, <1>9
       DEF MoveNext, CloudMoveNext, MoverNext, MoverStep, UploadNext

\* The life of the secretary.
LEMMA LifeSame ==
    ASSUME Custody(copy), NEW p \in Places, Live(p) \/ Work(p) \/ Ask(p)
    PROVE  SameExports(copy[Cloud], copy'[Cloud])
  <1>0. copy \in [Places -> Copies] /\ copy[p] \in Copies /\ Cloud \in Places
    BY PortableAssumption DEF Custody
  <1>1. \E e, n, b, a : copy' = [copy EXCEPT ![p] = [copy[p] EXCEPT !.epoch = e, !.lived = n,
                                                     !.busy = b, !.appr = a]]
    <2>1. CASE Live(p)
      <3>1. copy' = [copy EXCEPT ![p] = [copy[p] EXCEPT !.epoch = copy[p].epoch + 1,
                       !.lived = copy[p].lived + 1, !.busy = copy[p].busy, !.appr = copy[p].appr]]
        BY <1>0, <2>1 DEF Live, Copies
      <3> QED
        BY <3>1
    <2>2. CASE Work(p)
      <3>1. copy' = [copy EXCEPT ![p] = [copy[p] EXCEPT !.epoch = copy[p].epoch,
                       !.lived = copy[p].lived, !.busy = ~copy[p].busy, !.appr = copy[p].appr]]
        BY <1>0, <2>2 DEF Work, Copies
      <3> QED
        BY <3>1
    <2>3. CASE Ask(p)
      <3>1. PICK a : copy' = [copy EXCEPT ![p].appr = a]
        BY <2>3 DEF Ask
      <3>2. copy' = [copy EXCEPT ![p] = [copy[p] EXCEPT !.epoch = copy[p].epoch,
                       !.lived = copy[p].lived, !.busy = copy[p].busy, !.appr = a]]
        BY <1>0, <3>1 DEF Copies
      <3> QED
        BY <3>2
    <2> QED
      BY <2>1, <2>2, <2>3
  <1>2. PICK x : copy' = [copy EXCEPT ![p] = x] /\ x.exp = copy[p].exp /\ x.auth = copy[p].auth
    <2>1. PICK e, n, b, a : copy' = [copy EXCEPT ![p] = [copy[p] EXCEPT !.epoch = e, !.lived = n,
                                                     !.busy = b, !.appr = a]]
      BY <1>1
    <2> DEFINE x == [copy[p] EXCEPT !.epoch = e, !.lived = n, !.busy = b, !.appr = a]
    <2>2. x.exp = copy[p].exp /\ x.auth = copy[p].auth
      BY <1>0 DEF Copies
    <2>3. copy' = [copy EXCEPT ![p] = x]
      BY <2>1
    <2> HIDE DEF x
    <2> QED
      BY <2>2, <2>3
  <1> QED
    BY <1>0, <1>2 DEF SameExports

-----------------------------------------------------------------------------
(* The sessions of the returns *)

\* Steps that leave the sessions, the barrier and the terminal alone.
LEMMA StillFrame ==
    ASSUME NEW s, NEW sl, NEW b, NEW tm, NEW c, NEW d, StillInv(s, sl, b, tm, c), SameExports(c, d),
           \A r \in Returns : d.exp[r].st = "sealed" => d.auth = "sealed"
    PROVE  StillInv(s, sl, b, tm, d)
  <1>1. ASSUME NEW r \in Returns PROVE ReturnStill(r, s, sl, b, tm, d)
    <2>1. ReturnStill(r, s, sl, b, tm, c)
      BY DEF StillInv
    <2> QED
      BY <2>1 DEF ReturnStill, SameExports
  <1> QED
    BY <1>1 DEF StillInv

\* What a session that does not live cannot have.
DeadStill(r, s, sl, c) ==
    ~AliveReturn(s[r]) =>
        sl[r] # "fenced" /\ s[r].st # "completed" /\ c.exp[r].st \notin {"sealed", "completed"}

LEMMA DeadHasNothing ==
    ASSUME NEW s, NEW sl, NEW b, NEW tm, NEW c, StillInv(s, sl, b, tm, c), NEW r \in Returns
    PROVE  DeadStill(r, s, sl, c)
  BY DEF StillInv, ReturnStill, DeadStill, AliveReturn, DeadReturn

LEMMA DeadIsStill ==
    ASSUME NEW s, NEW sl, NEW b, NEW tm, NEW c, NEW r \in Returns, ~AliveReturn(s[r]),
           DeadStill(r, s, sl, c)
    PROVE  ReturnStill(r, s, sl, b, tm, c)
  BY DEF DeadStill, ReturnStill

\* Nothing changes but session r.
Apart(r, s, t, sl, tl, c, d) ==
    \A q \in Returns \ {r} : t[q] = s[q] /\ (tl[q] = "fenced" => sl[q] = "fenced") /\ d.exp[q] = c.exp[q]

\* Steps of one session: if it lives it is the only one, and the others have
\* nothing to keep.
LEMMA OneSession ==
    ASSUME NEW s, NEW sl, NEW b, NEW tm, NEW c, StillInv(s, sl, b, tm, c), NEW r \in Returns,
           NEW t, NEW tl, NEW bb, NEW tn, NEW d,
           Apart(r, s, t, sl, tl, c, d),
           AliveReturn(s[r]) \/ AliveReturn(t[r]),
           AliveReturn(t[r]) => \A q \in Returns \ {r} : ~AliveReturn(s[q]),
           ReturnStill(r, t, tl, bb, tn, d)
    PROVE  StillInv(t, tl, bb, tn, d)
  <1>1. \A q \in Returns \ {r} : ~AliveReturn(s[q]) /\ ~AliveReturn(t[q])
    BY DEF StillInv, Apart
  <1>2. ASSUME NEW q \in Returns \ {r} PROVE ReturnStill(q, t, tl, bb, tn, d)
    <2>1. DeadStill(q, s, sl, c)
      BY DeadHasNothing
    <2>2. DeadStill(q, t, tl, d)
      BY <1>1, <2>1 DEF DeadStill, Apart
    <2> QED
      BY <1>1, <2>2, DeadIsStill
  <1>3. \A q \in Returns : ReturnStill(q, t, tl, bb, tn, d)
    BY <1>2
  <1> QED
    BY <1>1, <1>3 DEF StillInv

LEMMA OthersDead ==
    ASSUME NEW s, NEW sl, NEW b, NEW tm, NEW c, StillInv(s, sl, b, tm, c), NEW r \in Returns,
           AliveReturn(s[r])
    PROVE  \A q \in Returns \ {r} : ~AliveReturn(s[q])
  BY DEF StillInv

\* What its row and the Cloud's copy may become.
RowMay(r, w, x, c, d) ==
    /\ AliveReturn(x) => AliveReturn(w)
    /\ ~AliveReturn(w) => SameExports(c, d)
    /\ \A q \in Returns : d.exp[q].st = "sealed" => d.auth = "sealed"
    /\ x.st = "completed" => d.auth = "transferred"
    /\ d.exp[r].st = "sealed" => x.st \in {"sealed", "cancelling"} /\ c.exp[r].st = "sealed"
    /\ d.exp[r].st = "completed" =>
          /\ d.auth = "transferred" /\ x.st \in {"sealed", "cancelling", "completed"}
          /\ c.exp[r].st \in {"sealed", "completed"}
    /\ x.mode = w.mode /\ (w.dest # Nothing => x.dest = w.dest)

\* A session whose row changes while no seal attempt holds it.
LEMMA RowStill ==
    ASSUME NEW s, NEW sl, NEW b, NEW tm, NEW c, StillInv(s, sl, b, tm, c), NEW r \in Returns,
           s \in [Returns -> RSessions], NEW x \in RSessions,
           NEW z, z = [s EXCEPT ![r] = x], NEW tl, NEW d,
           Apart(r, s, z, sl, tl, c, d), tl[r] # "fenced", RowMay(r, s[r], x, c, d)
    PROVE  StillInv(z, tl, b, tm, d)
  <1>0. z[r] = x /\ \A q \in Returns \ {r} : z[q] = s[q]
    OBVIOUS
  <1>1. ReturnStill(r, s, sl, b, tm, c)
    BY DEF StillInv
  <1>2. ReturnStill(r, z, tl, b, tm, d)
    BY <1>0, <1>1 DEF ReturnStill, RowMay
  <1>3. CASE AliveReturn(s[r])
    <2>1. \A q \in Returns \ {r} : ~AliveReturn(s[q])
      BY <1>3, OthersDead
    <2> QED
      BY <1>2, <1>3, <2>1, OneSession
  <1>4. CASE ~AliveReturn(s[r])
    <2>1. StillInv(s, sl, b, tm, d)
      BY <1>4, StillFrame DEF RowMay
    <2>2. ASSUME NEW q \in Returns \ {r} PROVE ReturnStill(q, z, tl, b, tm, d)
      <3>1. ReturnStill(q, s, sl, b, tm, d)
        BY <2>1 DEF StillInv
      <3> QED
        BY <1>0, <3>1 DEF ReturnStill, Apart
    <2>3. ~AliveReturn(z[r])
      BY <1>0, <1>4 DEF RowMay
    <2>4. \A p, q \in Returns : AliveReturn(z[p]) /\ AliveReturn(z[q]) => p = q
      BY <1>0, <2>1, <2>3 DEF StillInv
    <2> QED
      BY <1>2, <2>2, <2>4 DEF StillInv
  <1> QED
    BY <1>3, <1>4

LEMMA SealedRow ==
    ASSUME NEW cp, Custody(cp)
    PROVE  \A r \in Returns : cp[Cloud].exp[r].st = "sealed" => cp[Cloud].auth = "sealed"
  BY ReturnPlaces DEF Custody, RowFollowsLedgers

\* ReconcileTo, with the copy a report leaves.
LEMMA ReconcileStill ==
    ASSUME Custody(copy), ReturnInv, SourceInv, NEW r \in Returns, RowFree(r),
           NEW x \in {rsess[r], CancelledReturn(r)}, NEW c,
           \/ c = copy[Cloud]
           \/ (\E dst : CompleteOK(copy[Cloud], r, dst)) /\ c = CompletedCopy(copy[Cloud], r)
           \/ (\E dst : AbortOK(copy[Cloud], r, dst)) /\ c = AbortedCopy(copy[Cloud], r),
           ReconcileTo(r, x, c), Custody(copy'), UNCHANGED <<sealing, barrier, term>>
    PROVE  SourceInv'
  <1>0. /\ rsess \in [Returns -> RSessions] /\ rsess[r] \in RSessions /\ copy \in [Places -> Copies]
        /\ copy[Cloud] \in Copies /\ r \in Transfers /\ Returns \subseteq Transfers /\ Cloud \in Places
    BY ReturnPlaces DEF ReturnInv, ReturnSessionsTold, Custody
  <1>i. StillInv(rsess, sealing, barrier, term, copy[Cloud])
    BY DEF SourceInv
  <1>j. ReturnStill(r, rsess, sealing, barrier, term, copy[Cloud])
    BY <1>i DEF StillInv
  <1>x. /\ x \in RSessions /\ x.dest = rsess[r].dest /\ x.mode = rsess[r].mode
        /\ x.st \in {rsess[r].st, "cancelled", "cancelling"}
        /\ x.st # rsess[r].st => rsess[r].st \in {"awaiting", "sealed"}
        /\ rsess[r].st = "sealed" => x.st \in {"sealed", "cancelling"}
    <2>1. CASE x = rsess[r]
      BY <1>0, <2>1
    <2>2. CASE x = CancelledReturn(r)
      BY <1>0, <2>2 DEF CancelledReturn, RSessions, ReturnStatuses
    <2> QED
      BY <2>1, <2>2
  <1>c. /\ c \in Copies /\ copy'[Cloud] = c
        /\ \A q \in Returns \ {r} : c.exp[q] = copy[Cloud].exp[q]
        /\ c.exp[r].st = "sealed" => copy[Cloud].exp[r].st = "sealed"
        /\ c.exp[r].st = "completed" => copy[Cloud].exp[r].st \in {"sealed", "completed"}
        /\ c.exp[r].st = "completed" => c.auth = "transferred"
        /\ copy[Cloud].auth = "transferred" => c.auth = "transferred"
        /\ c # copy[Cloud] => copy[Cloud].exp[r].st = "sealed"
    <2>0. copy'[Cloud] = c
      BY <1>0 DEF ReconcileTo
    <2>1. CASE c = copy[Cloud]
      BY <1>0, <1>j, <2>0, <2>1 DEF ReturnStill
    <2>2. CASE /\ copy[Cloud].exp[r].st = "sealed" /\ c = CompletedCopy(copy[Cloud], r)
      BY <1>0, <2>0, <2>2, CompleteFields
    <2>3. CASE /\ copy[Cloud].exp[r].st = "sealed" /\ c = AbortedCopy(copy[Cloud], r)
               /\ copy[Cloud].auth = "sealed"
      BY <1>0, <2>0, <2>3, AbortFields
    <2> QED
      BY <2>1, <2>2, <2>3 DEF CompleteOK, AbortOK, CompletedCopy, AbortedCopy
  <1> DEFINE y == [x EXCEPT !.st = StatusOf(r, x, c)]
  <1>1. rsess' = [rsess EXCEPT ![r] = y]
    BY DEF ReconcileTo
  <1>2. /\ y \in RSessions /\ y.dest = x.dest /\ y.mode = x.mode /\ y.st = StatusOf(r, x, c)
    BY <1>c, <1>x, StatusType DEF RSessions
  <1> HIDE DEF y
  <1>3. /\ y.st = "completed" => x.st = "completed" \/ c.exp[r].st = "completed"
        /\ c.exp[r].st = "sealed" /\ x.st \in {"sealed", "cancelling"} => y.st \in {"sealed", "cancelling"}
        /\ c.exp[r].st = "completed" /\ x.st \in {"sealed", "cancelling", "completed"}
              => y.st \in {"sealed", "cancelling", "completed"}
        /\ AliveReturn(y) => AliveReturn(x)
    BY <1>2, <1>c, <1>x DEF StatusOf, AliveReturn, DeadReturn
  <1>4. AliveReturn(y) => AliveReturn(rsess[r])
    BY <1>3, <1>x DEF AliveReturn, DeadReturn
  <1>5. \A q \in Returns : c.exp[q].st = "sealed" => c.auth = "sealed"
    BY <1>c, SealedRow
  <1>6. y.st = "completed" => c.auth = "transferred"
    BY <1>3, <1>c, <1>j, <1>x DEF ReturnStill
  <1>7. c.exp[r].st = "sealed" => y.st \in {"sealed", "cancelling"} /\ copy[Cloud].exp[r].st = "sealed"
    BY <1>3, <1>c, <1>j, <1>x DEF ReturnStill
  <1>8. c.exp[r].st = "completed" =>
               /\ c.auth = "transferred" /\ y.st \in {"sealed", "cancelling", "completed"}
               /\ copy[Cloud].exp[r].st \in {"sealed", "completed"}
    BY <1>3, <1>c, <1>j, <1>x DEF ReturnStill
  <1>9. ~AliveReturn(rsess[r]) => SameExports(copy[Cloud], c)
    BY <1>c, <1>i, DeadHasNothing DEF DeadStill, SameExports
  <1>10. sealing[r] # "fenced"
    BY DEF RowFree
  <1>11. RowMay(r, rsess[r], y, copy[Cloud], c)
    BY <1>2, <1>x, <1>4, <1>5, <1>6, <1>7, <1>8, <1>9 DEF RowMay
  <1>12. Apart(r, rsess, rsess', sealing, sealing, copy[Cloud], c)
    BY <1>0, <1>1, <1>c DEF Apart
  <1>13. StillInv(rsess', sealing, barrier, term, c)
    BY <1>0, <1>i, <1>1, <1>2, <1>10, <1>11, <1>12, RowStill
  <1> QED
    BY <1>13, <1>c DEF SourceInv

LEMMA SourceFrame ==
    ASSUME SourceInv, Custody(copy'), UNCHANGED <<rsess, sealing, barrier, term>>,
           SameExports(copy[Cloud], copy'[Cloud])
    PROVE  SourceInv'
  <1>1. StillInv(rsess, sealing, barrier, term, copy'[Cloud])
    BY SealedRow, StillFrame DEF SourceInv
  <1> QED
    BY <1>1 DEF SourceInv

\* A session is created only while none lives.
LEMMA CreateStill ==
    ASSUME SourceInv, ReturnInv, ReturnInv', NEW r \in Returns, NEW mode, CreateReturn(r, mode)
    PROVE  SourceInv'
  <1>0. /\ rsess \in [Returns -> RSessions] /\ rsess' \in [Returns -> RSessions]
        /\ StillInv(rsess, sealing, barrier, term, copy[Cloud])
        /\ UNCHANGED <<copy, sealing, barrier, term>> /\ copy[Cloud].auth = "active"
    BY DEF ReturnInv, ReturnSessionsTold, SourceInv, CreateReturn
  <1>1. PICK x : rsess' = [rsess EXCEPT ![r] = x] /\ x.st = "awaiting"
    <2> DEFINE x == [NoReturn EXCEPT !.st = "awaiting", !.mode = mode,
                        !.epoch = 1 + Cardinality({q \in Returns : rsess[q].st # "none"})]
    <2>1. rsess' = [rsess EXCEPT ![r] = x] /\ x.st = "awaiting"
      BY DEF CreateReturn, NoReturn
    <2> QED
      BY <2>1
  <1>2. /\ rsess'[r].st = "awaiting" /\ \A q \in Returns \ {r} : rsess'[q] = rsess[q]
    BY <1>0, <1>1
  <1>3. \A q \in Returns : ~AliveReturn(rsess[q])
    <2>1. ASSUME NEW q \in Returns PROVE ~AliveReturn(rsess[q])
      <3>1. rsess[q].st \notin OpenReturn /\ rsess[q].st \in ReturnStatuses
        BY <1>0 DEF CreateReturn, RSessions
      <3>2. rsess[q].st # "completed"
        BY <1>0 DEF StillInv, ReturnStill
      <3> QED
        BY <3>1, <3>2 DEF AliveReturn, OpenReturn, DeadReturn, ReturnStatuses
    <2> QED
      BY <2>1
  <1>4. DeadStill(r, rsess, sealing, copy[Cloud])
    BY <1>0, DeadHasNothing
  <1>5. ReturnStill(r, rsess', sealing, barrier, term, copy[Cloud])
    BY <1>2, <1>3, <1>4 DEF ReturnStill, DeadStill
  <1>6. Apart(r, rsess, rsess', sealing, sealing, copy[Cloud], copy[Cloud])
    BY <1>2 DEF Apart
  <1>7. AliveReturn(rsess'[r])
    BY <1>2 DEF AliveReturn, DeadReturn
  <1>8. StillInv(rsess', sealing, barrier, term, copy[Cloud])
    BY <1>0, <1>3, <1>5, <1>6, <1>7, OneSession
  <1> QED
    BY <1>0, <1>8 DEF SourceInv

\* A deadline passes, or a bind records the destination.
LEMMA BindStill ==
    ASSUME Custody(copy), SourceInv, ReturnInv, ReturnInv', NEW r \in Returns,
           \/ ReturnDeadline(r)
           \/ \E l \in Locals : ReturnBind(l) /\ Ses(l) = r
    PROVE  SourceInv'
  <1>0. /\ rsess \in [Returns -> RSessions] /\ rsess[r] \in RSessions /\ copy[Cloud] \in Copies
        /\ sealing \in [Returns -> {"no", "bound", "fenced"}]
        /\ StillInv(rsess, sealing, barrier, term, copy[Cloud])
        /\ UNCHANGED <<copy, barrier, term>> /\ sealing[r] # "fenced"
    BY ReturnPlaces DEF ReturnInv, ReturnSessionsTold, SourceInv, ReturnDeadline, ReturnBind, RowFree, Custody
  <1>j. ReturnStill(r, rsess, sealing, barrier, term, copy[Cloud])
    BY <1>0 DEF StillInv
  <1>s. PICK v \in ReturnStatuses : v = StatusOf(r, rsess[r], copy[Cloud])
    BY <1>0, StatusType
  <1>1. PICK x \in RSessions :
           /\ rsess' = [rsess EXCEPT ![r] = x] /\ x.mode = rsess[r].mode
           /\ rsess[r].dest # Nothing => x.dest = rsess[r].dest
           /\ x.st \in {rsess[r].st, v}
    <2>1. CASE ReturnDeadline(r)
      <3> DEFINE x == [rsess[r] EXCEPT !.live = FALSE]
      <3>1. rsess' = [rsess EXCEPT ![r] = x]
        BY <1>0, <2>1 DEF ReturnDeadline
      <3>2. x \in RSessions /\ x.mode = rsess[r].mode /\ x.dest = rsess[r].dest /\ x.st = rsess[r].st
        BY <1>0 DEF RSessions
      <3> HIDE DEF x
      <3> QED
        BY <3>1, <3>2
    <2>2. ASSUME NEW l \in Locals, ReturnBind(l), Ses(l) = r
          PROVE  \E x \in RSessions :
                   /\ rsess' = [rsess EXCEPT ![r] = x] /\ x.mode = rsess[r].mode
                   /\ rsess[r].dest # Nothing => x.dest = rsess[r].dest
                   /\ x.st \in {rsess[r].st, v}
      <3> DEFINE s == [rsess[r] EXCEPT !.st = v]
                 free == s.dest = Nothing /\ s.st = "awaiting" /\ s.live
                 x == IF SlotFree(l) /\ free THEN [s EXCEPT !.dest = l] ELSE s
      <3>1. rsess' = [rsess EXCEPT ![r] = x]
        BY <1>s, <2>2 DEF ReturnBind
      <3>2. s \in RSessions /\ s.dest = rsess[r].dest /\ s.mode = rsess[r].mode /\ s.st = v
        BY <1>0, <1>s DEF RSessions
      <3> HIDE DEF s
      <3>3. x \in RSessions /\ x.mode = rsess[r].mode /\ x.st = v
            /\ (rsess[r].dest # Nothing => x.dest = rsess[r].dest)
        BY <3>2 DEF RSessions
      <3> HIDE DEF x
      <3> QED
        BY <3>1, <3>3
    <2> QED
      BY <2>1, <2>2
  <1>2. sealing'[r] # "fenced" /\ \A q \in Returns \ {r} : sealing'[q] = sealing[q]
    BY <1>0 DEF ReturnDeadline, ReturnBind
  <1>3. /\ v = "completed" => rsess[r].st = "completed" \/ copy[Cloud].exp[r].st = "completed"
        /\ copy[Cloud].exp[r].st = "sealed" /\ rsess[r].st \in {"sealed", "cancelling"} => v \in {"sealed", "cancelling"}
        /\ copy[Cloud].exp[r].st = "completed" /\ rsess[r].st \in {"sealed", "cancelling", "completed"}
              => v \in {"sealed", "cancelling", "completed"}
        /\ v \notin {"none"} \cup DeadReturn => rsess[r].st \notin {"none"} \cup DeadReturn
    BY <1>s DEF StatusOf, DeadReturn
  <1>4. RowMay(r, rsess[r], x, copy[Cloud], copy[Cloud])
    <2>1. AliveReturn(x) => AliveReturn(rsess[r])
      BY <1>1, <1>3 DEF AliveReturn
    <2>2. SameExports(copy[Cloud], copy[Cloud])
      BY DEF SameExports
    <2>3. \A q \in Returns : copy[Cloud].exp[q].st = "sealed" => copy[Cloud].auth = "sealed"
      BY SealedRow
    <2>4. x.st = "completed" => copy[Cloud].auth = "transferred"
      BY <1>j, <1>1, <1>3 DEF ReturnStill
    <2>5. copy[Cloud].exp[r].st = "sealed" => x.st \in {"sealed", "cancelling"}
      BY <1>j, <1>1, <1>3 DEF ReturnStill
    <2>6. copy[Cloud].exp[r].st = "completed" =>
             copy[Cloud].auth = "transferred" /\ x.st \in {"sealed", "cancelling", "completed"}
      BY <1>j, <1>1, <1>3 DEF ReturnStill
    <2> QED
      BY <1>1, <2>1, <2>2, <2>3, <2>4, <2>5, <2>6 DEF RowMay
  <1>5. Apart(r, rsess, rsess', sealing, sealing', copy[Cloud], copy[Cloud])
    BY <1>0, <1>1, <1>2 DEF Apart
  <1>6. StillInv(rsess', sealing', barrier, term, copy[Cloud])
    BY <1>0, <1>1, <1>2, <1>4, <1>5, RowStill
  <1> QED
    BY <1>0, <1>6 DEF SourceInv

\* The bind's second transaction, and its end.
LEMMA SealStill ==
    ASSUME Custody(copy), SourceInv, ReturnInv, NEW r \in Returns,
           SealBegin(r) \/ SealCommit(r) \/ (\E reached \in BOOLEAN : SealRefused(r, reached))
    PROVE  SourceInv'
  <1>0. /\ rsess \in [Returns -> RSessions] /\ rsess[r] \in RSessions /\ copy[Cloud] \in Copies
        /\ sealing \in [Returns -> {"no", "bound", "fenced"}] /\ copy \in [Places -> Copies]
        /\ StillInv(rsess, sealing, barrier, term, copy[Cloud]) /\ Cloud \in Places
        /\ r \in Transfers /\ Returns \subseteq Transfers
    BY ReturnPlaces DEF ReturnInv, ReturnSessionsTold, SourceInv, Custody
  <1>j. ReturnStill(r, rsess, sealing, barrier, term, copy[Cloud])
    BY <1>0 DEF StillInv
  <1>d. sealing[r] # "no" => rsess[r].dest # Nothing
    BY DEF ReturnInv, ReturnSessionsTold
  <1>1. CASE SealBegin(r) /\ sealing'[r] # "fenced"
    <2>1. /\ UNCHANGED <<copy, rsess, term, barrier>> /\ sealing' = [sealing EXCEPT ![r] = "no"]
      BY <1>0, <1>1 DEF SealBegin
    <2>2. ASSUME NEW q \in Returns PROVE ReturnStill(q, rsess, sealing', barrier, term, copy[Cloud])
      <3>1. ReturnStill(q, rsess, sealing, barrier, term, copy[Cloud])
        BY <1>0 DEF StillInv
      <3>2. sealing'[q] = "fenced" => sealing[q] = "fenced"
        BY <1>0, <2>1
      <3> QED
        BY <3>1, <3>2 DEF ReturnStill
    <2>3. StillInv(rsess, sealing', barrier, term, copy[Cloud])
      BY <1>0, <2>2 DEF StillInv
    <2> QED
      BY <2>1, <2>3 DEF SourceInv
  <1>2. CASE SealBegin(r) /\ sealing'[r] = "fenced"
    <2>1. /\ UNCHANGED <<copy, rsess, term>> /\ sealing' = [sealing EXCEPT ![r] = "fenced"]
          /\ rsess[r].st \in {"awaiting", "sealed"}
          /\ barrier' = IF rsess[r].mode = "local" THEN Frozen(barrier, rsess[r].epoch) ELSE barrier
      BY <1>0, <1>2 DEF SealBegin, LocalMode
    <2>2. rsess[r].mode = "local" =>
             /\ FreezeOK(barrier', rsess[r].epoch) => barrier'.up
             /\ barrier.up => barrier'.up
      BY <2>1 DEF Frozen, FreezeOK
    <2>3. ReturnStill(r, rsess, sealing', barrier', term, copy[Cloud])
      BY <1>j, <2>1, <2>2 DEF ReturnStill
    <2>4. AliveReturn(rsess[r])
      BY <2>1 DEF AliveReturn, DeadReturn
    <2>5. \A q \in Returns \ {r} : ~AliveReturn(rsess[q])
      BY <1>0, <2>4, OthersDead
    <2>6. Apart(r, rsess, rsess, sealing, sealing', copy[Cloud], copy[Cloud])
      BY <1>0, <2>1 DEF Apart
    <2>7. StillInv(rsess, sealing', barrier', term, copy[Cloud])
      BY <1>0, <2>3, <2>4, <2>5, <2>6, OneSession
    <2> QED
      BY <2>1, <2>7 DEF SourceInv
  <1>3. ASSUME NEW reached \in BOOLEAN, SealRefused(r, reached) PROVE SourceInv'
    <2>1. /\ UNCHANGED <<copy, rsess, term>> /\ sealing' = [sealing EXCEPT ![r] = "no"]
          /\ sealing[r] = "fenced"
          /\ barrier' = barrier \/ copy[Cloud].exp[r].st = "none"
      BY <1>3 DEF SealRefused, Exported
    <2>2. rsess[r].st \in {"awaiting", "sealed"}
      BY <1>j, <2>1 DEF ReturnStill
    <2>3. ReturnStill(r, rsess, sealing', barrier', term, copy[Cloud])
      BY <1>0, <1>j, <2>1, <2>2 DEF ReturnStill
    <2>4. AliveReturn(rsess[r])
      BY <2>2 DEF AliveReturn, DeadReturn
    <2>5. \A q \in Returns \ {r} : ~AliveReturn(rsess[q])
      BY <1>0, <2>4, OthersDead
    <2>6. Apart(r, rsess, rsess, sealing, sealing', copy[Cloud], copy[Cloud])
      BY <1>0, <2>1 DEF Apart
    <2>7. StillInv(rsess, sealing', barrier', term, copy[Cloud])
      BY <1>0, <2>3, <2>4, <2>5, <2>6, OneSession
    <2> QED
      BY <2>1, <2>7 DEF SourceInv
  <1>4. CASE SealCommit(r)
    <2>c. PICK c : c = SealedCopy(copy[Cloud], r, rsess[r].dest)
      OBVIOUS
    <2>1. /\ copy' = [copy EXCEPT ![Cloud] = c] /\ UNCHANGED barrier /\ term' = "none"
          /\ sealing' = [sealing EXCEPT ![r] = "no"] /\ sealing[r] = "fenced"
          /\ SealOK(copy[Cloud], r, rsess[r].dest)
          /\ rsess[r].mode = "local" => FreezeOK(barrier, rsess[r].epoch)
      BY <1>4, <2>c DEF SealCommit, LocalMode
    <2>2. PICK x \in RSessions : /\ rsess' = [rsess EXCEPT ![r] = x] /\ x.st = "sealed"
                                 /\ x.mode = rsess[r].mode /\ x.dest = rsess[r].dest
      <3> DEFINE x == [rsess[r] EXCEPT !.st = "sealed"]
      <3>1. rsess' = [rsess EXCEPT ![r] = x]
        BY <1>0, <1>4 DEF SealCommit
      <3>2. x \in RSessions /\ x.st = "sealed" /\ x.mode = rsess[r].mode /\ x.dest = rsess[r].dest
        BY <1>0 DEF RSessions, ReturnStatuses
      <3> HIDE DEF x
      <3> QED
        BY <3>1, <3>2
    <2>3. /\ copy'[Cloud] = c /\ rsess'[r] = x /\ \A q \in Returns \ {r} : rsess'[q] = rsess[q]
      BY <1>0, <2>1, <2>2
    <2>4. /\ c.exp[r].st = "sealed" => c.auth = "sealed"
          /\ c.exp[r].st = "completed" => c.auth = "transferred"
          /\ \A q \in Returns \ {r} : c.exp[q] = copy[Cloud].exp[q]
      <3>1. CASE SealReplays(copy[Cloud], r, rsess[r].dest)
        BY <1>j, <2>c, <3>1 DEF SealedCopy, ReturnStill
      <3>2. CASE copy[Cloud].exp[r].st = "none"
        <4>1. rsess[r].dest \in Places
          BY <1>0, <1>d, <2>1, ReturnAssumption DEF RSessions
        <4> QED
          BY <1>0, <2>c, <3>2, <4>1, SealFields
      <3> QED
        BY <2>1, <3>1, <3>2 DEF SealOK
    <2>5. rsess[r].mode = "local" => barrier.up
      BY <1>j, <2>1 DEF ReturnStill
    <2>6. ReturnStill(r, rsess', sealing', barrier, term', c)
      BY <1>0, <1>d, <2>1, <2>2, <2>3, <2>4, <2>5 DEF ReturnStill
    <2>7. AliveReturn(rsess[r])
      BY <1>j, <2>1 DEF ReturnStill, AliveReturn, DeadReturn
    <2>8. \A q \in Returns \ {r} : ~AliveReturn(rsess[q])
      BY <1>0, <2>7, OthersDead
    <2>9. Apart(r, rsess, rsess', sealing, sealing', copy[Cloud], c)
      BY <1>0, <2>1, <2>3, <2>4 DEF Apart
    <2>10. StillInv(rsess', sealing', barrier, term', c)
      BY <1>0, <2>6, <2>7, <2>8, <2>9, OneSession
    <2> QED
      BY <2>1, <2>3, <2>10 DEF SourceInv
  <1> QED
    BY <1>1, <1>2, <1>3, <1>4

\* The owner of the working store is the session that lives, if it is bound.
LEMMA OwnerLives ==
    ASSUME SourceInv, ReturnInv
    PROVE  /\ FileStoreOwner \in Returns =>
                AliveReturn(rsess[FileStoreOwner]) /\ rsess[FileStoreOwner].dest # Nothing
           /\ FileStoreOwner = Nothing =>
                \A r \in Returns : AliveReturn(rsess[r]) => rsess[r].dest = Nothing
  <1> DEFINE c == {r \in Returns : Bound(r) /\ rsess[r].st \notin {"none"} \cup DeadReturn}
  <1>1. FileStoreOwner = IF c = {} THEN Nothing
                         ELSE CHOOSE r \in c : \A q \in c : rsess[q].epoch <= rsess[r].epoch
    BY DEF FileStoreOwner
  <1>2. \A r \in Returns : r \in c <=> AliveReturn(rsess[r]) /\ rsess[r].dest # Nothing
    BY DEF Bound, AliveReturn
  <1>3. \A q, r \in c : q = r
    BY DEF SourceInv, StillInv, AliveReturn
  <1>4. ASSUME NEW r \in c PROVE FileStoreOwner \in c
    <2>1. rsess[r].epoch \in Nat
      BY DEF ReturnInv, ReturnSessionsTold, RSessions
    <2>2. \A q \in c : rsess[q].epoch <= rsess[r].epoch
      BY <1>3, <2>1
    <2> HIDE DEF c
    <2> QED
      BY <1>1, <2>2
  <1>5. Nothing \notin Returns /\ c \subseteq Returns
    BY ReturnPlaces
  <1> HIDE DEF c
  <1>6. CASE c = {}
    BY <1>1, <1>2, <1>5, <1>6
  <1>7. CASE c # {}
    <2>1. FileStoreOwner \in c
      BY <1>4, <1>7
    <2> QED
      BY <1>2, <1>5, <2>1
  <1> QED
    BY <1>6, <1>7

\* The file half of Reconcile.
LEMMA ConvergeStill ==
    ASSUME SourceInv, ReturnInv, NEW r \in Returns, NEW reached \in BOOLEAN, Converge(r, reached)
    PROVE  SourceInv'
  <1>0. /\ UNCHANGED <<copy, rsess, sealing, term>> /\ barrier' \in {barrier, Converged(r)}
        /\ StillInv(rsess, sealing, barrier, term, copy[Cloud])
        /\ rsess \in [Returns -> RSessions] /\ rsess[r] \in RSessions
    BY DEF Converge, SourceInv, ReturnInv, ReturnSessionsTold
  <1>d. \A q \in Returns : sealing[q] # "no" => rsess[q].dest # Nothing
    BY DEF ReturnInv, ReturnSessionsTold
  <1>j. ReturnStill(r, rsess, sealing, barrier, term, copy[Cloud])
    BY <1>0 DEF StillInv
  <1>1. CASE barrier' = barrier
    BY <1>0, <1>1 DEF SourceInv
  <1>2. CASE FileStoreOwner = Nothing
    <2>1. ASSUME NEW q \in Returns PROVE ReturnStill(q, rsess, sealing, barrier', term, copy[Cloud])
      <3>1. ReturnStill(q, rsess, sealing, barrier, term, copy[Cloud])
        BY <1>0 DEF StillInv
      <3>2. AliveReturn(rsess[q]) => rsess[q].dest = Nothing
        BY <1>2, OwnerLives
      <3>3. copy[Cloud].exp[q].st \notin {"sealed", "completed"}
        BY <3>1, <3>2 DEF ReturnStill, AliveReturn, DeadReturn
      <3>4. sealing[q] # "fenced"
        BY <1>d, <3>1, <3>2 DEF ReturnStill, AliveReturn, DeadReturn
      <3> QED
        BY <3>1, <3>3, <3>4 DEF ReturnStill
    <2> QED
      BY <1>0, <2>1 DEF StillInv, SourceInv
  <1>3. CASE FileStoreOwner \notin {Nothing, r}
    <2>1. Converged(r) = barrier
      BY <1>3 DEF Converged
    <2> QED
      BY <1>0, <1>1, <2>1
  <1>4. CASE FileStoreOwner = r /\ barrier' = Converged(r)
    <2>0. AliveReturn(rsess[r]) /\ r # Nothing
      BY <1>4, OwnerLives, ReturnPlaces
    <2>s. rsess[r].st \in {"awaiting", "sealed", "cancelling", "completed"}
      BY <1>0, <2>0 DEF AliveReturn, DeadReturn, RSessions, ReturnStatuses
    <2>1. ReturnStill(r, rsess, sealing, barrier', term, copy[Cloud])
      <3>1. CASE rsess[r].mode = "local" /\ rsess[r].st = "awaiting"
        <4>1. barrier' = IF RowFree(r) /\ ~Exported(r) THEN Thawed(barrier, rsess[r].epoch) ELSE barrier
          BY <1>4, <2>0, <3>1 DEF Converged, LocalMode
        <4>2. CASE RowFree(r) /\ ~Exported(r)
          BY <1>j, <4>2 DEF RowFree, Exported, ReturnStill
        <4>3. CASE ~(RowFree(r) /\ ~Exported(r))
          BY <1>j, <4>1, <4>3
        <4> QED
          BY <4>2, <4>3
      <3>2. CASE rsess[r].mode = "local" /\ rsess[r].st # "awaiting"
        <4>1. barrier' = Frozen(barrier, rsess[r].epoch)
          BY <1>4, <2>0, <2>s, <3>2 DEF Converged, LocalMode
        <4>2. /\ FreezeOK(barrier', rsess[r].epoch) => barrier'.up
              /\ barrier.up => barrier'.up
          BY <4>1 DEF Frozen, FreezeOK
        <4> QED
          BY <1>j, <4>2 DEF ReturnStill
      <3>3. CASE rsess[r].mode # "local"
        BY <1>j, <3>3 DEF ReturnStill
      <3> QED
        BY <3>1, <3>2, <3>3
    <2>2. \A q \in Returns \ {r} : ~AliveReturn(rsess[q])
      BY <1>0, <2>0, OthersDead
    <2>3. Apart(r, rsess, rsess, sealing, sealing, copy[Cloud], copy[Cloud])
      BY DEF Apart
    <2>4. StillInv(rsess, sealing, barrier', term, copy[Cloud])
      BY <1>0, <2>0, <2>1, <2>2, <2>3, OneSession
    <2> QED
      BY <1>0, <2>4 DEF SourceInv
  <1> QED
    BY <1>0, <1>1, <1>2, <1>3, <1>4

\* Crashes and terminals.
LEMMA TerminalStill ==
    ASSUME SourceInv, CloudCrash \/ TerminalAttach \/ TerminalDetach
    PROVE  SourceInv'
  <1>0. /\ UNCHANGED <<copy, rsess, barrier>>
        /\ StillInv(rsess, sealing, barrier, term, copy[Cloud])
    BY DEF SourceInv, CloudCrash, TerminalAttach, TerminalDetach
  <1>1. ASSUME NEW q \in Returns PROVE ReturnStill(q, rsess, sealing', barrier, term', copy[Cloud])
    <2>1. ReturnStill(q, rsess, sealing, barrier, term, copy[Cloud])
      BY <1>0 DEF StillInv
    <2>2. sealing'[q] = "fenced" => sealing[q] = "fenced"
      BY DEF CloudCrash, TerminalAttach, TerminalDetach
    <2>3. copy[Cloud].exp[q].st = "sealed" => term' = term
      BY <2>1 DEF ReturnStill, CloudCrash, TerminalAttach, TerminalDetach
    <2> QED
      BY <2>1, <2>2, <2>3 DEF ReturnStill
  <1> QED
    BY <1>0, <1>1 DEF StillInv, SourceInv

\* The commands' requests.
LEMMA RequestStill ==
    ASSUME Custody(copy), ReturnInv, SourceInv, Custody(copy'),
           \/ \E r \in Returns : CancelByOwner(r) \/ ReturnSweep(r)
           \/ \E l \in Locals : ReturnFetch(l) \/ ReportActivated(l) \/ ReportRetired(l) \/ ReturnCancel(l)
    PROVE  SourceInv'
  <1>1. ASSUME NEW r \in Returns, CancelByOwner(r) \/ ReturnSweep(r) PROVE SourceInv'
    <2>1. /\ RowFree(r) /\ UNCHANGED <<sealing, barrier, term>>
          /\ ReconcileTo(r, CancelledReturn(r), copy[Cloud]) \/ ReconcileTo(r, rsess[r], copy[Cloud])
      BY <1>1 DEF CancelByOwner, ReturnSweep, Reconcile
    <2> QED
      BY <2>1, ReconcileStill
  <1>2. ASSUME NEW l \in Locals,
               ReturnFetch(l) \/ ReportActivated(l) \/ ReportRetired(l) \/ ReturnCancel(l)
        PROVE  SourceInv'
    <2>r. PICK r \in Returns : r = returner[l].rec
      BY <1>2 DEF ReturnFetch, ReportActivated, ReportRetired, ReturnCancel, Acting, At, Ses,
                  ReturnInv, ReturnersTold, Returners
    <2>0. RowFree(r) /\ UNCHANGED <<sealing, barrier, term>>
      BY <1>2, <2>r DEF ReturnFetch, ReportActivated, ReportRetired, ReturnCancel, Ses
    <2>1. CASE ReturnFetch(l) \/ ReturnCancel(l)
      <3>1. ReconcileTo(r, CancelledReturn(r), copy[Cloud]) \/ ReconcileTo(r, rsess[r], copy[Cloud])
        BY <2>1, <2>r DEF ReturnFetch, ReturnCancel, Reconcile, Ses
      <3> QED
        BY <2>0, <3>1, ReconcileStill
    <2>2. CASE ReportActivated(l)
      <3>1. PICK c : /\ ReconcileTo(r, rsess[r], c)
                     /\ \/ c = copy[Cloud]
                        \/ CompleteOK(copy[Cloud], r, copy[l]) /\ c = CompletedCopy(copy[Cloud], r)
        BY <2>2, <2>r DEF ReportActivated, Ses
      <3> QED
        BY <2>0, <3>1, ReconcileStill
    <2>3. CASE ReportRetired(l)
      <3>1. PICK c : /\ ReconcileTo(r, rsess[r], c)
                     /\ \/ c = copy[Cloud]
                        \/ AbortOK(copy[Cloud], r, copy[l]) /\ c = AbortedCopy(copy[Cloud], r)
        BY <2>3, <2>r DEF ReportRetired, Ses
      <3> QED
        BY <2>0, <3>1, ReconcileStill
    <2> QED
      BY <1>2, <2>1, <2>2, <2>3
  <1> QED
    BY <1>1, <1>2

\* The commands' own steps, at a Local install.
LEMMA LocalStill ==
    ASSUME Custody(copy), SourceInv, Custody(copy'), NEW l \in Locals,
           \/ \E r \in Returns : ReturnStart(l, r)
           \/ ReturnResume(l) \/ Download(l) \/ ImportReturning(l) \/ DiscardBundle(l)
           \/ FilesPhase(l) \/ ActivateHere(l) \/ RetireHere(l) \/ FinishReturn(l)
           \/ ReturnerStops(l)
    PROVE  SourceInv'
  <1>0. copy \in [Places -> Copies] /\ Cloud \in Places /\ l # Cloud
    BY ReturnPlaces DEF Custody
  <1>1. UNCHANGED <<rsess, sealing, barrier, term>>
    BY DEF ReturnStart, ReturnResume, Download, ImportReturning, DiscardBundle, FilesPhase, ActivateHere,
           RetireHere, FinishReturn, ReturnerStops, LocalStep, LocalOnly
  <1>2. copy'[Cloud] = copy[Cloud]
    BY <1>0 DEF ReturnStart, ReturnResume, Download, ImportReturning, DiscardBundle, FilesPhase,
           ActivateHere, RetireHere, FinishReturn, ReturnerStops, LocalStep, LocalOnly
  <1>3. SameExports(copy[Cloud], copy'[Cloud])
    BY <1>2 DEF SameExports
  <1> QED
    BY <1>1, <1>3, SourceFrame

LEMMA ReturnsStill ==
    ASSUME Custody(copy), ReturnInv, SourceInv, ReturnNext \/ TerminalAttach \/ TerminalDetach
    PROVE  SourceInv'
  <1>0. Custody(copy') /\ ReturnInv'
    BY ReturnSteps
  <1>1. ASSUME NEW r \in Returns, \E mode \in {"local", "cloud"} : CreateReturn(r, mode)
        PROVE  SourceInv'
    BY <1>0, <1>1, CreateStill
  <1>2. ASSUME NEW r \in Returns, ReturnDeadline(r) PROVE SourceInv'
    BY <1>0, <1>2, BindStill
  <1>3. ASSUME NEW r \in Returns,
               SealBegin(r) \/ SealCommit(r) \/ (\E reached \in BOOLEAN : SealRefused(r, reached))
        PROVE  SourceInv'
    BY <1>3, SealStill
  <1>4. ASSUME NEW r \in Returns, \E reached \in BOOLEAN : Converge(r, reached) PROVE SourceInv'
    BY <1>4, ConvergeStill
  <1>5. CASE RevokeTokens \/ \E r \in Returns : SweepStrandedFences(r)
    <2>1. UNCHANGED <<copy, rsess, sealing, barrier, term>>
      BY <1>5 DEF RevokeTokens, SweepStrandedFences
    <2> QED
      BY <2>1 DEF SourceInv
  <1>6. CASE CloudCrash \/ TerminalAttach \/ TerminalDetach
    BY <1>6, TerminalStill
  <1>7. CASE \/ \E r \in Returns : CancelByOwner(r) \/ ReturnSweep(r)
             \/ \E l \in Locals : ReturnFetch(l) \/ ReportActivated(l) \/ ReportRetired(l) \/ ReturnCancel(l)
    BY <1>0, <1>7, RequestStill
  <1>8. ASSUME NEW l \in Locals, ReturnBind(l) PROVE SourceInv'
    <2>1. Ses(l) \in Returns
      BY <1>8 DEF ReturnBind, Acting, At, Ses, ReturnInv, ReturnersTold
    <2> QED
      BY <1>0, <1>8, <2>1, BindStill
  <1>9. CASE \E l \in Locals :
                \/ \E r \in Returns : ReturnStart(l, r)
                \/ ReturnResume(l) \/ Download(l) \/ ImportReturning(l) \/ DiscardBundle(l)
                \/ FilesPhase(l) \/ ActivateHere(l) \/ RetireHere(l) \/ FinishReturn(l)
                \/ ReturnerStops(l)
    BY <1>0, <1>9, LocalStill
  <1> QED
    BY <1>1, <1>2, <1>3, <1>4, <1>5, <1>6, <1>7, <1>8, <1>9
       DEF ReturnNext, CloudReturnNext, ReturnerNext, ReturnerStep

LEMMA SourceBegins == MovesInit => SourceInv
  <1> SUFFICES ASSUME MovesInit PROVE SourceInv
    OBVIOUS
  <1>p. Home \in Places /\ Cloud \in Places
    BY MoveAssumption, PortableAssumption
  <1>h. PICK how : how = scene.begins
    OBVIOUS
  <1>i. /\ copy = Begins(how)
        /\ how \in {"local", "cloud"} \/ (how = "surrendered" /\ Moves # {})
    BY <1>h, MovesAssumption DEF MovesInit
  <1>c. \A r \in Returns : copy[Cloud].exp[r].st = "none"
    <2>1. CASE how = "local"
      <3>1. copy = [p \in Places |-> IF p = Home THEN ActiveCopy(FALSE) ELSE AbsentCopy]
        BY <1>i, <2>1 DEF Begins
      <3>2. NoTransfers(copy)
        BY <1>p, <3>1, BornCustody
      <3> QED
        BY <3>2, ReturnPlaces DEF NoTransfers
    <2>2. CASE how = "cloud"
      <3>1. copy = [p \in Places |-> IF p = Cloud THEN ActiveCopy(TRUE) ELSE AbsentCopy]
        BY <1>i, <2>2 DEF Begins
      <3>2. NoTransfers(copy)
        BY <1>p, <3>1, BornCustody
      <3> QED
        BY <3>2, ReturnPlaces DEF NoTransfers
    <2>3. CASE how = "surrendered" /\ Moves # {}
      BY <1>i, <2>3, SurrenderedCustody
    <2> QED
      BY <1>i, <2>1, <2>2, <2>3
  <1>1. \A r \in Returns : rsess[r].st = "none" /\ sealing[r] = "no"
    BY DEF MovesInit, ReturnInit, NoReturn
  <1> QED
    BY <1>c, <1>1 DEF SourceInv, StillInv, ReturnStill, AliveReturn

LEMMA SourceStep == MovesCustody /\ SourceInv /\ [MovesNext]_movesVars => SourceInv'
  <1> SUFFICES ASSUME MovesCustody, SourceInv, [MovesNext]_movesVars PROVE SourceInv'
    OBVIOUS
  <1>0. Custody(copy) /\ MoveInv /\ ReturnInv
    BY DEF MovesCustody
  <1>c. Custody(copy')
    BY MovesStep DEF MovesCustody
  <1>1. CASE LifeNext
    <2>1. CASE \E p \in Places : (Live(p) \/ Work(p) \/ Ask(p)) /\ UNCHANGED <<moveVars, returnVars>>
      BY <1>0, <1>c, <2>1, LifeSame, SourceFrame DEF returnVars
    <2>2. CASE TerminalAttach \/ TerminalDetach
      BY <1>0, <2>2, ReturnsStill
    <2> QED
      BY <1>1, <2>1, <2>2 DEF LifeNext
  <1>2. CASE MoveNext /\ UNCHANGED returnVars
    BY <1>0, <1>c, <1>2, MoveSame, SourceFrame DEF returnVars
  <1>3. CASE ReturnNext
    BY <1>0, <1>3, ReturnsStill
  <1>4. CASE UNCHANGED movesVars
    BY <1>4 DEF movesVars, returnVars, SourceInv
  <1> QED
    BY <1>1, <1>2, <1>3, <1>4 DEF MovesNext

(***************************************************************************)
(* From the seal of a local-mode return to its end nothing may change the  *)
(* workspace that is being copied: the barrier at the files service is up  *)
(* and no terminal writer runs (bindAndSeal, reconcile, converge,          *)
(* quiesceTerminalWriters), whatever binds, cancels, sweeps, late          *)
(* convergences and crashes came between.  For any number of sessions.     *)
(***************************************************************************)
THEOREM SealedSourcesStayStill == MovesSpec => []SealedSourceIsStill
  <1>1. SourceInv => SealedSourceIsStill
    <2> SUFFICES ASSUME SourceInv, NEW r \in Returns, LocalMode(r),
                        copy[Cloud].exp[r].st \in {"sealed", "completed"}
                 PROVE  barrier.up /\ (copy[Cloud].auth = "sealed" => term = "none")
      BY DEF SealedSourceIsStill
    <2>1. ReturnStill(r, rsess, sealing, barrier, term, copy[Cloud])
      BY DEF SourceInv, StillInv
    <2> QED
      BY <2>1 DEF ReturnStill, LocalMode
  <1>2. MovesSpec => [](MovesCustody /\ SourceInv)
    BY MovesBegin, MovesStep, SourceBegins, SourceStep, PTL DEF MovesSpec
  <1> QED
    BY <1>1, <1>2, PTL
=============================================================================
