--------------------------- MODULE MoveSession ---------------------------
(***************************************************************************)
(* Moving a secretary from a Local install to the Cloud: the Cloud's       *)
(* transfer sessions (transfersession/service.go) and the command that     *)
(* drives a move on the Local side (cmd/local-move/move.go).               *)
(*                                                                         *)
(* A session's id is the transfer's id.  The mover is a process that may   *)
(* stop at any point and be run again: it keeps only its state file and    *)
(* reads everything else back.  Every answer of the Cloud is a view that   *)
(* may be stale when the mover acts on it.  An upload is the one request   *)
(* that the Cloud admits in one transaction and imports in another.        *)
(***************************************************************************)
EXTENDS Portable

CONSTANTS
    Moves,   \* the transfer ids of move sessions
    Home     \* the Local install the mover runs on

ASSUME MoveAssumption == Moves \subseteq Transfers /\ Home \in Places

VARIABLES
    msess,    \* the Cloud's transfer session of each move
    account,  \* the credential subject already has an account
    mover,    \* the Local command: its state file, program counter, last view
    upload    \* bundles the Cloud admitted and has not imported yet

moveVars == <<msess, account, mover, upload>>

MoveStatuses == {"none", "awaiting", "staged", "provisioned", "activated",
                 "cancelled", "expired"}
OpenMove == {"awaiting", "staged", "provisioned"}
ClosedMove == {"cancelled", "expired"}
Foreign == "foreign"   \* another Local's secretary took the move URL

NoSession == [st |-> "none", src |-> Nothing, admit |-> TRUE, claim |-> TRUE]
NoView == [st |-> "none", src |-> Nothing, act |-> FALSE, ret |-> FALSE]
NoMove == [rec |-> Nothing, bound |-> FALSE, outcome |-> "none",
           pc |-> "idle", view |-> NoView]

(* What an answer tells the mover: the session and the proofs of the       *)
(* import ledger.                                                          *)
MoveView(m, s, c) == [st |-> s.st, src |-> s.src,
                      act |-> Activated(c, m), ret |-> Retired(c, m)]

-----------------------------------------------------------------------------
(* Reconcile: the session follows the import ledger, the deadlines close   *)
(* it, a provisioned session activates its import, and a closed session    *)
(* retires an import that is still staged.                                 *)
Followed(m, s, c) ==
    CASE s.st = "awaiting" /\ c.imp[m].st = "staged" -> [s EXCEPT !.st = "staged", !.claim = TRUE]
      [] s.st = "awaiting" /\ Retired(c, m) -> [s EXCEPT !.st = "cancelled"]
      [] s.st = "awaiting" /\ c.imp[m].st \notin {"staged", "retired"} /\ ~s.admit -> [s EXCEPT !.st = "expired"]
      [] s.st = "staged" /\ ~s.claim -> [s EXCEPT !.st = "expired"]
      [] s.st = "provisioned" /\ ActivateOK(c, m) -> [s EXCEPT !.st = "activated"]
      [] OTHER -> s
CleanedUp(m, s, c) ==
    CASE s.st = "activated" -> ActivatedCopy(c, m)
      [] s.st \in ClosedMove /\ c.imp[m].st = "staged" -> RetiredCopy(c, m)
      [] OTHER -> c
Reconciled(m, s, c) == LET f == Followed(m, s, c)
                       IN [s |-> f, c |-> CleanedUp(m, f, c)]

(* The effect of a handler that leaves the session at s and the Cloud's    *)
(* copy at c, and ends by reconciling.                                     *)
Settle(m, s, c) == LET r == Reconciled(m, s, c)
                   IN /\ msess' = [msess EXCEPT ![m] = r.s]
                      /\ copy' = [copy EXCEPT ![Cloud] = r.c]
Answer(m, s, c) == LET r == Reconciled(m, s, c) IN MoveView(m, r.s, r.c)

(* cancel, under the row lock: an import that has arrived makes an         *)
(* awaiting session staged, an account makes the cancel too late, and the  *)
(* caller may name the status it means to cancel.                          *)
Arrived(m) == copy[Cloud].imp[m].st = "staged"
CurrentStatus(m) == IF msess[m].st = "awaiting" /\ Arrived(m) THEN "staged" ELSE msess[m].st
CancelRefused(m, expect) == \/ CurrentStatus(m) \in {"provisioned", "activated"}
                            \/ /\ CurrentStatus(m) \in {"awaiting", "staged"}
                               /\ expect \notin {"any", CurrentStatus(m)}
Cancelled(m, expect) == IF CancelRefused(m, expect) \/ msess[m].st \in ClosedMove THEN msess[m]
                        ELSE [msess[m] EXCEPT !.st = "cancelled"]
(* CancelByGrant with a key also leaves a tombstone for an import that     *)
(* never arrived.                                                          *)
GrantCancelled(m, key) ==
    LET c == copy[Cloud]
        bare == c.imp[m].st = "none" \/ BareTombstone(c, m)
    IN IF key /\ bare /\ RetireOK(c, m, TRUE) THEN RetiredCopy(c, m) ELSE c

-----------------------------------------------------------------------------
(* The registration's side of a session. *)
CreateMove(m) ==
    /\ msess[m].st = "none" /\ ~account
    /\ \A n \in Moves : msess[n].st \notin OpenMove
    /\ msess' = [msess EXCEPT ![m].st = "awaiting"]
    /\ UNCHANGED <<copy, account, mover, upload>>

(* Another Local's mover takes the URL first: bind with another secretary. *)
ForeignBind(m) ==
    /\ msess[m].st = "awaiting" /\ msess[m].src = Nothing
    /\ msess[m].admit /\ ~account /\ ~Arrived(m)
    /\ msess' = [msess EXCEPT ![m].src = Foreign]
    /\ UNCHANGED <<copy, account, mover, upload>>

CancelBySubject(m, expect) ==
    /\ msess[m].st \notin {"none"} \cup ClosedMove
    /\ Settle(m, Cancelled(m, expect), copy[Cloud])
    /\ UNCHANGED <<account, mover, upload>>

(* The account's transaction: claim the secretary that arrived for this    *)
(* subject (an arrival the session has not seen yet counts), expire a      *)
(* session whose bundle never came and register without it, or refuse      *)
(* while it may still come.                                                *)
Claimable(m) == /\ CurrentStatus(m) = "staged"
                /\ msess[m].st = "awaiting" \/ msess[m].claim
                /\ Arrived(m)
ClaimAndProvision(m) ==
    /\ ~account /\ Claimable(m)
    /\ account' = TRUE
    /\ msess' = [msess EXCEPT ![m].st = "provisioned"]
    /\ copy' = [copy EXCEPT ![Cloud].human = TRUE]
    /\ UNCHANGED <<mover, upload>>
RegisterFresh ==
    /\ ~account
    /\ \A m \in Moves : msess[m].st \in OpenMove =>
          msess[m].st = "awaiting" /\ ~Arrived(m) /\ ~msess[m].admit
    /\ account' = TRUE
    /\ msess' = [m \in Moves |-> IF msess[m].st \in OpenMove
                                 THEN [msess[m] EXCEPT !.st = "expired"] ELSE msess[m]]
    /\ UNCHANGED <<copy, mover, upload>>

(* The sweep, and the two deadlines it watches. *)
MoveSweepDue(m) ==
    \/ msess[m].st = "awaiting" /\ ~msess[m].admit
    \/ msess[m].st = "staged" /\ ~msess[m].claim
    \/ msess[m].st = "provisioned"
    \/ msess[m].st \in {"awaiting"} \cup ClosedMove /\ Arrived(m)
MoveSweep(m) ==
    /\ MoveSweepDue(m)
    /\ Settle(m, msess[m], copy[Cloud])
    /\ UNCHANGED <<account, mover, upload>>
MoveDeadline(m) ==
    /\ \/ msess[m].st = "awaiting" /\ msess[m].admit /\ msess' = [msess EXCEPT ![m].admit = FALSE]
       \/ msess[m].st = "staged" /\ msess[m].claim /\ msess' = [msess EXCEPT ![m].claim = FALSE]
    /\ UNCHANGED <<copy, account, mover, upload>>

-----------------------------------------------------------------------------
(* The mover.  sealed says that this placement's export ledger knows the   *)
(* transfer; the ledger's outcome ends the move before anything is asked.  *)
Rec == mover.rec
Export == copy[Home].exp[Rec].st
Sealed == Export # "none"
Stop(mv) == [mv EXCEPT !.pc = "idle", !.view = NoView]
Finish(outcome) == mover' = [Stop(mover) EXCEPT !.outcome = outcome]
Seen(v, pc) == mover' = [mover EXCEPT !.view = v, !.pc = pc]
Continue == mover' = [mover EXCEPT !.pc = "drive", !.view = NoView]

MoveStart(m) ==
    /\ mover.pc = "idle" /\ msess[m].st # "none"
    /\ \/ Rec = Nothing
       \/ Rec # m /\ mover.outcome # "none"
    /\ mover' = [NoMove EXCEPT !.rec = m, !.pc = "drive"]
    /\ UNCHANGED <<copy, msess, account, upload>>
MoveResume ==
    /\ mover.pc = "idle" /\ Rec # Nothing /\ mover.outcome = "none"
    /\ Continue
    /\ UNCHANGED <<copy, msess, account, upload>>

(* One turn of drive: the ledger's outcome, else the Cloud's status.       *)
DriveLedger ==
    /\ mover.pc = "drive" /\ Export \in {"completed", "aborted"}
    /\ Finish(Export)
    /\ UNCHANGED <<copy, msess, account, upload>>
DriveFetch ==
    /\ mover.pc = "drive" /\ Export \notin {"completed", "aborted"}
    /\ Settle(Rec, msess[Rec], copy[Cloud])
    /\ Seen(Answer(Rec, msess[Rec], copy[Cloud]), "act")
    /\ UNCHANGED <<account, upload>>

(* Not sealed yet. A URL that another secretary holds is discarded unless  *)
(* this Local was bound to it.                                             *)
Unsealed(pc) == mover.pc = pc /\ ~Sealed
RefusedURL ==
    /\ Unsealed("act") /\ mover.view.src \notin {Nothing, Home}
    /\ mover' = IF mover.bound THEN Stop(mover) ELSE NoMove
    /\ UNCHANGED <<copy, msess, account, upload>>
UnsealedEnd ==
    /\ Unsealed("act") \/ Unsealed("bound")
    /\ mover.view.src \in {Nothing, Home} \/ mover.pc = "bound"
    /\ \/ mover.view.st \in ClosedMove /\ Finish("cancelled_unsealed")
       \/ mover.view.st \notin {"awaiting"} \cup ClosedMove /\ mover' = Stop(mover)
    /\ UNCHANGED <<copy, msess, account, upload>>
BindSource ==
    /\ Unsealed("act") /\ mover.view.src \in {Nothing, Home} /\ mover.view.st = "awaiting"
    /\ LET r == Reconciled(Rec, msess[Rec], copy[Cloud])
           free == r.s.src = Nothing /\ r.s.st = "awaiting" /\ r.s.admit /\ ~account
           s == IF free THEN [r.s EXCEPT !.src = Home] ELSE r.s
           v == MoveView(Rec, s, r.c)
       IN /\ msess' = [msess EXCEPT ![Rec] = s]
          /\ copy' = [copy EXCEPT ![Cloud] = r.c]
          /\ mover' = CASE s.src = Home -> [mover EXCEPT !.view = v, !.pc = "bound", !.bound = TRUE]
                        [] s.src = Foreign -> (IF mover.bound THEN Stop(mover) ELSE NoMove)
                        [] s.src = Nothing /\ s.st \in ClosedMove -> [mover EXCEPT !.view = v, !.pc = "bound"]
                        [] OTHER -> Stop(mover)
    /\ UNCHANGED <<account, upload>>
(* seal: only after the Cloud answered that the URL is this Local's.       *)
MoveSeal ==
    /\ Unsealed("bound") /\ mover.view.st = "awaiting"
    /\ IF SealOK(copy[Home], Rec, Cloud)
       THEN copy' = [copy EXCEPT ![Home] = SealedCopy(@, Rec, Cloud)] /\ Continue
       ELSE UNCHANGED copy /\ mover' = Stop(mover)
    /\ UNCHANGED <<msess, account, upload>>

(* Sealed: send the bundle, wait, or end the seal with the Cloud's proof.  *)
Holding(statuses) == mover.pc = "act" /\ Sealed /\ mover.view.st \in statuses
UploadAdmit ==
    /\ Holding({"awaiting"})
    /\ LET r == Reconciled(Rec, msess[Rec], copy[Cloud])
           admitted == /\ r.s.st = "awaiting" /\ r.s.admit /\ r.s.src = Home
                       /\ ExportOK(copy[Home], Rec)
       IN /\ msess' = [msess EXCEPT ![Rec] = r.s]
          /\ copy' = [copy EXCEPT ![Cloud] = r.c]
          /\ IF admitted
             THEN /\ upload' = upload \cup {Bundle(copy[Home], Rec)}
                  /\ mover' = [mover EXCEPT !.pc = "sending", !.view = NoView]
             ELSE UNCHANGED upload /\ Continue
    /\ UNCHANGED account
UploadImport(b) ==
    /\ b \in upload
    /\ LET c == copy[Cloud]
       IN Settle(b.t, msess[b.t], IF ImportOK(c, Cloud, b, Nothing)
                                  THEN ImportedCopy(c, b, Nothing) ELSE c)
    /\ upload' = upload \ {b}
    /\ mover' = IF mover.pc = "sending" /\ Rec = b.t THEN [mover EXCEPT !.pc = "drive"] ELSE mover
    /\ UNCHANGED account
(* A bundle whose connection breaks is not imported. *)
UploadLost(b) ==
    /\ b \in upload
    /\ upload' = upload \ {b}
    /\ mover' = IF mover.pc = "sending" /\ Rec = b.t THEN [mover EXCEPT !.pc = "drive"] ELSE mover
    /\ UNCHANGED <<copy, msess, account>>
MoveWait ==
    /\ Holding({"staged", "provisioned"})
    /\ Continue
    /\ UNCHANGED <<copy, msess, account, upload>>
MoveComplete ==
    /\ Holding({"activated"})
    /\ IF mover.view.act /\ CompleteOK(copy[Home], Rec, copy[Cloud])
       THEN copy' = [copy EXCEPT ![Home] = CompletedCopy(@, Rec)] /\ Continue
       ELSE UNCHANGED copy /\ mover' = Stop(mover)
    /\ UNCHANGED <<msess, account, upload>>
MoveAbort ==
    /\ Holding(ClosedMove) /\ mover.view.ret
    /\ IF AbortOK(copy[Home], Rec, copy[Cloud])
       THEN copy' = [copy EXCEPT ![Home] = AbortedCopy(@, Rec)] /\ Continue
       ELSE UNCHANGED copy /\ mover' = Stop(mover)
    /\ UNCHANGED <<msess, account, upload>>
\* Mutant: the request does not carry the key, so no tombstone is written.
RequestRetireKeyless ==
    /\ Holding(ClosedMove) /\ ~mover.view.ret
    /\ LET refused == CancelRefused(Rec, "any") IN
       /\ Settle(Rec, Cancelled(Rec, "any"), copy[Cloud])
       /\ IF refused THEN mover' = Stop(mover) ELSE Continue
    /\ UNCHANGED <<account, upload>>
RequestRetire ==
    /\ Holding(ClosedMove) /\ ~mover.view.ret
    /\ LET refused == CancelRefused(Rec, "any") IN
       /\ Settle(Rec, Cancelled(Rec, "any"),
                 IF refused THEN copy[Cloud] ELSE GrantCancelled(Rec, TRUE))
       /\ IF refused THEN mover' = Stop(mover) ELSE Continue
    /\ UNCHANGED <<account, upload>>

(* Cancel, as its own command: forget a record nothing was bound to, ask   *)
(* the Cloud when bound (an unreachable Cloud does not matter while        *)
(* nothing is sealed), and end a seal only with the retirement proof.      *)
Idle == mover.pc = "idle" /\ Rec # Nothing /\ mover.outcome = "none"
CancelUnbound ==
    /\ Idle /\ ~Sealed /\ ~mover.bound
    /\ mover' = NoMove
    /\ UNCHANGED <<copy, msess, account, upload>>
CancelUnsealed ==
    /\ Idle /\ ~Sealed /\ mover.bound
    /\ \/ /\ Settle(Rec, Cancelled(Rec, "any"), copy[Cloud])
          /\ IF CancelRefused(Rec, "any") THEN UNCHANGED mover ELSE Finish("cancelled_unsealed")
       \/ UNCHANGED <<copy, msess>> /\ Finish("cancelled_unsealed")
    /\ UNCHANGED <<account, upload>>
CancelSealed ==
    /\ Idle /\ Sealed
    /\ IF Export \in {"completed", "aborted"}
       THEN Finish(Export) /\ UNCHANGED <<copy, msess>>
       ELSE LET refused == CancelRefused(Rec, "any")
                r == Reconciled(Rec, Cancelled(Rec, "any"),
                                IF refused THEN copy[Cloud] ELSE GrantCancelled(Rec, TRUE))
                aborts == ~refused /\ AbortOK(copy[Home], Rec, r.c)
            IN /\ msess' = [msess EXCEPT ![Rec] = r.s]
               /\ copy' = [copy EXCEPT ![Cloud] = r.c,
                                       ![Home] = IF aborts THEN AbortedCopy(@, Rec) ELSE @]
               /\ IF aborts THEN Finish("aborted") ELSE UNCHANGED mover
    /\ UNCHANGED <<account, upload>>

(* The mover stops at any point: killed, or its request or answer lost.    *)
MoverStops ==
    /\ mover.pc # "idle"
    /\ mover' = Stop(mover)
    /\ UNCHANGED <<copy, msess, account, upload>>

-----------------------------------------------------------------------------
MoveInit ==
    /\ msess = [m \in Moves |-> NoSession]
    /\ account = FALSE
    /\ mover = NoMove
    /\ upload = {}

CloudMoveNext ==
    \E m \in Moves :
        \/ CreateMove(m) \/ ForeignBind(m) \/ MoveSweep(m) \/ MoveDeadline(m)
        \/ \E expect \in {"any", "awaiting", "staged"} : CancelBySubject(m, expect)
        \/ ClaimAndProvision(m)
MoverStep ==
    \/ DriveLedger \/ DriveFetch \/ RefusedURL \/ UnsealedEnd \/ BindSource \/ MoveSeal
    \/ UploadAdmit \/ MoveWait \/ MoveComplete \/ MoveAbort \/ RequestRetire
MoverNext ==
    \/ \E m \in Moves : MoveStart(m)
    \/ MoveResume \/ MoverStep \/ MoverStops
    \/ CancelUnbound \/ CancelUnsealed \/ CancelSealed
UploadNext == \E b \in upload : UploadImport(b) \/ UploadLost(b)
MoveNext == CloudMoveNext \/ RegisterFresh \/ MoverNext \/ UploadNext

MoveTypeOK ==
    /\ msess \in [Moves -> [st : MoveStatuses, src : {Nothing, Home, Foreign},
                            admit : BOOLEAN, claim : BOOLEAN]]
    /\ account \in BOOLEAN
    /\ mover.rec \in Moves \cup {Nothing}
    /\ mover.outcome \in {"none", "completed", "aborted", "cancelled_unsealed"}
    /\ mover.pc \in {"idle", "drive", "act", "bound", "sending"}
    /\ \A b \in upload : b.t \in Moves
=============================================================================
