-------------------------- MODULE ReturnSession --------------------------
(***************************************************************************)
(* Bringing a secretary home from the Cloud to a Local install: the        *)
(* Cloud's return sessions (returnsession/service.go, terminal.go), the    *)
(* mutation barrier they put on the secretary's workspace at the file      *)
(* service, the storage credentials they mint, and the command that drives *)
(* a return on a Local install (cmd/local-move/bringhome.go).              *)
(*                                                                         *)
(* A session's id is the export's transfer id.  Three things are not       *)
(* atomic in the code and not in the model: a bind records the destination *)
(* in one transaction and seals in a second, which puts the barrier up at  *)
(* the file service before it commits; a reconcile first moves the status  *)
(* and then converges the file side, which may fail or be cut off by a     *)
(* crash; and the Local command acts on the last view it fetched.          *)
(***************************************************************************)
EXTENDS Portable

CONSTANTS
    Returns,   \* the transfer ids of return sessions
    Locals     \* the Local installs a return may be driven from

ASSUME ReturnAssumption == Returns \subseteq Transfers /\ Locals \subseteq Places \ {Cloud}

VARIABLES
    rsess,     \* the Cloud's return session of each return
    sealing,   \* where the bind request of a session is, if one is running
    conv,      \* sessions whose reconcile still has to converge the files
    barrier,   \* the file service's barrier: the lineage epoch, up or not
    tokens,    \* active storage credentials: <<session, placement>>
    term,      \* the writer of a terminal session in the Cloud's runtime
    returner   \* the command at each Local: state file, counter, last view

returnVars == <<rsess, sealing, conv, barrier, tokens, term, returner>>

ReturnStatuses == {"none", "awaiting", "sealed", "cancelling", "completed",
                   "aborted", "cancelled", "expired"}
OpenReturn == {"awaiting", "sealed", "cancelling"}
DeadReturn == {"cancelled", "aborted", "expired"}

NoReturn == [st |-> "none", dest |-> Nothing, mode |-> "local", epoch |-> 0, live |-> TRUE]
NoReturner == [rec |-> Nothing, outcome |-> "none", pc |-> "idle", view |-> "none",
               held |-> {}, files |-> FALSE]

Bound(r) == rsess[r].dest # Nothing
LocalMode(r) == rsess[r].mode = "local"
Exported(r) == copy[Cloud].exp[r].st # "none"
RowFree(r) == sealing[r] # "fenced"   \* a seal attempt holds the row's lock

(* The session that decides where the working store lives: the newest      *)
(* bound one that has not died.                                            *)
FileStoreOwner ==
    LET c == {r \in Returns : Bound(r) /\ rsess[r].st \notin {"none"} \cup DeadReturn}
    IN IF c = {} THEN Nothing
       ELSE CHOOSE r \in c : \A q \in c : rsess[q].epoch <= rsess[r].epoch

(* SetScopeFrozen at the file service: a lineage older than the recorded   *)
(* one can neither assert nor release.                                     *)
FreezeOK(b, epoch) == b.epoch <= epoch
Frozen(b, epoch) == IF FreezeOK(b, epoch) THEN [epoch |-> epoch, up |-> TRUE] ELSE b
Thawed(b, epoch) == IF b.up /\ FreezeOK(b, epoch) THEN [epoch |-> epoch, up |-> FALSE] ELSE b

-----------------------------------------------------------------------------
(* The status half of Reconcile: the session follows the export ledger, an *)
(* unbound session expires, a cancel that never sealed ends.               *)
StatusOf(r, s, c) ==
    LET e == c.exp[r].st IN
    CASE s.st = "awaiting" /\ e # "none" -> "sealed"
      [] s.st = "awaiting" /\ e = "none" /\ ~s.live /\ s.dest = Nothing -> "expired"
      [] s.st \in {"sealed", "cancelling"} /\ e \in {"completed", "aborted"} -> e
      [] s.st = "cancelling" /\ e = "none" -> "cancelled"
      [] OTHER -> s.st
(* A handler that leaves session r at s and the Cloud's copy at c, and     *)
(* reconciles: the convergence of the file side is still to come.          *)
ReconcileTo(r, s, c) ==
    /\ rsess' = [rsess EXCEPT ![r] = [s EXCEPT !.st = StatusOf(r, s, c)]]
    /\ copy' = [copy EXCEPT ![Cloud] = c]
    /\ conv' = conv \cup {r}
Reconcile(r) == ReconcileTo(r, rsess[r], copy[Cloud])

(* The file half: a dead session's credentials are revoked; only the       *)
(* owning session moves the barrier, unless there is no owner left, and    *)
(* then every barrier a dead session left is released.  A bound session    *)
(* that has not sealed owns no barrier.  The file service may not answer.  *)
TokensLeft(r) ==
    LET s == rsess[r] IN
    CASE s.st \in DeadReturn -> {k \in tokens : k[1] # r}
      [] s.st = "completed" /\ LocalMode(r) /\ FileStoreOwner = r -> {}
      [] OTHER -> tokens
NewestEpoch == LET es == {rsess[q].epoch : q \in Returns}
               IN CHOOSE e \in es : \A f \in es : f <= e
\* Mutant: the release does not wait for a seal attempt that holds the row.
ConvergedUnlocked(r) ==
    LET s == rsess[r] IN
    CASE FileStoreOwner = Nothing -> Thawed(barrier, NewestEpoch)
      [] FileStoreOwner \notin {Nothing, r} -> barrier
      [] FileStoreOwner = r /\ LocalMode(r) /\ s.st \in {"sealed", "cancelling", "completed"} -> Frozen(barrier, s.epoch)
      [] OTHER -> Thawed(barrier, s.epoch)
Converged(r) ==
    LET s == rsess[r] IN
    CASE FileStoreOwner = Nothing -> Thawed(barrier, NewestEpoch)
      [] FileStoreOwner \notin {Nothing, r} -> barrier
      [] FileStoreOwner = r /\ LocalMode(r) /\ s.st = "awaiting" ->
             IF RowFree(r) /\ ~Exported(r) THEN Thawed(barrier, s.epoch) ELSE barrier
      [] FileStoreOwner = r /\ LocalMode(r) /\ s.st \in {"sealed", "cancelling", "completed"} -> Frozen(barrier, s.epoch)
      [] OTHER -> Thawed(barrier, s.epoch)
Converge(r, reached) ==
    /\ r \in conv
    /\ conv' = conv \ {r}
    /\ tokens' = TokensLeft(r)
    /\ barrier' = IF reached THEN Converged(r) ELSE barrier
    /\ UNCHANGED <<copy, rsess, sealing, term, returner>>

-----------------------------------------------------------------------------
(* The owner's side of a session. *)
CreateReturn(r, mode) ==
    /\ rsess[r].st = "none"
    /\ copy[Cloud].auth = "active" /\ copy[Cloud].human
    /\ \A q \in Returns : rsess[q].st \notin OpenReturn
    /\ rsess' = [rsess EXCEPT ![r] = [NoReturn EXCEPT !.st = "awaiting", !.mode = mode,
                    !.epoch = 1 + Cardinality({q \in Returns : rsess[q].st # "none"})]]
    /\ UNCHANGED <<copy, sealing, conv, barrier, tokens, term, returner>>

(* cancel, under the row lock, then reconciled: unbound ends at once,      *)
(* bound or sealed waits for the destination's proof.                      *)
CancelledReturn(r) ==
    LET s == rsess[r] IN
    CASE s.st = "awaiting" /\ s.dest = Nothing -> [s EXCEPT !.st = "cancelled"]
      [] s.st = "sealed" \/ (s.st = "awaiting" /\ s.dest # Nothing) -> [s EXCEPT !.st = "cancelling"]
      [] OTHER -> s
CancelByOwner(r) ==
    /\ rsess[r].st \in OpenReturn /\ RowFree(r)
    /\ ReconcileTo(r, CancelledReturn(r), copy[Cloud])
    /\ UNCHANGED <<sealing, barrier, tokens, term, returner>>
RevokeTokens ==
    /\ tokens # {} /\ tokens' = {}
    /\ UNCHANGED <<copy, rsess, sealing, conv, barrier, term, returner>>
ReturnDeadline(r) ==
    /\ rsess[r].st = "awaiting" /\ rsess[r].live /\ RowFree(r)
    /\ rsess' = [rsess EXCEPT ![r].live = FALSE]
    /\ UNCHANGED <<copy, sealing, conv, barrier, tokens, term, returner>>

(* The sweep: sessions with a due step, and bound local-mode sessions that *)
(* wait unsealed, whose barrier may be stranded.                           *)
ReturnSweepDue(r) == rsess[r].st # "none" /\ StatusOf(r, rsess[r], copy[Cloud]) # rsess[r].st
ReturnSweep(r) ==
    /\ ReturnSweepDue(r) /\ RowFree(r)
    /\ Reconcile(r)
    /\ UNCHANGED <<sealing, barrier, tokens, term, returner>>
SweepStrandedFences(r) ==
    /\ rsess[r].st = "awaiting" /\ Bound(r) /\ LocalMode(r) /\ ~Exported(r)
    /\ conv' = conv \cup {r}
    /\ UNCHANGED <<copy, rsess, sealing, barrier, tokens, term, returner>>

-----------------------------------------------------------------------------
(* The bind request after its first transaction: the second takes the row  *)
(* lock, checks again, puts the barrier up (the call may fail after the    *)
(* barrier is up) and only then seals.                                     *)
SealBegin(r) ==
    /\ sealing[r] = "bound"
    /\ LET ok == /\ rsess[r].st \in {"awaiting", "sealed"}
                 /\ Exported(r) \/ CheckSealable(copy[Cloud])
       IN IF ~ok THEN sealing' = [sealing EXCEPT ![r] = "no"] /\ UNCHANGED barrier
          ELSE /\ sealing' = [sealing EXCEPT ![r] = "fenced"]
               /\ barrier' = IF LocalMode(r) THEN Frozen(barrier, rsess[r].epoch) ELSE barrier
    /\ UNCHANGED <<copy, rsess, conv, tokens, term, returner>>
(* quiesceTerminalWriters: an attached terminal refuses the seal, a        *)
(* detached one is cancelled and its writer has to be proved stopped.      *)
SealCommit(r) ==
    /\ sealing[r] = "fenced" /\ (LocalMode(r) => FreezeOK(barrier, rsess[r].epoch))
    /\ term # "attached" /\ SealOK(copy[Cloud], r, rsess[r].dest)
    /\ term' = "none"
    /\ copy' = [copy EXCEPT ![Cloud] = SealedCopy(@, r, rsess[r].dest)]
    /\ rsess' = [rsess EXCEPT ![r].st = "sealed"]
    /\ sealing' = [sealing EXCEPT ![r] = "no"]
    /\ UNCHANGED <<conv, barrier, tokens, returner>>
(* Any refusal rolls back and takes the barrier down again, if the file    *)
(* service answers.                                                        *)
SealRefused(r, reached) ==
    /\ sealing[r] = "fenced"
    /\ sealing' = [sealing EXCEPT ![r] = "no"]
    /\ barrier' = IF reached /\ LocalMode(r) /\ rsess[r].st = "awaiting" /\ ~Exported(r)
                  THEN Thawed(barrier, rsess[r].epoch) ELSE barrier
    /\ UNCHANGED <<copy, rsess, conv, tokens, term, returner>>
(* A crash of the Cloud's process: the transaction and its lock are gone,  *)
(* the barrier is not, and a convergence under way is forgotten.           *)
CloudCrash ==
    /\ conv # {} \/ \E r \in Returns : sealing[r] # "no"
    /\ conv' = {}
    /\ sealing' = [r \in Returns |-> "no"]
    /\ UNCHANGED <<copy, rsess, barrier, tokens, term, returner>>

(* The terminal's client attaches and leaves; only an active secretary's   *)
(* terminal opens.                                                         *)
TerminalAttach ==
    /\ copy[Cloud].auth = "active" /\ term # "attached" /\ term' = "attached"
    /\ UNCHANGED <<copy, rsess, sealing, conv, barrier, tokens, returner>>
TerminalDetach ==
    /\ term = "attached" /\ term' = "detached"
    /\ UNCHANGED <<copy, rsess, sealing, conv, barrier, tokens, returner>>

-----------------------------------------------------------------------------
(* The command at a Local install l.  ReturnFetch is Status: it reconciles *)
(* the session and answers its status.                                     *)
At(l) == returner[l]
Ses(l) == returner[l].rec
Imp(l) == copy[l].imp[Ses(l)].st
Acting(l, statuses) == At(l).pc = "act" /\ At(l).view \in statuses
Again(l) == returner' = [returner EXCEPT ![l].pc = "drive", ![l].view = "none"]
EndAt(l, outcome) ==
    returner' = [returner EXCEPT ![l].outcome = outcome, ![l].pc = "idle", ![l].view = "none"]
Pend(l) == returner' = [returner EXCEPT ![l].pc = "idle", ![l].view = "none"]
LocalOnly == UNCHANGED <<rsess, sealing, conv, barrier, tokens, term>>
LocalStep == LocalOnly /\ UNCHANGED copy

ReturnStart(l, r) ==
    /\ At(l).pc = "idle" /\ rsess[r].st # "none" /\ Ses(l) # r
    /\ Ses(l) = Nothing \/ At(l).outcome # "none"
    /\ returner' = [returner EXCEPT ![l] = [NoReturner EXCEPT !.rec = r, !.pc = "drive"]]
    /\ LocalStep
ReturnResume(l) ==
    /\ At(l).pc = "idle" /\ Ses(l) # Nothing /\ At(l).outcome \in {"none", "elsewhere"}
    /\ Again(l) /\ LocalStep
ReturnFetch(l) ==
    /\ At(l).pc = "drive" /\ RowFree(Ses(l))
    /\ Reconcile(Ses(l))
    /\ returner' = [returner EXCEPT ![l].pc = "act",
                       ![l].view = StatusOf(Ses(l), rsess[Ses(l)], copy[Cloud])]
    /\ UNCHANGED <<sealing, barrier, tokens, term>>

(* An activated or retired import is reported before anything else.        *)
ReportActivated(l) ==
    /\ Acting(l, {"sealed", "cancelling"}) /\ Imp(l) = "activated" /\ RowFree(Ses(l))
    /\ LET r == Ses(l)
           c == copy[Cloud]
           ends == rsess[r].st \in {"sealed", "cancelling"} /\ CompleteOK(c, r, copy[l])
       IN ReconcileTo(r, rsess[r], IF ends THEN CompletedCopy(c, r) ELSE c)
    /\ Again(l)
    /\ UNCHANGED <<sealing, barrier, tokens, term>>
\* Mutant: a retirement is believed whoever reports it.
ReportRetiredAnywhere(l) ==
    /\ Acting(l, {"sealed", "cancelling"}) /\ Imp(l) = "retired" /\ RowFree(Ses(l))
    /\ LET r == Ses(l)
           c == copy[Cloud]
           ends == rsess[r].st \in {"sealed", "cancelling"} /\ AbortOK(c, r, copy[l])
       IN /\ ReconcileTo(r, rsess[r], IF ends THEN AbortedCopy(c, r) ELSE c)
          /\ IF ends \/ rsess[r].st \notin OpenReturn THEN Again(l) ELSE Pend(l)
    /\ UNCHANGED <<sealing, barrier, tokens, term>>
ReportRetired(l) ==
    /\ Acting(l, {"sealed", "cancelling"}) /\ Imp(l) = "retired" /\ RowFree(Ses(l))
    /\ LET r == Ses(l)
           c == copy[Cloud]
           ends == /\ rsess[r].st \in {"sealed", "cancelling"} /\ rsess[r].dest = l
                   /\ AbortOK(c, r, copy[l])
       IN /\ ReconcileTo(r, rsess[r], IF ends THEN AbortedCopy(c, r) ELSE c)
          /\ IF ends \/ rsess[r].st \notin OpenReturn THEN Again(l) ELSE Pend(l)
    /\ UNCHANGED <<sealing, barrier, tokens, term>>

(* slotState and bind: only an absent or a surrendered slot may receive;   *)
(* the Cloud records the first destination and keeps it.                   *)
SlotFree(l) == copy[l].auth \in {"absent", "transferred"}
ReturnBind(l) ==
    /\ Acting(l, {"awaiting"}) /\ RowFree(Ses(l))
    /\ LET r == Ses(l)
           s == [rsess[r] EXCEPT !.st = StatusOf(r, rsess[r], copy[Cloud])]
           free == s.dest = Nothing /\ s.st = "awaiting" /\ s.live
           ours == free \/ (s.dest = l /\ s.st \notin {"cancelled", "expired"})
           goes == SlotFree(l) /\ ours /\ sealing[r] = "no"
       IN /\ rsess' = [rsess EXCEPT ![r] = IF SlotFree(l) /\ free THEN [s EXCEPT !.dest = l] ELSE s]
          /\ sealing' = IF goes THEN [sealing EXCEPT ![r] = "bound"] ELSE sealing
          /\ conv' = conv \cup {r}
          /\ IF goes THEN Again(l) ELSE Pend(l)
    /\ UNCHANGED <<copy, barrier, tokens, term>>
(* downloadAndImport: the bundle is only served while the session is       *)
(* sealed; a file that survives is not fetched again; the import checks    *)
(* the slot again and names the hold it reclaims.                          *)
Download(l) ==
    /\ Acting(l, {"sealed"}) /\ Imp(l) = "none" /\ At(l).held = {}
    /\ IF rsess[Ses(l)].st = "sealed" /\ ExportOK(copy[Cloud], Ses(l))
       THEN returner' = [returner EXCEPT ![l].held = {Bundle(copy[Cloud], Ses(l))}]
       ELSE Pend(l)
    /\ LocalStep
ImportReturning(l) ==
    /\ Acting(l, {"sealed"}) /\ Imp(l) = "none" /\ At(l).held # {}
    /\ \E b \in At(l).held :
          LET over == IF copy[l].auth = "transferred" THEN copy[l].hold ELSE Nothing IN
          IF SlotFree(l) /\ ImportOK(copy[l], l, b, over)
          THEN copy' = [copy EXCEPT ![l] = ImportedCopy(@, b, over)] /\ Again(l)
          ELSE UNCHANGED copy /\ Pend(l)
    /\ LocalOnly
(* A bundle file that fails its integrity check is dropped and fetched     *)
(* again.                                                                  *)
DiscardBundle(l) ==
    /\ Acting(l, {"sealed"}) /\ Imp(l) = "none" /\ At(l).held # {}
    /\ returner' = [returner EXCEPT ![l].held = {}, ![l].pc = "drive", ![l].view = "none"]
    /\ LocalStep

(* filesPhase: the workspace is carried, or the storage credential minted, *)
(* before the copy may activate.                                           *)
MintOK(r) == /\ rsess[r].mode = "cloud" /\ Bound(r)
             /\ rsess[r].st \in {"sealed", "completed"} /\ FileStoreOwner = r
Minted(r) == {k \in tokens : k[2] # rsess[r].dest} \cup {<<r, rsess[r].dest>>}
FilesPhase(l) ==
    /\ Acting(l, {"sealed"}) /\ Imp(l) = "staged" /\ ~At(l).files /\ RowFree(Ses(l))
    /\ IF LocalMode(Ses(l)) THEN UNCHANGED tokens
       ELSE IF MintOK(Ses(l)) THEN tokens' = Minted(Ses(l)) ELSE UNCHANGED tokens
    /\ IF LocalMode(Ses(l)) \/ MintOK(Ses(l))
       THEN returner' = [returner EXCEPT ![l].files = TRUE] ELSE Pend(l)
    /\ UNCHANGED <<copy, rsess, sealing, conv, barrier, term>>
(* activate: a pending approval nobody here can decide leaves the return   *)
(* pending.                                                                *)
ActivateHere(l) ==
    /\ Acting(l, {"sealed"}) /\ Imp(l) = "staged" /\ At(l).files
    /\ IF ActivateOK(copy[l], Ses(l))
       THEN copy' = [copy EXCEPT ![l] = ActivatedCopy(@, Ses(l))] /\ UNCHANGED returner
       ELSE UNCHANGED copy /\ Pend(l)
    /\ LocalOnly
(* A cancelled return retires what it staged, or writes the tombstone.     *)
RetireHere(l) ==
    /\ Acting(l, {"cancelling"}) /\ Imp(l) \in {"staged", "none"}
    /\ IF RetireOK(copy[l], Ses(l), TRUE)
       THEN /\ copy' = [copy EXCEPT ![l] = RetiredCopy(@, Ses(l))]
            /\ returner' = [returner EXCEPT ![l].files = FALSE]
       ELSE UNCHANGED copy /\ Pend(l)
    /\ LocalOnly
FinishReturn(l) ==
    /\ \/ Acting(l, {"completed"}) /\ EndAt(l, IF Imp(l) = "activated" THEN "active" ELSE "elsewhere")
       \/ Acting(l, DeadReturn) /\ EndAt(l, At(l).view)
    /\ LocalStep
ReturnCancel(l) ==
    /\ At(l).pc = "idle" /\ Ses(l) # Nothing /\ At(l).outcome \notin {"active", "elsewhere"}
    /\ Imp(l) # "activated" /\ RowFree(Ses(l))
    /\ ReconcileTo(Ses(l), CancelledReturn(Ses(l)), copy[Cloud])
    /\ returner' = [returner EXCEPT ![l].outcome = "none", ![l].pc = "drive", ![l].files = FALSE]
    /\ UNCHANGED <<sealing, barrier, tokens, term>>
ReturnerStops(l) ==
    /\ At(l).pc # "idle" /\ Pend(l)
    /\ LocalStep

-----------------------------------------------------------------------------
ReturnInit ==
    /\ rsess = [r \in Returns |-> NoReturn]
    /\ sealing = [r \in Returns |-> "no"]
    /\ conv = {} /\ tokens = {} /\ term = "none"
    /\ barrier = [epoch |-> 0, up |-> FALSE]
    /\ returner = [l \in Locals |-> NoReturner]

CloudReturnNext ==
    \/ \E r \in Returns :
        \/ \E mode \in {"local", "cloud"} : CreateReturn(r, mode)
        \/ CancelByOwner(r) \/ ReturnDeadline(r) \/ ReturnSweep(r) \/ SweepStrandedFences(r)
        \/ SealBegin(r) \/ SealCommit(r)
        \/ \E reached \in BOOLEAN : SealRefused(r, reached) \/ Converge(r, reached)
    \/ RevokeTokens \/ CloudCrash
ReturnerStep(l) ==
    \/ ReturnFetch(l) \/ ReportActivated(l) \/ ReportRetired(l) \/ ReturnBind(l)
    \/ Download(l) \/ ImportReturning(l) \/ FilesPhase(l)
    \/ ActivateHere(l) \/ RetireHere(l) \/ FinishReturn(l)
ReturnerNext ==
    \E l \in Locals :
        \/ \E r \in Returns : ReturnStart(l, r)
        \/ ReturnResume(l) \/ ReturnerStep(l) \/ DiscardBundle(l)
        \/ ReturnCancel(l) \/ ReturnerStops(l)
ReturnNext == CloudReturnNext \/ ReturnerNext

ReturnTypeOK ==
    /\ rsess \in [Returns -> [st : ReturnStatuses, dest : Locals \cup {Nothing},
                              mode : {"local", "cloud"}, epoch : Nat, live : BOOLEAN]]
    /\ sealing \in [Returns -> {"no", "bound", "fenced"}]
    /\ conv \subseteq Returns /\ tokens \subseteq Returns \X Locals
    /\ barrier \in [epoch : Nat, up : BOOLEAN]
    /\ term \in {"none", "attached", "detached"}
    /\ \A l \in Locals : /\ returner[l].rec \in Returns \cup {Nothing}
                         /\ returner[l].pc \in {"idle", "drive", "act"}
=============================================================================
