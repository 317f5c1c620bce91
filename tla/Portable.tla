---------------------------- MODULE Portable ----------------------------
(***************************************************************************)
(* The portable state of one secretary at one placement (portable/         *)
(* service.go and bundle.go): the persona row with its authority and the   *)
(* transfer that holds it, the writer lease's epoch, and the two transfer  *)
(* ledgers.  A placement's state is ONE record, a copy, and every          *)
(* operation is a precondition together with the copy it commits, so that  *)
(* the session services can compose them inside their own transactions.    *)
(*                                                                         *)
(* A proof is the HMAC of a transfer under its key, and only the ledger of *)
(* the addressed destination produces it; so "d's ledger says activated"   *)
(* stands for the activation proof and "retired" for the retirement proof. *)
(* Carried rows are abstracted to lived, the number of commits in them.    *)
(***************************************************************************)
EXTENDS Naturals, FiniteSets

CONSTANTS
    Places,      \* placements: the Cloud and the Local installs
    Cloud,       \* the Cloud placement
    Transfers,   \* transfer ids
    Nothing      \* the NULL of the model: no transfer, no placement

ASSUME PortableAssumption == Nothing \notin Places \cup Transfers /\ Cloud \in Places

VARIABLE copy   \* the secretary's copy at each placement

Authorities == {"absent", "active", "sealed", "transferred", "staged"}
ExportStatuses == {"none", "sealed", "completed", "aborted"}
ImportStatuses == {"none", "staged", "activated", "retired"}
Approvals == {"none", "pending", "approved"}

NoExport == [st |-> "none", dest |-> Nothing]
NoImport == [st |-> "none", content |-> FALSE, over |-> Nothing]

(* The copy of a placement that never had this secretary, and the copy of  *)
(* the placement where it lives.                                           *)
AbsentCopy == [auth |-> "absent", hold |-> Nothing, lived |-> 0, epoch |-> 0,
               busy |-> FALSE, human |-> FALSE, appr |-> "none",
               exp |-> [t \in Transfers |-> NoExport],
               imp |-> [t \in Transfers |-> NoImport]]
ActiveCopy(human) == [AbsentCopy EXCEPT !.auth = "active", !.epoch = 1,
                                        !.lived = 1, !.human = human]

HeldBy(c, t) == c.hold = t

-----------------------------------------------------------------------------
(* Seal: a replay returns the receipt of the same destination; a new seal  *)
(* needs an active copy that holds no unresolved work, raises the          *)
(* generation, parks the lease and records the export.                     *)
UnresolvedWork(c) == c.busy
CheckSealable(c) == c.auth = "active" /\ ~UnresolvedWork(c)
SealReplays(c, t, d) == c.exp[t].st \in {"sealed", "completed"} /\ c.exp[t].dest = d
SealOK(c, t, d) == \/ SealReplays(c, t, d)
                   \/ c.exp[t].st = "none" /\ CheckSealable(c)
SealedCopy(c, t, d) ==
    IF SealReplays(c, t, d) THEN c
    ELSE [c EXCEPT !.auth = "sealed", !.hold = t, !.epoch = @ + 1,
                   !.exp[t] = [st |-> "sealed", dest |-> d]]

(* Complete and Abort end a seal with the proof of the destination the     *)
(* export recorded; dst is the copy at that destination.                   *)
Activated(dst, t) == dst.imp[t].st = "activated"
Retired(dst, t) == dst.imp[t].st = "retired"
CompleteOK(c, t, dst) == \/ c.exp[t].st = "completed"
                         \/ /\ c.exp[t].st = "sealed" /\ c.auth = "sealed"
                            /\ HeldBy(c, t) /\ Activated(dst, t)
CompletedCopy(c, t) ==
    IF c.exp[t].st = "completed" THEN c
    ELSE [c EXCEPT !.auth = "transferred", !.exp[t].st = "completed"]
AbortOK(c, t, dst) == \/ c.exp[t].st = "aborted"
                      \/ /\ c.exp[t].st = "sealed" /\ c.auth = "sealed"
                         /\ HeldBy(c, t) /\ Retired(dst, t)
AbortedCopy(c, t) ==
    IF c.exp[t].st = "aborted" THEN c
    ELSE [c EXCEPT !.auth = "active", !.hold = Nothing, !.exp[t].st = "aborted"]

-----------------------------------------------------------------------------
(* Export reads a sealed copy; the bundle carries the rows, the generation *)
(* of the cut and the approvals.                                           *)
ExportOK(c, t) == c.exp[t].st = "sealed" /\ c.auth = "sealed" /\ HeldBy(c, t)
Bundle(c, t) == [t |-> t, dest |-> c.exp[t].dest, lived |-> c.lived,
                 epoch |-> c.epoch, appr |-> c.appr]

(* Reclaim: only the surrendered copy of the completed export that the     *)
(* caller names may be replaced.                                           *)
PrepareReclaimOK(c, over) == /\ over \in Transfers
                             /\ c.auth = "transferred" /\ HeldBy(c, over)
                             /\ c.exp[over].st = "completed"

(* Import: the ledger decides first (a replay of a staged or activated     *)
(* transfer changes nothing, a retired one is refused), then the persona   *)
(* row: absent, or reclaimable.  The epoch floor is the generation of the  *)
(* cut, and grants approved under another human become pending again.      *)
ImportReplays(c, b) == c.imp[b.t].st \in {"staged", "activated"}
\* Mutant: the bundle's destination is not compared with this placement.
ImportOKAnywhere(c, p, b, over) ==
    \/ ImportReplays(c, b)
    \/ c.imp[b.t].st = "none" /\ (c.auth = "absent" \/ PrepareReclaimOK(c, over))
ImportOK(c, p, b, over) ==
    /\ b.dest = p
    /\ \/ ImportReplays(c, b)
       \/ c.imp[b.t].st = "none" /\ (c.auth = "absent" \/ PrepareReclaimOK(c, over))
StagedCopy(c, b, over) ==
    [c EXCEPT !.auth = "staged", !.hold = b.t, !.lived = b.lived,
              !.epoch = b.epoch, !.human = FALSE, !.busy = FALSE,
              !.appr = IF b.appr = "approved" THEN "pending" ELSE b.appr,
              !.imp[b.t] = [st |-> "staged", content |-> TRUE,
                            over |-> IF c.auth = "absent" THEN Nothing ELSE over]]
ImportedCopy(c, b, over) == IF ImportReplays(c, b) THEN c ELSE StagedCopy(c, b, over)

(* Activate: an unbound copy with a pending approval is refused, for       *)
(* nobody could decide it.                                                 *)
ActivateOK(c, t) ==
    \/ Activated(c, t)
    \/ /\ c.imp[t].st = "staged" /\ c.auth = "staged" /\ HeldBy(c, t)
       /\ c.human \/ c.appr # "pending"
ActivatedCopy(c, t) ==
    IF Activated(c, t) THEN c
    ELSE [c EXCEPT !.auth = "active", !.imp[t].st = "activated"]

(* Retire: a staged import is deleted, or a staged reclaim goes back to    *)
(* the surrender it replaced; a transfer that never arrived is answered by *)
(* a tombstone, which needs the key and is refused at its own source.      *)
RefuseOwnSource(c, t) == c.exp[t].st # "none"
BareTombstone(c, t) == Retired(c, t) /\ ~c.imp[t].content
RetireOK(c, t, key) ==
    \/ BareTombstone(c, t) /\ key
    \/ Retired(c, t) /\ c.imp[t].content
    \/ c.imp[t].st = "staged" /\ c.auth = "staged" /\ HeldBy(c, t)
    \/ c.imp[t].st = "none" /\ key /\ ~RefuseOwnSource(c, t)
RetiredCopy(c, t) ==
    IF Retired(c, t) THEN c
    ELSE IF c.imp[t].st = "none" THEN [c EXCEPT !.imp[t].st = "retired"]
    ELSE IF c.imp[t].over = Nothing
         THEN [AbsentCopy EXCEPT !.exp = c.exp,
                                 !.imp = [c.imp EXCEPT ![t].st = "retired"]]
         ELSE [c EXCEPT !.auth = "transferred", !.hold = c.imp[t].over, !.epoch = 0,
                       !.lived = 0, !.appr = "none", !.imp[t].st = "retired"]

-----------------------------------------------------------------------------
(* What an active copy does between transfers (agentstate): a runtime      *)
(* takes the writer lease, which raises the epoch, and commits; work       *)
(* starts and ends; a tool call asks for approval and is decided.          *)
Live(p) == /\ copy[p].auth = "active"
           /\ copy' = [copy EXCEPT ![p].epoch = @ + 1, ![p].lived = @ + 1]
Work(p) == /\ copy[p].auth = "active"
           /\ copy' = [copy EXCEPT ![p].busy = ~@]
Ask(p) == /\ copy[p].auth = "active"
          /\ copy' = [copy EXCEPT ![p].appr = CASE @ = "none" -> "pending"
                                                [] @ = "pending" -> "approved"
                                                [] OTHER -> "none"]

Copies == [auth : Authorities, hold : Transfers \cup {Nothing},
           lived : Nat, epoch : Nat, busy : BOOLEAN, human : BOOLEAN,
           appr : Approvals,
           exp : [Transfers -> [st : ExportStatuses, dest : Places \cup {Nothing}]],
           imp : [Transfers -> [st : ImportStatuses, content : BOOLEAN,
                                over : Transfers \cup {Nothing}]]]
=============================================================================
