--------------------------- MODULE CustodyProofs ---------------------------
(***************************************************************************)
(* What the transfers' operations on the portable copies preserve, stated  *)
(* for any function from placements to copies, so that a handler that      *)
(* composes several operations in one transaction is a chain of the lemmas *)
(* of this module.                                                         *)
(***************************************************************************)
EXTENDS SecretaryMoves, TLAPS

\* The placement a transfer leaves.
Src(t) == IF t \in Moves THEN Home ELSE Cloud
\* The placements it may be addressed to.
Dests(t) == IF t \in Moves THEN {Cloud} ELSE Locals

\* Exports are recorded at their source only, with a proper destination.
ExportsAtSource(cp) ==
    \A p \in Places, t \in Transfers : cp[p].exp[t].st # "none" =>
        /\ p = Src(t) /\ t \in Moves \cup Returns
        /\ cp[p].exp[t].dest \in Dests(t)
\* The persona row and the two ledgers of a placement say the same.
RowFollowsLedgers(cp) ==
    \A p \in Places :
        /\ cp[p].auth \in {"sealed", "staged"} => cp[p].hold \in Transfers
        /\ \A t \in Transfers :
             /\ (cp[p].exp[t].st = "sealed") <=> (cp[p].auth = "sealed" /\ cp[p].hold = t)
             /\ (cp[p].imp[t].st = "staged") <=> (cp[p].auth = "staged" /\ cp[p].hold = t)
\* What arrived was exported to here.
ImportsExported(cp) ==
    \A p \in Places, t \in Transfers : cp[p].imp[t].st \in {"staged", "activated"} =>
        cp[Src(t)].exp[t].st # "none" /\ cp[Src(t)].exp[t].dest = p
\* A staged copy is the cut of a source that is still sealed.
StagedIsCut(cp) ==
    \A p \in Places, t \in Transfers : cp[p].imp[t].st = "staged" =>
        /\ cp[Src(t)].exp[t].st = "sealed"
        /\ cp[p].lived = cp[Src(t)].lived /\ cp[p].epoch = cp[Src(t)].epoch
\* LedgersAgree, for any copies.
Decided(cp) ==
    \A p \in Places, t \in Transfers :
        /\ cp[p].exp[t].st = "completed" => cp[cp[p].exp[t].dest].imp[t].st = "activated"
        /\ cp[p].exp[t].st = "aborted" => cp[cp[p].exp[t].dest].imp[t].st = "retired"
\* Custody of the secretary: the copy that runs it, or the sealed copy that
\* may still take it back.
Custodian(cp, p) ==
    \/ cp[p].auth = "active"
    \/ \E t \in Transfers : /\ cp[p].exp[t].st = "sealed"
                            /\ cp[cp[p].exp[t].dest].imp[t].st # "activated"
OneCustodian(cp) ==
    \A p, q \in Places : Custodian(cp, p) /\ Custodian(cp, q) => p = q
CustodianNewest(cp) ==
    \A p, q \in Places : Custodian(cp, p) =>
        cp[q].lived <= cp[p].lived /\ cp[q].epoch <= cp[p].epoch
Custody(cp) ==
    /\ cp \in [Places -> Copies]
    /\ ExportsAtSource(cp) /\ RowFollowsLedgers(cp) /\ ImportsExported(cp)
    /\ StagedIsCut(cp) /\ Decided(cp) /\ OneCustodian(cp) /\ CustodianNewest(cp)

\* A bundle on its way is the cut of its source as long as its destination
\* has not heard of the transfer.
Bundles == [t : Transfers, dest : Places, lived : Nat, epoch : Nat, appr : Approvals]
Carried(cp, b) ==
    cp[b.dest].imp[b.t].st = "none" =>
        /\ cp[Src(b.t)].exp[b.t].st = "sealed" /\ cp[Src(b.t)].exp[b.t].dest = b.dest
        /\ cp[Src(b.t)].lived = b.lived /\ cp[Src(b.t)].epoch = b.epoch

\* What the sessions know of the copies and may go on relying on.
KeepsBundles(cp, cq) == \A b \in Bundles : Carried(cp, b) => Carried(cq, b)
KeepsActivated(cp, cq) ==
    \A p \in Places, t \in Transfers : Activated(cp[p], t) => Activated(cq[p], t)
KeepsExports(cp, cq) ==
    \A p \in Places, t \in Transfers :
        /\ cq[p].exp[t].dest = cp[p].exp[t].dest
        /\ (cq[p].exp[t].st = "none") <=> (cp[p].exp[t].st = "none")
ExportedTo(cp, p, t, d) == cp[p].exp[t].dest = d
OtherExportsSame(cp, cq, t) ==
    \A q \in Places, u \in Transfers : q # Src(t) \/ u # t => cq[q].exp[u] = cp[q].exp[u]
Follows(cp, cq) == KeepsBundles(cp, cq) /\ KeepsActivated(cp, cq) /\ KeepsExports(cp, cq)

LEMMA FollowsRefl == ASSUME NEW cp PROVE Follows(cp, cp)
  BY DEF Follows, KeepsBundles, KeepsActivated, KeepsExports

LEMMA FollowsTrans ==
    ASSUME NEW c1, NEW c2, NEW c3, Follows(c1, c2), Follows(c2, c3)
    PROVE  Follows(c1, c3)
  <1>1. KeepsBundles(c1, c3)
    BY DEF Follows, KeepsBundles
  <1>2. KeepsActivated(c1, c3)
    BY DEF Follows, KeepsActivated
  <1>3. KeepsExports(c1, c3)
    BY DEF Follows, KeepsExports
  <1> QED
    BY <1>1, <1>2, <1>3 DEF Follows

LEMMA SrcPlace ==
    ASSUME NEW t \in Transfers
    PROVE  /\ Src(t) \in Places
           /\ \A d \in Dests(t) : d \in Places /\ d # Src(t)
  BY PortableAssumption, MoveAssumption, ReturnAssumption, MovesAssumption DEF Src, Dests

LEMMA CopyType ==
    ASSUME NEW c \in Copies
    PROVE  /\ c.auth \in Authorities /\ c.hold \in Transfers \cup {Nothing}
           /\ c.lived \in Nat /\ c.epoch \in Nat
           /\ \A t \in Transfers : c.exp[t].st \in ExportStatuses /\ c.imp[t].st \in ImportStatuses
  BY DEF Copies

-----------------------------------------------------------------------------
(* The operations, field by field. *)

LEMMA SealFields ==
    ASSUME NEW c \in Copies, NEW t \in Transfers, NEW d \in Places, c.exp[t].st = "none",
           NEW x, x = SealedCopy(c, t, d)
    PROVE  /\ x \in Copies
           /\ x.auth = "sealed" /\ x.hold = t /\ x.lived = c.lived /\ x.epoch = c.epoch + 1
           /\ x.imp = c.imp /\ x.exp[t].st = "sealed" /\ x.exp[t].dest = d
           /\ \A u \in Transfers : u # t => x.exp[u] = c.exp[u]
  <1>1. x = [c EXCEPT !.auth = "sealed", !.hold = t, !.epoch = @ + 1,
                      !.exp[t] = [st |-> "sealed", dest |-> d]]
    BY DEF SealedCopy, SealReplays
  <1> DEFINE y == [c.exp EXCEPT ![t] = [st |-> "sealed", dest |-> d]]
  <1>2. y \in [Transfers -> [st : ExportStatuses, dest : Places \cup {Nothing}]]
    BY DEF Copies, ExportStatuses
  <1>3. x = [c EXCEPT !.auth = "sealed", !.hold = t, !.epoch = c.epoch + 1, !.exp = y]
    BY <1>1 DEF Copies
  <1>4. y[t] = [st |-> "sealed", dest |-> d] /\ \A u \in Transfers : u # t => y[u] = c.exp[u]
    BY DEF Copies
  <1> DEFINE z == [c EXCEPT !.auth = "sealed", !.hold = t]
             n == c.epoch + 1
  <1>5. z \in Copies /\ n \in Nat
    <2>1. z \in Copies
      BY DEF Copies, Authorities
    <2>2. n \in Nat
      BY CopyType
    <2> QED
      BY <2>1, <2>2
  <1>6. x = [z EXCEPT !.epoch = n, !.exp = y]
    BY <1>3
  <1>7. z.auth = "sealed" /\ z.hold = t /\ z.lived = c.lived /\ z.imp = c.imp
    BY DEF Copies
  <1> HIDE DEF y, z, n
  <1>8. x \in Copies
    BY <1>2, <1>5, <1>6 DEF Copies
  <1>9. x.auth = z.auth /\ x.hold = z.hold /\ x.lived = z.lived /\ x.imp = z.imp
        /\ x.epoch = n /\ x.exp = y
    BY <1>5, <1>6 DEF Copies
  <1> QED
    BY <1>4, <1>7, <1>8, <1>9 DEF n

LEMMA CompleteFields ==
    ASSUME NEW c \in Copies, NEW t \in Transfers, c.exp[t].st = "sealed",
           NEW x, x = CompletedCopy(c, t)
    PROVE  /\ x \in Copies
           /\ x.auth = "transferred" /\ x.hold = c.hold /\ x.lived = c.lived /\ x.epoch = c.epoch
           /\ x.imp = c.imp /\ x.exp[t].st = "completed" /\ x.exp[t].dest = c.exp[t].dest
           /\ \A u \in Transfers : u # t => x.exp[u] = c.exp[u]
  <1>1. x = [c EXCEPT !.auth = "transferred", !.exp[t].st = "completed"]
    BY DEF CompletedCopy
  <1> DEFINE y == [c.exp EXCEPT ![t].st = "completed"]
  <1>2. y \in [Transfers -> [st : ExportStatuses, dest : Places \cup {Nothing}]]
    BY DEF Copies, ExportStatuses
  <1>3. x = [c EXCEPT !.auth = "transferred", !.exp = y]
    BY <1>1 DEF Copies
  <1>4. /\ y[t].st = "completed" /\ y[t].dest = c.exp[t].dest
        /\ \A u \in Transfers : u # t => y[u] = c.exp[u]
    BY DEF Copies
  <1> HIDE DEF y
  <1>5. x \in Copies
    BY <1>2, <1>3 DEF Copies, Authorities
  <1> QED
    BY <1>3, <1>4, <1>5 DEF Copies

LEMMA AbortFields ==
    ASSUME NEW c \in Copies, NEW t \in Transfers, c.exp[t].st = "sealed",
           NEW x, x = AbortedCopy(c, t)
    PROVE  /\ x \in Copies
           /\ x.auth = "active" /\ x.hold = Nothing /\ x.lived = c.lived /\ x.epoch = c.epoch
           /\ x.imp = c.imp /\ x.exp[t].st = "aborted" /\ x.exp[t].dest = c.exp[t].dest
           /\ \A u \in Transfers : u # t => x.exp[u] = c.exp[u]
  <1>1. x = [c EXCEPT !.auth = "active", !.hold = Nothing, !.exp[t].st = "aborted"]
    BY DEF AbortedCopy
  <1> DEFINE y == [c.exp EXCEPT ![t].st = "aborted"]
  <1>2. y \in [Transfers -> [st : ExportStatuses, dest : Places \cup {Nothing}]]
    BY DEF Copies, ExportStatuses
  <1>3. x = [c EXCEPT !.auth = "active", !.hold = Nothing, !.exp = y]
    BY <1>1 DEF Copies
  <1>4. /\ y[t].st = "aborted" /\ y[t].dest = c.exp[t].dest
        /\ \A u \in Transfers : u # t => y[u] = c.exp[u]
    BY DEF Copies
  <1> HIDE DEF y
  <1>5. x \in Copies
    BY <1>2, <1>3 DEF Copies, Authorities
  <1> QED
    BY <1>3, <1>4, <1>5 DEF Copies

LEMMA StageFields ==
    ASSUME NEW c \in Copies, NEW b \in Bundles, NEW over \in Transfers \cup {Nothing},
           NEW x, x = StagedCopy(c, b, over)
    PROVE  /\ x \in Copies
           /\ x.auth = "staged" /\ x.hold = b.t /\ x.lived = b.lived /\ x.epoch = b.epoch
           /\ x.exp = c.exp /\ x.imp[b.t].st = "staged"
           /\ \A u \in Transfers : u # b.t => x.imp[u] = c.imp[u]
  BY DEF StagedCopy, Copies, Bundles, Authorities, ImportStatuses, Approvals

LEMMA ActivateFields ==
    ASSUME NEW c \in Copies, NEW t \in Transfers, c.imp[t].st = "staged",
           NEW x, x = ActivatedCopy(c, t)
    PROVE  /\ x \in Copies
           /\ x.auth = "active" /\ x.hold = c.hold /\ x.lived = c.lived /\ x.epoch = c.epoch
           /\ x.exp = c.exp /\ x.imp[t].st = "activated"
           /\ \A u \in Transfers : u # t => x.imp[u] = c.imp[u]
  <1>1. x = [c EXCEPT !.auth = "active", !.imp[t].st = "activated"]
    BY DEF ActivatedCopy, Activated
  <1> DEFINE y == [c.imp EXCEPT ![t].st = "activated"]
  <1>2. y \in [Transfers -> [st : ImportStatuses, content : BOOLEAN, over : Transfers \cup {Nothing}]]
    BY DEF Copies, ImportStatuses
  <1>3. x = [c EXCEPT !.auth = "active", !.imp = y]
    BY <1>1 DEF Copies
  <1>4. y[t].st = "activated" /\ \A u \in Transfers : u # t => y[u] = c.imp[u]
    BY DEF Copies
  <1> HIDE DEF y
  <1>5. x \in Copies
    BY <1>2, <1>3 DEF Copies, Authorities
  <1> QED
    BY <1>3, <1>4, <1>5 DEF Copies

LEMMA TombstoneFields ==
    ASSUME NEW c \in Copies, NEW t \in Transfers, c.imp[t].st = "none",
           NEW x, x = RetiredCopy(c, t)
    PROVE  /\ x \in Copies
           /\ x.auth = c.auth /\ x.hold = c.hold /\ x.lived = c.lived /\ x.epoch = c.epoch
           /\ x.exp = c.exp /\ x.imp[t].st = "retired"
           /\ \A u \in Transfers : u # t => x.imp[u] = c.imp[u]
  <1>1. x = [c EXCEPT !.imp[t].st = "retired"]
    BY DEF RetiredCopy, Retired
  <1> DEFINE y == [c.imp EXCEPT ![t].st = "retired"]
  <1>2. y \in [Transfers -> [st : ImportStatuses, content : BOOLEAN, over : Transfers \cup {Nothing}]]
    BY DEF Copies, ImportStatuses
  <1>3. x = [c EXCEPT !.imp = y]
    BY <1>1 DEF Copies
  <1>4. y[t].st = "retired" /\ \A u \in Transfers : u # t => y[u] = c.imp[u]
    BY DEF Copies
  <1> HIDE DEF y
  <1>5. x \in Copies
    BY <1>2, <1>3 DEF Copies, Authorities
  <1> QED
    BY <1>3, <1>4, <1>5 DEF Copies

LEMMA RetireFields ==
    ASSUME NEW c \in Copies, NEW t \in Transfers, c.imp[t].st = "staged",
           NEW x, x = RetiredCopy(c, t)
    PROVE  /\ x \in Copies
           /\ x.auth \in {"absent", "transferred"} /\ x.lived = 0 /\ x.epoch = 0
           /\ x.exp = c.exp /\ x.imp[t].st = "retired"
           /\ \A u \in Transfers : u # t => x.imp[u] = c.imp[u]
  <1> DEFINE y == [c.imp EXCEPT ![t].st = "retired"]
  <1>y. /\ y \in [Transfers -> [st : ImportStatuses, content : BOOLEAN,
                                over : Transfers \cup {Nothing}]]
        /\ y[t].st = "retired" /\ \A u \in Transfers : u # t => y[u] = c.imp[u]
    BY DEF Copies, ImportStatuses
  <1>1. CASE c.imp[t].over = Nothing
    <2>1. x = [AbsentCopy EXCEPT !.exp = c.exp, !.imp = y]
      BY <1>1 DEF RetiredCopy, Retired
    <2>2. AbsentCopy \in Copies
      BY PortableAssumption DEF AbsentCopy, Copies, NoExport, NoImport, Authorities, Approvals,
                                ExportStatuses, ImportStatuses
    <2>3. AbsentCopy.auth = "absent" /\ AbsentCopy.lived = 0 /\ AbsentCopy.epoch = 0
      BY DEF AbsentCopy
    <2> HIDE DEF y
    <2> QED
      BY <1>y, <2>1, <2>2, <2>3 DEF Copies
  <1>2. CASE c.imp[t].over # Nothing
    <2>1. x = [c EXCEPT !.auth = "transferred", !.hold = c.imp[t].over, !.epoch = 0,
                        !.lived = 0, !.appr = "none", !.imp = y]
      BY <1>2 DEF RetiredCopy, Retired, Copies
    <2>2. c.imp[t].over \in Transfers \cup {Nothing}
      BY DEF Copies
    <2> DEFINE z == [c EXCEPT !.auth = "transferred", !.hold = c.imp[t].over, !.epoch = 0]
    <2>3. z \in Copies /\ z.auth = "transferred" /\ z.epoch = 0 /\ z.exp = c.exp
      BY <2>2 DEF Copies, Authorities
    <2>4. x = [z EXCEPT !.lived = 0, !.appr = "none", !.imp = y]
      BY <2>1
    <2> HIDE DEF y, z
    <2>5. x \in Copies
      BY <1>y, <2>3, <2>4 DEF Copies, Approvals
    <2>6. x.auth = z.auth /\ x.epoch = z.epoch /\ x.exp = z.exp /\ x.lived = 0 /\ x.imp = y
      BY <2>3, <2>4 DEF Copies
    <2> QED
      BY <1>y, <2>3, <2>5, <2>6
  <1> QED
    BY <1>1, <1>2

-----------------------------------------------------------------------------
(* The operations preserve custody. *)

\* A life goes on: only the copy that runs the secretary grows.
LEMMA LifeKeeps ==
    ASSUME NEW cp, Custody(cp), NEW p \in Places, NEW x \in Copies,
           x.auth = cp[p].auth, x.hold = cp[p].hold, x.exp = cp[p].exp, x.imp = cp[p].imp,
           \/ x.lived = cp[p].lived /\ x.epoch = cp[p].epoch
           \/ x.auth = "active" /\ x.lived >= cp[p].lived /\ x.epoch >= cp[p].epoch,
           NEW cq, cq = [cp EXCEPT ![p] = x]
    PROVE  Custody(cq) /\ Follows(cp, cq)
  <1>t. cp \in [Places -> Copies] /\ cq \in [Places -> Copies]
    BY DEF Custody
  <1>1. \A q \in Places : /\ cq[q].auth = cp[q].auth /\ cq[q].hold = cp[q].hold
                          /\ cq[q].exp = cp[q].exp /\ cq[q].imp = cp[q].imp
    BY <1>t
  <1>2. ASSUME NEW q \in Places, cp[q].auth # "active"
        PROVE  cq[q].lived = cp[q].lived /\ cq[q].epoch = cp[q].epoch
    BY <1>t, <1>2
  <1>3. \A q \in Places : cq[q].lived >= cp[q].lived /\ cq[q].epoch >= cp[q].epoch
    BY <1>t, CopyType
  <1>c. \A q \in Places : Custodian(cq, q) <=> Custodian(cp, q)
    <2>1. \A q \in Places, t \in Transfers : cp[q].exp[t].st # "none" => cp[q].exp[t].dest \in Places
      BY SrcPlace DEF Custody, ExportsAtSource
    <2> QED
      BY <1>1, <2>1 DEF Custodian
  <1>s. ASSUME NEW t \in Transfers, cp[Src(t)].exp[t].st = "sealed"
        PROVE  cq[Src(t)].lived = cp[Src(t)].lived /\ cq[Src(t)].epoch = cp[Src(t)].epoch
    BY <1>2, <1>s, SrcPlace DEF Custody, RowFollowsLedgers
  <1>4. ExportsAtSource(cq) /\ RowFollowsLedgers(cq)
    BY <1>1 DEF Custody, ExportsAtSource, RowFollowsLedgers
  <1>5. ImportsExported(cq)
    BY <1>1, SrcPlace DEF Custody, ImportsExported
  <1>6. StagedIsCut(cq)
    <2> SUFFICES ASSUME NEW q \in Places, NEW t \in Transfers, cq[q].imp[t].st = "staged"
                 PROVE  /\ cq[Src(t)].exp[t].st = "sealed"
                        /\ cq[q].lived = cq[Src(t)].lived /\ cq[q].epoch = cq[Src(t)].epoch
      BY DEF StagedIsCut
    <2>1. cp[q].imp[t].st = "staged" /\ cp[q].auth # "active"
      BY <1>1 DEF Custody, RowFollowsLedgers
    <2>2. /\ cp[Src(t)].exp[t].st = "sealed"
          /\ cp[q].lived = cp[Src(t)].lived /\ cp[q].epoch = cp[Src(t)].epoch
      BY <2>1 DEF Custody, StagedIsCut
    <2> QED
      BY <1>1, <1>2, <1>s, <2>1, <2>2, SrcPlace
  <1>7. Decided(cq)
    <2>1. \A q \in Places, t \in Transfers : cp[q].exp[t].st # "none" => cp[q].exp[t].dest \in Places
      BY SrcPlace DEF Custody, ExportsAtSource
    <2> QED
      BY <1>1, <2>1 DEF Custody, Decided
  <1>8. OneCustodian(cq)
    BY <1>c DEF Custody, OneCustodian
  <1>9. CustodianNewest(cq)
    <2> SUFFICES ASSUME NEW o \in Places, NEW q \in Places, Custodian(cq, o)
                 PROVE  cq[q].lived <= cq[o].lived /\ cq[q].epoch <= cq[o].epoch
      BY DEF CustodianNewest
    <2>1. Custodian(cp, o) /\ cp[q].lived <= cp[o].lived /\ cp[q].epoch <= cp[o].epoch
      BY <1>c DEF Custody, CustodianNewest
    <2>2. CASE cp[q].auth # "active"
      BY <1>2, <1>3, <1>t, <2>1, <2>2, CopyType
    <2>3. CASE cp[q].auth = "active"
      <3>1. q = o
        BY <2>1, <2>3 DEF Custody, OneCustodian, Custodian
      <3> QED
        BY <1>t, <3>1, CopyType
    <2> QED
      BY <2>2, <2>3
  <1>10. KeepsBundles(cp, cq)
    <2> SUFFICES ASSUME NEW b \in Bundles, Carried(cp, b), cq[b.dest].imp[b.t].st = "none"
                 PROVE  /\ cq[Src(b.t)].exp[b.t].st = "sealed" /\ cq[Src(b.t)].exp[b.t].dest = b.dest
                        /\ cq[Src(b.t)].lived = b.lived /\ cq[Src(b.t)].epoch = b.epoch
      BY DEF KeepsBundles, Carried
    <2>1. b.t \in Transfers /\ b.dest \in Places
      BY DEF Bundles
    <2>2. /\ cp[Src(b.t)].exp[b.t].st = "sealed" /\ cp[Src(b.t)].exp[b.t].dest = b.dest
          /\ cp[Src(b.t)].lived = b.lived /\ cp[Src(b.t)].epoch = b.epoch
      BY <1>1, <2>1 DEF Carried
    <2> QED
      BY <1>1, <1>s, <2>1, <2>2, SrcPlace
  <1>11. KeepsActivated(cp, cq) /\ KeepsExports(cp, cq)
    BY <1>1 DEF KeepsActivated, KeepsExports, Activated
  <1> QED
    BY <1>t, <1>4, <1>5, <1>6, <1>7, <1>8, <1>9, <1>10, <1>11 DEF Custody, Follows
LEMMA DestPlace ==
    ASSUME NEW cp, Custody(cp), NEW p \in Places, NEW t \in Transfers, cp[p].exp[t].st # "none"
    PROVE  cp[p].exp[t].dest \in Places /\ cp[p].exp[t].dest # p /\ p = Src(t)
  BY SrcPlace DEF Custody, ExportsAtSource

\* Seal: the copy that ran the secretary keeps custody of it.
LEMMA SealKeeps ==
    ASSUME NEW cp, Custody(cp), NEW t \in Moves \cup Returns,
           NEW d \in Dests(t), NEW p \in Places, p = Src(t),
           cp[p].auth = "active", cp[p].exp[t].st = "none",
           NEW cq, cq = [cp EXCEPT ![p] = SealedCopy(cp[p], t, d)]
    PROVE  /\ Custody(cq) /\ KeepsBundles(cp, cq) /\ KeepsActivated(cp, cq)
           /\ ExportedTo(cq, p, t, d) /\ OtherExportsSame(cp, cq, t)
  <1>t. t \in Transfers /\ cp \in [Places -> Copies]
    BY MoveAssumption, ReturnAssumption DEF Custody
  <1>p. p \in Places /\ p = Src(t)
    BY <1>t, SrcPlace
  <1>d. d \in Places
    BY <1>t, SrcPlace
  <1>x. PICK x : x = SealedCopy(cp[p], t, d)
    OBVIOUS
  <1>f. /\ x \in Copies
        /\ x.auth = "sealed" /\ x.hold = t /\ x.lived = cp[p].lived /\ x.epoch = cp[p].epoch + 1
        /\ x.imp = cp[p].imp /\ x.exp[t].st = "sealed" /\ x.exp[t].dest = d
        /\ \A u \in Transfers : u # t => x.exp[u] = cp[p].exp[u]
    BY <1>t, <1>p, <1>d, <1>x, SealFields
  <1>q. cq \in [Places -> Copies] /\ cq[p] = x /\ \A q \in Places : q # p => cq[q] = cp[q]
    BY <1>t, <1>p, <1>x, <1>f
  <1>1. /\ \A q \in Places : cq[q].imp = cp[q].imp /\ cq[q].lived = cp[q].lived
        /\ \A q \in Places, u \in Transfers : q # p \/ u # t => cq[q].exp[u] = cp[q].exp[u]
        /\ cq[p].exp[t].st = "sealed" /\ cq[p].exp[t].dest = d
    BY <1>f, <1>q
  <1>a. \A u \in Transfers : cp[p].exp[u].st # "sealed" /\ cp[p].imp[u].st # "staged"
    BY <1>p DEF Custody, RowFollowsLedgers
  <1>4. ExportsAtSource(cq)
    <2> SUFFICES ASSUME NEW q \in Places, NEW u \in Transfers, cq[q].exp[u].st # "none"
                 PROVE  /\ q = Src(u) /\ u \in Moves \cup Returns
                        /\ cq[q].exp[u].dest \in Dests(u)
      BY DEF ExportsAtSource
    <2>1. CASE q = p /\ u = t
      BY <1>1, <1>p, <2>1
    <2>2. CASE q # p \/ u # t
      BY <1>1, <2>2 DEF Custody, ExportsAtSource
    <2> QED
      BY <2>1, <2>2
  <1>3. RowFollowsLedgers(cq)
    <2>1. ASSUME NEW q \in Places, q # p
          PROVE  /\ cq[q].auth \in {"sealed", "staged"} => cq[q].hold \in Transfers
                 /\ \A u \in Transfers :
                     /\ (cq[q].exp[u].st = "sealed") <=> (cq[q].auth = "sealed" /\ cq[q].hold = u)
                     /\ (cq[q].imp[u].st = "staged") <=> (cq[q].auth = "staged" /\ cq[q].hold = u)
      BY <1>q, <2>1 DEF Custody, RowFollowsLedgers
    <2>2. ASSUME NEW u \in Transfers
          PROVE  /\ (x.exp[u].st = "sealed") <=> (x.auth = "sealed" /\ x.hold = u)
                 /\ (x.imp[u].st = "staged") <=> (x.auth = "staged" /\ x.hold = u)
      BY <1>a, <1>f
    <2> QED
      BY <1>f, <1>q, <1>t, <2>1, <2>2 DEF RowFollowsLedgers
  <1>5. ImportsExported(cq)
    <2> SUFFICES ASSUME NEW q \in Places, NEW u \in Transfers, cq[q].imp[u].st \in {"staged", "activated"}
                 PROVE  cq[Src(u)].exp[u].st # "none" /\ cq[Src(u)].exp[u].dest = q
      BY DEF ImportsExported
    <2>1. cp[Src(u)].exp[u].st # "none" /\ cp[Src(u)].exp[u].dest = q
      BY <1>1 DEF Custody, ImportsExported
    <2>2. u # t
      BY <2>1, <1>p
    <2> QED
      BY <1>1, <2>1, <2>2, SrcPlace
  <1>6. StagedIsCut(cq)
    <2> SUFFICES ASSUME NEW q \in Places, NEW u \in Transfers, cq[q].imp[u].st = "staged"
                 PROVE  /\ cq[Src(u)].exp[u].st = "sealed"
                        /\ cq[q].lived = cq[Src(u)].lived /\ cq[q].epoch = cq[Src(u)].epoch
      BY DEF StagedIsCut
    <2>1. cp[q].imp[u].st = "staged" /\ q # p
      BY <1>1, <1>a
    <2>2. /\ cp[Src(u)].exp[u].st = "sealed"
          /\ cp[q].lived = cp[Src(u)].lived /\ cp[q].epoch = cp[Src(u)].epoch
      BY <2>1 DEF Custody, StagedIsCut
    <2>3. Src(u) # p
      BY <1>a, <2>2
    <2> QED
      BY <1>q, <2>1, <2>2, <2>3, SrcPlace
  <1>7. Decided(cq)
    <2> SUFFICES ASSUME NEW q \in Places, NEW u \in Transfers
                 PROVE  /\ cq[q].exp[u].st = "completed" => cq[cq[q].exp[u].dest].imp[u].st = "activated"
                        /\ cq[q].exp[u].st = "aborted" => cq[cq[q].exp[u].dest].imp[u].st = "retired"
      BY DEF Decided
    <2>1. CASE q = p /\ u = t
      BY <1>1, <2>1
    <2>2. CASE q # p \/ u # t
      <3>1. cq[q].exp[u] = cp[q].exp[u]
        BY <1>1, <2>2
      <3>2. /\ cp[q].exp[u].st = "completed" => cp[cp[q].exp[u].dest].imp[u].st = "activated"
            /\ cp[q].exp[u].st = "aborted" => cp[cp[q].exp[u].dest].imp[u].st = "retired"
        BY DEF Custody, Decided
      <3>3. cp[q].exp[u].st # "none" => cp[q].exp[u].dest \in Places
        BY DestPlace
      <3> QED
        BY <1>1, <3>1, <3>2, <3>3
    <2> QED
      BY <2>1, <2>2
  <1>c. ASSUME NEW q \in Places, Custodian(cq, q) PROVE q = p
    <2>1. Custodian(cp, p)
      BY <1>p DEF Custodian
    <2>2. Custodian(cp, q)
      <3> SUFFICES ASSUME q # p PROVE Custodian(cp, q)
        BY <2>1
      <3>1. CASE cq[q].auth = "active"
        BY <1>q, <3>1 DEF Custodian
      <3>2. CASE cq[q].auth # "active"
        <4>1. PICK u \in Transfers : cq[q].exp[u].st = "sealed" /\ cq[cq[q].exp[u].dest].imp[u].st # "activated"
          BY <1>c, <3>2 DEF Custodian
        <4>2. cp[q].exp[u].st = "sealed" /\ cp[cp[q].exp[u].dest].imp[u].st # "activated"
          BY <1>1, <4>1, DestPlace
        <4> QED
          BY <4>2 DEF Custodian
      <3> QED
        BY <3>1, <3>2
    <2> QED
      BY <2>1, <2>2 DEF Custody, OneCustodian
  <1>8. OneCustodian(cq)
    BY <1>c DEF OneCustodian
  <1>9. CustodianNewest(cq)
    <2> SUFFICES ASSUME NEW q \in Places PROVE cq[q].lived <= cq[p].lived /\ cq[q].epoch <= cq[p].epoch
      BY <1>c DEF CustodianNewest
    <2>1. cp[q].lived <= cp[p].lived /\ cp[q].epoch <= cp[p].epoch
      BY <1>p DEF Custody, CustodianNewest, Custodian
    <2>2. cp[p].lived \in Nat /\ cp[p].epoch \in Nat /\ cp[q].epoch \in Nat
      BY <1>t, CopyType
    <2>3. CASE q = p
      BY <1>f, <1>q, <2>2, <2>3
    <2>4. CASE q # p
      <3>1. cq[q].epoch = cp[q].epoch /\ cq[p].epoch = cp[p].epoch + 1
        BY <1>f, <1>q, <2>4
      <3> QED
        BY <1>1, <2>1, <2>2, <3>1
    <2> QED
      BY <2>3, <2>4
  <1>10. KeepsBundles(cp, cq)
    <2> SUFFICES ASSUME NEW b \in Bundles, Carried(cp, b), cq[b.dest].imp[b.t].st = "none"
                 PROVE  /\ cq[Src(b.t)].exp[b.t].st = "sealed" /\ cq[Src(b.t)].exp[b.t].dest = b.dest
                        /\ cq[Src(b.t)].lived = b.lived /\ cq[Src(b.t)].epoch = b.epoch
      BY DEF KeepsBundles, Carried
    <2>1. b.t \in Transfers /\ b.dest \in Places
      BY DEF Bundles
    <2>2. /\ cp[Src(b.t)].exp[b.t].st = "sealed" /\ cp[Src(b.t)].exp[b.t].dest = b.dest
          /\ cp[Src(b.t)].lived = b.lived /\ cp[Src(b.t)].epoch = b.epoch
      BY <1>1, <2>1 DEF Carried
    <2>3. Src(b.t) # p
      BY <1>a, <2>1, <2>2
    <2> QED
      BY <1>q, <2>1, <2>2, <2>3, SrcPlace
  <1>11. KeepsActivated(cp, cq)
    BY <1>1 DEF KeepsActivated, Activated
  <1>12. ExportedTo(cq, p, t, d)
    BY <1>f, <1>q DEF ExportedTo
  <1>13. OtherExportsSame(cp, cq, t)
    BY <1>f, <1>p, <1>q DEF OtherExportsSame
  <1> QED
    BY <1>1, <1>3, <1>4, <1>5, <1>6, <1>7, <1>8, <1>9, <1>10, <1>11, <1>12, <1>13, <1>p, <1>q DEF Custody

\* Complete and Abort: the destination's ledger decided, so no bundle of the
\* transfer can stage any more; an abort keeps custody and a completion had
\* none left.
LEMMA EndKeeps ==
    ASSUME NEW cp, Custody(cp), NEW p \in Places, NEW t \in Transfers,
           cp[p].exp[t].st = "sealed", NEW x,
           \/ x = CompletedCopy(cp[p], t) /\ Activated(cp[cp[p].exp[t].dest], t)
           \/ x = AbortedCopy(cp[p], t) /\ Retired(cp[cp[p].exp[t].dest], t),
           NEW cq, cq = [cp EXCEPT ![p] = x]
    PROVE  Custody(cq) /\ Follows(cp, cq)
  <1>t. cp \in [Places -> Copies]
    BY DEF Custody
  <1>p. /\ p = Src(t) /\ cp[p].auth = "sealed" /\ cp[p].hold = t
        /\ cp[p].exp[t].dest \in Places /\ cp[p].exp[t].dest # p
    BY DestPlace DEF Custody, RowFollowsLedgers
  <1>f. /\ x \in Copies /\ x.lived = cp[p].lived /\ x.epoch = cp[p].epoch
        /\ x.imp = cp[p].imp /\ x.exp[t].dest = cp[p].exp[t].dest
        /\ \A u \in Transfers : u # t => x.exp[u] = cp[p].exp[u]
    BY <1>t, CompleteFields, AbortFields
  <1>g. \/ /\ x.auth = "transferred" /\ x.exp[t].st = "completed"
           /\ cp[cp[p].exp[t].dest].imp[t].st = "activated"
        \/ /\ x.auth = "active" /\ x.exp[t].st = "aborted"
           /\ cp[cp[p].exp[t].dest].imp[t].st = "retired"
    BY <1>t, CompleteFields, AbortFields DEF Activated, Retired
  <1>q. cq \in [Places -> Copies] /\ cq[p] = x /\ \A q \in Places : q # p => cq[q] = cp[q]
    BY <1>t, <1>f
  <1>1. /\ \A q \in Places : /\ cq[q].imp = cp[q].imp
                             /\ cq[q].lived = cp[q].lived /\ cq[q].epoch = cp[q].epoch
        /\ \A q \in Places, u \in Transfers : /\ q # p \/ u # t => cq[q].exp[u] = cp[q].exp[u]
                                              /\ cq[q].exp[u].dest = cp[q].exp[u].dest
                                              /\ cq[q].exp[u].st = "none" <=> cp[q].exp[u].st = "none"
    <2>1. \A q \in Places : /\ cq[q].imp = cp[q].imp
                            /\ cq[q].lived = cp[q].lived /\ cq[q].epoch = cp[q].epoch
      BY <1>f, <1>q
    <2>2. \A q \in Places, u \in Transfers : q # p \/ u # t => cq[q].exp[u] = cp[q].exp[u]
      BY <1>f, <1>q
    <2>3. cq[p].exp[t].dest = cp[p].exp[t].dest /\ cq[p].exp[t].st # "none" /\ cp[p].exp[t].st # "none"
      BY <1>f, <1>g, <1>q
    <2> QED
      BY <2>1, <2>2, <2>3
  <1>a. \A u \in Transfers : cp[p].imp[u].st # "staged" /\ cq[p].exp[u].st # "sealed"
    BY <1>p, <1>f, <1>g, <1>q DEF Custody, RowFollowsLedgers
  <1>3. RowFollowsLedgers(cq)
    <2>1. ASSUME NEW q \in Places, q # p
          PROVE  /\ cq[q].auth \in {"sealed", "staged"} => cq[q].hold \in Transfers
                 /\ \A u \in Transfers :
                     /\ (cq[q].exp[u].st = "sealed") <=> (cq[q].auth = "sealed" /\ cq[q].hold = u)
                     /\ (cq[q].imp[u].st = "staged") <=> (cq[q].auth = "staged" /\ cq[q].hold = u)
      BY <1>q, <2>1 DEF Custody, RowFollowsLedgers
    <2>2. /\ cq[p].auth \notin {"sealed", "staged"}
          /\ \A u \in Transfers : cq[p].exp[u].st # "sealed" /\ cq[p].imp[u].st # "staged"
      BY <1>1, <1>a, <1>g, <1>q
    <2> QED
      BY <2>1, <2>2 DEF RowFollowsLedgers
  <1>4. ExportsAtSource(cq)
    BY <1>1 DEF Custody, ExportsAtSource
  <1>5. ImportsExported(cq)
    BY <1>1, SrcPlace DEF Custody, ImportsExported
  <1>s. ASSUME NEW u \in Transfers, cp[Src(u)].exp[u].st = "sealed",
               cp[cp[Src(u)].exp[u].dest].imp[u].st \in {"none", "staged"}
        PROVE  cq[Src(u)] = cp[Src(u)]
    <2>1. Src(u) # p
      <3>1. CASE u = t
        BY <1>g, <1>p, <1>s, <3>1
      <3>2. CASE u # t
        BY <1>p, <1>s, <3>2 DEF Custody, RowFollowsLedgers
      <3> QED
        BY <3>1, <3>2
    <2> QED
      BY <1>q, <2>1, SrcPlace
  <1>6. StagedIsCut(cq)
    <2> SUFFICES ASSUME NEW q \in Places, NEW u \in Transfers, cq[q].imp[u].st = "staged"
                 PROVE  /\ cq[Src(u)].exp[u].st = "sealed"
                        /\ cq[q].lived = cq[Src(u)].lived /\ cq[q].epoch = cq[Src(u)].epoch
      BY DEF StagedIsCut
    <2>1. cp[q].imp[u].st = "staged"
      BY <1>1
    <2>2. /\ cp[Src(u)].exp[u].st = "sealed" /\ cp[Src(u)].exp[u].dest = q
          /\ cp[q].lived = cp[Src(u)].lived /\ cp[q].epoch = cp[Src(u)].epoch
      BY <2>1 DEF Custody, StagedIsCut, ImportsExported
    <2>3. cq[Src(u)] = cp[Src(u)]
      BY <1>s, <2>1, <2>2
    <2> QED
      BY <1>1, <2>2, <2>3
  <1>7. Decided(cq)
    <2> SUFFICES ASSUME NEW q \in Places, NEW u \in Transfers
                 PROVE  /\ cq[q].exp[u].st = "completed" => cq[cq[q].exp[u].dest].imp[u].st = "activated"
                        /\ cq[q].exp[u].st = "aborted" => cq[cq[q].exp[u].dest].imp[u].st = "retired"
      BY DEF Decided
    <2>1. CASE q = p /\ u = t
      BY <1>1, <1>f, <1>g, <1>p, <1>q, <2>1
    <2>2. CASE q # p \/ u # t
      <3>1. cq[q].exp[u] = cp[q].exp[u]
        BY <1>1, <2>2
      <3>2. /\ cp[q].exp[u].st = "completed" => cp[cp[q].exp[u].dest].imp[u].st = "activated"
            /\ cp[q].exp[u].st = "aborted" => cp[cp[q].exp[u].dest].imp[u].st = "retired"
        BY DEF Custody, Decided
      <3>3. cp[q].exp[u].st # "none" => cp[q].exp[u].dest \in Places
        BY DestPlace
      <3> QED
        BY <1>1, <3>1, <3>2, <3>3
    <2> QED
      BY <2>1, <2>2
  <1>c. ASSUME NEW q \in Places, Custodian(cq, q) PROVE Custodian(cp, q)
    <2>1. CASE q = p
      <3>1. x.auth = "active"
        BY <1>a, <1>c, <1>q, <2>1 DEF Custodian
      <3>2. cp[cp[p].exp[t].dest].imp[t].st # "activated"
        BY <1>g, <3>1
      <3> QED
        BY <2>1, <3>2 DEF Custodian
    <2>2. CASE q # p /\ cq[q].auth = "active"
      BY <1>q, <2>2 DEF Custodian
    <2>3. CASE q # p /\ cq[q].auth # "active"
      <3>1. PICK u \in Transfers : cq[q].exp[u].st = "sealed" /\ cq[cq[q].exp[u].dest].imp[u].st # "activated"
        BY <1>c, <2>3 DEF Custodian
      <3>2. cp[q].exp[u].st = "sealed" /\ cp[cp[q].exp[u].dest].imp[u].st # "activated"
        BY <1>1, <2>3, <3>1, DestPlace
      <3> QED
        BY <3>2 DEF Custodian
    <2> QED
      BY <2>1, <2>2, <2>3
  <1>8. OneCustodian(cq) /\ CustodianNewest(cq)
    BY <1>1, <1>c DEF Custody, OneCustodian, CustodianNewest
  <1>10. KeepsBundles(cp, cq)
    <2> SUFFICES ASSUME NEW b \in Bundles, Carried(cp, b), cq[b.dest].imp[b.t].st = "none"
                 PROVE  /\ cq[Src(b.t)].exp[b.t].st = "sealed" /\ cq[Src(b.t)].exp[b.t].dest = b.dest
                        /\ cq[Src(b.t)].lived = b.lived /\ cq[Src(b.t)].epoch = b.epoch
      BY DEF KeepsBundles, Carried
    <2>1. b.t \in Transfers /\ b.dest \in Places
      BY DEF Bundles
    <2>2. /\ cp[Src(b.t)].exp[b.t].st = "sealed" /\ cp[Src(b.t)].exp[b.t].dest = b.dest
          /\ cp[Src(b.t)].lived = b.lived /\ cp[Src(b.t)].epoch = b.epoch
          /\ cp[b.dest].imp[b.t].st = "none"
      BY <1>1, <2>1 DEF Carried
    <2>3. cq[Src(b.t)] = cp[Src(b.t)]
      BY <1>s, <2>1, <2>2
    <2> QED
      BY <2>2, <2>3
  <1>11. KeepsActivated(cp, cq) /\ KeepsExports(cp, cq)
    BY <1>1 DEF KeepsActivated, KeepsExports, Activated
  <1> QED
    BY <1>3, <1>4, <1>5, <1>6, <1>7, <1>8, <1>10, <1>11, <1>q DEF Custody, Follows
\* What every step at a destination keeps: exports do not change, a ledger
\* goes only from none to staged to its end, and no sealed copy is touched.
LEMMA ArrivalKeeps ==
    ASSUME NEW cp, Custody(cp), NEW cq \in [Places -> Copies],
           \A q \in Places : cq[q].exp = cp[q].exp,
           \A q \in Places, u \in Transfers :
              /\ cq[q].imp[u].st = "none" => cp[q].imp[u].st = "none"
              /\ cp[q].imp[u].st \in {"activated", "retired"} => cq[q].imp[u].st = cp[q].imp[u].st,
           \A q \in Places : cp[q].auth = "sealed" =>
              cq[q].lived = cp[q].lived /\ cq[q].epoch = cp[q].epoch
    PROVE  ExportsAtSource(cq) /\ Decided(cq) /\ Follows(cp, cq)
  <1>1. ExportsAtSource(cq)
    BY DEF Custody, ExportsAtSource
  <1>2. Decided(cq)
    <2> SUFFICES ASSUME NEW q \in Places, NEW u \in Transfers
                 PROVE  /\ cq[q].exp[u].st = "completed" => cq[cq[q].exp[u].dest].imp[u].st = "activated"
                        /\ cq[q].exp[u].st = "aborted" => cq[cq[q].exp[u].dest].imp[u].st = "retired"
      BY DEF Decided
    <2>1. /\ cp[q].exp[u].st = "completed" => cp[cp[q].exp[u].dest].imp[u].st = "activated"
          /\ cp[q].exp[u].st = "aborted" => cp[cp[q].exp[u].dest].imp[u].st = "retired"
      BY DEF Custody, Decided
    <2>2. cp[q].exp[u].st # "none" => cp[q].exp[u].dest \in Places
      BY DestPlace
    <2> QED
      BY <2>1, <2>2
  <1>3. KeepsBundles(cp, cq)
    <2> SUFFICES ASSUME NEW b \in Bundles, Carried(cp, b), cq[b.dest].imp[b.t].st = "none"
                 PROVE  /\ cq[Src(b.t)].exp[b.t].st = "sealed" /\ cq[Src(b.t)].exp[b.t].dest = b.dest
                        /\ cq[Src(b.t)].lived = b.lived /\ cq[Src(b.t)].epoch = b.epoch
      BY DEF KeepsBundles, Carried
    <2>1. b.t \in Transfers /\ b.dest \in Places
      BY DEF Bundles
    <2>2. /\ cp[Src(b.t)].exp[b.t].st = "sealed" /\ cp[Src(b.t)].exp[b.t].dest = b.dest
          /\ cp[Src(b.t)].lived = b.lived /\ cp[Src(b.t)].epoch = b.epoch
      BY <2>1 DEF Carried
    <2>3. cp[Src(b.t)].auth = "sealed" /\ Src(b.t) \in Places
      BY <2>1, <2>2, SrcPlace DEF Custody, RowFollowsLedgers
    <2> QED
      BY <2>2, <2>3
  <1>4. KeepsActivated(cp, cq) /\ KeepsExports(cp, cq)
    BY DEF KeepsActivated, KeepsExports, Activated
  <1> QED
    BY <1>1, <1>2, <1>3, <1>4 DEF Follows

\* Import: an absent or surrendered copy becomes the cut of a source that is
\* still sealed, and takes no custody.
LEMMA StageKeeps ==
    ASSUME NEW cp, Custody(cp), NEW b \in Bundles, NEW over \in Transfers \cup {Nothing},
           Carried(cp, b), cp[b.dest].imp[b.t].st = "none",
           cp[b.dest].auth \in {"absent", "transferred"},
           NEW cq, cq = [cp EXCEPT ![b.dest] = StagedCopy(@, b, over)]
    PROVE  Custody(cq) /\ Follows(cp, cq)
  <1>t. cp \in [Places -> Copies]
    BY DEF Custody
  <1>p. PICK p \in Places, t \in Transfers : p = b.dest /\ t = b.t
    BY DEF Bundles
  <1>x. PICK x : x = StagedCopy(cp[p], b, over)
    OBVIOUS
  <1>f. /\ x \in Copies
        /\ x.auth = "staged" /\ x.hold = t /\ x.lived = b.lived /\ x.epoch = b.epoch
        /\ x.exp = cp[p].exp /\ x.imp[t].st = "staged"
        /\ \A u \in Transfers : u # t => x.imp[u] = cp[p].imp[u]
    BY <1>t, <1>p, <1>x, StageFields
  <1>q. cq \in [Places -> Copies] /\ cq[p] = x /\ \A q \in Places : q # p => cq[q] = cp[q]
    BY <1>t, <1>p, <1>x, <1>f
  <1>s. PICK s \in Places :
           /\ s = Src(t) /\ s # p /\ cp[s].exp[t].st = "sealed" /\ cp[s].exp[t].dest = p
           /\ cp[s].lived = b.lived /\ cp[s].epoch = b.epoch
    <2>1. /\ cp[Src(t)].exp[t].st = "sealed" /\ cp[Src(t)].exp[t].dest = p
          /\ cp[Src(t)].lived = b.lived /\ cp[Src(t)].epoch = b.epoch
      BY <1>p DEF Carried
    <2> QED
      BY <2>1, SrcPlace, DestPlace
  <1>a. \A u \in Transfers : cp[p].exp[u].st # "sealed" /\ cp[p].imp[u].st # "staged"
    BY <1>p DEF Custody, RowFollowsLedgers
  <1>1. /\ \A q \in Places : cq[q].exp = cp[q].exp
        /\ \A q \in Places, u \in Transfers : q # p \/ u # t => cq[q].imp[u] = cp[q].imp[u]
        /\ cp[p].imp[t].st = "none" /\ cq[p].imp[t].st = "staged"
    BY <1>f, <1>p, <1>q
  <1>2. ExportsAtSource(cq) /\ Decided(cq) /\ Follows(cp, cq)
    <2>1. \A q \in Places, u \in Transfers :
              /\ cq[q].imp[u].st = "none" => cp[q].imp[u].st = "none"
              /\ cp[q].imp[u].st \in {"activated", "retired"} => cq[q].imp[u].st = cp[q].imp[u].st
      BY <1>1
    <2>2. \A q \in Places : cp[q].auth = "sealed" =>
              cq[q].lived = cp[q].lived /\ cq[q].epoch = cp[q].epoch
      BY <1>p, <1>q
    <2> QED
      BY <1>1, <1>q, <2>1, <2>2, ArrivalKeeps
  <1>3. RowFollowsLedgers(cq)
    <2>1. ASSUME NEW q \in Places, q # p
          PROVE  /\ cq[q].auth \in {"sealed", "staged"} => cq[q].hold \in Transfers
                 /\ \A u \in Transfers :
                     /\ (cq[q].exp[u].st = "sealed") <=> (cq[q].auth = "sealed" /\ cq[q].hold = u)
                     /\ (cq[q].imp[u].st = "staged") <=> (cq[q].auth = "staged" /\ cq[q].hold = u)
      BY <1>q, <2>1 DEF Custody, RowFollowsLedgers
    <2>2. ASSUME NEW u \in Transfers
          PROVE  /\ (x.exp[u].st = "sealed") <=> (x.auth = "sealed" /\ x.hold = u)
                 /\ (x.imp[u].st = "staged") <=> (x.auth = "staged" /\ x.hold = u)
      BY <1>a, <1>f
    <2> QED
      BY <1>f, <1>q, <2>1, <2>2 DEF RowFollowsLedgers
  <1>5. ImportsExported(cq)
    <2> SUFFICES ASSUME NEW q \in Places, NEW u \in Transfers, cq[q].imp[u].st \in {"staged", "activated"}
                 PROVE  cq[Src(u)].exp[u].st # "none" /\ cq[Src(u)].exp[u].dest = q
      BY DEF ImportsExported
    <2>1. CASE q = p /\ u = t
      BY <1>1, <1>s, <2>1
    <2>2. CASE q # p \/ u # t
      BY <1>1, <2>2, SrcPlace DEF Custody, ImportsExported
    <2> QED
      BY <2>1, <2>2
  <1>6. StagedIsCut(cq)
    <2> SUFFICES ASSUME NEW q \in Places, NEW u \in Transfers, cq[q].imp[u].st = "staged"
                 PROVE  /\ cq[Src(u)].exp[u].st = "sealed"
                        /\ cq[q].lived = cq[Src(u)].lived /\ cq[q].epoch = cq[Src(u)].epoch
      BY DEF StagedIsCut
    <2>1. CASE q = p
      <3>1. u = t
        BY <1>1, <1>a, <2>1
      <3> QED
        BY <1>f, <1>q, <1>s, <2>1, <3>1
    <2>2. CASE q # p
      <3>1. /\ cp[Src(u)].exp[u].st = "sealed"
            /\ cp[q].lived = cp[Src(u)].lived /\ cp[q].epoch = cp[Src(u)].epoch
        BY <1>1, <2>2 DEF Custody, StagedIsCut
      <3>2. Src(u) # p
        BY <1>a, <3>1
      <3> QED
        BY <1>q, <2>2, <3>1, <3>2, SrcPlace
    <2> QED
      BY <2>1, <2>2
  <1>c. ASSUME NEW q \in Places, Custodian(cq, q) PROVE q # p /\ Custodian(cp, q)
    <2>1. q # p
      <3> SUFFICES ASSUME q = p PROVE FALSE
        OBVIOUS
      <3>1. PICK u \in Transfers : cq[p].exp[u].st = "sealed"
        BY <1>c, <1>f, <1>q DEF Custodian
      <3> QED
        BY <1>1, <1>a, <3>1
    <2>2. CASE cq[q].auth = "active"
      BY <1>q, <2>1, <2>2 DEF Custodian
    <2>3. CASE cq[q].auth # "active"
      <3>1. PICK u \in Transfers : cq[q].exp[u].st = "sealed" /\ cq[cq[q].exp[u].dest].imp[u].st # "activated"
        BY <1>c, <2>3 DEF Custodian
      <3>2. cp[q].exp[u].st = "sealed" /\ cq[q].exp[u].dest = cp[q].exp[u].dest
        BY <1>1, <3>1
      <3>3. cp[cp[q].exp[u].dest].imp[u].st # "activated"
        <4>1. cp[q].exp[u].dest \in Places
          BY <3>2, DestPlace
        <4>2. CASE cp[q].exp[u].dest = p /\ u = t
          BY <1>1, <4>2
        <4>3. CASE cp[q].exp[u].dest # p \/ u # t
          BY <1>1, <3>1, <3>2, <4>1, <4>3
        <4> QED
          BY <4>2, <4>3
      <3> QED
        BY <2>1, <3>2, <3>3 DEF Custodian
    <2> QED
      BY <2>1, <2>2, <2>3
  <1>8. OneCustodian(cq)
    BY <1>c DEF Custody, OneCustodian
  <1>9. CustodianNewest(cq)
    <2> SUFFICES ASSUME NEW o \in Places, NEW q \in Places, Custodian(cq, o)
                 PROVE  cq[q].lived <= cq[o].lived /\ cq[q].epoch <= cq[o].epoch
      BY DEF CustodianNewest
    <2>1. /\ o # p /\ cp[q].lived <= cp[o].lived /\ cp[q].epoch <= cp[o].epoch
          /\ cp[s].lived <= cp[o].lived /\ cp[s].epoch <= cp[o].epoch
      BY <1>c DEF Custody, CustodianNewest
    <2>2. CASE q = p
      BY <1>f, <1>q, <1>s, <2>1, <2>2
    <2>3. CASE q # p
      BY <1>q, <2>1, <2>3
    <2> QED
      BY <2>2, <2>3
  <1> QED
    BY <1>2, <1>3, <1>5, <1>6, <1>8, <1>9, <1>q DEF Custody

\* Activate: custody goes from the sealed source to the staged copy, which
\* is as new as the source it was cut from.
LEMMA ActivateKeeps ==
    ASSUME NEW cp, Custody(cp), NEW p \in Places, NEW t \in Transfers,
           cp[p].imp[t].st = "staged",
           NEW cq, cq = [cp EXCEPT ![p] = ActivatedCopy(@, t)]
    PROVE  Custody(cq) /\ Follows(cp, cq) /\ Activated(cq[p], t)
  <1>t. cp \in [Places -> Copies]
    BY DEF Custody
  <1>x. PICK x : x = ActivatedCopy(cp[p], t)
    OBVIOUS
  <1>f. /\ x \in Copies
        /\ x.auth = "active" /\ x.hold = cp[p].hold /\ x.lived = cp[p].lived /\ x.epoch = cp[p].epoch
        /\ x.exp = cp[p].exp /\ x.imp[t].st = "activated"
        /\ \A u \in Transfers : u # t => x.imp[u] = cp[p].imp[u]
    BY <1>t, <1>x, ActivateFields
  <1>q. cq \in [Places -> Copies] /\ cq[p] = x /\ \A q \in Places : q # p => cq[q] = cp[q]
    BY <1>t, <1>x, <1>f
  <1>s. PICK s \in Places :
           /\ s = Src(t) /\ s # p /\ cp[s].exp[t].st = "sealed" /\ cp[s].exp[t].dest = p
           /\ cp[s].lived = cp[p].lived /\ cp[s].epoch = cp[p].epoch
    <2>1. /\ cp[Src(t)].exp[t].st = "sealed" /\ cp[Src(t)].exp[t].dest = p
          /\ cp[Src(t)].lived = cp[p].lived /\ cp[Src(t)].epoch = cp[p].epoch
      BY DEF Custody, StagedIsCut, ImportsExported
    <2> QED
      BY <2>1, SrcPlace, DestPlace
  <1>a. \A u \in Transfers : cp[p].exp[u].st # "sealed" /\ (u # t => cp[p].imp[u].st # "staged")
    BY DEF Custody, RowFollowsLedgers
  <1>1. /\ \A q \in Places : /\ cq[q].exp = cp[q].exp
                             /\ cq[q].lived = cp[q].lived /\ cq[q].epoch = cp[q].epoch
        /\ \A q \in Places, u \in Transfers : q # p \/ u # t => cq[q].imp[u] = cp[q].imp[u]
        /\ cq[p].imp[t].st = "activated"
    BY <1>f, <1>q
  <1>2. ExportsAtSource(cq) /\ Decided(cq) /\ Follows(cp, cq)
    <2>1. \A q \in Places, u \in Transfers :
              /\ cq[q].imp[u].st = "none" => cp[q].imp[u].st = "none"
              /\ cp[q].imp[u].st \in {"activated", "retired"} => cq[q].imp[u].st = cp[q].imp[u].st
      BY <1>1
    <2> QED
      BY <1>1, <1>q, <2>1, ArrivalKeeps
  <1>3. RowFollowsLedgers(cq)
    <2>1. ASSUME NEW q \in Places, q # p
          PROVE  /\ cq[q].auth \in {"sealed", "staged"} => cq[q].hold \in Transfers
                 /\ \A u \in Transfers :
                     /\ (cq[q].exp[u].st = "sealed") <=> (cq[q].auth = "sealed" /\ cq[q].hold = u)
                     /\ (cq[q].imp[u].st = "staged") <=> (cq[q].auth = "staged" /\ cq[q].hold = u)
      BY <1>q, <2>1 DEF Custody, RowFollowsLedgers
    <2>2. \A u \in Transfers : x.exp[u].st # "sealed" /\ x.imp[u].st # "staged"
      BY <1>a, <1>f
    <2> QED
      BY <1>f, <1>q, <2>1, <2>2 DEF RowFollowsLedgers
  <1>5. ImportsExported(cq)
    <2> SUFFICES ASSUME NEW q \in Places, NEW u \in Transfers, cq[q].imp[u].st \in {"staged", "activated"}
                 PROVE  cq[Src(u)].exp[u].st # "none" /\ cq[Src(u)].exp[u].dest = q
      BY DEF ImportsExported
    <2>1. CASE q = p /\ u = t
      BY <1>1, <1>s, <2>1
    <2>2. CASE q # p \/ u # t
      BY <1>1, <2>2, SrcPlace DEF Custody, ImportsExported
    <2> QED
      BY <2>1, <2>2
  <1>6. StagedIsCut(cq)
    <2> SUFFICES ASSUME NEW q \in Places, NEW u \in Transfers, cq[q].imp[u].st = "staged"
                 PROVE  /\ cq[Src(u)].exp[u].st = "sealed"
                        /\ cq[q].lived = cq[Src(u)].lived /\ cq[q].epoch = cq[Src(u)].epoch
      BY DEF StagedIsCut
    <2>1. cp[q].imp[u].st = "staged"
      BY <1>1
    <2> QED
      BY <1>1, <2>1, SrcPlace DEF Custody, StagedIsCut
  <1>c. ASSUME NEW q \in Places, Custodian(cq, q) PROVE q = p
    <2> SUFFICES ASSUME q # p PROVE FALSE
      OBVIOUS
    <2>1. Custodian(cp, s)
      BY <1>s DEF Custodian
    <2>2. CASE cq[q].auth = "active"
      <3>1. Custodian(cp, q) /\ cp[q].auth = "active"
        BY <1>q, <2>2 DEF Custodian
      <3>2. q = s
        BY <2>1, <3>1 DEF Custody, OneCustodian
      <3> QED
        BY <1>s, <3>1, <3>2 DEF Custody, RowFollowsLedgers
    <2>3. CASE cq[q].auth # "active"
      <3>1. PICK u \in Transfers : cq[q].exp[u].st = "sealed" /\ cq[cq[q].exp[u].dest].imp[u].st # "activated"
        BY <1>c, <2>3 DEF Custodian
      <3>2. cp[q].exp[u].st = "sealed" /\ cq[q].exp[u].dest = cp[q].exp[u].dest
        BY <1>1, <3>1
      <3>3. cp[cp[q].exp[u].dest].imp[u].st # "activated"
        BY <1>1, <3>1, <3>2, DestPlace
      <3>4. q = s
        BY <2>1, <3>2, <3>3 DEF Custody, OneCustodian, Custodian
      <3>5. u = t
        BY <1>s, <3>2, <3>4 DEF Custody, RowFollowsLedgers
      <3> QED
        BY <1>1, <1>s, <3>1, <3>2, <3>4, <3>5
    <2> QED
      BY <2>2, <2>3
  <1>8. OneCustodian(cq)
    BY <1>c DEF OneCustodian
  <1>9. CustodianNewest(cq)
    <2> SUFFICES ASSUME NEW q \in Places PROVE cq[q].lived <= cq[p].lived /\ cq[q].epoch <= cq[p].epoch
      BY <1>c DEF CustodianNewest
    <2>1. cp[q].lived <= cp[s].lived /\ cp[q].epoch <= cp[s].epoch
      BY <1>s DEF Custody, CustodianNewest, Custodian
    <2> QED
      BY <1>1, <1>s, <2>1
  <1> QED
    BY <1>1, <1>2, <1>3, <1>5, <1>6, <1>8, <1>9, <1>q DEF Custody, Activated

\* Retire: a staged copy goes, or a transfer that never arrived is refused
\* for good; neither had custody.
LEMMA RetireKeeps ==
    ASSUME NEW cp, Custody(cp), NEW p \in Places, NEW t \in Transfers,
           cp[p].imp[t].st \in {"none", "staged"},
           NEW cq, cq = [cp EXCEPT ![p] = RetiredCopy(@, t)]
    PROVE  Custody(cq) /\ Follows(cp, cq)
  <1>t. cp \in [Places -> Copies]
    BY DEF Custody
  <1>x. PICK x : x = RetiredCopy(cp[p], t)
    OBVIOUS
  <1>f. /\ x \in Copies /\ x.exp = cp[p].exp /\ x.imp[t].st = "retired"
        /\ \A u \in Transfers : u # t => x.imp[u] = cp[p].imp[u]
    BY <1>t, <1>x, RetireFields, TombstoneFields
  <1>g. \/ /\ x.auth = cp[p].auth /\ x.hold = cp[p].hold
           /\ x.lived = cp[p].lived /\ x.epoch = cp[p].epoch
        \/ /\ x.auth \in {"absent", "transferred"} /\ x.lived = 0 /\ x.epoch = 0
           /\ cp[p].auth = "staged" /\ cp[p].hold = t
    <2>1. CASE cp[p].imp[t].st = "none"
      BY <1>t, <1>x, <2>1, TombstoneFields
    <2>2. CASE cp[p].imp[t].st = "staged"
      BY <1>t, <1>x, <2>2, RetireFields DEF Custody, RowFollowsLedgers
    <2> QED
      BY <2>1, <2>2
  <1>q. cq \in [Places -> Copies] /\ cq[p] = x /\ \A q \in Places : q # p => cq[q] = cp[q]
    BY <1>t, <1>x, <1>f
  <1>1. /\ \A q \in Places : cq[q].exp = cp[q].exp
        /\ \A q \in Places, u \in Transfers : q # p \/ u # t => cq[q].imp[u] = cp[q].imp[u]
        /\ cq[p].imp[t].st = "retired"
    BY <1>f, <1>q
  <1>l. \A q \in Places : /\ cp[q].auth # "staged" =>
                               /\ cq[q].lived = cp[q].lived /\ cq[q].epoch = cp[q].epoch
                               /\ cq[q].auth = cp[q].auth
                          /\ cq[q].lived <= cp[q].lived /\ cq[q].epoch <= cp[q].epoch
    <2>1. \A q \in Places : cp[q].lived \in Nat /\ cp[q].epoch \in Nat
      BY <1>t, CopyType
    <2> QED
      BY <1>g, <1>q, <2>1
  <1>2. ExportsAtSource(cq) /\ Decided(cq) /\ Follows(cp, cq)
    <2>1. \A q \in Places, u \in Transfers :
              /\ cq[q].imp[u].st = "none" => cp[q].imp[u].st = "none"
              /\ cp[q].imp[u].st \in {"activated", "retired"} => cq[q].imp[u].st = cp[q].imp[u].st
      BY <1>1
    <2> QED
      BY <1>1, <1>l, <1>q, <2>1, ArrivalKeeps
  <1>3. RowFollowsLedgers(cq)
    <2>1. ASSUME NEW q \in Places, q # p
          PROVE  /\ cq[q].auth \in {"sealed", "staged"} => cq[q].hold \in Transfers
                 /\ \A u \in Transfers :
                     /\ (cq[q].exp[u].st = "sealed") <=> (cq[q].auth = "sealed" /\ cq[q].hold = u)
                     /\ (cq[q].imp[u].st = "staged") <=> (cq[q].auth = "staged" /\ cq[q].hold = u)
      BY <1>q, <2>1 DEF Custody, RowFollowsLedgers
    <2>2. x.auth \in {"sealed", "staged"} => x.hold \in Transfers
      BY <1>g DEF Custody, RowFollowsLedgers
    <2>3. ASSUME NEW u \in Transfers
          PROVE  /\ (x.exp[u].st = "sealed") <=> (x.auth = "sealed" /\ x.hold = u)
                 /\ (x.imp[u].st = "staged") <=> (x.auth = "staged" /\ x.hold = u)
      <3>1. /\ (cp[p].exp[u].st = "sealed") <=> (cp[p].auth = "sealed" /\ cp[p].hold = u)
            /\ (cp[p].imp[u].st = "staged") <=> (cp[p].auth = "staged" /\ cp[p].hold = u)
        BY DEF Custody, RowFollowsLedgers
      <3>2. CASE cp[p].imp[t].st = "none"
        <4>1. x.auth = cp[p].auth /\ x.hold = cp[p].hold
          BY <1>t, <1>x, <3>2, TombstoneFields
        <4>2. CASE u = t
          BY <1>f, <3>1, <3>2, <4>1, <4>2
        <4>3. CASE u # t
          BY <1>f, <3>1, <4>1, <4>3
        <4> QED
          BY <4>2, <4>3
      <3>3. CASE cp[p].imp[t].st = "staged"
        <4>1. x.auth \in {"absent", "transferred"}
          BY <1>t, <1>x, <3>3, RetireFields
        <4>2. cp[p].auth = "staged" /\ cp[p].hold = t
          BY <3>3 DEF Custody, RowFollowsLedgers
        <4>3. CASE u = t
          BY <1>f, <3>1, <4>1, <4>2, <4>3
        <4>4. CASE u # t
          BY <1>f, <3>1, <4>1, <4>2, <4>4
        <4> QED
          BY <4>3, <4>4
      <3> QED
        BY <3>2, <3>3
    <2> QED
      BY <1>q, <2>1, <2>2, <2>3 DEF RowFollowsLedgers
  <1>5. ImportsExported(cq)
    <2> SUFFICES ASSUME NEW q \in Places, NEW u \in Transfers, cq[q].imp[u].st \in {"staged", "activated"}
                 PROVE  cq[Src(u)].exp[u].st # "none" /\ cq[Src(u)].exp[u].dest = q
      BY DEF ImportsExported
    <2>1. q # p \/ u # t
      BY <1>1
    <2> QED
      BY <1>1, <2>1, SrcPlace DEF Custody, ImportsExported
  <1>6. StagedIsCut(cq)
    <2> SUFFICES ASSUME NEW q \in Places, NEW u \in Transfers, cq[q].imp[u].st = "staged"
                 PROVE  /\ cq[Src(u)].exp[u].st = "sealed"
                        /\ cq[q].lived = cq[Src(u)].lived /\ cq[q].epoch = cq[Src(u)].epoch
      BY DEF StagedIsCut
    <2>1. cp[q].imp[u].st = "staged"
      BY <1>1
    <2>2. /\ cp[Src(u)].exp[u].st = "sealed"
          /\ cp[q].lived = cp[Src(u)].lived /\ cp[q].epoch = cp[Src(u)].epoch
      BY <2>1 DEF Custody, StagedIsCut
    <2>3. cp[Src(u)].auth = "sealed" /\ Src(u) \in Places
      BY <2>2, SrcPlace DEF Custody, RowFollowsLedgers
    <2>4. cq[q].lived = cp[q].lived /\ cq[q].epoch = cp[q].epoch
      <3>1. CASE q # p
        BY <1>q, <3>1
      <3>2. CASE q = p
        <4>1. cq[q].auth = "staged"
          BY <1>3 DEF RowFollowsLedgers
        <4> QED
          BY <1>g, <1>q, <3>2, <4>1
      <3> QED
        BY <3>1, <3>2
    <2> QED
      BY <1>1, <1>l, <2>2, <2>3, <2>4
  <1>c. ASSUME NEW q \in Places, Custodian(cq, q) PROVE cp[q].auth # "staged" /\ Custodian(cp, q)
    <2>1. CASE cq[q].auth = "active"
      <3>1. cp[q].auth = "active"
        BY <1>g, <1>q, <2>1
      <3> QED
        BY <3>1 DEF Custodian
    <2>2. CASE cq[q].auth # "active"
      <3>1. PICK u \in Transfers : cq[q].exp[u].st = "sealed" /\ cq[cq[q].exp[u].dest].imp[u].st # "activated"
        BY <1>c, <2>2 DEF Custodian
      <3>2. cp[q].exp[u].st = "sealed" /\ cq[q].exp[u].dest = cp[q].exp[u].dest
        BY <1>1, <3>1
      <3>3. cp[cp[q].exp[u].dest].imp[u].st # "activated"
        <4>1. cp[q].exp[u].dest \in Places
          BY <3>2, DestPlace
        <4>2. CASE cp[q].exp[u].dest = p /\ u = t
          BY <4>2
        <4>3. CASE cp[q].exp[u].dest # p \/ u # t
          BY <1>1, <3>1, <3>2, <4>1, <4>3
        <4> QED
          BY <4>2, <4>3
      <3>4. cp[q].auth = "sealed"
        BY <3>2 DEF Custody, RowFollowsLedgers
      <3> QED
        BY <3>2, <3>3, <3>4 DEF Custodian
    <2> QED
      BY <2>1, <2>2
  <1>8. OneCustodian(cq)
    BY <1>c DEF Custody, OneCustodian
  <1>9. CustodianNewest(cq)
    <2> SUFFICES ASSUME NEW o \in Places, NEW q \in Places, Custodian(cq, o)
                 PROVE  cq[q].lived <= cq[o].lived /\ cq[q].epoch <= cq[o].epoch
      BY DEF CustodianNewest
    <2>1. cp[q].lived <= cp[o].lived /\ cp[q].epoch <= cp[o].epoch
      BY <1>c DEF Custody, CustodianNewest
    <2>2. cq[o].lived = cp[o].lived /\ cq[o].epoch = cp[o].epoch
      BY <1>c, <1>l
    <2>3. cq[q].lived <= cp[q].lived /\ cq[q].epoch <= cp[q].epoch
      BY <1>l
    <2>4. /\ cp[q].lived \in Nat /\ cp[q].epoch \in Nat /\ cp[o].lived \in Nat /\ cp[o].epoch \in Nat
          /\ cq[q].lived \in Nat /\ cq[q].epoch \in Nat
      BY <1>t, <1>q, CopyType
    <2> QED
      BY <2>1, <2>2, <2>3, <2>4
  <1> QED
    BY <1>2, <1>3, <1>5, <1>6, <1>8, <1>9, <1>q DEF Custody
-----------------------------------------------------------------------------
(* The operations as the session services call them. *)

LEMMA SameCopies ==
    ASSUME NEW cp, Custody(cp), NEW p \in Places, NEW cq, cq = [cp EXCEPT ![p] = cp[p]]
    PROVE  cq = cp
  BY DEF Custody

LEMMA ImportKeeps ==
    ASSUME NEW cp, Custody(cp), NEW p \in Places, NEW b \in Bundles, Carried(cp, b),
           NEW over \in Transfers \cup {Nothing}, ImportOK(cp[p], p, b, over),
           NEW cq, cq = [cp EXCEPT ![p] = ImportedCopy(cp[p], b, over)]
    PROVE  Custody(cq) /\ Follows(cp, cq)
  <1>1. CASE ImportReplays(cp[p], b)
    BY <1>1, SameCopies, FollowsRefl DEF ImportedCopy
  <1>2. CASE ~ImportReplays(cp[p], b)
    <2>1. /\ p = b.dest /\ cp[p].imp[b.t].st = "none" /\ cp[p].auth \in {"absent", "transferred"}
      BY <1>2 DEF ImportOK, PrepareReclaimOK
    <2>2. cq = [cp EXCEPT ![b.dest] = StagedCopy(@, b, over)]
      BY <1>2, <2>1 DEF ImportedCopy
    <2> QED
      BY <2>1, <2>2, StageKeeps
  <1> QED
    BY <1>1, <1>2

LEMMA CompleteKeeps ==
    ASSUME NEW cp, Custody(cp), NEW p \in Places, NEW t \in Transfers, NEW d \in Places,
           CompleteOK(cp[p], t, cp[d]),
           NEW cq, cq = [cp EXCEPT ![p] = CompletedCopy(cp[p], t)]
    PROVE  Custody(cq) /\ Follows(cp, cq)
  <1>1. CASE cp[p].exp[t].st = "completed"
    <2>1. CompletedCopy(cp[p], t) = cp[p]
      BY <1>1 DEF CompletedCopy
    <2>2. cq = cp
      BY <2>1, SameCopies
    <2> QED
      BY <1>1, <2>2, FollowsRefl
  <1>2. CASE cp[p].exp[t].st # "completed"
    <2>1. cp[p].exp[t].st = "sealed" /\ Activated(cp[d], t)
      BY <1>2 DEF CompleteOK
    <2>2. cp[p].exp[t].dest = d
      BY <2>1, DestPlace DEF Custody, ImportsExported, Activated
    <2> QED
      BY <2>1, <2>2, EndKeeps
  <1> QED
    BY <1>1, <1>2

LEMMA AbortKeeps ==
    ASSUME NEW cp, Custody(cp), NEW p \in Places, NEW t \in Transfers, NEW d \in Places,
           AbortOK(cp[p], t, cp[d]), cp[p].exp[t].dest = d,
           NEW cq, cq = [cp EXCEPT ![p] = AbortedCopy(cp[p], t)]
    PROVE  Custody(cq) /\ Follows(cp, cq)
  <1>1. CASE cp[p].exp[t].st = "aborted"
    <2>1. AbortedCopy(cp[p], t) = cp[p]
      BY <1>1 DEF AbortedCopy
    <2>2. cq = cp
      BY <2>1, SameCopies
    <2> QED
      BY <1>1, <2>2, FollowsRefl
  <1>2. CASE cp[p].exp[t].st # "aborted"
    <2>1. cp[p].exp[t].st = "sealed" /\ Retired(cp[d], t)
      BY <1>2 DEF AbortOK
    <2> QED
      BY <2>1, EndKeeps
  <1> QED
    BY <1>1, <1>2

LEMMA RetirementKeeps ==
    ASSUME NEW cp, Custody(cp), NEW p \in Places, NEW t \in Transfers, NEW key,
           RetireOK(cp[p], t, key),
           NEW cq, cq = [cp EXCEPT ![p] = RetiredCopy(cp[p], t)]
    PROVE  Custody(cq) /\ Follows(cp, cq)
  <1>1. CASE Retired(cp[p], t)
    <2>1. RetiredCopy(cp[p], t) = cp[p]
      BY <1>1 DEF RetiredCopy
    <2>2. cq = cp
      BY <2>1, SameCopies
    <2> QED
      BY <1>1, <2>2, FollowsRefl
  <1>2. CASE ~Retired(cp[p], t)
    <2>1. cp[p].imp[t].st \in {"none", "staged"}
      BY <1>2 DEF RetireOK, BareTombstone
    <2> QED
      BY <2>1, RetireKeeps
  <1> QED
    BY <1>1, <1>2

LEMMA ActivationKeeps ==
    ASSUME NEW cp, Custody(cp), NEW p \in Places, NEW t \in Transfers, ActivateOK(cp[p], t),
           NEW cq, cq = [cp EXCEPT ![p] = ActivatedCopy(cp[p], t)]
    PROVE  Custody(cq) /\ Follows(cp, cq) /\ Activated(cq[p], t)
  <1>1. CASE Activated(cp[p], t)
    <2>1. ActivatedCopy(cp[p], t) = cp[p]
      BY <1>1 DEF ActivatedCopy
    <2>2. cq = cp
      BY <2>1, SameCopies
    <2> QED
      BY <1>1, <2>2, FollowsRefl
  <1>2. CASE ~Activated(cp[p], t)
    BY <1>2, ActivateKeeps DEF ActivateOK
  <1> QED
    BY <1>1, <1>2

\* A bundle is cut from a sealed copy.
LEMMA BundleCarried ==
    ASSUME NEW cp, Custody(cp), NEW p \in Places, NEW t \in Transfers, ExportOK(cp[p], t)
    PROVE  /\ Bundle(cp[p], t) \in Bundles /\ Bundle(cp[p], t).t = t
           /\ Carried(cp, Bundle(cp[p], t))
  <1>1. cp[p] \in Copies /\ cp[p].exp[t].st = "sealed"
    BY DEF Custody, ExportOK
  <1>2. cp[p].exp[t].dest \in Places /\ p = Src(t)
    BY <1>1, DestPlace
  <1>3. Bundle(cp[p], t) \in Bundles /\ Bundle(cp[p], t).t = t
    BY <1>1, <1>2 DEF Bundle, Bundles, Copies
  <1>4. /\ Bundle(cp[p], t).dest = cp[p].exp[t].dest
        /\ Bundle(cp[p], t).lived = cp[p].lived /\ Bundle(cp[p], t).epoch = cp[p].epoch
    BY DEF Bundle
  <1> QED
    BY <1>1, <1>2, <1>3, <1>4 DEF Carried


=============================================================================
