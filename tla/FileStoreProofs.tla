--------------------------- MODULE FileStoreProofs ---------------------------
(* Theorems about the files service, for every value of the constants:      *)
(* nothing is lost, a sealed tree is the cut, and the recorded versions      *)
(* vouch truly.                                                             *)
EXTENDS FileStore, TLAPS

-----------------------------------------------------------------------------
(* The files service: the inductive invariant *)

\* The goroutine of an operation has ended, or the process with it.
Over == {"idle", "dead"}
\* Nothing has replaced a public name yet, or it was undone.
Before == {"put", "src", "move", "cap", "pub", "xch", "sys", "hung", "fail", "restore"}
Undoing == {"und", "look", "back", "pull", "swap", "undone", "park"}
NotYet(o) ==
    \/ op[o].out = "fail" \/ op[o].pc \in Before
    \/ op[o].pc = "res" /\ (op[o].act = "cap" \/ op[o].eff # "ok")
\* An object that is under some name, or whose destroyer is known.
Kept(x) == Exists(x) \/ x \in others.removed \/ \E k \in killed : k[1] = x

OpFields == {"st", "kind", "path", "to", "key", "ver", "pre", "dst", "own", "pc", "act", "res", "eff",
             "done", "tomb", "snap", "home", "seen", "landed", "out"}
IsOp(r) == r = [f \in OpFields |-> r[f]]
OpTypes == /\ op = [o \in Ops |-> op[o]] /\ \A o \in Ops : IsOp(op[o])
TreeTypes ==
    /\ pub = [p \in Paths |-> pub[p]] /\ slot = [o \in Ops |-> slot[o]] /\ held = [o \in Ops |-> held[o]]
    /\ others = [wrote |-> others.wrote, removed |-> others.removed, count |-> others.count]
    /\ others.wrote \in Nat

Homes == Paths \cup {"none", Surface}
\* What an operation is, and how far one of its kind can be.
DeclaredSound(o) ==
    /\ op[o].st = "none" =>
          /\ op[o].kind = "none" /\ op[o].pc = "idle" /\ op[o].out = "none" /\ slot[o] = 0 /\ held[o] = 0
          /\ \A k \in killed : k[2] # o
    /\ op[o].st # "none" => /\ op[o].kind \in {"write", "rename", "remove"}
                            /\ op[o].path \in Paths /\ op[o].to \in Paths
    /\ op[o].home \in Homes
ActsOf(o) ==
    CASE op[o].kind = "write" -> {"pub", "xch"}
      [] op[o].kind = "rename" -> {"cap", "xch"}
      [] OTHER -> {"cap"}
WhereSound(o) ==
    /\ op[o].pc \in {"put", "pub", "fail"} => op[o].kind = "write"
    /\ op[o].pc \in {"src", "move"} => op[o].kind = "rename"
    /\ op[o].pc = "cap" => op[o].kind # "write"
    /\ op[o].pc \in Undoing \cup {"xch"} => op[o].kind # "remove"
    /\ op[o].pc \in Undoing => op[o].act # "put"
    /\ op[o].pc \in {"sys", "hung", "res"} => op[o].act \in ActsOf(o)

\* What the private name can hold where the goroutine would unlink it.
SlotSound(o) ==
    /\ op[o].pc = "put" => slot[o] = 0
    /\ op[o].pc = "commit" => slot[o] \in {0, op[o].dst}
    /\ op[o].pc = "res" /\ op[o].act = "pub" /\ op[o].eff = "ok" => slot[o] = 0
    /\ op[o].kind = "write" /\ op[o].pc \in {"pub", "xch", "sys", "hung", "undone", "fail"} => slot[o] \in {0, o}
    /\ op[o].kind = "write" /\ op[o].pc = "res" /\ op[o].eff # "ok" => slot[o] \in {0, o}

\* An answer comes at the end, and failure only when nothing was replaced.
OutSound(o) ==
    /\ op[o].pc \notin Over => op[o].out \in {"none", "unknown"}
    /\ op[o].kind # "remove" /\ NotYet(o) => ~op[o].landed

\* A body is under some name before the system is asked to publish it.
StagedSound(o) ==
    op[o].kind = "write" /\ (op[o].act # "put" \/ op[o].pc \in {"pub", "xch"}) => Kept(o)

OpSound(o) == DeclaredSound(o) /\ WhereSound(o) /\ SlotSound(o) /\ OutSound(o) /\ StagedSound(o)

\* Who destroyed what, and that it did not then claim to have failed.
KillOK(k) ==
    /\ k[2] \in Ops /\ op[k[2]].st # "none"
    /\ \/ k[1] = op[k[2]].dst
       \/ k[1] = k[2] /\ op[k[2]].out \in {"fail", "unknown"} /\ op[k[2]].pc \in Over
    /\ k[1] # k[2] /\ op[k[2]].kind # "remove" =>
          op[k[2]].out # "fail" /\ op[k[2]].pc \in Over \cup {"info"}
KillSound == \A k \in killed : KillOK(k)

Others(x) == x \in {Seed(p) : p \in Seeded} \/ (x \in Foreign /\ x - 200 <= others.wrote)
BornSound == \A x \in Objects \ {0} : Others(x) => Kept(x)

FileInv == OpTypes /\ TreeTypes /\ (\A o \in Ops : OpSound(o)) /\ KillSound /\ BornSound

LEMMA FileInvMeans == FileInv => NothingLost
  <1> SUFFICES ASSUME FileInv PROVE NothingLost
    OBVIOUS
  <1>1. ASSUME NEW x \in Objects \ {0}, Born(x) PROVE Kept(x)
    BY <1>1 DEF FileInv, BornSound, Others, Born, OpSound, StagedSound
  <1>2. \A k \in killed : k[1] = op[k[2]].dst \/ (k[1] = k[2] /\ op[k[2]].out \in {"fail", "unknown"})
    BY DEF FileInv, KillSound, KillOK
  <1>3. ASSUME NEW o \in Ops, op[o].out = "fail", op[o].kind # "remove"
        PROVE  ~op[o].landed /\ ~\E k \in killed : k[2] = o /\ k[1] # o
    <2>1. ~op[o].landed
      BY <1>3 DEF FileInv, OpSound, OutSound, NotYet
    <2>2. ~\E k \in killed : k[2] = o /\ k[1] # o
      BY <1>3 DEF FileInv, KillSound, KillOK
    <2> QED
      BY <2>1, <2>2
  <1> QED
    BY <1>1, <1>2, <1>3 DEF NothingLost, Kept

LEMMA UnusedIsOp == IsOp(Unused)
  BY DEF IsOp, OpFields, Unused

LEMMA FileInvInit == Init => FileInv
  <1> SUFFICES ASSUME Init PROVE FileInv
    OBVIOUS
  <1>1. OpTypes
    BY UnusedIsOp DEF Init, OpTypes
  <1>2. TreeTypes
    BY DEF Init, TreeTypes
  <1>3. ASSUME NEW o \in Ops PROVE OpSound(o)
    <2>1. /\ op[o].st = "none" /\ op[o].kind = "none" /\ op[o].pc = "idle" /\ op[o].out = "none"
          /\ op[o].home = "none" /\ slot[o] = 0 /\ held[o] = 0 /\ killed = {}
      BY DEF Init, Unused
    <2>2. ~op[o].landed
      BY DEF Init, Unused
    <2> QED
      BY <2>1, <2>2 DEF OpSound, DeclaredSound, WhereSound, SlotSound, OutSound, StagedSound, Undoing, Over, Homes
  <1>4. KillSound
    BY DEF Init, KillSound
  <1>5. BornSound
    <2> SUFFICES ASSUME NEW x \in Objects \ {0}, Others(x) PROVE Kept(x)
      BY DEF BornSound
    <2>1. CASE x \in {Seed(p) : p \in Seeded}
      BY <2>1, FileStoreAssumption DEF Init, Kept, Exists
    <2>2. CASE x \in Foreign /\ x - 200 <= others.wrote
      BY <2>2 DEF Init, Foreign
    <2> QED
      BY <2>1, <2>2 DEF Others
  <1> QED
    BY <1>1, <1>2, <1>3, <1>4, <1>5 DEF FileInv

-----------------------------------------------------------------------------
(* Objects keep their names *)

\* Nobody but operation o moves.
OnlyOp(o) == \A k \in Ops \ {o} : op'[k] = op[k] /\ slot'[k] = slot[k] /\ held'[k] = held[k]
KeptStays == \A x : x # 0 /\ Kept(x) => Kept(x)'

LEMMA TreeStill == ASSUME UNCHANGED <<tree, others>> PROVE KeptStays
  BY DEF KeptStays, Kept, Exists, tree

\* Two names exchange what they hold.
LEMMA Swapped ==
    ASSUME TreeTypes, NEW o \in Ops, NEW p \in Paths,
           pub' = [pub EXCEPT ![p] = slot[o]], slot' = [slot EXCEPT ![o] = pub[p]],
           UNCHANGED <<held, recovered, killed, others>>
    PROVE  KeptStays /\ TreeTypes' /\ slot'[o] = pub[p]
  <1>1. pub'[p] = slot[o] /\ slot'[o] = pub[p]
    BY DEF TreeTypes
  <1>2. \A q \in Paths \ {p} : pub'[q] = pub[q]
    BY DEF TreeTypes
  <1>3. \A k \in Ops \ {o} : slot'[k] = slot[k]
    BY DEF TreeTypes
  <1>4. TreeTypes'
    BY DEF TreeTypes
  <1>5. ASSUME NEW x, x # 0, Kept(x) PROVE Kept(x)'
    BY <1>1, <1>2, <1>3, <1>5 DEF Kept, Exists
  <1> QED
    BY <1>1, <1>4, <1>5 DEF KeptStays

LEMMA Moved ==
    ASSUME TreeTypes, NEW p \in Paths, NEW q \in Paths, pub[q] = 0,
           pub' = [pub EXCEPT ![q] = pub[p], ![p] = 0],
           UNCHANGED <<slot, held, recovered, killed, others>>
    PROVE  KeptStays /\ TreeTypes'
  <1>1. pub[p] # 0 => p # q
    OBVIOUS
  <1>2. pub'[p] = 0 /\ (p # q => pub'[q] = pub[p]) /\ \A r \in Paths \ {p, q} : pub'[r] = pub[r]
    BY DEF TreeTypes
  <1>3. TreeTypes'
    BY DEF TreeTypes
  <1>4. ASSUME NEW x, x # 0, Kept(x) PROVE Kept(x)'
    BY <1>1, <1>2, <1>4 DEF Kept, Exists
  <1> QED
    BY <1>3, <1>4 DEF KeptStays

\* The private name is emptied, and what it held is accounted for.
LEMMA Unlinked ==
    ASSUME TreeTypes, NEW o \in Ops, slot' = [slot EXCEPT ![o] = 0],
           killed' = killed \/ killed' = killed \cup {<<slot[o], o>>},
           slot[o] = 0 \/ <<slot[o], o>> \in killed',
           UNCHANGED <<pub, held, recovered, others>>
    PROVE  KeptStays /\ TreeTypes' /\ slot'[o] = 0
  <1>1. slot'[o] = 0 /\ \A k \in Ops \ {o} : slot'[k] = slot[k]
    BY DEF TreeTypes
  <1>2. TreeTypes'
    BY DEF TreeTypes
  <1>3. ASSUME NEW x, x # 0, Kept(x) PROVE Kept(x)'
    <2>1. killed \subseteq killed'
      OBVIOUS
    <2>2. CASE x = slot[o]
      BY <1>3, <2>2 DEF Kept
    <2>3. CASE x # slot[o]
      BY <1>1, <1>3, <2>1, <2>3 DEF Kept, Exists
    <2> QED
      BY <2>2, <2>3
  <1> QED
    BY <1>1, <1>2, <1>3 DEF KeptStays

-----------------------------------------------------------------------------
(* One operation moves *)

\* An operation keeps what it was declared with.
SameId(o) ==
    /\ op'[o].kind = op[o].kind /\ op'[o].path = op[o].path /\ op'[o].to = op[o].to
    /\ op'[o].dst = op[o].dst /\ op'[o].key = op[o].key /\ op'[o].ver = op[o].ver /\ op'[o].own = op[o].own
Same(o) == SameId(o) /\ op[o].st # "none" /\ op'[o].st # "none"
\* Declarations stay, and a goroutine that has ended does not run again.
Steady ==
    \A o \in Ops : /\ SameId(o)
                   /\ op'[o].st = "none" <=> op[o].st = "none"
                   /\ op[o].pc \in Over => op'[o].pc \in Over
\* What an operation that has ended said stays said.
EndKept(o) ==
    /\ op[o].pc \in Over => /\ op'[o].pc \in Over
                            /\ op[o].out \in {"fail", "unknown"} => op'[o].out \in {"fail", "unknown"}
                            /\ op[o].out # "fail" => op'[o].out # "fail"
    /\ op[o].pc = "info" /\ op[o].kind # "remove" =>
          op'[o].pc \in Over \cup {"info"} /\ op'[o].out # "fail"

LEMMA OneStep ==
    ASSUME FileInv, NEW o \in Ops, OnlyOp(o), Same(o), OpTypes', TreeTypes', KeptStays,
           op'[o].home \in Homes,
           WhereSound(o)', SlotSound(o)', OutSound(o)', StagedSound(o)', EndKept(o),
           UNCHANGED others, \A k \in killed' : k \in killed \/ (k[2] = o /\ KillOK(k)')
    PROVE  FileInv' /\ Steady
  <1>1. OpSound(o)'
    BY DEF FileInv, OpSound, DeclaredSound, Same, SameId
  <1>2. ASSUME NEW k \in Ops \ {o} PROVE OpSound(k)'
    <2>1. OpSound(k) /\ op'[k] = op[k] /\ slot'[k] = slot[k] /\ held'[k] = held[k]
      BY DEF FileInv, OnlyOp
    <2>2. DeclaredSound(k)'
      BY <2>1 DEF OpSound, DeclaredSound
    <2>3. WhereSound(k)' /\ SlotSound(k)' /\ OutSound(k)'
      BY <2>1 DEF OpSound, WhereSound, ActsOf, SlotSound, OutSound, NotYet
    <2>4. k # 0
      BY DEF Ops
    <2>5. StagedSound(k)'
      BY <2>1, <2>4 DEF OpSound, StagedSound, KeptStays
    <2> QED
      BY <2>2, <2>3, <2>5 DEF OpSound
  <1>3. KillSound'
    <2> SUFFICES ASSUME NEW k \in killed', k \in killed PROVE KillOK(k)'
      BY DEF KillSound
    <2>1. KillOK(k)
      BY DEF FileInv, KillSound
    <2>2. CASE k[2] = o
      BY <2>1, <2>2 DEF KillOK, Same, SameId, EndKept
    <2>3. CASE k[2] # o
      BY <2>1, <2>3 DEF KillOK, OnlyOp
    <2> QED
      BY <2>2, <2>3
  <1>4. BornSound'
    BY DEF FileInv, BornSound, Others, KeptStays
  <1>5. Steady
    BY DEF Steady, OnlyOp, Same, SameId, EndKept
  <1> QED
    BY <1>1, <1>2, <1>3, <1>4, <1>5 DEF FileInv
-----------------------------------------------------------------------------
(* The goroutine ends *)

\* The client has its answer: unknown, a, or the one it already had.
Ended(o, a) ==
    /\ OpTypes' /\ (\A k \in Ops \ {o} : op'[k] = op[k])
    /\ SameId(o) /\ op'[o].act = op[o].act /\ op'[o].home = op[o].home
    /\ (op'[o].landed <=> op[o].landed)
    /\ op'[o].st # "none" /\ op'[o].pc = "idle"
    /\ op'[o].out \in {"unknown", a} \/ (op[o].out # "none" /\ op'[o].out = op[o].out)

\* A row of the table is replaced.
LEMMA Written ==
    ASSUME OpTypes, NEW o \in Ops, NEW r, IsOp(r), op' = [op EXCEPT ![o] = r]
    PROVE  OpTypes' /\ op'[o] = r /\ (\A k \in Ops \ {o} : op'[k] = op[k])
  BY DEF OpTypes

LEMMA EndsWith ==
    ASSUME OpTypes, NEW o \in Ops, op[o].st # "none", NEW a, NEW st, NEW snap, NEW out, st # "none",
           out \in {"unknown", a} \/ (op[o].out # "none" /\ out = op[o].out),
           op' = [op EXCEPT ![o] = [op[o] EXCEPT !.snap = snap, !.st = st, !.pc = "idle", !.out = out]]
    PROVE  Ended(o, a)
  <1> DEFINE r == op[o]
             n == [r EXCEPT !.snap = snap, !.st = st, !.pc = "idle", !.out = out]
  <1>1. IsOp(r)
    BY DEF OpTypes
  <1>2. IsOp(n)
    BY <1>1 DEF IsOp
  <1>3. /\ n.kind = r.kind /\ n.path = r.path /\ n.to = r.to /\ n.dst = r.dst /\ n.key = r.key
        /\ n.ver = r.ver /\ n.own = r.own /\ n.act = r.act
        /\ n.home = r.home /\ n.landed = r.landed /\ n.st = st /\ n.pc = "idle" /\ n.out = out
    BY <1>1 DEF IsOp, OpFields
  <1>4. OpTypes' /\ op'[o] = n /\ (\A k \in Ops \ {o} : op'[k] = op[k])
    BY <1>2, Written
  <1> QED
    BY <1>3, <1>4 DEF Ended, SameId

LEMMA LeaveEnds ==
    ASSUME OpTypes, NEW o \in Ops, op[o].st # "none", Leave(o), NEW a PROVE Ended(o, a)
  <1>1. IsOp(op[o])
    BY DEF OpTypes
  <1>2. op' = [op EXCEPT ![o] = [op[o] EXCEPT !.snap = op[o].snap, !.st = op[o].st, !.pc = "idle", !.out = "unknown"]]
    BY <1>1 DEF Leave, OpTypes, IsOp
  <1> QED
    BY <1>2, EndsWith

LEMMA DropEnds ==
    ASSUME OpTypes, NEW o \in Ops, op[o].st # "none", dropIntent(o) PROVE Ended(o, "fail")
  <1>1. CASE Owner(o)
    <2>1. IsOp(op[o])
      BY DEF OpTypes
    <2>2. op' = [op EXCEPT ![o] = [op[o] EXCEPT !.snap = op[o].snap, !.st = "gone", !.pc = "idle", !.out = Answer(o, "fail")]]
      BY <1>1, <2>1 DEF dropIntent, OpTypes, IsOp
    <2>3. Answer(o, "fail") \in {"unknown", "fail"} \/ (op[o].out # "none" /\ Answer(o, "fail") = op[o].out)
      BY DEF Answer
    <2> QED
      BY <2>2, <2>3, EndsWith
  <1>2. CASE ~Owner(o)
    BY <1>2, LeaveEnds DEF dropIntent
  <1> QED
    BY <1>1, <1>2

LEMMA GhostsEnd ==
    ASSUME OpTypes, NEW o \in Ops, op[o].st # "none", dropIntentGhosts(o) PROVE Ended(o, "ok")
  <1>1. CASE Owner(o)
    <2>1. IsOp(op[o])
      BY DEF OpTypes
    <2>2. op' = [op EXCEPT ![o] = [op[o] EXCEPT !.snap = op[o].snap, !.st = "gone", !.pc = "idle", !.out = Answer(o, "ok")]]
      BY <1>1, <2>1 DEF dropIntentGhosts, OpTypes, IsOp
    <2>3. Answer(o, "ok") \in {"unknown", "ok"} \/ (op[o].out # "none" /\ Answer(o, "ok") = op[o].out)
      BY DEF Answer
    <2> QED
      BY <2>2, <2>3, EndsWith
  <1>2. CASE ~Owner(o)
    BY <1>2, LeaveEnds DEF dropIntentGhosts
  <1> QED
    BY <1>1, <1>2

LEMMA ParkedEnds ==
    ASSUME OpTypes, NEW o \in Ops, op[o].st # "none", Parked(o) PROVE Ended(o, "diverged")
  <1>1. CASE Owner(o)
    <2>1. IsOp(op[o])
      BY DEF OpTypes
    <2>2. op' = [op EXCEPT ![o] = [op[o] EXCEPT !.snap = op[o].snap, !.st = "resolved", !.pc = "idle",
                                                !.out = Answer(o, "diverged")]]
      BY <1>1, <2>1 DEF Parked, OpTypes, IsOp
    <2>3. Answer(o, "diverged") \in {"unknown", "diverged"} \/ (op[o].out # "none" /\ Answer(o, "diverged") = op[o].out)
      BY DEF Answer
    <2> QED
      BY <2>2, <2>3, EndsWith
  <1>2. CASE ~Owner(o)
    BY <1>2, LeaveEnds DEF Parked
  <1> QED
    BY <1>1, <1>2

LEMMA AppliedEnds ==
    ASSUME OpTypes, NEW o \in Ops, op[o].st # "none", NEW x, NEW keep, Applied(o, x, keep)
    PROVE  Ended(o, "ok")
  <1>1. CASE Owner(o)
    <2> DEFINE st == IF keep \/ ~op[o].done THEN Resolve(op[o].st) ELSE "gone"
               out == IF op[o].out = "none" THEN "ok" ELSE op[o].out
    <2>1. op' = [op EXCEPT ![o] = [op[o] EXCEPT !.snap = <<"none", "unset">>, !.st = st, !.pc = "idle", !.out = out]]
      BY <1>1 DEF Applied, apply, Owner, OpTypes
    <2>2. st # "none"
      BY DEF Resolve
    <2> QED
      BY <2>1, <2>2, EndsWith
  <1>2. CASE ~Owner(o)
    BY <1>2, LeaveEnds DEF Applied
  <1> QED
    BY <1>1, <1>2

LEMMA EndStep ==
    ASSUME FileInv, NEW o \in Ops, op[o].pc \notin Over, NEW a, Ended(o, a),
           a = "fail" /\ op[o].kind # "remove" => ~op[o].landed /\ op[o].pc # "info",
           \A k \in Ops \ {o} : slot'[k] = slot[k], TreeTypes', KeptStays,
           UNCHANGED <<held, killed, others>>
    PROVE  FileInv' /\ Steady
  <1>1. OpSound(o) /\ op[o].st # "none" /\ op[o].out \in {"none", "unknown"}
    BY DEF FileInv, OpSound, DeclaredSound, OutSound, Over
  <1>2. OnlyOp(o) /\ Same(o) /\ OpTypes'
    BY <1>1 DEF Ended, OnlyOp, Same, SameId
  <1>3. op'[o].home \in Homes
    BY <1>1 DEF OpSound, DeclaredSound, Ended, SameId
  <1>4. WhereSound(o)' /\ SlotSound(o)'
    BY DEF Ended, WhereSound, SlotSound, Undoing, SameId
  <1>5. OutSound(o)'
    <2>1. op'[o].out = "fail" => a = "fail"
      BY <1>1 DEF Ended, SameId
    <2> QED
      BY <2>1 DEF Ended, OutSound, NotYet, Over, Before, SameId
  <1>6. StagedSound(o)'
    <2>1. o # 0
      BY DEF Ops
    <2> QED
      BY <1>1, <2>1 DEF Ended, OpSound, StagedSound, KeptStays, SameId
  <1>7. EndKept(o)
    BY <1>1 DEF Ended, EndKept, Over, SameId
  <1> QED
    BY <1>2, <1>3, <1>4, <1>5, <1>6, <1>7, OneStep
-----------------------------------------------------------------------------
(* The goroutine goes on *)

Turned(o, act, eff, landed, pc) ==
    /\ OpTypes' /\ (\A k \in Ops \ {o} : op'[k] = op[k])
    /\ SameId(o) /\ op'[o].st = op[o].st /\ op'[o].home = op[o].home
    /\ op'[o].act = act /\ op'[o].eff = eff /\ op'[o].pc = pc /\ op'[o].out = op[o].out
    /\ (op'[o].landed <=> landed)

LEMMA Turns ==
    ASSUME OpTypes, NEW o \in Ops, NEW act, NEW res, NEW eff, NEW done, NEW landed, NEW pc,
           op' = [op EXCEPT ![o] = [op[o] EXCEPT !.act = act, !.res = res, !.eff = eff, !.done = done,
                                                 !.landed = landed, !.pc = pc]]
    PROVE  Turned(o, act, eff, landed, pc)
  <1> DEFINE r == op[o]
             n == [r EXCEPT !.act = act, !.res = res, !.eff = eff, !.done = done, !.landed = landed, !.pc = pc]
  <1>1. IsOp(r)
    BY DEF OpTypes
  <1>2. IsOp(n)
    BY <1>1 DEF IsOp
  <1>3. /\ n.kind = r.kind /\ n.path = r.path /\ n.to = r.to /\ n.dst = r.dst /\ n.key = r.key
        /\ n.ver = r.ver /\ n.own = r.own /\ n.st = r.st
        /\ n.home = r.home /\ n.act = act /\ n.eff = eff /\ n.pc = pc /\ n.out = r.out /\ n.landed = landed
    BY <1>1 DEF IsOp, OpFields
  <1>4. OpTypes' /\ op'[o] = n /\ (\A k \in Ops \ {o} : op'[k] = op[k])
    BY <1>2, Written
  <1> QED
    BY <1>3, <1>4 DEF Turned, SameId

LEMMA GoStep ==
    ASSUME FileInv, NEW o \in Ops, op[o].pc \notin Over, NEW act, NEW eff, NEW landed, NEW pc,
           Turned(o, act, eff, landed, pc), op[o].pc # "info",
           \A k \in Ops \ {o} : slot'[k] = slot[k], TreeTypes', KeptStays, UNCHANGED <<held, others>>,
           WhereSound(o)', SlotSound(o)',
           pc = "dead" \/ op[o].kind = "remove" \/ (NotYet(o)' => ~landed),
           op[o].kind = "write" /\ act # "put" => op[o].act # "put" \/ op[o].pc \in {"pub", "xch"} \/ Kept(o)',
           op[o].kind = "write" /\ pc \in {"pub", "xch"} => Kept(o)',
           \A k \in killed' : k \in killed \/ (k[2] = o /\ k[1] = op[o].dst /\ pc = "info")
    PROVE  FileInv' /\ Steady
  <1>1. OpSound(o) /\ op[o].st # "none" /\ op[o].out \in {"none", "unknown"}
    BY DEF FileInv, OpSound, DeclaredSound, OutSound, Over
  <1>2. OnlyOp(o) /\ Same(o) /\ OpTypes'
    BY <1>1 DEF Turned, OnlyOp, Same, SameId
  <1>3. op'[o].home \in Homes
    BY <1>1 DEF OpSound, DeclaredSound, Turned, SameId
  <1>5. OutSound(o)'
    <2>1. op'[o].out # "fail"
      BY <1>1 DEF Turned, SameId
    <2> QED
      BY <1>1, <2>1 DEF Turned, OutSound, NotYet, Over, Before, SameId
  <1>6. StagedSound(o)'
    <2>1. o # 0
      BY DEF Ops
    <2> QED
      BY <1>1, <2>1 DEF Turned, OpSound, StagedSound, KeptStays, SameId
  <1>7. EndKept(o)
    BY <1>1 DEF EndKept
  <1>8. ASSUME NEW k \in killed', k \notin killed PROVE k[2] = o /\ KillOK(k)'
    BY <1>1, <1>8 DEF KillOK, Turned, SameId
  <1> QED
    BY <1>2, <1>3, <1>5, <1>6, <1>7, <1>8, OneStep
-----------------------------------------------------------------------------
(* The steps of a goroutine *)

LEMMA Alive ==
    ASSUME FileInv, NEW o \in Ops, op[o].pc \notin Over
    PROVE  /\ op[o].st # "none" /\ OpTypes /\ TreeTypes /\ IsOp(op[o]) /\ OpSound(o) /\ o # 0
           /\ op[o].path \in Paths /\ op[o].to \in Paths /\ Peer(o) \in Paths
           /\ op[o].kind \in {"write", "rename", "remove"}
           /\ op[o].out \in {"none", "unknown"}
  BY DEF FileInv, OpTypes, OpSound, OutSound, DeclaredSound, Over, Ops, Peer

LEMMA StillTree ==
    ASSUME FileInv, UNCHANGED <<tree, others>>
    PROVE  KeptStays /\ TreeTypes' /\ (\A k \in Ops : slot'[k] = slot[k]) /\ UNCHANGED <<held, killed, others>>
  BY TreeStill DEF tree, TreeTypes, FileInv

LEMMA FencedKeeps == ASSUME FileInv, NEW o \in Ops, Fenced(o) PROVE FileInv' /\ Steady
  <1>1. op[o].pc \notin Over
    BY DEF Fenced, Over
  <1>2. Ended(o, "unknown")
    BY <1>1, Alive, LeaveEnds DEF Fenced
  <1> QED
    BY <1>1, <1>2, StillTree, EndStep DEF Fenced, Body

LEMMA PutKeeps == ASSUME FileInv, NEW o \in Ops, Put(o) PROVE FileInv' /\ Steady
  <1> DEFINE next == IF op[o].dst = 0 THEN "pub" ELSE "xch"
  <1>1. op[o].pc = "put" /\ op[o].pc \notin Over
    BY DEF Put, At, Over
  <1>2. slot[o] = 0 /\ op[o].kind = "write" /\ ~op[o].landed
    BY <1>1, Alive DEF OpSound, SlotSound, WhereSound, OutSound, NotYet, Before
  <1>3. op' = [op EXCEPT ![o] = [op[o] EXCEPT !.act = op[o].act, !.res = "ok", !.eff = op[o].eff, !.done = op[o].done,
                                              !.landed = op[o].landed, !.pc = next]]
    BY <1>1, Alive DEF Put, OpTypes, IsOp
  <1>4. Turned(o, op[o].act, op[o].eff, op[o].landed, next)
    BY <1>1, <1>3, Alive, Turns
  <1>5. slot'[o] = o /\ \A k \in Ops \ {o} : slot'[k] = slot[k]
    BY DEF Put, FileInv, TreeTypes
  <1>6. UNCHANGED <<pub, held, recovered, killed, others>>
    BY DEF Put, Body
  <1>7. TreeTypes'
    BY <1>6 DEF Put, FileInv, TreeTypes
  <1>8. KeptStays /\ Kept(o)'
    <2>1. Kept(o)'
      <3>1. \E k \in Ops : slot'[k] = o
        BY <1>5
      <3>2. Exists(o)'
        BY <3>1 DEF Exists
      <3> QED
        BY <3>2 DEF Kept
    <2>2. ASSUME NEW x, x # 0, Kept(x) PROVE Kept(x)'
      <3>1. ASSUME NEW k \in Ops, slot[k] = x PROVE k # o
        BY <1>2, <2>2, <3>1
      <3> QED
        BY <1>5, <1>6, <2>2, <3>1 DEF Kept, Exists
    <2> QED
      BY <2>1, <2>2 DEF KeptStays
  <1>9. WhereSound(o)' /\ SlotSound(o)'
    BY <1>2, <1>4, <1>5 DEF Turned, WhereSound, SlotSound, Undoing, SameId
  <1> QED
    BY <1>1, <1>2, <1>4, <1>5, <1>6, <1>7, <1>8, <1>9, GoStep

LEMMA SourceKeeps == ASSUME FileInv, NEW o \in Ops, RenameSource(o) PROVE FileInv' /\ Steady
  <1> DEFINE next == IF op[o].dst = 0 THEN "move" ELSE "cap"
  <1>1. op[o].pc = "src" /\ op[o].pc \notin Over
    BY DEF RenameSource, At, Over
  <1>2. op[o].kind = "rename" /\ ~op[o].landed
    BY <1>1, Alive DEF OpSound, WhereSound, OutSound, NotYet, Before
  <1>3. UNCHANGED <<tree, others>>
    BY DEF RenameSource, Body
  <1>4. CASE dropIntent(o)
    BY <1>1, <1>2, <1>3, <1>4, Alive, DropEnds, StillTree, EndStep
  <1>5. CASE op' = [op EXCEPT ![o].pc = next]
    <2>1. op' = [op EXCEPT ![o] = [op[o] EXCEPT !.act = op[o].act, !.res = op[o].res, !.eff = op[o].eff,
                                                !.done = op[o].done, !.landed = op[o].landed, !.pc = next]]
      BY <1>1, <1>5, Alive DEF OpTypes, IsOp
    <2>2. Turned(o, op[o].act, op[o].eff, op[o].landed, next)
      BY <1>1, <2>1, Alive, Turns
    <2>3. WhereSound(o)' /\ SlotSound(o)'
      BY <1>2, <2>2 DEF Turned, WhereSound, SlotSound, Undoing, SameId
    <2> QED
      BY <1>1, <1>2, <1>3, <2>2, <2>3, StillTree, GoStep
  <1> QED
    BY <1>4, <1>5 DEF RenameSource

LEMMA MoveKeeps == ASSUME FileInv, NEW o \in Ops, RenameMove(o) PROVE FileInv' /\ Steady
  <1>1. op[o].pc = "move" /\ op[o].pc \notin Over
    BY DEF RenameMove, At, Over
  <1>2. op[o].kind = "rename" /\ ~op[o].landed
    BY <1>1, Alive DEF OpSound, WhereSound, OutSound, NotYet, Before
  <1>3. UNCHANGED <<slot, held, recovered, killed, others>>
    BY DEF RenameMove, Body
  <1>4. CASE dropIntent(o) /\ UNCHANGED pub
    <2>1. UNCHANGED <<tree, others>>
      BY <1>3, <1>4 DEF tree
    <2> QED
      BY <1>1, <1>2, <1>4, <2>1, Alive, DropEnds, StillTree, EndStep
  <1>5. CASE /\ pub[op[o].to] = 0
             /\ pub' = [pub EXCEPT ![op[o].to] = pub[op[o].path], ![op[o].path] = 0]
             /\ op' = [op EXCEPT ![o].pc = "info", ![o].landed = TRUE]
    <2>1. op' = [op EXCEPT ![o] = [op[o] EXCEPT !.act = op[o].act, !.res = op[o].res, !.eff = op[o].eff,
                                                !.done = op[o].done, !.landed = TRUE, !.pc = "info"]]
      BY <1>1, <1>5, Alive DEF OpTypes, IsOp
    <2>2. Turned(o, op[o].act, op[o].eff, TRUE, "info")
      BY <1>1, <2>1, Alive, Turns
    <2>3. WhereSound(o)' /\ SlotSound(o)'
      BY <1>2, <2>2 DEF Turned, WhereSound, SlotSound, Undoing, SameId
    <2>4. KeptStays /\ TreeTypes'
      BY <1>1, <1>3, <1>5, Alive, Moved
    <2>5. ~NotYet(o)'
      BY <1>1, <2>2, Alive DEF NotYet, Turned, Before, SameId
    <2> QED
      BY <1>1, <1>2, <1>3, <2>2, <2>3, <2>4, <2>5, GoStep
  <1> QED
    BY <1>4, <1>5 DEF RenameMove

LEMMA ActKeeps == ASSUME FileInv, NEW o \in Ops, Act(o) PROVE FileInv' /\ Steady
  <1>1. op[o].pc \in {"pub", "xch", "cap"} /\ op[o].pc \notin Over /\ op[o].pc # "info"
    BY DEF Act, Over
  <1>2. ~op[o].landed \/ op[o].kind = "remove"
    BY <1>1, Alive DEF OpSound, OutSound, NotYet, Before
  <1>3. UNCHANGED <<tree, others>>
    BY DEF Act, Body
  <1>4. op' = [op EXCEPT ![o] = [op[o] EXCEPT !.act = op[o].pc, !.res = "unset", !.eff = op[o].eff, !.done = op[o].done,
                                              !.landed = op[o].landed, !.pc = "sys"]]
    BY <1>1, Alive DEF Act, OpTypes, IsOp
  <1>5. Turned(o, op[o].pc, op[o].eff, op[o].landed, "sys")
    BY <1>1, <1>4, Alive, Turns
  <1>6. WhereSound(o)'
    BY <1>1, <1>5, Alive DEF Turned, OpSound, WhereSound, ActsOf, Undoing, SameId
  <1>7. SlotSound(o)'
    BY <1>1, <1>3, <1>5, <1>6, Alive, StillTree DEF Turned, OpSound, SlotSound, WhereSound, Undoing, SameId
  <1>8. op[o].kind = "write" => op[o].pc \in {"pub", "xch"}
    BY <1>1, Alive DEF OpSound, WhereSound
  <1> QED
    BY <1>1, <1>2, <1>3, <1>5, <1>6, <1>7, <1>8, StillTree, GoStep

\* The system call lands.
LEMMA SysKeeps == ASSUME FileInv, NEW o \in Ops, Sys(o) PROVE FileInv' /\ Steady
  <1> DEFINE i == op[o]
             name == IF i.act = "xch" THEN Peer(o) ELSE i.path
             next == IF At(o, "hung") THEN "dead" ELSE "res"
             lands(e) == i.landed \/ (e = "ok" /\ i.act \in {"pub", "xch"})
             Swaps == /\ i.act = "pub" => pub[name] = 0
                      /\ pub' = [pub EXCEPT ![name] = slot[o]] /\ slot' = [slot EXCEPT ![o] = pub[name]]
                      /\ Effect(o, "ok")
  <1>1. op[o].pc \in {"sys", "hung"} /\ op[o].pc \notin Over /\ op[o].pc # "info"
    BY DEF Sys, At, Over
  <1>2. i.act \in ActsOf(o) /\ i.act \in {"pub", "xch", "cap"} /\ (~i.landed \/ i.kind = "remove")
    BY <1>1, Alive DEF OpSound, WhereSound, ActsOf, OutSound, NotYet, Before
  <1>3. UNCHANGED <<held, recovered, killed, others>>
    BY DEF Sys, Body
  <1>4. ASSUME NEW e, Effect(o, e) PROVE Turned(o, i.act, e, lands(e), next)
    <2>1. op' = [op EXCEPT ![o] = [op[o] EXCEPT !.act = op[o].act, !.res = op[o].res, !.eff = e,
                                                !.done = op[o].done, !.landed = lands(e), !.pc = next]]
      BY <1>1, <1>4, Alive DEF Effect, OpTypes, IsOp
    <2> QED
      BY <1>1, <2>1, Alive, Turns
  <1>5. CASE Swaps
    <2>1. name \in Paths
      BY <1>1, Alive
    <2>2. KeptStays /\ TreeTypes' /\ slot'[o] = pub[name]
      BY <1>1, <1>3, <1>5, <2>1, Alive, Swapped
    <2>3. Turned(o, i.act, "ok", lands("ok"), next)
      BY <1>4, <1>5
    <2>4. \A k \in Ops \ {o} : slot'[k] = slot[k]
      BY <1>5 DEF FileInv, TreeTypes
    <2>5. WhereSound(o)'
      BY <1>2, <2>3 DEF Turned, WhereSound, ActsOf, Undoing, SameId
    <2>6. SlotSound(o)'
      BY <1>5, <2>2, <2>3 DEF Turned, SlotSound, SameId
    <2>7. next = "dead" \/ i.kind = "remove" \/ (NotYet(o)' => ~lands("ok"))
      <3>1. op'[o].out # "fail"
        BY <1>1, <2>3, Alive DEF Turned, SameId
      <3> QED
        BY <1>2, <2>3, <3>1 DEF Turned, NotYet, Before, SameId
    <2>8. i.kind = "write" => i.act # "put"
      BY <1>2
    <2>9. next \notin {"pub", "xch", "info"}
      OBVIOUS
    <2> QED
      BY <1>1, <1>3, <2>2, <2>3, <2>4, <2>5, <2>6, <2>7, <2>8, <2>9, GoStep
  <1>6. CASE Effect(o, "noeff") /\ UNCHANGED <<pub, slot>>
    <2>1. UNCHANGED <<tree, others>>
      BY <1>3, <1>6 DEF tree
    <2>2. Turned(o, i.act, "noeff", lands("noeff"), next)
      BY <1>4, <1>6
    <2>3. WhereSound(o)'
      BY <1>2, <2>2 DEF Turned, WhereSound, ActsOf, Undoing, SameId
    <2>4. SlotSound(o)'
      BY <1>1, <1>6, <2>2, Alive DEF Turned, SlotSound, OpSound, SameId
    <2>5. next = "dead" \/ i.kind = "remove" \/ (NotYet(o)' => ~lands("noeff"))
      BY <1>2
    <2>6. i.kind = "write" => i.act # "put"
      BY <1>2
    <2>7. next \notin {"pub", "xch", "info"}
      OBVIOUS
    <2> QED
      BY <1>1, <1>3, <2>1, <2>2, <2>3, <2>4, <2>5, <2>6, <2>7, StillTree, GoStep
  <1>7. Swaps \/ (Effect(o, "noeff") /\ UNCHANGED <<pub, slot>>)
    BY <1>2 DEF Sys
  <1> QED
    BY <1>5, <1>6, <1>7

\* What follows from where the system call left things.
LEMMA NextStep ==
    ASSUME FileInv, NEW o \in Ops, op[o].pc = "res"
    PROVE  LET next == AfterEffect(o) IN
           /\ next \in {"commit", "fail", "xch", "restore", "absent", "lost", "und"}
           /\ next = "commit" => slot[o] \in {0, op[o].dst}
           /\ next = "fail" => op[o].kind = "write" /\ slot[o] \in {0, o}
           /\ next = "xch" => op[o].kind = "rename" /\ op[o].act = "cap"
           /\ next = "und" => op[o].kind # "remove" /\ op[o].act # "put"
           /\ next = "absent" => op[o].act = "cap"
           /\ next \in {"fail", "xch", "restore"} => op[o].act = "cap" \/ op[o].eff # "ok"
  <1>1. op[o].pc \notin Over
    BY DEF Over
  <1>2. OpSound(o) /\ op[o].kind \in {"write", "rename", "remove"} /\ op[o].act \in ActsOf(o)
    BY <1>1, Alive DEF OpSound, WhereSound
  <1>3. CASE op[o].act = "pub"
    BY <1>2, <1>3 DEF AfterEffect, OpSound, SlotSound, ActsOf
  <1>4. CASE op[o].act = "cap"
    BY <1>2, <1>4 DEF AfterEffect, ActsOf
  <1>5. CASE op[o].act = "xch"
    <2>1. op[o].kind # "remove"
      BY <1>2, <1>5 DEF ActsOf
    <2>2. CASE op[o].eff = "ok"
      BY <1>5, <2>1, <2>2 DEF AfterEffect
    <2>3. CASE op[o].eff # "ok"
      <3>1. op[o].kind = "write" => slot[o] \in {0, o}
        BY <1>2, <2>3 DEF OpSound, SlotSound
      <3>2. AfterEffect(o) = IF op[o].kind = "rename" THEN "restore" ELSE "fail"
        BY <1>5, <2>3 DEF AfterEffect
      <3> QED
        BY <1>2, <2>1, <2>3, <3>1, <3>2
    <2> QED
      BY <2>2, <2>3
  <1> QED
    BY <1>2, <1>3, <1>4, <1>5 DEF ActsOf

LEMMA ResKeeps == ASSUME FileInv, NEW o \in Ops, Res(o) PROVE FileInv' /\ Steady
  <1> DEFINE next == AfterEffect(o)
             noted == [op EXCEPT ![o].res = op[o].eff, ![o].pc = next]
  <1>1. op[o].pc = "res" /\ op[o].pc \notin Over /\ op[o].pc # "info"
    BY DEF Res, At, Over
  <1>2. UNCHANGED <<tree, others>>
    BY DEF Res, Body
  <1>3. next = "absent" \/ (op[o].act = "cap" \/ op[o].eff # "ok") => op[o].kind = "remove" \/ ~op[o].landed
    BY <1>1, Alive, NextStep DEF OpSound, OutSound, NotYet
  <1>4. CASE next = "absent" /\ op[o].kind = "remove" /\ dropIntentGhosts(o)
    BY <1>1, <1>2, <1>4, Alive, GhostsEnd, StillTree, EndStep
  <1>5. CASE next = "absent" /\ dropIntent(o)
    BY <1>1, <1>2, <1>3, <1>5, Alive, DropEnds, StillTree, EndStep
  <1>6. CASE next = "lost" /\ op' = [noted EXCEPT ![o].pc = "idle", ![o].out = "unknown"]
    <2> DEFINE n == [op[o] EXCEPT !.res = op[o].eff, !.pc = "idle", !.out = "unknown"]
    <2>1. op' = [op EXCEPT ![o] = n]
      BY <1>1, <1>6, Alive DEF OpTypes, IsOp
    <2>2. IsOp(n)
      BY <1>1, Alive DEF IsOp
    <2>3. /\ n.kind = op[o].kind /\ n.path = op[o].path /\ n.to = op[o].to /\ n.dst = op[o].dst
        /\ n.key = op[o].key /\ n.ver = op[o].ver /\ n.own = op[o].own
          /\ n.act = op[o].act /\ n.home = op[o].home /\ n.landed = op[o].landed /\ n.st = op[o].st
          /\ n.pc = "idle" /\ n.out = "unknown"
      BY <1>1, Alive DEF IsOp, OpFields
    <2>4. OpTypes' /\ op'[o] = n /\ (\A k \in Ops \ {o} : op'[k] = op[k])
      BY <1>1, <2>1, <2>2, Alive, Written
    <2>5. Ended(o, "unknown")
      BY <1>1, <2>3, <2>4, Alive DEF Ended, SameId
    <2> QED
      BY <1>1, <1>2, <2>5, StillTree, EndStep
  <1>7. CASE next \notin {"absent", "lost"} /\ op' = noted
    <2>1. op' = [op EXCEPT ![o] = [op[o] EXCEPT !.act = op[o].act, !.res = op[o].eff, !.eff = op[o].eff,
                                                !.done = op[o].done, !.landed = op[o].landed, !.pc = next]]
      BY <1>1, <1>7, Alive DEF OpTypes, IsOp
    <2>2. Turned(o, op[o].act, op[o].eff, op[o].landed, next)
      BY <1>1, <2>1, Alive, Turns
    <2>3. WhereSound(o)'
      BY <1>1, <1>7, <2>2, NextStep DEF Turned, WhereSound, Undoing, SameId
    <2>4. slot'[o] = slot[o]
      BY <1>2, StillTree
    <2>5. SlotSound(o)'
      BY <1>1, <1>7, <2>2, <2>4, NextStep DEF Turned, SlotSound, SameId
    <2>6. op[o].kind = "remove" \/ (NotYet(o)' => ~op[o].landed)
      <3>1. op'[o].out # "fail"
        BY <1>1, <2>2, Alive DEF Turned, SameId
      <3> QED
        BY <1>1, <1>3, <1>7, <2>2, <3>1, NextStep DEF Turned, NotYet, Before, SameId
    <2>7. op[o].kind = "write" => next \notin {"pub", "xch"} /\ op[o].act # "put"
      BY <1>1, <1>7, Alive, NextStep DEF OpSound, WhereSound, ActsOf
    <2> QED
      BY <1>1, <1>2, <2>2, <2>3, <2>5, <2>6, <2>7, StillTree, GoStep
  <1> QED
    BY <1>4, <1>5, <1>6, <1>7 DEF Res

LEMMA CommitKeeps == ASSUME FileInv, NEW o \in Ops, Commit(o) PROVE FileInv' /\ Steady
  <1> DEFINE landed == op[o].landed \/ (op[o].kind = "remove" /\ slot[o] # 0)
  <1>1. op[o].pc = "commit" /\ op[o].pc \notin Over /\ op[o].pc # "info"
    BY DEF Commit, At, Over
  <1>2. slot[o] \in {0, op[o].dst}
    BY <1>1, Alive DEF OpSound, SlotSound
  <1>3. UNCHANGED <<pub, held, recovered, others>>
    BY DEF Commit, Body
  <1>4. op' = [op EXCEPT ![o] = [op[o] EXCEPT !.act = op[o].act, !.res = op[o].res, !.eff = op[o].eff,
                                              !.done = TRUE, !.landed = landed, !.pc = "info"]]
    BY <1>1, Alive DEF Commit, OpTypes, IsOp
  <1>5. Turned(o, op[o].act, op[o].eff, landed, "info")
    BY <1>1, <1>4, Alive, Turns
  <1>6. KeptStays /\ TreeTypes' /\ slot'[o] = 0
    BY <1>1, <1>3, Alive, Unlinked DEF Commit
  <1>7. \A k \in Ops \ {o} : slot'[k] = slot[k]
    BY DEF Commit, FileInv, TreeTypes
  <1>8. WhereSound(o)' /\ SlotSound(o)'
    BY <1>5 DEF Turned, WhereSound, SlotSound, Undoing, SameId
  <1>9. ~NotYet(o)'
    BY <1>1, <1>5, Alive DEF NotYet, Turned, Before, SameId
  <1>10. \A k \in killed' : k \in killed \/ (k[2] = o /\ k[1] = op[o].dst)
    BY <1>2 DEF Commit
  <1> QED
    BY <1>1, <1>3, <1>5, <1>6, <1>7, <1>8, <1>9, <1>10, GoStep

LEMMA InfoKeeps == ASSUME FileInv, NEW o \in Ops, Info(o) PROVE FileInv' /\ Steady
  <1>1. op[o].pc = "info" /\ op[o].pc \notin Over
    BY DEF Info, At, Over
  <1>2. UNCHANGED <<tree, others>>
    BY DEF Info, Body
  <1>3. CASE dropIntent(o) /\ op[o].kind = "remove"
    BY <1>1, <1>2, <1>3, Alive, DropEnds, StillTree, EndStep
  <1>4. CASE Leave(o)
    <2>1. Ended(o, "unknown")
      BY <1>1, <1>4, Alive, LeaveEnds
    <2> QED
      BY <1>1, <1>2, <2>1, StillTree, EndStep
  <1>5. ASSUME NEW x, Applied(o, x, FALSE) PROVE FileInv' /\ Steady
    BY <1>1, <1>2, <1>5, Alive, AppliedEnds, StillTree, EndStep
  <1> QED
    BY <1>3, <1>4, <1>5 DEF Info

\* A failed write unlinks its own body.
LEMMA FailKeeps == ASSUME FileInv, NEW o \in Ops, Fail(o) PROVE FileInv' /\ Steady
  <1> DEFINE st == IF Owner(o) THEN "gone" ELSE op[o].st
             out == IF Owner(o) THEN Answer(o, "fail") ELSE "unknown"
             n == [op[o] EXCEPT !.st = st, !.pc = "idle", !.done = TRUE, !.out = out]
  <1>1. op[o].pc = "fail" /\ op[o].pc \notin Over
    BY DEF Fail, At, Over
  <1>2. op[o].kind = "write" /\ slot[o] \in {0, o} /\ ~op[o].landed
    BY <1>1, Alive DEF OpSound, WhereSound, SlotSound, OutSound, NotYet, Before
  <1>3. UNCHANGED <<pub, held, recovered, others>>
    BY DEF Fail, Body
  <1>4. op' = [op EXCEPT ![o] = n]
    <2>1. IsOp(op[o]) /\ OpTypes
      BY <1>1, Alive
    <2>2. CASE Owner(o)
      <3>1. op' = [op EXCEPT ![o].st = "gone", ![o].pc = "idle", ![o].done = TRUE, ![o].out = Answer(o, "fail")]
        BY <2>2 DEF Fail
      <3> QED
        BY <2>1, <2>2, <3>1 DEF OpTypes
    <2>3. CASE ~Owner(o)
      <3>1. op' = [op EXCEPT ![o].pc = "idle", ![o].done = TRUE, ![o].out = "unknown"]
        BY <2>3 DEF Fail
      <3> QED
        BY <2>1, <2>3, <3>1 DEF OpTypes, IsOp
    <2> QED
      BY <2>2, <2>3
  <1>5. IsOp(n)
    BY <1>1, Alive DEF IsOp
  <1>6. /\ n.kind = op[o].kind /\ n.path = op[o].path /\ n.to = op[o].to /\ n.dst = op[o].dst
        /\ n.key = op[o].key /\ n.ver = op[o].ver /\ n.own = op[o].own
        /\ n.act = op[o].act /\ n.home = op[o].home /\ n.landed = op[o].landed /\ n.st = st
        /\ n.pc = "idle" /\ n.out = out
    BY <1>1, Alive DEF IsOp, OpFields
  <1>7. OpTypes' /\ op'[o] = n /\ (\A k \in Ops \ {o} : op'[k] = op[k])
    <2> HIDE DEF n
    <2> QED
      BY <1>1, <1>4, <1>5, Alive, Written
  <1>8. st # "none" /\ out \in {"fail", "unknown"}
    BY <1>1, Alive DEF Answer
  <1>9. KeptStays /\ TreeTypes' /\ slot'[o] = 0
    BY <1>1, <1>2, <1>3, Alive, Unlinked DEF Fail
  <1>10. OnlyOp(o) /\ Same(o)
    <2>1. \A k \in Ops \ {o} : slot'[k] = slot[k]
      BY DEF Fail, FileInv, TreeTypes
    <2> QED
      BY <1>1, <1>3, <1>6, <1>7, <1>8, <2>1, Alive DEF OnlyOp, Same, SameId
  <1>11. op'[o].home \in Homes
    BY <1>1, <1>6, <1>7, Alive DEF OpSound, DeclaredSound
  <1>12. WhereSound(o)' /\ SlotSound(o)' /\ OutSound(o)'
    BY <1>2, <1>6, <1>7 DEF WhereSound, SlotSound, OutSound, Undoing, Over
  <1>13. StagedSound(o)'
    BY <1>1, <1>6, <1>7, <1>9, Alive DEF OpSound, StagedSound, KeptStays
  <1>14. EndKept(o)
    BY <1>1 DEF EndKept
  <1>15. ASSUME NEW k \in killed', k \notin killed PROVE k[2] = o /\ KillOK(k)'
    <2>1. k = <<o, o>>
      BY <1>15 DEF Fail
    <2> QED
      BY <1>6, <1>7, <1>8, <2>1 DEF KillOK, Over
  <1> QED
    BY <1>3, <1>7, <1>9, <1>10, <1>11, <1>12, <1>13, <1>14, <1>15, OneStep

LEMMA UndoKeeps == ASSUME FileInv, NEW o \in Ops, Und(o) \/ UndoLook(o) \/ Undone(o) PROVE FileInv' /\ Steady
  <1>1. op[o].pc \in {"und", "look", "undone"} /\ op[o].pc \notin Over /\ op[o].pc # "info"
    BY DEF Und, UndoLook, Undone, At, Over
  <1>2. UNCHANGED <<tree, others>>
    BY DEF Und, UndoLook, Undone, Body
  <1>3. op[o].kind \in {"write", "rename"} /\ op[o].act # "put"
    BY <1>1, Alive DEF OpSound, WhereSound, Undoing
  <1>4. slot'[o] = slot[o]
    BY <1>2, StillTree
  <1>5. op[o].out # "fail"
    BY <1>1, Alive
  <1>6. CASE Und(o)
    <2>1. op' = [op EXCEPT ![o] = [op[o] EXCEPT !.act = "und", !.res = "unset", !.eff = op[o].eff, !.done = op[o].done,
                                                !.landed = op[o].landed, !.pc = "look"]]
      BY <1>1, <1>6, Alive DEF Und, OpTypes, IsOp
    <2>2. Turned(o, "und", op[o].eff, op[o].landed, "look")
      BY <1>1, <2>1, Alive, Turns
    <2>3. WhereSound(o)' /\ SlotSound(o)' /\ ~NotYet(o)'
      BY <1>3, <1>5, <2>2 DEF Turned, WhereSound, SlotSound, Undoing, NotYet, Before, SameId
    <2> QED
      BY <1>1, <1>2, <1>3, <2>2, <2>3, StillTree, GoStep
  <1>7. CASE UndoLook(o)
    <2> DEFINE there == pub[Peer(o)]
               plan == CASE slot[o] = Ours(o) -> "undone"
                         [] slot[o] # Ours(o) /\ there = 0 -> IF slot[o] = 0 THEN "park" ELSE "back"
                         [] slot[o] # Ours(o) /\ there # 0 /\ there = Ours(o) -> IF slot[o] = 0 THEN "pull" ELSE "swap"
                         [] OTHER -> "park"
    <2>1. op' = [op EXCEPT ![o] = [op[o] EXCEPT !.act = op[o].act, !.res = op[o].res, !.eff = op[o].eff,
                                                !.done = op[o].done, !.landed = op[o].landed, !.pc = plan]]
      <3> HIDE DEF plan
      <3>1. op' = [op EXCEPT ![o].pc = plan]
        BY <1>7 DEF UndoLook, plan
      <3> QED
        BY <1>1, <3>1, Alive DEF OpTypes, IsOp
    <2>2. plan \in {"undone", "park", "back", "pull", "swap"} /\ (plan = "undone" => slot[o] = Ours(o))
      OBVIOUS
    <2> HIDE DEF plan
    <2>3. Turned(o, op[o].act, op[o].eff, op[o].landed, plan)
      BY <1>1, <2>1, Alive, Turns
    <2>4. WhereSound(o)' /\ SlotSound(o)' /\ ~NotYet(o)'
      BY <1>3, <1>4, <1>5, <2>2, <2>3 DEF Turned, WhereSound, SlotSound, Undoing, NotYet, Before, Ours, SameId
    <2> QED
      BY <1>1, <1>2, <2>2, <2>3, <2>4, StillTree, GoStep
  <1>8. CASE Undone(o)
    <2> DEFINE next == IF op[o].kind = "rename" THEN "restore" ELSE "fail"
    <2>1. op' = [op EXCEPT ![o] = [op[o] EXCEPT !.act = op[o].act, !.res = "ok", !.eff = op[o].eff,
                                                !.done = op[o].done, !.landed = FALSE, !.pc = next]]
      BY <1>1, <1>8, Alive DEF Undone, OpTypes, IsOp
    <2>2. Turned(o, op[o].act, op[o].eff, FALSE, next)
      BY <1>1, <2>1, Alive, Turns
    <2>3. op[o].kind = "write" => slot[o] \in {0, o}
      BY <1>1, <1>8, Alive DEF OpSound, SlotSound, Undone, At
    <2>4. WhereSound(o)' /\ SlotSound(o)'
      BY <1>3, <1>4, <2>2, <2>3 DEF Turned, WhereSound, SlotSound, Undoing, SameId
    <2> QED
      BY <1>1, <1>2, <2>2, <2>4, StillTree, GoStep
  <1> QED
    BY <1>6, <1>7, <1>8

LEMMA UndoActKeeps == ASSUME FileInv, NEW o \in Ops, UndoAct(o) PROVE FileInv' /\ Steady
  <1> DEFINE p == Peer(o)
             Swaps == /\ pub' = [pub EXCEPT ![p] = slot[o]] /\ slot' = [slot EXCEPT ![o] = pub[p]]
                      /\ op' = [op EXCEPT ![o].pc = "look"]
             Parks == op' = [op EXCEPT ![o].pc = "park"] /\ UNCHANGED <<pub, slot>>
  <1>1. op[o].pc \in {"back", "pull", "swap"} /\ op[o].pc \notin Over /\ op[o].pc # "info"
    BY DEF UndoAct, Over
  <1>2. UNCHANGED <<held, recovered, killed, others>>
    BY DEF UndoAct, Body
  <1>3. op[o].kind \in {"write", "rename"} /\ op[o].act # "put" /\ op[o].out # "fail"
    BY <1>1, Alive DEF OpSound, WhereSound, Undoing
  <1>4. ASSUME NEW pc \in {"look", "park"}, op' = [op EXCEPT ![o].pc = pc]
        PROVE  /\ Turned(o, op[o].act, op[o].eff, op[o].landed, pc)
               /\ WhereSound(o)' /\ SlotSound(o)' /\ ~NotYet(o)'
    <2>1. op' = [op EXCEPT ![o] = [op[o] EXCEPT !.act = op[o].act, !.res = op[o].res, !.eff = op[o].eff,
                                                !.done = op[o].done, !.landed = op[o].landed, !.pc = pc]]
      BY <1>1, <1>4, Alive DEF OpTypes, IsOp
    <2>2. Turned(o, op[o].act, op[o].eff, op[o].landed, pc)
      BY <1>1, <2>1, Alive, Turns
    <2>3. WhereSound(o)' /\ SlotSound(o)' /\ ~NotYet(o)'
      BY <1>3, <1>4, <2>2 DEF Turned, WhereSound, SlotSound, Undoing, NotYet, Before, SameId
    <2> QED
      BY <2>2, <2>3
  <1>5. CASE Swaps
    <2>1. KeptStays /\ TreeTypes'
      BY <1>1, <1>2, <1>5, Alive, Swapped
    <2>2. \A k \in Ops \ {o} : slot'[k] = slot[k]
      BY <1>5 DEF FileInv, TreeTypes
    <2> QED
      BY <1>1, <1>2, <1>3, <1>4, <1>5, <2>1, <2>2, GoStep
  <1>6. CASE Parks
    <2>1. UNCHANGED <<tree, others>>
      BY <1>2, <1>6 DEF tree
    <2> QED
      BY <1>1, <1>2, <1>3, <1>4, <1>6, <2>1, StillTree, GoStep
  <1> QED
    BY <1>5, <1>6 DEF UndoAct

LEMMA RestoreKeeps == ASSUME FileInv, NEW o \in Ops, Restore(o) PROVE FileInv' /\ Steady
  <1>1. op[o].pc = "restore" /\ op[o].pc \notin Over /\ op[o].pc # "info"
    BY DEF Restore, At, Over
  <1>2. op[o].kind # "remove" => ~op[o].landed
    BY <1>1, Alive DEF OpSound, OutSound, NotYet, Before
  <1>3. UNCHANGED <<held, recovered, killed, others>>
    BY DEF Restore, Body
  <1>4. CASE /\ slot[o] # 0 /\ pub[op[o].path] = 0
             /\ pub' = [pub EXCEPT ![op[o].path] = slot[o]] /\ slot' = [slot EXCEPT ![o] = 0]
             /\ dropIntent(o)
    <2>1. KeptStays /\ TreeTypes'
      BY <1>1, <1>3, <1>4, Alive, Swapped
    <2>2. \A k \in Ops \ {o} : slot'[k] = slot[k]
      BY <1>4 DEF FileInv, TreeTypes
    <2>3. Ended(o, "fail")
      BY <1>1, <1>4, Alive, DropEnds
    <2> QED
      BY <1>1, <1>2, <1>3, <2>1, <2>2, <2>3, EndStep
  <1>5. CASE (Leave(o) \/ Parked(o)) /\ UNCHANGED <<pub, slot>>
    <2>1. UNCHANGED <<tree, others>>
      BY <1>3, <1>5 DEF tree
    <2>2. Ended(o, "diverged")
      BY <1>1, <1>5, Alive, LeaveEnds, ParkedEnds
    <2> QED
      BY <1>1, <2>1, <2>2, StillTree, EndStep
  <1> QED
    BY <1>4, <1>5 DEF Restore

LEMMA ParkKeeps == ASSUME FileInv, NEW o \in Ops, Park(o) PROVE FileInv' /\ Steady
  <1>1. op[o].pc = "park" /\ op[o].pc \notin Over /\ op[o].pc # "info"
    BY DEF Park, At, Over
  <1>2. UNCHANGED <<tree, others>>
    BY DEF Park, Body
  <1>3. CASE Parked(o)
    BY <1>1, <1>2, <1>3, Alive, ParkedEnds, StillTree, EndStep
  <1>4. CASE Applied(o, op[o].pre, TRUE)
    BY <1>1, <1>2, <1>4, Alive, AppliedEnds, StillTree, EndStep
  <1> QED
    BY <1>3, <1>4 DEF Park

LEMMA RunKeeps == ASSUME FileInv, NEW o \in Ops, Run(o) PROVE FileInv' /\ Steady
  BY PutKeeps, SourceKeeps, MoveKeeps, ActKeeps, SysKeeps, ResKeeps, CommitKeeps, InfoKeeps, FailKeeps,
     UndoKeeps, UndoActKeeps, RestoreKeeps, ParkKeeps, FencedKeeps DEF Run
-----------------------------------------------------------------------------
(* The database, the reconciler and everybody else *)

\* The row of an operation changes beside what the invariant is about.
Beside(o) ==
    /\ OpTypes' /\ (\A k \in Ops \ {o} : op'[k] = op[k])
    /\ SameId(o) /\ op'[o].act = op[o].act /\ op'[o].eff = op[o].eff
    /\ op'[o].pc = op[o].pc /\ op'[o].out = op[o].out /\ (op'[o].landed <=> op[o].landed)
    /\ op'[o].st = "none" <=> op[o].st = "none"
    /\ op'[o].home \in Homes

LEMMA BesideIs ==
    ASSUME OpTypes, NEW o \in Ops, NEW st, NEW snap, NEW done, NEW tomb, NEW home, NEW seen,
           st = "none" <=> op[o].st = "none", home \in Homes,
           op' = [op EXCEPT ![o] = [op[o] EXCEPT !.st = st, !.snap = snap, !.done = done, !.tomb = tomb,
                                                 !.home = home, !.seen = seen]]
    PROVE  Beside(o)
  <1> DEFINE r == op[o]
             n == [r EXCEPT !.st = st, !.snap = snap, !.done = done, !.tomb = tomb, !.home = home, !.seen = seen]
  <1>1. IsOp(r)
    BY DEF OpTypes
  <1>2. IsOp(n)
    BY <1>1 DEF IsOp
  <1>3. /\ n.kind = r.kind /\ n.path = r.path /\ n.to = r.to /\ n.dst = r.dst /\ n.key = r.key
        /\ n.ver = r.ver /\ n.own = r.own /\ n.st = st
        /\ n.home = home /\ n.act = r.act /\ n.eff = r.eff /\ n.pc = r.pc /\ n.out = r.out /\ n.landed = r.landed
    BY <1>1 DEF IsOp, OpFields
  <1>4. OpTypes' /\ op'[o] = n /\ (\A k \in Ops \ {o} : op'[k] = op[k])
    BY <1>2, Written
  <1> QED
    BY <1>3, <1>4 DEF Beside, SameId

LEMMA BesideStep ==
    ASSUME FileInv, NEW o \in Ops, Beside(o), UNCHANGED <<tree, others>> PROVE FileInv' /\ Steady
  <1>1. KeptStays /\ TreeTypes' /\ UNCHANGED <<slot, held, killed, others>>
    BY StillTree DEF tree
  <1>2. ASSUME NEW k \in Ops PROVE OpSound(k)'
    <2>1. /\ op'[k].kind = op[k].kind /\ op'[k].path = op[k].path /\ op'[k].to = op[k].to
          /\ op'[k].dst = op[k].dst /\ op'[k].act = op[k].act /\ op'[k].eff = op[k].eff
          /\ op'[k].pc = op[k].pc /\ op'[k].out = op[k].out
          /\ (op'[k].st = "none" <=> op[k].st = "none")
      BY DEF Beside, SameId
    <2>2. op'[k].landed <=> op[k].landed
      BY DEF Beside, SameId
    <2>3. OpSound(k) /\ k # 0
      BY DEF FileInv, Ops
    <2>4. op'[k].home \in Homes
      BY <2>3 DEF Beside, OpSound, DeclaredSound, SameId
    <2>5. DeclaredSound(k)'
      BY <1>1, <2>1, <2>3, <2>4 DEF OpSound, DeclaredSound
    <2>6. WhereSound(k)' /\ SlotSound(k)'
      BY <1>1, <2>1, <2>3 DEF OpSound, WhereSound, ActsOf, SlotSound
    <2>7. OutSound(k)'
      BY <2>1, <2>2, <2>3 DEF OpSound, OutSound, NotYet
    <2>8. StagedSound(k)'
      BY <1>1, <2>1, <2>3 DEF OpSound, StagedSound, KeptStays
    <2> QED
      BY <2>5, <2>6, <2>7, <2>8 DEF OpSound
  <1>3. KillSound'
    BY <1>1 DEF FileInv, KillSound, KillOK, Beside, SameId
  <1>4. BornSound'
    BY <1>1 DEF FileInv, BornSound, Others, KeptStays
  <1>5. Steady
    BY DEF Steady, Beside, SameId
  <1> QED
    BY <1>1, <1>2, <1>3, <1>4, <1>5 DEF FileInv, Beside

LEMMA GraceKeeps == ASSUME FileInv, NEW o \in Ops, GraceOver(o) PROVE FileInv' /\ Steady
  <1>1. IsOp(op[o]) /\ OpTypes /\ op[o].home \in Homes
    BY DEF FileInv, OpTypes, OpSound, DeclaredSound
  <1>2. PICK st : st = "aged"
    OBVIOUS
  <1>3. op' = [op EXCEPT ![o] = [op[o] EXCEPT !.st = st, !.snap = op[o].snap, !.done = op[o].done,
                                 !.tomb = op[o].tomb, !.home = op[o].home, !.seen = op[o].seen]]
    BY <1>1, <1>2 DEF GraceOver, OpTypes, IsOp
  <1>4. st = "none" <=> op[o].st = "none"
    BY <1>2 DEF GraceOver
  <1>5. Beside(o)
    BY <1>1, <1>3, <1>4, BesideIs
  <1> QED
    BY <1>5, BesideStep DEF GraceOver

LEMMA LoadKeeps == ASSUME FileInv, NEW o \in Ops, Load(o) PROVE FileInv' /\ Steady
  <1>1. IsOp(op[o]) /\ OpTypes /\ op[o].home \in Homes
    BY DEF FileInv, OpTypes, OpSound, DeclaredSound
  <1>2. op' = [op EXCEPT ![o] = [op[o] EXCEPT !.st = op[o].st, !.snap = <<op[o].act, op[o].res>>, !.done = op[o].done,
                                 !.tomb = op[o].tomb, !.home = op[o].home, !.seen = op[o].seen]]
    BY <1>1 DEF Load, OpTypes, IsOp
  <1>3. Beside(o)
    BY <1>1, <1>2, BesideIs
  <1> QED
    BY <1>3, BesideStep DEF Load

LEMMA AbsentKeeps == ASSUME FileInv, NEW o \in Ops, NameAbsent(o) PROVE FileInv' /\ Steady
  <1>1. IsOp(op[o]) /\ OpTypes /\ op[o].home \in Homes
    BY DEF FileInv, OpTypes, OpSound, DeclaredSound
  <1>2. PICK done, tomb : op' = [op EXCEPT ![o] = [op[o] EXCEPT !.st = op[o].st, !.snap = op[o].snap, !.done = done,
                                 !.tomb = tomb, !.home = op[o].home, !.seen = op[o].seen]]
    <2>1. CASE op' = [op EXCEPT ![o].tomb = TRUE]
      <3>1. op' = [op EXCEPT ![o] = [op[o] EXCEPT !.st = op[o].st, !.snap = op[o].snap, !.done = op[o].done,
                                 !.tomb = TRUE, !.home = op[o].home, !.seen = op[o].seen]]
        BY <1>1, <2>1 DEF OpTypes, IsOp
      <3> QED
        BY <3>1
    <2>2. CASE op' = [op EXCEPT ![o].done = ~op[o].tomb]
      <3>1. op' = [op EXCEPT ![o] = [op[o] EXCEPT !.st = op[o].st, !.snap = op[o].snap, !.done = ~op[o].tomb,
                                 !.tomb = op[o].tomb, !.home = op[o].home, !.seen = op[o].seen]]
        BY <1>1, <2>2 DEF OpTypes, IsOp
      <3> QED
        BY <3>1
    <2> QED
      BY <2>1, <2>2 DEF NameAbsent
  <1>3. Beside(o)
    BY <1>1, <1>2, BesideIs
  <1> QED
    BY <1>3, BesideStep DEF NameAbsent

LEMMA JudgeKeeps == ASSUME FileInv, NEW o \in Ops, judgeName(o) PROVE FileInv' /\ Steady
  <1>1. /\ IsOp(op[o]) /\ OpTypes /\ held[o] # 0
        /\ op[o].path \in Paths /\ op[o].to \in Paths /\ Peer(o) \in Paths
    BY DEF FileInv, OpTypes, OpSound, DeclaredSound, judgeName, Peer
  <1>2. provMeaning(o, held[o]) \in Paths \cup {"none"}
    <2>1. ambiguousMeaning(o, held[o]) \in Paths \cup {"none"}
      BY <1>1 DEF ambiguousMeaning
    <2> QED
      BY <1>1, <2>1 DEF provMeaning
  <1>3. PICK known \in BOOLEAN :
          LET h == IF known THEN provMeaning(o, held[o]) ELSE "none" IN
          op' = [op EXCEPT ![o].home =
                    IF h # "none" THEN IF row[h].oid = held[o] /\ pub[h] = 0 THEN h ELSE Surface
                    ELSE Surface]
    BY DEF judgeName
  <1>4. PICK home \in Homes : op' = [op EXCEPT ![o].home = home]
    BY <1>2, <1>3 DEF Homes
  <1>5. op' = [op EXCEPT ![o] = [op[o] EXCEPT !.st = op[o].st, !.snap = op[o].snap, !.done = op[o].done,
                                 !.tomb = op[o].tomb, !.home = home, !.seen = op[o].seen]]
    BY <1>1, <1>4 DEF OpTypes, IsOp
  <1>6. home \in Homes
    OBVIOUS
  <1>7. Beside(o)
    BY <1>1, <1>5, <1>6, BesideIs
  <1> QED
    BY <1>7, BesideStep DEF judgeName

LEMMA SettleRowKeeps == ASSUME FileInv, NEW o \in Ops, settleRow(o) PROVE FileInv' /\ Steady
  <1>1. IsOp(op[o]) /\ OpTypes
    BY DEF FileInv, OpTypes
  <1>2. op' = [op EXCEPT ![o] = [op[o] EXCEPT !.st = op[o].st, !.snap = op[o].snap, !.done = op[o].done,
                                 !.tomb = op[o].tomb, !.home = "none", !.seen = 0]]
    BY <1>1 DEF settleRow, OpTypes, IsOp
  <1>3. "none" \in Homes
    BY DEF Homes
  <1>4. Beside(o)
    BY <1>1, <1>2, <1>3, BesideIs
  <1> QED
    BY <1>4, BesideStep DEF settleRow

LEMMA TimeoutKeeps == ASSUME FileInv, NEW o \in Ops, Timeout(o) PROVE FileInv' /\ Steady
  <1> DEFINE n == [op[o] EXCEPT !.out = "unknown"]
  <1>1. IsOp(op[o]) /\ OpTypes /\ OpSound(o) /\ op[o].st # "none" /\ o # 0
    BY DEF FileInv, OpTypes, Timeout, Ops
  <1>2. op' = [op EXCEPT ![o] = n]
    BY <1>1 DEF Timeout, OpTypes
  <1>3. IsOp(n)
    BY <1>1 DEF IsOp
  <1>4. /\ n.kind = op[o].kind /\ n.path = op[o].path /\ n.to = op[o].to /\ n.dst = op[o].dst /\ n.key = op[o].key
        /\ n.ver = op[o].ver /\ n.own = op[o].own /\ n.st = op[o].st
        /\ n.home = op[o].home /\ n.act = op[o].act /\ n.eff = op[o].eff /\ n.pc = op[o].pc
        /\ n.landed = op[o].landed /\ n.out = "unknown"
    BY <1>1 DEF IsOp, OpFields
  <1>5. OpTypes' /\ op'[o] = n /\ (\A k \in Ops \ {o} : op'[k] = op[k])
    <2> HIDE DEF n
    <2> QED
      BY <1>1, <1>2, <1>3, Written
  <1> HIDE DEF n
  <1>6. UNCHANGED <<tree, others>>
    BY DEF Timeout
  <1>7. OnlyOp(o) /\ Same(o) /\ slot'[o] = slot[o]
    BY <1>1, <1>4, <1>5, <1>6, StillTree DEF OnlyOp, Same, tree, SameId
  <1>8. op'[o].home \in Homes /\ WhereSound(o)' /\ SlotSound(o)'
    BY <1>1, <1>4, <1>5, <1>7 DEF OpSound, DeclaredSound, WhereSound, ActsOf, SlotSound
  <1>9. OutSound(o)'
    BY <1>1, <1>4, <1>5 DEF OpSound, OutSound, NotYet
  <1>10. StagedSound(o)'
    BY <1>1, <1>4, <1>5, <1>6, StillTree DEF OpSound, StagedSound, KeptStays
  <1>11. EndKept(o)
    BY <1>4, <1>5 DEF EndKept
  <1> QED
    BY <1>5, <1>6, <1>7, <1>8, <1>9, <1>10, <1>11, StillTree, OneStep

\* The reconciler finds the effect on the disk.
LEMMA ApplyKeeps ==
    ASSUME FileInv, NEW o \in Ops, op[o].st # "none", NEW x, NEW d, NEW keep, NEW verdict,
           apply(o, x, d, keep, verdict), UNCHANGED <<tree, others>>
    PROVE  FileInv' /\ Steady
  <1> DEFINE st == IF keep \/ ~op[o].done THEN Resolve(op[o].st) ELSE "gone"
             pc == IF op[o].own = ten THEN "idle" ELSE op[o].pc
             out == IF op[o].out = "none" /\ op[o].own = ten THEN "ok" ELSE op[o].out
             n == [op[o] EXCEPT !.snap = <<"none", "unset">>, !.st = st, !.pc = pc, !.out = out]
  <1>1. IsOp(op[o]) /\ OpTypes /\ OpSound(o) /\ o # 0
    BY DEF FileInv, OpTypes, Ops
  <1>2. op' = [op EXCEPT ![o] = n]
    BY <1>1 DEF apply, OpTypes
  <1>3. IsOp(n)
    BY <1>1 DEF IsOp
  <1>4. /\ n.kind = op[o].kind /\ n.path = op[o].path /\ n.to = op[o].to /\ n.dst = op[o].dst /\ n.key = op[o].key
        /\ n.ver = op[o].ver /\ n.own = op[o].own /\ n.st = st
        /\ n.home = op[o].home /\ n.act = op[o].act /\ n.eff = op[o].eff /\ n.pc = pc
        /\ n.landed = op[o].landed /\ n.out = out
    BY <1>1 DEF IsOp, OpFields
  <1> HIDE DEF n
  <1>5. OpTypes' /\ op'[o] = n /\ (\A k \in Ops \ {o} : op'[k] = op[k])
    BY <1>1, <1>2, <1>3, Written
  <1>6. st # "none"
    BY DEF Resolve
  <1>7. OnlyOp(o) /\ Same(o) /\ slot'[o] = slot[o]
    BY <1>4, <1>5, <1>6, StillTree DEF OnlyOp, Same, tree, SameId
  <1>8. op'[o].home \in Homes /\ WhereSound(o)' /\ SlotSound(o)'
    <2>1. op'[o].pc = "idle" \/ op'[o].pc = op[o].pc
      BY <1>4, <1>5
    <2> QED
      BY <1>1, <1>4, <1>5, <1>7, <2>1 DEF OpSound, DeclaredSound, WhereSound, ActsOf, SlotSound, Undoing
  <1>9. OutSound(o)'
    <2>1. op'[o].landed <=> op[o].landed
      BY <1>4, <1>5
    <2>2. op'[o].out = "fail" => op[o].out = "fail"
      BY <1>4, <1>5
    <2> QED
      BY <1>1, <1>4, <1>5, <2>1, <2>2 DEF OpSound, OutSound, NotYet, Before, Over
  <1>10. StagedSound(o)'
    BY <1>1, <1>4, <1>5, StillTree DEF OpSound, StagedSound, KeptStays
  <1>11. EndKept(o)
    BY <1>1, <1>4, <1>5 DEF EndKept, Over, OpSound, OutSound
  <1> QED
    BY <1>5, <1>7, <1>8, <1>9, <1>10, <1>11, StillTree, OneStep

Judged(o, st) == op' = [op EXCEPT ![o].st = st, ![o].snap = <<"none", "unset">>]
LEMMA TombstoneKeeps ==
    ASSUME FileInv, NEW o \in Ops, op[o].st # "none", UNCHANGED <<tree, others>>, NEW st, st # "none",
           Judged(o, st)
    PROVE  FileInv' /\ Steady
  <1>1. IsOp(op[o]) /\ OpTypes /\ op[o].home \in Homes
    BY DEF FileInv, OpTypes, OpSound, DeclaredSound
  <1>2. op' = [op EXCEPT ![o] = [op[o] EXCEPT !.st = st, !.snap = <<"none", "unset">>, !.done = op[o].done,
                                 !.tomb = op[o].tomb, !.home = op[o].home, !.seen = op[o].seen]]
    BY <1>1 DEF Judged, OpTypes, IsOp
  <1>3. st = "none" <=> op[o].st = "none"
    OBVIOUS
  <1>4. Beside(o)
    BY <1>1, <1>2, <1>3, BesideIs
  <1> QED
    BY <1>4, BesideStep

LEMMA SettleKeeps == ASSUME FileInv, NEW o \in Ops, settleIntent(o) PROVE FileInv' /\ Steady
  <1>1. UNCHANGED <<tree, others>>
    BY DEF settleIntent
  <1>2. op[o].kind \in {"write", "rename", "remove"}
    BY DEF settleIntent, settleWrite, settleRemove, settleRename
  <1>3. op[o].st # "none" /\ OpTypes /\ IsOp(op[o])
    BY <1>2 DEF FileInv, OpSound, DeclaredSound, OpTypes
  <1>4. ASSUME NEW rs, NEW v, Tombstone(o, rs, v) PROVE FileInv' /\ Steady
    <2>1. PICK st : st # "none" /\ Judged(o, st)
      <3>1. CASE op[o].st = "pending"
        BY <1>4, <3>1 DEF Tombstone, Judged
      <3>2. CASE op[o].st # "pending"
        <4>1. op' = [op EXCEPT ![o].snap = <<"none", "unset">>]
          BY <1>4, <3>2 DEF Tombstone
        <4>2. op' = [op EXCEPT ![o].st = op[o].st, ![o].snap = <<"none", "unset">>]
          BY <1>3, <4>1 DEF OpTypes, IsOp
        <4> QED
          BY <1>3, <4>2 DEF Judged
      <3> QED
        BY <3>1, <3>2
    <2> QED
      BY <1>1, <1>3, <2>1, TombstoneKeeps
  <1>5. CASE settleWrite(o)
    <2>1. (\E rs, v : Tombstone(o, rs, v)) \/ (\E x, d, keep, verdict : apply(o, x, d, keep, verdict))
      BY <1>5 DEF settleWrite
    <2> QED
      BY <1>1, <1>3, <1>4, <2>1, ApplyKeeps
  <1>6. CASE settleRemove(o)
    BY <1>4, <1>6 DEF settleRemove
  <1>7. CASE settleRename(o)
    <2>1. CASE op' = [op EXCEPT ![o].st = Resolve(op[o].st), ![o].snap = <<"none", "unset">>]
      <3>1. PICK st : st = Resolve(op[o].st)
        OBVIOUS
      <3>2. st # "none"
        BY <1>3, <3>1 DEF Resolve
      <3>3. Judged(o, st)
        BY <2>1, <3>1 DEF Judged
      <3> QED
        BY <1>1, <1>3, <3>2, <3>3, TombstoneKeeps
    <2>2. CASE \E rs, v : Tombstone(o, rs, v)
      BY <1>4, <2>2
    <2> QED
      BY <1>7, <2>1, <2>2 DEF settleRename
  <1> QED
    BY <1>5, <1>6, <1>7 DEF settleIntent

\* The reconciler moves what a private name holds; the row notes only that.
LEMMA HandStep ==
    ASSUME FileInv, NEW o \in Ops, op[o].st # "none", Beside(o), TreeTypes', KeptStays,
           slot'[o] \in {0, slot[o]},
           \A k \in Ops \ {o} : slot'[k] = slot[k] /\ held'[k] = held[k],
           UNCHANGED <<killed, others>>
    PROVE  FileInv' /\ Steady
  <1>1. OpSound(o) /\ o # 0
    BY DEF FileInv, Ops
  <1>2. OnlyOp(o) /\ Same(o) /\ OpTypes' /\ op'[o].home \in Homes
    BY DEF OnlyOp, Same, Beside, SameId
  <1>3. WhereSound(o)'
    BY <1>1 DEF Beside, OpSound, WhereSound, ActsOf, SameId
  <1>4. SlotSound(o)'
    BY <1>1 DEF Beside, OpSound, SlotSound, SameId
  <1>5. OutSound(o)'
    BY <1>1 DEF Beside, OpSound, OutSound, NotYet, SameId
  <1>6. StagedSound(o)'
    BY <1>1 DEF Beside, OpSound, StagedSound, KeptStays, SameId
  <1>7. EndKept(o)
    BY <1>1 DEF Beside, EndKept, OpSound, OutSound, Over, SameId
  <1> QED
    BY <1>2, <1>3, <1>4, <1>5, <1>6, <1>7, OneStep

LEMMA CaptureKeeps == ASSUME FileInv, NEW o \in Ops, captureName(o) PROVE FileInv' /\ Steady
  <1>1. IsOp(op[o]) /\ OpTypes /\ TreeTypes /\ op[o].home \in Homes /\ op[o].st # "none"
    BY DEF FileInv, OpTypes, OpSound, DeclaredSound, captureName
  <1>2. op' = [op EXCEPT ![o] = [op[o] EXCEPT !.st = op[o].st, !.snap = op[o].snap, !.done = op[o].done,
                                 !.tomb = op[o].tomb, !.home = op[o].home, !.seen = slot[o]]]
    BY <1>1 DEF captureName, OpTypes, IsOp
  <1>3. Beside(o)
    BY <1>1, <1>2, BesideIs
  <1>4. slot'[o] = 0 /\ held[o] = 0 /\ held'[o] = slot[o] /\ UNCHANGED <<pub, recovered, killed, others>>
    BY <1>1 DEF captureName, TreeTypes
  <1>5. \A k \in Ops \ {o} : slot'[k] = slot[k] /\ held'[k] = held[k]
    BY <1>1 DEF captureName, TreeTypes
  <1>6. TreeTypes'
    BY <1>1, <1>4 DEF captureName, TreeTypes
  <1>7. KeptStays
    BY <1>4, <1>5 DEF KeptStays, Kept, Exists
  <1> QED
    BY <1>1, <1>3, <1>4, <1>5, <1>6, <1>7, HandStep

LEMMA MoveSettledKeeps == ASSUME FileInv, NEW o \in Ops, moveSettled(o) PROVE FileInv' /\ Steady
  <1>1. /\ IsOp(op[o]) /\ OpTypes /\ TreeTypes /\ op[o].home \in Homes /\ op[o].st # "none"
        /\ held[o] # 0
    BY DEF FileInv, OpTypes, OpSound, DeclaredSound, moveSettled
  <1>2. held'[o] = 0 /\ \A k \in Ops \ {o} : held'[k] = held[k]
    BY <1>1 DEF moveSettled, TreeTypes
  <1>3. UNCHANGED <<slot, killed, others>> /\ held' = [held EXCEPT ![o] = 0]
    BY DEF moveSettled
  <1>4. Beside(o)
    <2>1. PICK home \in Homes : op' = [op EXCEPT ![o].home = home]
      <3>1. CASE op' = op
        <4>1. op' = [op EXCEPT ![o].home = op[o].home]
          BY <1>1, <3>1 DEF OpTypes, IsOp
        <4> QED
          BY <1>1, <4>1
      <3>2. CASE op' = [op EXCEPT ![o].home = Surface]
        BY <3>2 DEF Homes
      <3> QED
        BY <3>1, <3>2 DEF moveSettled
    <2>2. op' = [op EXCEPT ![o] = [op[o] EXCEPT !.st = op[o].st, !.snap = op[o].snap, !.done = op[o].done,
                                 !.tomb = op[o].tomb, !.home = home, !.seen = op[o].seen]]
      BY <1>1, <2>1 DEF OpTypes, IsOp
    <2>3. home \in Homes
      OBVIOUS
    <2> QED
      BY <1>1, <2>2, <2>3, BesideIs
  <1>5. \/ /\ op[o].home \in Paths /\ pub[op[o].home] = 0
           /\ pub' = [pub EXCEPT ![op[o].home] = held[o]] /\ UNCHANGED recovered
        \/ recovered' = recovered \cup {held[o]} /\ UNCHANGED pub
    BY <1>1 DEF moveSettled, Homes
  <1>6. TreeTypes' /\ KeptStays
    <2>1. CASE /\ op[o].home \in Paths /\ pub[op[o].home] = 0
               /\ pub' = [pub EXCEPT ![op[o].home] = held[o]] /\ UNCHANGED recovered
      <3>1. pub'[op[o].home] = held[o] /\ \A p \in Paths \ {op[o].home} : pub'[p] = pub[p]
        BY <1>1, <2>1 DEF TreeTypes
      <3>2. TreeTypes'
        BY <1>1, <1>3, <2>1 DEF TreeTypes
      <3>3. ASSUME NEW x, x # 0, Kept(x) PROVE Kept(x)'
        BY <1>2, <1>3, <2>1, <3>1, <3>3 DEF Kept, Exists
      <3> QED
        BY <3>2, <3>3 DEF KeptStays
    <2>2. CASE recovered' = recovered \cup {held[o]} /\ UNCHANGED pub
      <3>1. TreeTypes'
        BY <1>1, <1>3, <2>2 DEF TreeTypes
      <3>2. ASSUME NEW x, x # 0, Kept(x) PROVE Kept(x)'
        BY <1>2, <1>3, <2>2, <3>2 DEF Kept, Exists
      <3> QED
        BY <3>1, <3>2 DEF KeptStays
    <2> QED
      BY <1>5, <2>1, <2>2
  <1> QED
    BY <1>1, <1>2, <1>3, <1>4, <1>6, HandStep

LEMMA ReconcileKeeps == ASSUME FileInv, NEW o \in Ops, Reconcile(o) PROVE FileInv' /\ Steady
  BY LoadKeeps, AbsentKeeps, CaptureKeeps, JudgeKeeps, MoveSettledKeeps, SettleRowKeeps, SettleKeeps DEF Reconcile

LEMMA DeclareKeeps ==
    ASSUME FileInv, NEW o \in Ops, NEW q \in Requests, NEW t, Declare(o, q, t) PROVE FileInv'
  <1> DEFINE dst == IF q.kind = "rename" THEN pub[q.to] ELSE pub[q.path]
             act == IF q.kind = "write" THEN "put" ELSE "unset"
             n == [Unused EXCEPT
                 !.st = "pending", !.kind = q.kind, !.path = q.path, !.to = q.to, !.key = q.key,
                 !.ver = seq + 1, !.own = t, !.pc = FirstStep(q), !.pre = pub[q.path], !.dst = dst, !.act = act]
  <1>1. OpTypes /\ TreeTypes /\ OpSound(o) /\ op[o].st = "none" /\ UNCHANGED <<tree, others>>
    BY DEF FileInv, Declare
  <1>2. op' = [op EXCEPT ![o] = n]
    BY DEF Declare
  <1>3. IsOp(n)
    BY UnusedIsOp DEF IsOp
  <1>4. Unused.out = "none" /\ Unused.home = "none" /\ ~Unused.landed
    BY DEF Unused
  <1>5. /\ n.st = "pending" /\ n.kind = q.kind /\ n.path = q.path /\ n.to = q.to /\ n.pc = FirstStep(q)
        /\ n.dst = dst /\ n.act = act /\ n.out = Unused.out /\ n.home = Unused.home /\ n.landed = Unused.landed
    BY UnusedIsOp DEF IsOp, OpFields
  <1> HIDE DEF n
  <1>6. OpTypes' /\ op'[o] = n /\ (\A k \in Ops \ {o} : op'[k] = op[k])
    BY <1>1, <1>2, <1>3, Written
  <1>7. KeptStays /\ TreeTypes' /\ UNCHANGED <<slot, held, killed, others>>
    BY <1>1, StillTree DEF tree
  <1>8. /\ q.kind \in {"write", "rename", "remove"} /\ q.path \in Paths /\ q.to \in Paths
        /\ FirstStep(q) \in {"put", "src", "cap"} /\ (FirstStep(q) = "put" <=> q.kind = "write")
        /\ (FirstStep(q) = "src" <=> q.kind = "rename")
    BY FileStoreAssumption DEF FirstStep
  <1>9. slot'[o] = 0
    BY <1>1, <1>7 DEF OpSound, DeclaredSound
  <1>10. OpSound(o)'
    <2>1. DeclaredSound(o)'
      BY <1>4, <1>5, <1>6, <1>8 DEF DeclaredSound, Homes
    <2>2. WhereSound(o)' /\ SlotSound(o)'
      BY <1>5, <1>6, <1>8, <1>9 DEF WhereSound, SlotSound, Undoing
    <2>3. ~op'[o].landed /\ op'[o].out = "none"
      BY <1>4, <1>5, <1>6
    <2>4. OutSound(o)'
      BY <2>3 DEF OutSound
    <2>5. StagedSound(o)'
      BY <1>5, <1>6, <1>8 DEF StagedSound
    <2> QED
      BY <2>1, <2>2, <2>4, <2>5 DEF OpSound
  <1>11. ASSUME NEW k \in Ops \ {o} PROVE OpSound(k)'
    <2>1. OpSound(k) /\ op'[k] = op[k] /\ k # 0
      BY <1>6 DEF FileInv, Ops
    <2>2. DeclaredSound(k)' /\ WhereSound(k)' /\ SlotSound(k)' /\ OutSound(k)'
      BY <1>7, <2>1 DEF OpSound, DeclaredSound, WhereSound, ActsOf, SlotSound, OutSound, NotYet
    <2>3. StagedSound(k)'
      BY <1>7, <2>1 DEF OpSound, StagedSound, KeptStays
    <2> QED
      BY <2>2, <2>3 DEF OpSound
  <1>12. KillSound'
    <2>1. \A k \in killed : k[2] # o
      BY <1>1 DEF OpSound, DeclaredSound
    <2> QED
      BY <1>6, <1>7, <2>1 DEF FileInv, KillSound, KillOK
  <1>13. BornSound'
    BY <1>7 DEF FileInv, BornSound, Others, KeptStays
  <1> QED
    BY <1>6, <1>7, <1>10, <1>11, <1>12, <1>13 DEF FileInv

\* A crash ends the goroutines of a tenure; what hung may still land.
LEMMA TakeoverKeeps == ASSUME FileInv, NEW crash \in BOOLEAN, Takeover(crash) PROVE FileInv' /\ Steady
  <1> DEFINE pc(o) == CASE ~crash \/ op[o].pc = "idle" -> op[o].pc
                        [] op[o].pc \in {"sys", "hung"} -> "hung" [] OTHER -> "dead"
             out(o) == IF crash /\ op[o].pc # "idle" THEN "unknown" ELSE op[o].out
             n(o) == [op[o] EXCEPT !.snap = <<"none", "unset">>, !.pc = pc(o), !.out = out(o)]
  <1>1. op' = [o \in Ops |-> n(o)]
    BY DEF Takeover
  <1>2. ASSUME NEW o \in Ops
        PROVE  /\ IsOp(n(o)) /\ n(o).kind = op[o].kind /\ n(o).path = op[o].path /\ n(o).to = op[o].to
               /\ n(o).key = op[o].key /\ n(o).ver = op[o].ver /\ n(o).own = op[o].own
               /\ n(o).dst = op[o].dst /\ n(o).st = op[o].st /\ n(o).home = op[o].home /\ n(o).act = op[o].act
               /\ n(o).eff = op[o].eff /\ n(o).pc = pc(o) /\ n(o).out = out(o) /\ n(o).landed = op[o].landed
    <2>1. IsOp(op[o])
      BY DEF FileInv, OpTypes
    <2>2. PICK a, b : a = pc(o) /\ b = out(o)
      OBVIOUS
    <2>3. n(o) = [op[o] EXCEPT !.snap = <<"none", "unset">>, !.pc = a, !.out = b]
      BY <2>2
    <2> HIDE DEF n, pc, out
    <2>4. IsOp(n(o))
      BY <2>1, <2>3 DEF IsOp
    <2>5. /\ n(o).kind = op[o].kind /\ n(o).path = op[o].path /\ n(o).to = op[o].to
          /\ n(o).dst = op[o].dst /\ n(o).st = op[o].st /\ n(o).home = op[o].home
      BY <2>1, <2>3 DEF IsOp, OpFields
    <2>6. n(o).act = op[o].act /\ n(o).eff = op[o].eff /\ n(o).landed = op[o].landed
      BY <2>1, <2>3 DEF IsOp, OpFields
    <2>7. n(o).pc = a /\ n(o).out = b
      BY <2>1, <2>3 DEF IsOp, OpFields
    <2>8. n(o).key = op[o].key /\ n(o).ver = op[o].ver /\ n(o).own = op[o].own
      BY <2>1, <2>3 DEF IsOp, OpFields
    <2> QED
      BY <2>2, <2>4, <2>5, <2>6, <2>7, <2>8
  <1>3. ASSUME NEW o \in Ops
        PROVE  /\ pc(o) \in {op[o].pc, "hung", "dead"} /\ (pc(o) = "hung" => op[o].pc \in {"sys", "hung"})
               /\ (op[o].pc = "idle" => pc(o) = "idle" /\ out(o) = op[o].out)
               /\ (op[o].pc = "dead" => pc(o) = "dead")
               /\ (op[o].pc = "info" => pc(o) \in {"info", "dead"})
               /\ out(o) \in {op[o].out, "unknown"}
    OBVIOUS
  <1> HIDE DEF n, pc, out
  <1>4. OpTypes' /\ \A o \in Ops : op'[o] = n(o)
    BY <1>1, <1>2 DEF OpTypes
  <1>5. KeptStays /\ TreeTypes' /\ UNCHANGED <<slot, held, killed, others>>
    BY StillTree DEF Takeover, tree
  <1>6. ASSUME NEW o \in Ops PROVE OpSound(o)'
    <2>1. OpSound(o) /\ o # 0 /\ op'[o] = n(o)
      BY <1>4 DEF FileInv, Ops
    <2>2. DeclaredSound(o)'
      BY <1>2, <1>3, <1>5, <2>1 DEF OpSound, DeclaredSound
    <2>3. WhereSound(o)'
      BY <1>2, <1>3, <2>1 DEF OpSound, WhereSound, ActsOf, Undoing
    <2>4. SlotSound(o)'
      BY <1>2, <1>3, <1>5, <2>1 DEF OpSound, SlotSound
    <2>5. OutSound(o)'
      <3>1. op'[o].landed <=> op[o].landed
        BY <1>2, <2>1
      <3>2. op'[o].pc \notin Over => op[o].pc \notin Over
        BY <1>2, <1>3, <2>1 DEF Over
      <3>3. NotYet(o)' => NotYet(o)
        BY <1>2, <1>3, <2>1 DEF NotYet, Before
      <3> QED
        BY <1>2, <1>3, <2>1, <3>1, <3>2, <3>3 DEF OpSound, OutSound
    <2>6. StagedSound(o)'
      BY <1>2, <1>3, <1>5, <2>1 DEF OpSound, StagedSound, KeptStays
    <2> QED
      BY <2>2, <2>3, <2>4, <2>5, <2>6 DEF OpSound
  <1>7. KillSound'
    <2> SUFFICES ASSUME NEW k \in killed PROVE KillOK(k)'
      BY <1>5 DEF KillSound
    <2>1. KillOK(k) /\ k[2] \in Ops
      BY DEF FileInv, KillSound, KillOK
    <2> QED
      BY <1>2, <1>3, <1>4, <2>1 DEF KillOK, Over
  <1>8. BornSound'
    BY <1>5 DEF FileInv, BornSound, Others, KeptStays
  <1>9. Steady
    BY <1>2, <1>3, <1>4 DEF Steady, SameId, Over
  <1> QED
    BY <1>4, <1>5, <1>6, <1>7, <1>8, <1>9 DEF FileInv

LEMMA OthersKeep == ASSUME FileInv, NEW p \in Paths, OthersWrite(p) \/ OthersRemove(p) PROVE FileInv' /\ Steady
  <1>1. TreeTypes /\ UNCHANGED <<op, slot, held, recovered, killed>>
    BY DEF FileInv, OthersWrite, OthersRemove
  <1>2. /\ \A q \in Paths \ {p} : pub'[q] = pub[q]
        /\ TreeTypes'
    <2>1. PICK x : pub' = [pub EXCEPT ![p] = x]
      BY DEF OthersWrite, OthersRemove
    <2>2. (\A q \in Paths \ {p} : pub'[q] = pub[q]) /\ pub' = [q \in Paths |-> pub'[q]]
      BY <1>1, <2>1 DEF TreeTypes
    <2>3. PICK wrote, removed, count :
             /\ others' = [others EXCEPT !.wrote = wrote, !.removed = removed, !.count = count]
             /\ wrote \in Nat
      <3>1. CASE OthersWrite(p)
        <4>1. others' = [others EXCEPT !.wrote = others.wrote + 1, !.removed = others.removed \cup ({pub[p]} \ {0}),
                                       !.count = others.count]
          BY <1>1, <3>1 DEF OthersWrite, TreeTypes
        <4>2. others.wrote \in Nat /\ others.wrote + 1 \in Nat
          BY <1>1 DEF TreeTypes
        <4> QED
          BY <4>1, <4>2
      <3>2. CASE OthersRemove(p)
        <4>1. others' = [others EXCEPT !.wrote = others.wrote, !.removed = others.removed \cup {pub[p]},
                                       !.count = others.count + 1]
          BY <1>1, <3>2 DEF OthersRemove, TreeTypes
        <4>2. others.wrote \in Nat /\ others.wrote + 1 \in Nat
          BY <1>1 DEF TreeTypes
        <4> QED
          BY <4>1, <4>2
      <3> QED
        BY <3>1, <3>2
    <2>4. /\ others' = [wrote |-> others'.wrote, removed |-> others'.removed, count |-> others'.count]
          /\ others'.wrote \in Nat
      BY <1>1, <2>3 DEF TreeTypes
    <2> QED
      BY <1>1, <2>2, <2>4 DEF TreeTypes
  <1>3. others.removed \subseteq others'.removed /\ (pub[p] # 0 => pub[p] \in others'.removed)
    BY <1>1 DEF TreeTypes, OthersWrite, OthersRemove
  <1>4. ASSUME NEW x, x # 0, Kept(x) PROVE Kept(x)'
    BY <1>1, <1>2, <1>3, <1>4 DEF Kept, Exists
  <1>5. \A x \in Objects \ {0} : Others(x)' => Others(x) \/ pub'[p] = x
    <2>1. CASE OthersRemove(p)
      <3>1. others'.wrote = others.wrote
        BY <1>1, <2>1 DEF OthersRemove, TreeTypes
      <3> QED
        BY <3>1 DEF Others
    <2>2. CASE OthersWrite(p)
      <3>1. others'.wrote = others.wrote + 1 /\ pub'[p] = 201 + others.wrote /\ others.wrote \in Nat
        BY <1>1, <2>2 DEF OthersWrite, TreeTypes
      <3>2. ASSUME NEW x \in Foreign, x - 200 <= others.wrote + 1, ~(x - 200 <= others.wrote) PROVE x = 201 + others.wrote
        BY <3>1, <3>2 DEF Foreign
      <3> QED
        BY <3>1, <3>2 DEF Others
    <2> QED
      BY <2>1, <2>2
  <1>6. BornSound'
    <2>1. \A x : pub'[p] = x => Kept(x)'
      BY DEF Kept, Exists
    <2> QED
      BY <1>4, <1>5, <2>1 DEF FileInv, BornSound
  <1>7. ASSUME NEW o \in Ops PROVE OpSound(o)'
    <2>1. OpSound(o) /\ o # 0
      BY DEF FileInv, Ops
    <2>2. DeclaredSound(o)' /\ WhereSound(o)' /\ SlotSound(o)' /\ OutSound(o)'
      BY <1>1, <2>1 DEF OpSound, DeclaredSound, WhereSound, ActsOf, SlotSound, OutSound, NotYet
    <2>3. StagedSound(o)'
      BY <1>1, <1>4, <2>1 DEF OpSound, StagedSound
    <2> QED
      BY <2>2, <2>3 DEF OpSound
  <1>8. OpTypes' /\ KillSound'
    BY <1>1 DEF FileInv, OpTypes, KillSound, KillOK
  <1>9. Steady
    BY <1>1 DEF Steady, SameId
  <1> QED
    BY <1>2, <1>6, <1>7, <1>8, <1>9 DEF FileInv

\* The writer's lock and the barrier move no object.
LEMMA BarrierKeeps == ASSUME FileInv, UNCHANGED <<tree, op, others>> PROVE FileInv' /\ Steady
  <1>1. KeptStays /\ TreeTypes' /\ UNCHANGED <<slot, held, killed, others, op>>
    BY StillTree DEF tree
  <1>2. ASSUME NEW o \in Ops PROVE OpSound(o)'
    <2>1. OpSound(o) /\ o # 0
      BY DEF FileInv, Ops
    <2>2. DeclaredSound(o)' /\ WhereSound(o)' /\ SlotSound(o)' /\ OutSound(o)'
      BY <1>1, <2>1 DEF OpSound, DeclaredSound, WhereSound, ActsOf, SlotSound, OutSound, NotYet
    <2>3. StagedSound(o)'
      BY <1>1, <2>1 DEF OpSound, StagedSound, KeptStays
    <2> QED
      BY <2>2, <2>3 DEF OpSound
  <1>3. OpTypes' /\ KillSound' /\ BornSound'
    BY <1>1 DEF FileInv, OpTypes, KillSound, KillOK, BornSound, Others, KeptStays
  <1>9. Steady
    BY <1>1 DEF Steady, SameId
  <1> QED
    BY <1>1, <1>2, <1>3, <1>9 DEF FileInv

LEMMA FileStep == FileInv /\ [Next]_vars => FileInv'
  <1> SUFFICES ASSUME FileInv, [Next]_vars PROVE FileInv'
    OBVIOUS
  <1>1. CASE UNCHANGED vars
    BY <1>1, BarrierKeeps DEF vars, tree
  <1>2. ASSUME NEW o \in Ops, \/ \E q \in Requests, t \in 1..ten : Declare(o, q, t)
                              \/ Timeout(o) \/ GraceOver(o) \/ Run(o) \/ Reconcile(o)
        PROVE  FileInv'
    BY <1>2, DeclareKeeps, TimeoutKeeps, GraceKeeps, RunKeeps, ReconcileKeeps
  <1>3. CASE \E crash \in BOOLEAN : Takeover(crash)
    BY <1>3, TakeoverKeeps
  <1>4. CASE (\E t \in 1..ten : watchWriter(t)) \/ SetScopeFrozen \/ cutScope \/ Release
    BY <1>4, BarrierKeeps DEF watchWriter, SetScopeFrozen, cutScope, Release
  <1>5. CASE \E p \in Paths : OthersWrite(p) \/ OthersRemove(p)
    BY <1>5, OthersKeep
  <1> QED
    BY <1>1, <1>2, <1>3, <1>4, <1>5 DEF Next

(* Nothing is lost (NothingLost): whatever crashes, takeovers, hung calls,  *)
(* client timeouts, freezes and writes of others meet, an object is only    *)
(* destroyed by the operation that declared it as what it replaces or       *)
(* removes, or by its own failed writer, and a write or rename that         *)
(* answered with a failure left what it would have replaced (discardOwned,  *)
(* undoDisplaced, settleNames, runFs); for any paths, requests and number   *)
(* of operations.                                                           *)
THEOREM NothingIsLost == Spec => []NothingLost
  <1>1. Init => FileInv
    BY FileInvInit
  <1>2. FileInv /\ [Next]_vars => FileInv'
    BY FileStep
  <1>3. FileInv => NothingLost
    BY FileInvMeans
  <1> QED
    BY <1>1, <1>2, <1>3, PTL DEF Spec

-----------------------------------------------------------------------------
(* A sealed cut *)

\* A goroutine does not settle its own intent and go on.
Flows(o) ==
    /\ \A k \in Ops \ {o} : op'[k] = op[k]
    /\ op'[o].st = op[o].st \/ (op'[o].st # "pending" /\ op'[o].pc \in Over)

LEMMA LeaveFlows == ASSUME OpTypes, NEW o \in Ops, Leave(o) PROVE Flows(o)
  <1>1. IsOp(op[o])
    BY DEF OpTypes
  <1> QED
    BY <1>1 DEF Leave, OpTypes, IsOp, OpFields, Flows, Over

LEMMA SettledFlows ==
    ASSUME OpTypes, NEW o \in Ops, NEW st, NEW done, NEW out, st # "pending",
           op' = [op EXCEPT ![o].st = st, ![o].pc = "idle", ![o].done = done, ![o].out = out]
    PROVE  Flows(o)
  <1>1. IsOp(op[o])
    BY DEF OpTypes
  <1>2. op'[o].st = st /\ op'[o].pc = "idle" /\ (\A k \in Ops \ {o} : op'[k] = op[k])
    BY <1>1 DEF OpTypes, IsOp, OpFields
  <1> QED
    BY <1>2 DEF Flows, Over

LEMMA DropFlows == ASSUME OpTypes, NEW o \in Ops, dropIntent(o) \/ dropIntentGhosts(o) \/ Parked(o) PROVE Flows(o)
  <1>1. IsOp(op[o])
    BY DEF OpTypes
  <1>2. CASE Owner(o)
    <2>0. PICK st \in {"gone", "resolved"} : \E out :
             op' = [op EXCEPT ![o].st = st, ![o].pc = "idle", ![o].out = out]
      BY <1>2 DEF dropIntent, dropIntentGhosts, Parked
    <2>1. PICK out : op' = [op EXCEPT ![o].st = st, ![o].pc = "idle", ![o].out = out]
      BY <2>0
    <2>2. op' = [op EXCEPT ![o].st = st, ![o].pc = "idle", ![o].done = op[o].done, ![o].out = out]
      BY <1>1, <2>1 DEF OpTypes, IsOp
    <2>3. st # "pending"
      BY <2>0
    <2> QED
      BY <2>2, <2>3, SettledFlows
  <1>5. CASE ~Owner(o)
    BY <1>5, LeaveFlows DEF dropIntent, dropIntentGhosts, Parked
  <1> QED
    BY <1>2, <1>5

LEMMA AppliedFlows == ASSUME OpTypes, NEW o \in Ops, NEW x, NEW keep, Applied(o, x, keep) PROVE Flows(o)
  <1>1. IsOp(op[o])
    BY DEF OpTypes
  <1>2. CASE Owner(o)
    <2> DEFINE st == IF keep \/ ~op[o].done THEN Resolve(op[o].st) ELSE "gone"
               out == IF op[o].out = "none" THEN "ok" ELSE op[o].out
    <2>1. op' = [op EXCEPT ![o] = [op[o] EXCEPT !.snap = <<"none", "unset">>, !.st = st, !.pc = "idle", !.out = out]]
      BY <1>2 DEF Applied, apply, Owner, OpTypes
    <2>2. st # "pending"
      BY DEF Resolve
    <2> HIDE DEF st, out
    <2>3. op'[o].st = st /\ op'[o].pc = "idle" /\ (\A k \in Ops \ {o} : op'[k] = op[k])
      BY <1>1, <2>1 DEF OpTypes, IsOp, OpFields
    <2> QED
      BY <2>2, <2>3 DEF Flows, Over
  <1>3. CASE ~Owner(o)
    BY <1>3, LeaveFlows DEF Applied
  <1> QED
    BY <1>2, <1>3

LEMMA RunAlive == ASSUME NEW o \in Ops, Run(o) PROVE op[o].pc \notin Over
  BY DEF Run, Put, RenameSource, RenameMove, Act, Sys, Res, Commit, Info, Fail, Und, UndoLook, UndoAct,
         Undone, Restore, Park, Fenced, At, Over

LEMMA RunFlows == ASSUME OpTypes, NEW o \in Ops, Run(o) PROVE Flows(o)
  <1>0. IsOp(op[o])
    BY DEF OpTypes
  <1>2. CASE Put(o)
    BY <1>0, <1>2 DEF Put, OpTypes, IsOp, OpFields, Flows
  <1>3. CASE RenameSource(o)
    <2>1. CASE dropIntent(o)
      BY <2>1, DropFlows
    <2>2. CASE ~dropIntent(o)
      BY <1>0, <1>3, <2>2 DEF RenameSource, OpTypes, IsOp, OpFields, Flows
    <2> QED
      BY <2>1, <2>2
  <1>4. CASE RenameMove(o)
    <2>1. CASE dropIntent(o)
      BY <2>1, DropFlows
    <2>2. CASE ~dropIntent(o)
      <3>1. op' = [op EXCEPT ![o].pc = "info", ![o].landed = TRUE]
        BY <1>4, <2>2 DEF RenameMove
      <3> QED
        BY <1>0, <3>1 DEF OpTypes, IsOp, OpFields, Flows
    <2> QED
      BY <2>1, <2>2
  <1>5. CASE Act(o)
    BY <1>0, <1>5 DEF Act, OpTypes, IsOp, OpFields, Flows
  <1>6. CASE Sys(o)
    <2>1. PICK e : Effect(o, e)
      BY <1>6 DEF Sys
    <2> QED
      BY <1>0, <2>1 DEF Effect, OpTypes, IsOp, OpFields, Flows
  <1>7. CASE Res(o)
    <2>1. CASE AfterEffect(o) = "absent"
      <3>1. dropIntent(o) \/ dropIntentGhosts(o)
        BY <1>7, <2>1 DEF Res
      <3> QED
        BY <3>1, DropFlows
    <2> DEFINE noted == [op EXCEPT ![o].res = op[o].eff, ![o].pc = AfterEffect(o)]
    <2>2. CASE AfterEffect(o) = "lost"
      <3>1. op' = [noted EXCEPT ![o].pc = "idle", ![o].out = "unknown"]
        BY <1>7, <2>2 DEF Res
      <3> QED
        BY <1>0, <3>1 DEF OpTypes, IsOp, OpFields, Flows
    <2>3. CASE AfterEffect(o) \notin {"absent", "lost"}
      <3>1. op' = noted
        BY <1>7, <2>3 DEF Res
      <3> QED
        BY <1>0, <3>1 DEF OpTypes, IsOp, OpFields, Flows
    <2> QED
      BY <2>1, <2>2, <2>3
  <1>8. CASE Commit(o)
    BY <1>0, <1>8 DEF Commit, OpTypes, IsOp, OpFields, Flows
  <1>9. CASE Info(o)
    <2>1. dropIntent(o) \/ Leave(o) \/ \E x, keep : Applied(o, x, keep)
      BY <1>9 DEF Info
    <2> QED
      BY <2>1, DropFlows, LeaveFlows, AppliedFlows
  <1>10. CASE Fail(o)
    <2>1. CASE Owner(o)
      <3>1. op' = [op EXCEPT ![o].st = "gone", ![o].pc = "idle", ![o].done = TRUE, ![o].out = Answer(o, "fail")]
        BY <1>10, <2>1 DEF Fail
      <3> QED
        BY <3>1, SettledFlows
    <2>2. CASE ~Owner(o)
      <3>1. op' = [op EXCEPT ![o].pc = "idle", ![o].done = TRUE, ![o].out = "unknown"]
        BY <1>10, <2>2 DEF Fail
      <3> QED
        BY <1>0, <3>1 DEF OpTypes, IsOp, OpFields, Flows
    <2> QED
      BY <2>1, <2>2
  <1>11. CASE Und(o) \/ UndoLook(o)
    BY <1>0, <1>11 DEF Und, UndoLook, OpTypes, IsOp, OpFields, Flows
  <1>12. CASE UndoAct(o)
    <2>1. PICK pc : op' = [op EXCEPT ![o].pc = pc]
      BY <1>12 DEF UndoAct
    <2> QED
      BY <1>0, <2>1 DEF OpTypes, IsOp, OpFields, Flows
  <1>13. CASE Undone(o)
    BY <1>0, <1>13 DEF Undone, OpTypes, IsOp, OpFields, Flows
  <1>14. CASE Restore(o)
    <2>1. dropIntent(o) \/ Leave(o) \/ Parked(o)
      BY <1>14 DEF Restore
    <2> QED
      BY <2>1, DropFlows, LeaveFlows
  <1>15. CASE Park(o)
    <2>1. Parked(o) \/ \E x, keep : Applied(o, x, keep)
      BY <1>15 DEF Park
    <2> QED
      BY <2>1, DropFlows, AppliedFlows
  <1>16. CASE Fenced(o)
    BY <1>16, LeaveFlows DEF Fenced
  <1> QED
    BY <1>2, <1>3, <1>4, <1>5, <1>6, <1>7, <1>8, <1>9, <1>10, <1>11, <1>12, <1>13, <1>14, <1>15, <1>16 DEF Run

\* What the database and the reconciler do to an intent.
Noted(o) ==
    /\ \A k \in Ops \ {o} : op'[k] = op[k]
    /\ op'[o].st = op[o].st /\ op'[o].home = op[o].home
Judges(o) ==
    /\ \A k \in Ops \ {o} : op'[k] = op[k]
    /\ op'[o].st # "pending" /\ op'[o].home = op[o].home

LEMMA TimeoutNotes == ASSUME OpTypes, NEW o \in Ops, Timeout(o) PROVE Noted(o)
  <1>1. IsOp(op[o])
    BY DEF OpTypes
  <1>2. op' = [op EXCEPT ![o].out = "unknown"]
    BY DEF Timeout
  <1> QED
    BY <1>1, <1>2 DEF OpTypes, IsOp, OpFields, Noted

LEMMA LoadNotes == ASSUME OpTypes, NEW o \in Ops, Load(o) PROVE Noted(o)
  <1>1. IsOp(op[o])
    BY DEF OpTypes
  <1>2. op' = [op EXCEPT ![o].snap = <<op[o].act, op[o].res>>]
    BY DEF Load
  <1> QED
    BY <1>1, <1>2 DEF OpTypes, IsOp, OpFields, Noted

LEMMA AbsentNotes == ASSUME OpTypes, NEW o \in Ops, NameAbsent(o) PROVE Noted(o)
  <1>1. IsOp(op[o])
    BY DEF OpTypes
  <1>2. CASE op' = [op EXCEPT ![o].tomb = TRUE]
    BY <1>1, <1>2 DEF OpTypes, IsOp, OpFields, Noted
  <1>3. CASE op' = [op EXCEPT ![o].done = ~op[o].tomb]
    BY <1>1, <1>3 DEF OpTypes, IsOp, OpFields, Noted
  <1> QED
    BY <1>2, <1>3 DEF NameAbsent

LEMMA GraceJudges == ASSUME OpTypes, NEW o \in Ops, GraceOver(o) PROVE Judges(o)
  <1>1. IsOp(op[o])
    BY DEF OpTypes
  <1>2. op' = [op EXCEPT ![o].st = "aged"]
    BY DEF GraceOver
  <1> QED
    BY <1>1, <1>2 DEF OpTypes, IsOp, OpFields, Judges

LEMMA JudgedJudges == ASSUME OpTypes, NEW o \in Ops, NEW st, st # "pending", Judged(o, st) PROVE Judges(o)
  <1>1. IsOp(op[o])
    BY DEF OpTypes
  <1> QED
    BY <1>1 DEF Judged, OpTypes, IsOp, OpFields, Judges

LEMMA TombstoneJudges == ASSUME OpTypes, NEW o \in Ops, NEW rs, NEW v, Tombstone(o, rs, v) PROVE Judges(o)
  <1>1. IsOp(op[o])
    BY DEF OpTypes
  <1>2. CASE op[o].st = "pending"
    BY <1>2, JudgedJudges DEF Tombstone, Judged
  <1>3. CASE op[o].st # "pending"
    <2>1. op' = [op EXCEPT ![o].snap = <<"none", "unset">>]
      BY <1>3 DEF Tombstone
    <2> QED
      BY <1>1, <1>3, <2>1 DEF OpTypes, IsOp, OpFields, Judges
  <1> QED
    BY <1>2, <1>3

LEMMA ApplyJudges ==
    ASSUME OpTypes, NEW o \in Ops, NEW x, NEW d, NEW keep, NEW verdict, apply(o, x, d, keep, verdict)
    PROVE  Judges(o)
  <1> DEFINE st == IF keep \/ ~op[o].done THEN Resolve(op[o].st) ELSE "gone"
             pc == IF op[o].own = ten THEN "idle" ELSE op[o].pc
             out == IF op[o].out = "none" /\ op[o].own = ten THEN "ok" ELSE op[o].out
  <1>1. IsOp(op[o])
    BY DEF OpTypes
  <1>2. op' = [op EXCEPT ![o] = [op[o] EXCEPT !.snap = <<"none", "unset">>, !.st = st, !.pc = pc, !.out = out]]
    BY DEF apply, OpTypes
  <1>3. st # "pending"
    BY DEF Resolve
  <1> HIDE DEF st, pc, out
  <1> QED
    BY <1>1, <1>2, <1>3 DEF OpTypes, IsOp, OpFields, Judges

LEMMA SettleJudges == ASSUME OpTypes, NEW o \in Ops, settleIntent(o) PROVE Judges(o)
  <1>1. CASE settleWrite(o)
    <2>1. (\E rs, v : Tombstone(o, rs, v)) \/ (\E x, d, keep, verdict : apply(o, x, d, keep, verdict))
      BY <1>1 DEF settleWrite
    <2> QED
      BY <2>1, TombstoneJudges, ApplyJudges
  <1>2. CASE settleRemove(o)
    BY <1>2, TombstoneJudges DEF settleRemove
  <1>3. CASE settleRename(o)
    <2>1. Judged(o, Resolve(op[o].st)) \/ (\E rs, v : Tombstone(o, rs, v))
      BY <1>3 DEF settleRename, Judged
    <2>2. Resolve(op[o].st) # "pending"
      BY DEF Resolve
    <2> QED
      BY <2>1, <2>2, JudgedJudges, TombstoneJudges
  <1> QED
    BY <1>1, <1>2, <1>3 DEF settleIntent

\* The reconciler's work on a private name leaves the state of the intent.
LEMMA HandNotes ==
    ASSUME OpTypes, NEW o \in Ops, captureName(o) \/ judgeName(o) \/ moveSettled(o) \/ settleRow(o)
    PROVE  /\ \A k \in Ops \ {o} : op'[k] = op[k]
           /\ op'[o].st = op[o].st
  <1>1. IsOp(op[o])
    BY DEF OpTypes
  <1>2. CASE captureName(o)
    BY <1>1, <1>2 DEF captureName, OpTypes, IsOp, OpFields
  <1>3. CASE judgeName(o)
    <2>1. PICK h : op' = [op EXCEPT ![o].home = h]
      BY <1>3 DEF judgeName
    <2> QED
      BY <1>1, <2>1 DEF OpTypes, IsOp, OpFields
  <1>4. CASE moveSettled(o)
    <2>1. op' = op \/ op' = [op EXCEPT ![o].home = Surface]
      BY <1>4 DEF moveSettled
    <2> QED
      BY <1>1, <2>1 DEF OpTypes, IsOp, OpFields
  <1>5. CASE settleRow(o)
    BY <1>1, <1>5 DEF settleRow, OpTypes, IsOp, OpFields
  <1> QED
    BY <1>2, <1>3, <1>4, <1>5

\* An intent of the owner is pending while its goroutine runs, and the owner
\* loads only what no goroutine of its own holds.
Reigns(o) ==
    /\ op[o].own \in 0..ten
    /\ op[o].own = ten /\ op[o].pc \notin Over => op[o].st = "pending"
    /\ Loaded(o) /\ op[o].own = ten /\ op[o].st = "pending" => op[o].pc \in Over
LockTypes == ten \in {1, 2} /\ mu \in [1..2 -> Nat] /\ (ten = 1 => mu[2] = 0)
ReignSound == LockTypes /\ \A o \in Ops : Reigns(o)
\* Under a seal nothing runs and nothing is under a private name.
StillOp(o) == op[o].pc \in Over /\ slot[o] = 0 /\ held[o] = 0 /\ op[o].home = "none"
CutSound == frozen = "sealed" => cut = {Manifest} /\ \A o \in Ops : StillOp(o)
CutInv == ReignSound /\ CutSound

LEMMA CutInvInit == Init => CutInv
  <1> SUFFICES ASSUME Init PROVE CutInv
    OBVIOUS
  <1>1. LockTypes /\ frozen = "no"
    BY DEF Init, LockTypes
  <1>2. ASSUME NEW o \in Ops PROVE Reigns(o)
    <2>1. op[o].own = 0 /\ ten = 1
      BY DEF Init, Unused
    <2> QED
      BY <2>1 DEF Reigns
  <1> QED
    BY <1>1, <1>2 DEF CutInv, ReignSound, CutSound

\* A lock that is kept or given up, and intents that end with their goroutine.
LEMMA ReignStays ==
    ASSUME ReignSound, Steady, ten' = ten, mu' \in [1..2 -> Nat],
           \A t \in 1..2 : mu'[t] \in {0, mu[t]},
           \A o \in Ops : \/ op'[o].st = op[o].st
                          \/ op'[o].st # "pending" /\ (op[o].own = ten => op'[o].pc \in Over)
    PROVE  ReignSound'
  <1>1. LockTypes'
    BY DEF ReignSound, LockTypes
  <1>2. ASSUME NEW o \in Ops PROVE Reigns(o)'
    <2>1. Reigns(o) /\ op'[o].own = op[o].own /\ (op[o].pc \in Over => op'[o].pc \in Over)
      BY DEF ReignSound, Steady, SameId
    <2>2. Loaded(o)' => Loaded(o)
      <3>1. ten \in 1..2 /\ o \in Nat /\ o > 0 /\ MaxOps \in Nat
        BY FileStoreAssumption DEF ReignSound, LockTypes, Ops
      <3> QED
        BY <3>1 DEF Loaded
    <2> QED
      BY <2>1, <2>2 DEF Reigns
  <1> QED
    BY <1>1, <1>2 DEF ReignSound

LEMMA RunReigns == ASSUME FileInv, ReignSound, NEW o \in Ops, Run(o) PROVE ReignSound'
  <1>1. Steady /\ Flows(o) /\ Body
    BY RunKeeps, RunFlows DEF FileInv, Run, Put, RenameSource, RenameMove, Act, Sys, Res, Commit, Info, Fail,
       Und, UndoLook, UndoAct, Undone, Restore, Park, Fenced
  <1>2. ten' = ten /\ mu' \in [1..2 -> Nat] /\ \A t \in 1..2 : mu'[t] \in {0, mu[t]}
    BY <1>1 DEF Body, reign, ReignSound, LockTypes
  <1>3. \A k \in Ops : op'[k].st = op[k].st \/ (op'[k].st # "pending" /\ (op[k].own = ten => op'[k].pc \in Over))
    BY <1>1 DEF Flows
  <1> QED
    BY <1>1, <1>2, <1>3, ReignStays

LEMMA LoadReigns == ASSUME FileInv, ReignSound, NEW o \in Ops, Load(o) PROVE ReignSound'
  <1>1. Steady /\ Noted(o) /\ OpTypes
    BY LoadKeeps, LoadNotes DEF FileInv
  <1>2. ten' = ten /\ ten \in 1..2 /\ mu[ten] = 0 /\ mu' = [mu EXCEPT ![ten] = MaxOps + o]
    BY DEF Load, reign, ReignSound, LockTypes
  <1>3. LockTypes'
    <2>1. MaxOps + o \in Nat
      BY FileStoreAssumption DEF Ops
    <2> QED
      BY <1>2, <2>1 DEF ReignSound, LockTypes
  <1>4. ASSUME NEW k \in Ops PROVE Reigns(k)'
    <2>1. Reigns(k) /\ op'[k].own = op[k].own /\ op'[k].st = op[k].st /\ (op[k].pc \in Over => op'[k].pc \in Over)
      BY <1>1 DEF ReignSound, Steady, SameId, Noted
    <2>2. Loaded(k)' => k = o
      <3>1. mu'[ten] = MaxOps + o
        BY <1>2 DEF ReignSound, LockTypes
      <3> QED
        BY <1>2, <3>1, FileStoreAssumption DEF Loaded, Ops
    <2>3. op[o].own = ten /\ op[o].st = "pending" => op[o].pc \in Over
      BY DEF Load, Reconcilable, Owner, At, Over
    <2> QED
      BY <1>2, <2>1, <2>2, <2>3 DEF Reigns
  <1> QED
    BY <1>3, <1>4 DEF ReignSound

LEMMA SettleReigns == ASSUME FileInv, ReignSound, NEW o \in Ops, settleIntent(o) PROVE ReignSound'
  <1>1. Steady /\ Judges(o) /\ OpTypes
    BY SettleKeeps, SettleJudges DEF FileInv
  <1>2. ten' = ten /\ ten \in 1..2 /\ Loaded(o) /\ mu' = [mu EXCEPT ![ten] = 0]
    BY DEF settleIntent, EndPass, reign, ReignSound, LockTypes
  <1>3. mu' \in [1..2 -> Nat] /\ \A t \in 1..2 : mu'[t] \in {0, mu[t]}
    BY <1>2 DEF ReignSound, LockTypes
  <1>4. op[o].own = ten => op'[o].pc \in Over
    BY <1>1, <1>2 DEF ReignSound, Reigns, Steady
  <1> QED
    BY <1>1, <1>2, <1>3, <1>4, ReignStays DEF Judges

LEMMA ReconcileReigns == ASSUME FileInv, ReignSound, NEW o \in Ops, Reconcile(o) PROVE ReignSound'
  <1>1. CASE NameAbsent(o) \/ captureName(o) \/ judgeName(o) \/ moveSettled(o) \/ settleRow(o)
    <2>1. Steady /\ OpTypes
      BY <1>1, ReconcileKeeps DEF FileInv, Reconcile
    <2>2. \A k \in Ops : op'[k].st = op[k].st
      BY <1>1, <2>1, AbsentNotes, HandNotes DEF Noted
    <2>3. ten' = ten /\ mu' = mu
      BY <1>1 DEF NameAbsent, captureName, judgeName, moveSettled, settleRow, reign
    <2>4. mu' \in [1..2 -> Nat] /\ \A t \in 1..2 : mu'[t] \in {0, mu[t]}
      BY <2>3 DEF ReignSound, LockTypes
    <2> QED
      BY <2>1, <2>2, <2>3, <2>4, ReignStays
  <1> QED
    BY <1>1, LoadReigns, SettleReigns DEF Reconcile

LEMMA TimeoutReigns == ASSUME FileInv, ReignSound, NEW o \in Ops, Timeout(o) \/ GraceOver(o) PROVE ReignSound'
  <1>1. Steady /\ OpTypes
    BY TimeoutKeeps, GraceKeeps DEF FileInv
  <1>2. ten' = ten /\ mu' \in [1..2 -> Nat] /\ \A t \in 1..2 : mu'[t] \in {0, mu[t]}
    BY DEF Timeout, GraceOver, reign, ReignSound, LockTypes
  <1>3. CASE Timeout(o)
    BY <1>1, <1>2, <1>3, TimeoutNotes, ReignStays DEF Noted
  <1>4. CASE GraceOver(o)
    <2>1. op[o].own = ten => op'[o].pc \in Over
      BY <1>1, <1>4 DEF GraceOver, ReignSound, Reigns, Steady
    <2> QED
      BY <1>1, <1>2, <1>4, <2>1, GraceJudges, ReignStays DEF Judges
  <1> QED
    BY <1>3, <1>4

LEMMA TakeoverReigns == ASSUME FileInv, ReignSound, NEW crash \in BOOLEAN, Takeover(crash) PROVE ReignSound'
  <1>0. ten = 1 /\ ten' = ten + 1 /\ (mu' = [mu EXCEPT ![ten] = 0] \/ mu' = mu)
    BY DEF Takeover
  <1>1. Steady /\ ten = 1 /\ ten' = 2 /\ mu \in [1..2 -> Nat] /\ mu[2] = 0
    BY <1>0, TakeoverKeeps DEF ReignSound, LockTypes
  <1>2. mu' \in [1..2 -> Nat] /\ mu'[2] = 0
    BY <1>0, <1>1
  <1>3. ASSUME NEW o \in Ops PROVE Reigns(o)'
    <2>1. op'[o].own \in 0..1
      BY <1>1 DEF ReignSound, Reigns, Steady, SameId
    <2>2. ~Loaded(o)'
      BY <1>1, <1>2, FileStoreAssumption DEF Loaded, Ops
    <2> QED
      BY <1>1, <2>1, <2>2 DEF Reigns
  <1> QED
    BY <1>1, <1>2, <1>3 DEF ReignSound, LockTypes

LEMMA DeclareReigns ==
    ASSUME FileInv, ReignSound, NEW o \in Ops, NEW q \in Requests, NEW t \in 1..ten, Declare(o, q, t)
    PROVE  ReignSound'
  <1>1. /\ ten' = ten /\ ten \in 1..2 /\ t \in 1..2 /\ mu[t] = 0 /\ mu' = [mu EXCEPT ![t] = o]
        /\ OpTypes
    BY DEF Declare, reign, ReignSound, LockTypes, FileInv
  <1>2. LockTypes' /\ mu'[t] = o /\ \A u \in 1..2 : u # t => mu'[u] = mu[u]
    <2>1. o \in Nat /\ t <= ten
      BY DEF Ops
    <2> QED
      BY <1>1, <2>1 DEF ReignSound, LockTypes
  <1>3. /\ \A k \in Ops \ {o} : op'[k] = op[k]
        /\ op'[o].st = "pending" /\ op'[o].own = t
    BY <1>1 DEF Declare, OpTypes, Unused
  <1>4. ASSUME NEW k \in Ops PROVE Reigns(k)'
    <2>1. Reigns(k)
      BY DEF ReignSound
    <2>2. t = ten => ~Loaded(k)'
      BY <1>1, <1>2, FileStoreAssumption DEF Loaded, Ops
    <2>3. t # ten => (Loaded(k)' <=> Loaded(k))
      BY <1>1, <1>2 DEF Loaded
    <2> QED
      BY <1>1, <1>3, <2>1, <2>2, <2>3 DEF Reigns
  <1> QED
    BY <1>2, <1>4 DEF ReignSound

LEMMA ReignStep == FileInv /\ ReignSound /\ [Next]_vars => ReignSound'
  <1> SUFFICES ASSUME FileInv, ReignSound, [Next]_vars PROVE ReignSound'
    OBVIOUS
  <1>1. CASE UNCHANGED <<op, mu, ten>>
    BY <1>1 DEF ReignSound, LockTypes, Reigns, Loaded
  <1>2. CASE \E o \in Ops : \/ \E q \in Requests, t \in 1..ten : Declare(o, q, t)
                            \/ Timeout(o) \/ GraceOver(o) \/ Run(o) \/ Reconcile(o)
    BY <1>2, DeclareReigns, TimeoutReigns, RunReigns, ReconcileReigns
  <1>3. CASE \E crash \in BOOLEAN : Takeover(crash)
    BY <1>3, TakeoverReigns
  <1>4. CASE (\E t \in 1..ten : watchWriter(t)) \/ SetScopeFrozen \/ cutScope \/ Release
    BY <1>1, <1>4 DEF watchWriter, SetScopeFrozen, cutScope, Release
  <1>5. CASE \E p \in Paths : OthersWrite(p) \/ OthersRemove(p)
    BY <1>1, <1>5 DEF OthersWrite, OthersRemove, reign
  <1> QED
    BY <1>1, <1>2, <1>3, <1>4, <1>5 DEF Next, vars

\* What moves no object, and runs nothing, under a seal.
LEMMA StillStays ==
    ASSUME CutSound, frozen = "sealed", Steady, UNCHANGED <<pub, slot, held, recovered, cut>>,
           \A o \in Ops : op[o].home = "none" => op'[o].home = "none"
    PROVE  CutSound'
  <1>1. cut' = {Manifest}'
    BY DEF CutSound, Manifest
  <1>2. ASSUME NEW o \in Ops PROVE StillOp(o)'
    BY DEF CutSound, StillOp, Steady
  <1> QED
    BY <1>1, <1>2 DEF CutSound

LEMMA SealedSettles == ASSUME FileInv, CutSound, frozen = "sealed", NEW o \in Ops, Reconcile(o) PROVE CutSound'
  <1>1. StillOp(o) /\ OpTypes /\ Steady
    BY ReconcileKeeps DEF CutSound, FileInv
  <1>2. NameAbsent(o) \/ settleIntent(o)
    BY <1>1 DEF Reconcile, Load, Reconcilable, captureName, judgeName, moveSettled, settleRow, StillOp
  <1>3. UNCHANGED <<pub, slot, held, recovered, cut>>
    BY <1>2 DEF NameAbsent, settleIntent, tree, reign
  <1>4. \A k \in Ops : op'[k].home = op[k].home
    BY <1>1, <1>2, AbsentNotes, SettleJudges DEF Noted, Judges
  <1> QED
    BY <1>1, <1>3, <1>4, StillStays

LEMMA TakeoverHome == ASSUME OpTypes, NEW crash \in BOOLEAN, Takeover(crash), NEW o \in Ops PROVE op'[o].home = op[o].home
  <1>1. IsOp(op[o])
    BY DEF OpTypes
  <1>2. PICK pc, out : op'[o] = [op[o] EXCEPT !.snap = <<"none", "unset">>, !.pc = pc, !.out = out]
    BY DEF Takeover
  <1> QED
    BY <1>1, <1>2 DEF IsOp, OpFields

LEMMA CutStep == FileInv /\ CutInv /\ [Next]_vars => CutInv'
  <1> SUFFICES ASSUME FileInv, CutInv, [Next]_vars PROVE CutSound'
    BY ReignStep DEF CutInv
  <1>0. ReignSound /\ CutSound
    BY DEF CutInv
  <1>1. CASE frozen = "sealed"
    <2>1. CASE UNCHANGED <<tree, op, others, cut>>
      BY <1>0, <1>1, <2>1, BarrierKeeps, StillStays DEF tree
    <2>2. ASSUME NEW o \in Ops PROVE ~Run(o) /\ \A q, t : ~Declare(o, q, t)
      BY <1>0, <1>1, RunAlive DEF CutSound, StillOp, Declare
    <2>3. ASSUME NEW o \in Ops, Timeout(o) \/ GraceOver(o) PROVE CutSound'
      <3>1. Steady /\ OpTypes
        BY <2>3, TimeoutKeeps, GraceKeeps DEF FileInv
      <3>2. UNCHANGED <<pub, slot, held, recovered, cut>>
        BY <2>3 DEF Timeout, GraceOver, tree, reign
      <3>3. \A k \in Ops : op'[k].home = op[k].home
        BY <2>3, <3>1, TimeoutNotes, GraceJudges DEF Noted, Judges
      <3> QED
        BY <1>0, <1>1, <3>1, <3>2, <3>3, StillStays
    <2>4. ASSUME NEW o \in Ops, Reconcile(o) PROVE CutSound'
      BY <1>0, <1>1, <2>4, SealedSettles
    <2>5. ASSUME NEW crash \in BOOLEAN, Takeover(crash) PROVE CutSound'
      <3>1. UNCHANGED <<pub, slot, held, recovered, cut>>
        BY <2>5 DEF Takeover, tree
      <3>2. Steady /\ OpTypes
        BY <2>5, TakeoverKeeps DEF FileInv
      <3>3. \A k \in Ops : op'[k].home = op[k].home
        BY <2>5, <3>2, TakeoverHome
      <3> QED
        BY <1>0, <1>1, <3>1, <3>2, <3>3, StillStays
    <2>6. CASE (\E t \in 1..ten : watchWriter(t)) \/ SetScopeFrozen \/ cutScope
      BY <1>1, <2>1, <2>6 DEF watchWriter, SetScopeFrozen, cutScope
    <2>7. CASE Release
      BY <2>7 DEF Release, CutSound
    <2>8. ASSUME NEW p \in Paths PROVE ~OthersWrite(p) /\ ~OthersRemove(p)
      BY <1>1 DEF OthersWrite, OthersRemove
    <2> QED
      BY <2>1, <2>2, <2>3, <2>4, <2>5, <2>6, <2>7, <2>8 DEF Next, vars, tree
  <1>2. CASE frozen # "sealed"
    <2>1. CASE cutScope
      <3>1. cut' = {Manifest}' /\ UNCHANGED <<tree, op>> /\ Drained
        BY <2>1 DEF cutScope, Manifest, tree
      <3>2. ASSUME NEW o \in Ops PROVE StillOp(o)'
        <4>1. Reigns(o)
          BY <1>0 DEF ReignSound
        <4>2. op[o].st # "pending" /\ slot[o] = 0 /\ held[o] = 0 /\ op[o].home = "none"
              /\ (op[o].own # ten => op[o].pc \in Over)
          BY <3>1 DEF Drained, Over
        <4> QED
          BY <3>1, <4>1, <4>2 DEF Reigns, StillOp, tree
      <3> QED
        BY <3>1, <3>2 DEF CutSound
    <2>2. CASE ~cutScope
      <3>1. frozen' # "sealed"
        <4>1. ASSUME NEW o \in Ops, \/ \E q \in Requests, t \in 1..ten : Declare(o, q, t)
                                    \/ Timeout(o) \/ GraceOver(o) \/ Run(o) \/ Reconcile(o)
              PROVE  frozen' = frozen
          <5>1. Run(o) => Body
            BY DEF Run, Put, RenameSource, RenameMove, Act, Sys, Res, Commit, Info, Fail,
                   Und, UndoLook, UndoAct, Undone, Restore, Park, Fenced
          <5>2. Reconcile(o) => frozen' = frozen
            BY DEF Reconcile, Load, NameAbsent, captureName, judgeName, moveSettled, settleRow, settleIntent, reign
          <5> QED
            BY <4>1, <5>1, <5>2 DEF Declare, Timeout, GraceOver, Body, reign
        <4>2. ASSUME NEW p \in Paths, OthersWrite(p) \/ OthersRemove(p) PROVE frozen' = frozen
          BY <4>2 DEF OthersWrite, OthersRemove, reign
        <4>3. ASSUME NEW crash \in BOOLEAN, Takeover(crash) PROVE frozen' = frozen
          BY <4>3 DEF Takeover
        <4>4. ASSUME NEW t, watchWriter(t) PROVE frozen' = frozen
          BY <4>4 DEF watchWriter
        <4> QED
          BY <1>2, <2>2, <4>1, <4>2, <4>3, <4>4 DEF Next, vars, SetScopeFrozen, Release
      <3> QED
        BY <3>1 DEF CutSound
    <2> QED
      BY <2>1, <2>2
  <1> QED
    BY <1>1, <1>2

(* Until its release nothing the service does changes the tree of a sealed  *)
(* cut, and no object is left out of it under a private name, with hung     *)
(* calls, stragglers of a deposed writer, passes in the middle and a        *)
(* takeover under the seal (cutScope, cutHorizon, reconcileScope).          *)
THEOREM SealedTreesStayTheCut == Spec => []SealedTreeIsTheCut
  <1>1. Init => FileInv /\ CutInv
    BY FileInvInit, CutInvInit
  <1>2. FileInv /\ CutInv /\ [Next]_vars => FileInv' /\ CutInv'
    BY FileStep, CutStep
  <1>3. CutInv => SealedTreeIsTheCut
    BY DEF CutInv, CutSound, StillOp, SealedTreeIsTheCut
  <1> QED
    BY <1>1, <1>2, <1>3, PTL DEF Spec

-----------------------------------------------------------------------------
(* What the recorded versions vouch for *)

\* Only a declared operation's body is in the tree.
InTree(x) == (\E p \in Paths : pub[p] = x) \/ (\E o \in Ops : slot[o] = x \/ held[o] = x)
IsDeclared(x) == x \in Ops => op[x].st # "none"
PoolSound == \A x \in Ops : InTree(x) => op[x].st # "none"
NoNew == \A x \in Ops : InTree(x)' => InTree(x) \/ op[x].st # "none"

LEMMA TreeSame == ASSUME UNCHANGED <<pub, slot, held>> PROVE NoNew
  BY DEF NoNew, InTree

LEMMA NoZero == 0 \notin Ops
  BY DEF Ops

\* Names exchange what they hold, or lose it.
LEMMA NothingNew ==
    ASSUME \A p \in Paths : pub'[p] \in Ops => InTree(pub'[p]),
           \A o \in Ops : slot'[o] \in Ops => InTree(slot'[o]),
           \A o \in Ops : held'[o] \in Ops => InTree(held'[o])
    PROVE  NoNew
  BY DEF NoNew, InTree

LEMMA NamesNew ==
    ASSUME TreeTypes, NEW o \in Ops, NEW p \in Paths, NEW x, NEW y,
           x = 0 \/ InTree(x), y = 0 \/ InTree(y),
           pub' = pub \/ pub' = [pub EXCEPT ![p] = x], slot' = slot \/ slot' = [slot EXCEPT ![o] = y],
           held' = held
    PROVE  NoNew
  <1>1. ASSUME NEW q \in Paths, pub'[q] \in Ops PROVE InTree(pub'[q])
    <2>1. pub'[q] \in {x, pub[q]}
      BY DEF TreeTypes
    <2> QED
      BY <1>1, <2>1, NoZero DEF InTree
  <1>2. ASSUME NEW k \in Ops, slot'[k] \in Ops PROVE InTree(slot'[k])
    <2>1. slot'[k] \in {y, slot[k]}
      BY DEF TreeTypes
    <2> QED
      BY <1>2, <2>1, NoZero DEF InTree
  <1>3. ASSUME NEW k \in Ops, held'[k] \in Ops PROVE InTree(held'[k])
    BY DEF InTree
  <1> QED
    BY <1>1, <1>2, <1>3, NothingNew

LEMMA RunPool == ASSUME FileInv, NEW o \in Ops, Run(o) PROVE NoNew
  <1>0. /\ op[o].pc \notin Over /\ TreeTypes /\ op[o].st # "none" /\ op[o].path \in Paths /\ op[o].to \in Paths
        /\ Peer(o) \in Paths
    BY RunAlive, Alive
  <1>1. InTree(slot[o]) /\ \A p \in Paths : InTree(pub[p])
    BY DEF InTree
  <1>2. CASE UNCHANGED tree
    BY <1>2, TreeSame DEF tree
  <1>3. CASE Put(o)
    <2>1. slot' = [slot EXCEPT ![o] = o] /\ UNCHANGED <<pub, held>>
      BY <1>3 DEF Put
    <2>2. \A k \in Ops \ {o} : slot'[k] = slot[k]
      BY <1>0, <2>1 DEF TreeTypes
    <2>3. slot'[o] = o
      BY <1>0, <2>1 DEF TreeTypes
    <2> QED
      BY <1>0, <2>1, <2>2, <2>3 DEF NoNew, InTree
  <1>4. CASE RenameMove(o)
    <2>1. CASE UNCHANGED pub
      BY <1>4, <2>1, TreeSame DEF RenameMove
    <2>2. CASE ~UNCHANGED pub
      <3>1. /\ pub' = [pub EXCEPT ![op[o].to] = pub[op[o].path], ![op[o].path] = 0]
            /\ UNCHANGED <<slot, held>>
        BY <1>4, <2>2 DEF RenameMove
      <3>2. \A q \in Paths : pub'[q] \in {pub[q], pub[op[o].path], 0}
        BY <1>0, <3>1 DEF TreeTypes
      <3>3. \A q \in Paths : pub'[q] \in Ops => InTree(pub'[q])
        BY <1>0, <1>1, <3>2, NoZero
      <3> QED
        BY <3>1, <3>3, NothingNew DEF InTree
    <2> QED
      BY <2>1, <2>2
  <1>5. CASE Sys(o)
    <2>1. PICK name \in Paths : \/ pub' = [pub EXCEPT ![name] = slot[o]] /\ slot' = [slot EXCEPT ![o] = pub[name]]
                                \/ UNCHANGED <<pub, slot>>
      BY <1>0, <1>5 DEF Sys
    <2>2. held' = held
      BY <1>5 DEF Sys
    <2> QED
      BY <1>0, <1>1, <2>1, <2>2, NamesNew
  <1>6. CASE Commit(o) \/ Fail(o)
    <2>1. pub' = pub /\ held' = held /\ slot' = [slot EXCEPT ![o] = 0]
      BY <1>6 DEF Commit, Fail
    <2> QED
      BY <1>0, <2>1, NamesNew
  <1>7. CASE UndoAct(o)
    <2>1. \/ pub' = [pub EXCEPT ![Peer(o)] = slot[o]] /\ slot' = [slot EXCEPT ![o] = pub[Peer(o)]]
          \/ UNCHANGED <<pub, slot>>
      BY <1>7 DEF UndoAct
    <2>2. held' = held
      BY <1>7 DEF UndoAct
    <2> QED
      BY <1>0, <1>1, <2>1, <2>2, NamesNew
  <1>8. CASE Restore(o)
    <2>1. \/ pub' = [pub EXCEPT ![op[o].path] = slot[o]] /\ slot' = [slot EXCEPT ![o] = 0]
          \/ UNCHANGED <<pub, slot>>
      BY <1>8 DEF Restore
    <2>2. held' = held
      BY <1>8 DEF Restore
    <2> QED
      BY <1>0, <1>1, <2>1, <2>2, NamesNew
  <1> QED
    BY <1>2, <1>3, <1>4, <1>5, <1>6, <1>7, <1>8
    DEF Run, RenameSource, Act, Res, Info, Und, UndoLook, Undone, Park, Fenced

LEMMA ReconcilePool == ASSUME FileInv, NEW o \in Ops, Reconcile(o) PROVE NoNew
  <1>0. TreeTypes /\ op[o].home \in Homes
    BY DEF FileInv, OpSound, DeclaredSound
  <1>1. CASE UNCHANGED tree
    BY <1>1, TreeSame DEF tree
  <1>2. CASE captureName(o)
    <2>1. held' = [held EXCEPT ![o] = slot[o]] /\ slot' = [slot EXCEPT ![o] = 0] /\ pub' = pub
      BY <1>2 DEF captureName
    <2>2. \A k \in Ops : held'[k] \in {held[k], slot[o]} /\ slot'[k] \in {slot[k], 0}
      BY <1>0, <2>1 DEF TreeTypes
    <2> QED
      BY <2>1, <2>2, NoZero, NothingNew DEF InTree
  <1>3. CASE moveSettled(o)
    <2>1. held' = [held EXCEPT ![o] = 0] /\ slot' = slot
      BY <1>3 DEF moveSettled
    <2>2. \A k \in Ops : held'[k] \in {held[k], 0}
      BY <1>0, <2>1 DEF TreeTypes
    <2>3. pub' = pub \/ (op[o].home \in Paths /\ pub' = [pub EXCEPT ![op[o].home] = held[o]])
      BY <1>0, <1>3 DEF moveSettled, Homes
    <2>4. \A p \in Paths : pub'[p] \in {pub[p], held[o]}
      BY <1>0, <2>3 DEF TreeTypes
    <2> QED
      BY <2>1, <2>2, <2>4, NoZero, NothingNew DEF InTree
  <1> QED
    BY <1>1, <1>2, <1>3 DEF Reconcile, Load, NameAbsent, judgeName, settleRow, settleIntent

LEMMA OthersPool == ASSUME FileInv, NEW p \in Paths, OthersWrite(p) \/ OthersRemove(p) PROVE NoNew
  <1>1. PICK x : pub' = [pub EXCEPT ![p] = x] /\ (x = 0 \/ x = 201 + others.wrote)
    BY DEF OthersWrite, OthersRemove
  <1>2. x \notin Ops
    <2>1. others.wrote \in Nat /\ MaxOps \in 0..100
      BY FileStoreAssumption DEF FileInv, TreeTypes
    <2> QED
      BY <1>1, <2>1 DEF Ops
  <1>3. \A q \in Paths : pub'[q] \in {pub[q], x}
    BY <1>1 DEF FileInv, TreeTypes
  <1>4. UNCHANGED <<slot, held>>
    BY DEF OthersWrite, OthersRemove
  <1> QED
    BY <1>2, <1>3, <1>4, NothingNew DEF InTree

RowFields == {"ver", "obj", "oid", "div"}
IsRow(r) == r = [f \in RowFields |-> r[f]] /\ r.ver \in Nat
IsTable(rs) == rs = [p \in Paths |-> rs[p]] /\ \A p \in Paths : IsRow(rs[p])
\* A version belongs to one operation, and what vouches for an operation's
\* content has that content.
VersionsSound ==
    /\ IsTable(row) /\ seq \in Nat /\ seq >= 1 /\ \A p \in Paths : row[p].ver <= seq
    /\ \A o \in Ops : op[o].st # "none" => op[o].ver \in 2..seq
    /\ \A o, k \in Ops : op[o].st # "none" /\ op[k].st # "none" /\ op[o].ver = op[k].ver => o = k
VouchFor(o, r) == Sha(r.obj) = op[o].key /\ IsDeclared(r.obj)
VouchSound ==
    \A o \in Ops : Vouches(op[o].path, o) /\ ~RenamedTo(op[o].path) => VouchFor(o, row[op[o].path])
RowInv == PoolSound /\ VersionsSound /\ VouchSound

\* What the row of a path may become: nothing, a fresh version, what an
\* operation of that path wrote or marked diverged, or what a rename brought.
MayBe(p, r) ==
    \/ r.ver = 0
    \/ r.ver = seq' /\ seq' > seq
    \/ \E o \in Ops : /\ op[o].st # "none" /\ op[o].kind = "write" /\ op[o].path = p /\ r.ver = op[o].ver
                      /\ r.div \/ VouchFor(o, r)
    \/ \E o \in Ops : op[o].st # "none" /\ op[o].kind = "rename" /\ op[o].to = p /\ r.ver <= seq
RowMoves == /\ IsTable(row') /\ seq' \in Nat /\ seq' >= seq
            /\ \A p \in Paths : row'[p] = row[p] \/ MayBe(p, row'[p])

LEMMA RowsKept == ASSUME RowInv, UNCHANGED <<row, seq>> PROVE RowMoves
  BY DEF RowInv, VersionsSound, RowMoves

LEMMA RowStep == ASSUME FileInv, RowInv, Steady, NoNew, RowMoves PROVE RowInv'
  <1>1. PoolSound'
    BY DEF RowInv, PoolSound, NoNew, Steady
  <1>2. VersionsSound'
    <2>1. ASSUME NEW p \in Paths PROVE row'[p].ver <= seq'
      <3>1. row[p].ver <= seq /\ row[p].ver \in Nat /\ seq \in Nat /\ seq' \in Nat /\ seq' >= seq
        BY DEF RowInv, VersionsSound, RowMoves, IsTable, IsRow
      <3>2. CASE row'[p] = row[p]
        BY <3>1, <3>2
      <3>3. CASE MayBe(p, row'[p])
        <4>1. row'[p].ver \in Nat
          BY DEF RowMoves, IsTable, IsRow
        <4>2. \A o \in Ops : op[o].st # "none" => op[o].ver \in 2..seq
          BY DEF RowInv, VersionsSound
        <4> QED
          BY <3>1, <3>3, <4>1, <4>2 DEF MayBe
      <3> QED
        BY <3>2, <3>3 DEF RowMoves
    <2>2. ASSUME NEW o \in Ops, op'[o].st # "none" PROVE op[o].st # "none" /\ op'[o].ver = op[o].ver
      BY <2>2 DEF Steady, SameId
    <2>3. ASSUME NEW o \in Ops, op'[o].st # "none" PROVE op'[o].ver \in 2..seq'
      BY <2>2, <2>3 DEF RowInv, VersionsSound, RowMoves
    <2>4. \A o, k \in Ops : op'[o].st # "none" /\ op'[k].st # "none" /\ op'[o].ver = op'[k].ver => o = k
      BY <2>2 DEF RowInv, VersionsSound
    <2>5. seq' \in Nat /\ seq' >= 1 /\ IsTable(row')
      BY DEF RowInv, VersionsSound, RowMoves
    <2> QED
      BY <2>1, <2>3, <2>4, <2>5 DEF VersionsSound
  <1>3. VouchSound'
    <2> SUFFICES ASSUME NEW o \in Ops, Vouches(op[o].path, o)', ~RenamedTo(op[o].path)'
                 PROVE  VouchFor(o, row[op[o].path])'
      BY DEF VouchSound
    <2> DEFINE p == op[o].path
    <2>1. /\ op'[o].path = p /\ op'[o].kind = op[o].kind /\ op'[o].key = op[o].key /\ op'[o].ver = op[o].ver
          /\ op[o].kind = "write" /\ row'[p].ver = op[o].ver
      BY DEF Steady, SameId, Vouches
    <2>2. ~row'[p].div
      BY <2>1 DEF Vouches
    <2>3. op[o].st # "none" /\ p \in Paths
      BY <2>1 DEF FileInv, OpSound, DeclaredSound
    <2>4. ~RenamedTo(p)
      BY <2>1 DEF RenamedTo, Steady, SameId
    <2>5. op[o].ver \in 2..seq
      BY <2>3 DEF RowInv, VersionsSound
    <2>6. VouchFor(o, row'[p])
      <3>1. CASE row'[p] = row[p]
        <4>1. Vouches(p, o)
          BY <2>1, <2>2, <3>1 DEF Vouches
        <4>2. VouchFor(o, row[p])
          BY <2>4, <4>1 DEF RowInv, VouchSound
        <4> QED
          BY <3>1, <4>2
      <3>2. CASE MayBe(p, row'[p])
        <4>1. row'[p].ver # 0 /\ ~(row'[p].ver = seq' /\ seq' > seq)
          <5>1. seq \in Nat /\ seq' \in Nat
            BY DEF RowInv, VersionsSound, RowMoves
          <5> QED
            BY <2>1, <2>5, <5>1
        <4>2. ~\E k \in Ops : op[k].kind = "rename" /\ op[k].to = p
          BY <2>4 DEF RenamedTo
        <4>3. PICK k \in Ops : /\ op[k].st # "none" /\ row'[p].ver = op[k].ver
                               /\ row'[p].div \/ VouchFor(k, row'[p])
          BY <3>2, <4>1, <4>2 DEF MayBe
        <4>4. k = o
          BY <2>1, <2>3, <4>3 DEF RowInv, VersionsSound
        <4> QED
          BY <2>2, <4>3, <4>4
      <3> QED
        BY <2>3, <3>1, <3>2 DEF RowMoves
    <2>7. PICK x : x = row'[p].obj
      OBVIOUS
    <2>8. Sha(x) = op[o].key /\ IsDeclared(x)
      BY <2>6, <2>7 DEF VouchFor
    <2>9. Sha(x)' = op[o].key
      BY <2>8 DEF Sha, Steady, SameId
    <2>10. IsDeclared(x)'
      BY <2>8 DEF IsDeclared, Steady
    <2>11. row'[op'[o].path].obj = x
      BY <2>1, <2>7
    <2> QED
      BY <2>1, <2>9, <2>10, <2>11 DEF VouchFor, Sha, IsDeclared
  <1> QED
    BY <1>1, <1>2, <1>3 DEF RowInv

LEMMA RowInvInit == Init => RowInv
  <1> SUFFICES ASSUME Init PROVE RowInv
    OBVIOUS
  <1>1. ASSUME NEW o \in Ops PROVE op[o].st = "none" /\ op[o].kind = "none"
    BY DEF Init, Unused
  <1>2. PoolSound
    <2> SUFFICES ASSUME NEW x \in Ops PROVE ~InTree(x)
      BY DEF PoolSound
    <2>1. \A p \in Paths : pub[p] # x
      BY NoZero, FileStoreAssumption DEF Init
    <2>2. \A o \in Ops : slot[o] # x /\ held[o] # x
      BY NoZero DEF Init
    <2> QED
      BY <2>1, <2>2 DEF InTree
  <1>3. VersionsSound
    <2>1. ASSUME NEW p \in Paths PROVE IsRow(row[p]) /\ row[p].ver <= 1
      BY DEF Init, IsRow, RowFields, NoRow
    <2>2. row = [p \in Paths |-> row[p]] /\ seq = 1
      BY DEF Init
    <2> QED
      BY <1>1, <2>1, <2>2 DEF VersionsSound, IsTable
  <1>4. VouchSound
    BY <1>1 DEF VouchSound, Vouches
  <1> QED
    BY <1>2, <1>3, <1>4 DEF RowInv

LEMMA DropRowIs ==
    ASSUME NEW rs, IsTable(rs), NEW p \in Paths, NEW v
    PROVE  /\ IsTable(DropRow(rs, p, v))
           /\ \A q \in Paths : DropRow(rs, p, v)[q] = rs[q] \/ DropRow(rs, p, v)[q].ver = 0
  <1>1. IsRow(NoRow) /\ NoRow.ver = 0
    BY DEF IsRow, NoRow, RowFields
  <1> HIDE DEF NoRow
  <1>2. CASE rs[p].ver < v
    <2>1. DropRow(rs, p, v) = [rs EXCEPT ![p] = NoRow]
      BY <1>2 DEF DropRow
    <2> QED
      BY <1>1, <2>1 DEF IsTable
  <1>3. CASE ~(rs[p].ver < v)
    BY <1>3 DEF DropRow
  <1> QED
    BY <1>2, <1>3

LEMMA WriteRowIs ==
    ASSUME NEW rs, IsTable(rs), NEW p \in Paths, NEW v \in Nat, NEW x, NEW d \in BOOLEAN
    PROVE  /\ IsTable(WriteRow(rs, p, v, x, d))
           /\ \A q \in Paths : \/ WriteRow(rs, p, v, x, d)[q] = rs[q]
                               \/ q = p /\ WriteRow(rs, p, v, x, d)[q] = [ver |-> v, obj |-> x, oid |-> x, div |-> d]
  <1> DEFINE r == [ver |-> v, obj |-> x, oid |-> x, div |-> d]
  <1>1. IsRow(r)
    BY DEF IsRow, RowFields
  <1> HIDE DEF r
  <1>2. CASE rs[p].ver < v
    <2>1. WriteRow(rs, p, v, x, d) = [rs EXCEPT ![p] = r]
      BY <1>2 DEF WriteRow, r
    <2>2. IsTable([rs EXCEPT ![p] = r]) /\ \A q \in Paths : [rs EXCEPT ![p] = r][q] = rs[q] \/ (q = p /\ [rs EXCEPT ![p] = r][q] = r)
      BY <1>1 DEF IsTable
    <2> QED
      BY <2>1, <2>2 DEF r
  <1>3. CASE ~(rs[p].ver < v)
    BY <1>3 DEF WriteRow
  <1> QED
    BY <1>2, <1>3

LEMMA DropMoves ==
    ASSUME RowInv, NEW p \in Paths, NEW v, row' = DropRow(row, p, v) \/ row' = row, UNCHANGED seq
    PROVE  RowMoves
  <1>1. IsTable(row) /\ seq \in Nat
    BY DEF RowInv, VersionsSound
  <1> QED
    BY <1>1, DropRowIs DEF RowMoves, MayBe

LEMMA ApplyMoves ==
    ASSUME FileInv, RowInv, NEW o \in Ops, op[o].st # "none", NEW x, NEW d \in BOOLEAN, NEW keep, NEW verdict,
           apply(o, x, d, keep, verdict), UNCHANGED seq,
           op[o].kind = "write" /\ ~d => Sha(x) = op[o].key /\ IsDeclared(x)
    PROVE  RowMoves
  <1>1. /\ IsTable(row) /\ seq \in Nat /\ op[o].ver \in Nat /\ op[o].ver <= seq
        /\ op[o].path \in Paths /\ op[o].to \in Paths /\ op[o].kind \in {"write", "rename", "remove"}
    BY DEF RowInv, VersionsSound, FileInv, OpSound, DeclaredSound
  <1>2. row' = ApplyRows(o, x, d, verdict)
    BY DEF apply
  <1>3. CASE op[o].kind = "remove"
    BY <1>1, <1>2, <1>3, DropMoves DEF ApplyRows
  <1>4. CASE op[o].kind = "rename"
    <2>1. PICK rs : rs = DropRow(row, op[o].path, op[o].ver)
      OBVIOUS
    <2>2. PICK e \in BOOLEAN : row' = WriteRow(rs, op[o].to, op[o].ver, x, e)
      BY <1>2, <1>4, <2>1 DEF ApplyRows
    <2>3. IsTable(rs) /\ \A q \in Paths : rs[q] = row[q] \/ rs[q].ver = 0
      BY <1>1, <2>1, DropRowIs
    <2>4. IsTable(row') /\ \A q \in Paths : \/ row'[q] = rs[q]
                                            \/ q = op[o].to /\ row'[q].ver = op[o].ver
      <3>1. IsTable(row') /\ \A q \in Paths :
               \/ row'[q] = rs[q]
               \/ q = op[o].to /\ row'[q] = [ver |-> op[o].ver, obj |-> x, oid |-> x, div |-> e]
        BY <1>1, <2>2, <2>3, WriteRowIs
      <3> QED
        BY <3>1
    <2>5. ASSUME NEW q \in Paths, q = op[o].to, row'[q].ver = op[o].ver PROVE MayBe(q, row'[q])
      BY <1>1, <1>4, <2>5 DEF MayBe
    <2> QED
      BY <1>1, <2>3, <2>4, <2>5 DEF RowMoves, MayBe
  <1>5. CASE op[o].kind = "write"
    <2>1. ASSUME NEW r, r.ver = op[o].ver, r.obj = x, r.div \/ ~d PROVE MayBe(op[o].path, r)
      <3>1. r.div \/ VouchFor(o, r)
        BY <1>5, <2>1 DEF VouchFor
      <3> QED
        BY <1>5, <2>1, <3>1 DEF MayBe
    <2>2. CASE row' = WriteRow(row, op[o].path, op[o].ver, x, d)
      <3>1. IsTable(row') /\ \A q \in Paths : \/ row'[q] = row[q]
                                              \/ q = op[o].path /\ row'[q] = [ver |-> op[o].ver, obj |-> x, oid |-> x, div |-> d]
        BY <1>1, <2>2, WriteRowIs
      <3>2. ASSUME NEW q \in Paths, q = op[o].path, row'[q] = [ver |-> op[o].ver, obj |-> x, oid |-> x, div |-> d]
            PROVE  MayBe(q, row'[q])
        <4>1. row'[q].ver = op[o].ver /\ row'[q].obj = x /\ row'[q].div = d
          BY <3>2
        <4> QED
          BY <2>1, <3>2, <4>1
      <3> QED
        BY <1>1, <3>1, <3>2 DEF RowMoves
    <2>3. CASE row' # WriteRow(row, op[o].path, op[o].ver, x, d)
      <3> DEFINE p == op[o].path
                 r == [row[p] EXCEPT !.obj = x, !.div = FALSE]
      <3>1. row[p].ver = op[o].ver /\ ~d /\ row' = [row EXCEPT ![p].obj = x, ![p].div = FALSE]
        BY <1>2, <1>5, <2>3 DEF ApplyRows
      <3>2. row' = [row EXCEPT ![p] = r]
        BY <1>1, <3>1 DEF IsTable
      <3>3. IsRow(row[p])
        BY <1>1 DEF IsTable
      <3>4. IsRow(r) /\ r.ver = op[o].ver /\ r.obj = x
        BY <3>1, <3>3 DEF IsRow, RowFields
      <3> HIDE DEF r
      <3>5. MayBe(p, r)
        BY <2>1, <3>1, <3>4
      <3>6. IsTable(row') /\ \A q \in Paths : row'[q] = row[q] \/ (q = p /\ row'[q] = r)
        BY <1>1, <3>2, <3>4 DEF IsTable
      <3> QED
        BY <1>1, <3>5, <3>6 DEF RowMoves
    <2> QED
      BY <2>2, <2>3
  <1> QED
    BY <1>1, <1>3, <1>4, <1>5

LEMMA AppliedMoves ==
    ASSUME FileInv, RowInv, NEW o \in Ops, op[o].st # "none", NEW x, NEW keep, Applied(o, x, keep), UNCHANGED seq,
           op[o].kind = "write" => x = o
    PROVE  RowMoves
  <1>1. CASE Owner(o)
    <2>1. apply(o, x, FALSE, keep, "applied")
      BY <1>1 DEF Applied
    <2>2. op[o].kind = "write" => Sha(x) = op[o].key /\ IsDeclared(x)
      BY DEF Sha, IsDeclared
    <2> QED
      BY <2>1, <2>2, ApplyMoves
  <1>2. CASE ~Owner(o)
    BY <1>2, RowsKept DEF Applied, Leave
  <1> QED
    BY <1>1, <1>2

LEMMA RunRows == ASSUME FileInv, RowInv, NEW o \in Ops, Run(o) PROVE RowMoves
  <1>1. /\ op[o].st # "none" /\ op[o].path \in Paths
        /\ op[o].kind \in {"write", "rename", "remove"} /\ OpSound(o)
    BY RunAlive, Alive
  <1>2. seq' = seq
    BY DEF Run, Put, RenameSource, RenameMove, Act, Sys, Res, Commit, Info, Fail,
           Und, UndoLook, UndoAct, Undone, Restore, Park, Fenced, Body
  <1>3. CASE UNCHANGED row
    BY <1>2, <1>3, RowsKept
  <1>4. dropIntent(o) \/ Leave(o) \/ Parked(o) \/ Quiet => UNCHANGED row
    BY DEF dropIntent, Leave, Parked, Quiet
  <1>5. CASE Res(o)
    <2>1. CASE dropIntentGhosts(o)
      <3>1. row' = DropRow(row, op[o].path, op[o].ver) \/ row' = row
        BY <2>1 DEF dropIntentGhosts, Leave
      <3> QED
        BY <1>1, <1>2, <3>1, DropMoves
    <2>2. dropIntentGhosts(o) \/ dropIntent(o) \/ Quiet
      BY <1>5 DEF Res
    <2> QED
      BY <1>3, <1>4, <2>1, <2>2
  <1>6. CASE Info(o)
    <2>1. \/ dropIntent(o) \/ Leave(o)
          \/ \E x : Applied(o, x, FALSE) /\ (op[o].kind = "write" => x = o)
      BY <1>1, <1>6 DEF Info, Ours
    <2> QED
      BY <1>1, <1>2, <1>3, <1>4, <2>1, AppliedMoves
  <1>7. CASE Park(o)
    <2>1. Parked(o) \/ (op[o].kind = "rename" /\ Applied(o, op[o].pre, TRUE))
      BY <1>7 DEF Park
    <2> QED
      BY <1>1, <1>2, <1>3, <1>4, <2>1, AppliedMoves
  <1>8. CASE RenameSource(o) \/ RenameMove(o) \/ Restore(o) \/ Fenced(o)
    BY <1>3, <1>4, <1>8 DEF RenameSource, RenameMove, Restore, Fenced
  <1>9. CASE Put(o) \/ Act(o) \/ Sys(o) \/ Commit(o) \/ Fail(o) \/ Und(o) \/ UndoLook(o) \/ UndoAct(o) \/ Undone(o)
    BY <1>3, <1>4, <1>9 DEF Put, Act, Sys, Commit, Fail, Und, UndoLook, UndoAct, Undone
  <1> QED
    BY <1>5, <1>6, <1>7, <1>8, <1>9 DEF Run

LEMMA TombstoneMoves ==
    ASSUME RowInv, NEW o \in Ops, NEW p \in Paths, NEW rs, NEW v, NEW w, Tombstone(o, rs, w), UNCHANGED seq,
           rs = row \/ rs = DropRow(row, p, v)
    PROVE  RowMoves
  <1>1. row' = row \/ row' = rs
    BY DEF Tombstone
  <1> QED
    BY <1>1, DropMoves

LEMMA RelocatedMoves ==
    ASSUME FileInv, RowInv, NEW o \in Ops, op[o].st # "none", op[o].kind = "rename",
           row' = Relocated(o), UNCHANGED seq
    PROVE  RowMoves
  <1> DEFINE p == op[o].path
             r == [row[p] EXCEPT !.obj = op[o].pre, !.div = FALSE]
  <1>1. p \in Paths /\ op[o].to \in Paths /\ IsTable(row) /\ seq \in Nat /\ IsRow(row[p]) /\ row[p].ver <= seq
    BY DEF FileInv, OpSound, DeclaredSound, RowInv, VersionsSound, IsTable
  <1>2. IsRow(r) /\ r.ver = row[p].ver
    BY <1>1 DEF IsRow, RowFields
  <1>3. IsRow(NoRow) /\ NoRow.ver = 0
    BY DEF IsRow, NoRow, RowFields
  <1>4. row' = [row EXCEPT ![op[o].to] = r, ![p] = NoRow] \/ row' = row
    BY DEF Relocated
  <1>5. MayBe(op[o].to, r) /\ \A q \in Paths : MayBe(q, NoRow)
    BY <1>1, <1>2, <1>3 DEF MayBe
  <1> HIDE DEF r, NoRow
  <1>6. CASE row' = row
    BY <1>6, RowsKept
  <1>7. CASE row' = [row EXCEPT ![op[o].to] = r, ![p] = NoRow]
    <2>1. IsTable(row') /\ \A q \in Paths : \/ row'[q] = row[q] \/ row'[q] = NoRow
                                            \/ q = op[o].to /\ row'[q] = r
      BY <1>1, <1>2, <1>3, <1>7 DEF IsTable
    <2> QED
      BY <1>1, <1>5, <2>1 DEF RowMoves
  <1> QED
    BY <1>4, <1>6, <1>7

LEMMA SettleMoves == ASSUME FileInv, RowInv, NEW o \in Ops, settleIntent(o) PROVE RowMoves
  <1>1. op[o].kind \in {"write", "rename", "remove"} /\ seq' = seq
    BY DEF settleIntent, settleWrite, settleRemove, settleRename
  <1>2. op[o].st # "none" /\ op[o].path \in Paths
    BY <1>1 DEF FileInv, OpSound, DeclaredSound
  <1>3. ASSUME NEW rs, NEW w, Tombstone(o, rs, w), rs = row \/ rs = DropRow(row, op[o].path, op[o].ver)
        PROVE  RowMoves
    BY <1>1, <1>2, <1>3, TombstoneMoves
  <1>4. CASE settleWrite(o)
    <2> DEFINE there == pub[op[o].path]
    <2>1. \/ \E rs, w : Tombstone(o, rs, w) /\ (rs = row \/ rs = DropRow(row, op[o].path, op[o].ver))
          \/ apply(o, there, TRUE, TRUE, Verdict(o))
          \/ Sha(there) = op[o].key /\ apply(o, there, FALSE, FALSE, "applied")
      BY <1>4 DEF settleWrite
    <2>2. IsDeclared(there)
      BY <1>2 DEF IsDeclared, RowInv, PoolSound, InTree
    <2> HIDE DEF there
    <2>3. CASE apply(o, there, TRUE, TRUE, Verdict(o))
      BY <1>1, <1>2, <2>3, ApplyMoves
    <2>4. CASE Sha(there) = op[o].key /\ apply(o, there, FALSE, FALSE, "applied")
      BY <1>1, <1>2, <2>2, <2>4, ApplyMoves
    <2> QED
      BY <1>3, <2>1, <2>3, <2>4
  <1>5. CASE settleRemove(o)
    BY <1>3, <1>5 DEF settleRemove
  <1>6. CASE settleRename(o)
    <2>1. \/ \E rs, w : Tombstone(o, rs, w) /\ (rs = row \/ rs = DropRow(row, op[o].path, op[o].ver))
          \/ row' = Relocated(o)
      BY <1>6 DEF settleRename
    <2>2. op[o].kind = "rename"
      BY <1>6 DEF settleRename
    <2> QED
      BY <1>1, <1>2, <1>3, <2>1, <2>2, RelocatedMoves
  <1> QED
    BY <1>4, <1>5, <1>6 DEF settleIntent

LEMMA SettleRowMoves == ASSUME FileInv, RowInv, NEW o \in Ops, settleRow(o) PROVE RowMoves
  <1>1. IsTable(row) /\ seq \in Nat /\ (\A p \in Paths : row[p].ver \in Nat /\ row[p].ver <= seq) /\ op[o].home \in Homes
    BY DEF RowInv, VersionsSound, FileInv, OpSound, DeclaredSound, IsTable, IsRow
  <1>2. seq' = IF \E p \in Paths : row'[p].ver = seq + 1 THEN seq + 1 ELSE seq
    BY DEF settleRow
  <1>3. CASE row' = DropStaleClaims(op[o].seen)
    <2>1. IsRow(NoRow) /\ NoRow.ver = 0
      BY DEF IsRow, NoRow, RowFields
    <2> HIDE DEF NoRow
    <2>2. IsTable(row') /\ \A p \in Paths : row'[p] = row[p] \/ row'[p] = NoRow
      BY <1>1, <1>3, <2>1 DEF DropStaleClaims, IsTable
    <2>3. seq' \in Nat /\ seq' >= seq
      BY <1>1, <1>2
    <2> QED
      BY <2>1, <2>2, <2>3 DEF RowMoves, MayBe
  <1>4. CASE row' = row
    <2>1. seq' = seq
      BY <1>1, <1>2, <1>4
    <2> QED
      BY <1>4, <2>1, RowsKept
  <1>5. CASE op[o].home # Surface /\ row' # row
    <2> DEFINE h == op[o].home
               r == [ver |-> seq + 1, obj |-> op[o].seen, oid |-> op[o].seen, div |-> FALSE]
    <2>1. h \in Paths
      BY <1>1, <1>5 DEF settleRow, Homes
    <2>2. row' = [row EXCEPT ![h] = r]
      BY <1>5 DEF settleRow, HomeRow
    <2>3. IsRow(r) /\ r.ver = seq + 1
      BY <1>1 DEF IsRow, RowFields
    <2> HIDE DEF r, h
    <2>4. IsTable(row') /\ row'[h] = r /\ \A p \in Paths : row'[p] = row[p] \/ row'[p] = r
      BY <1>1, <2>1, <2>2, <2>3 DEF IsTable
    <2>5. seq' = seq + 1
      BY <1>2, <2>1, <2>3, <2>4
    <2> QED
      BY <1>1, <2>3, <2>4, <2>5 DEF RowMoves, MayBe
  <1> QED
    BY <1>3, <1>4, <1>5 DEF settleRow

LEMMA ReconcileRows == ASSUME FileInv, RowInv, NEW o \in Ops, Reconcile(o) PROVE RowMoves
  <1>1. CASE Load(o) \/ NameAbsent(o) \/ captureName(o) \/ judgeName(o) \/ moveSettled(o)
    <2>1. UNCHANGED <<row, seq>>
      BY <1>1 DEF Load, NameAbsent, captureName, judgeName, moveSettled, tables
    <2> QED
      BY <2>1, RowsKept
  <1> QED
    BY <1>1, SettleRowMoves, SettleMoves DEF Reconcile

LEMMA DeclareRows ==
    ASSUME FileInv, RowInv, NEW o \in Ops, NEW q \in Requests, NEW t \in 1..ten, Declare(o, q, t)
    PROVE  RowInv'
  <1>1. /\ op[o].st = "none" /\ seq' = seq + 1 /\ UNCHANGED <<pub, slot, held, row>> /\ OpTypes
        /\ IsTable(row) /\ seq \in Nat /\ seq >= 1
    <2>1. seq \in Nat /\ seq >= 1 /\ IsTable(row)
      BY DEF RowInv, VersionsSound
    <2> QED
      BY <2>1 DEF Declare, tree, FileInv
  <1>2. /\ \A k \in Ops \ {o} : op'[k] = op[k]
        /\ op'[o].st = "pending" /\ op'[o].ver = seq + 1 /\ op'[o].path = q.path
    BY <1>1 DEF Declare, OpTypes, Unused
  <1>3. PoolSound'
    BY <1>1, <1>2 DEF RowInv, PoolSound, InTree
  <1>4. VersionsSound'
    <2>1. \A p \in Paths : row[p].ver \in Nat /\ row[p].ver <= seq
      BY DEF RowInv, VersionsSound, IsTable, IsRow
    <2>2. \A k \in Ops \ {o} : op[k].st # "none" => op[k].ver \in 2..seq
      BY DEF RowInv, VersionsSound
    <2>3. \A k \in Ops : op'[k].st # "none" => op'[k].ver \in 2..(seq + 1)
      BY <1>1, <1>2, <2>2
    <2>4. ASSUME NEW k \in Ops, NEW n \in Ops, op'[k].st # "none", op'[n].st # "none", op'[k].ver = op'[n].ver
          PROVE  k = n
      <3>1. CASE k # o /\ n # o
        BY <1>2, <2>4, <3>1 DEF RowInv, VersionsSound
      <3>2. CASE k = o /\ n # o
        BY <1>1, <1>2, <2>2, <2>4, <3>2
      <3>3. CASE k # o /\ n = o
        BY <1>1, <1>2, <2>2, <2>4, <3>3
      <3> QED
        BY <3>1, <3>2, <3>3
    <2>5. IsTable(row')
      BY <1>1
    <2> QED
      BY <1>1, <2>1, <2>3, <2>4, <2>5 DEF VersionsSound
  <1>5. VouchSound'
    <2> SUFFICES ASSUME NEW k \in Ops, Vouches(op[k].path, k)', ~RenamedTo(op[k].path)'
                 PROVE  VouchFor(k, row[op[k].path])'
      BY DEF VouchSound
    <2>1. k # o
      <3>1. q.path \in Paths
        BY FileStoreAssumption
      <3> QED
        BY <1>1, <1>2, <3>1 DEF Vouches, RowInv, VersionsSound
    <2>2. op'[k] = op[k]
      BY <1>2, <2>1
    <2>3. Vouches(op[k].path, k)
      BY <1>1, <2>2 DEF Vouches
    <2>4. ~RenamedTo(op[k].path)
      <3> SUFFICES ASSUME NEW n \in Ops, op[n].kind = "rename", op[n].to = op[k].path PROVE FALSE
        BY DEF RenamedTo
      <3>1. n # o
        BY <1>1 DEF FileInv, OpSound, DeclaredSound
      <3> QED
        BY <1>2, <2>2, <3>1 DEF RenamedTo
    <2>5. PICK x : x = row[op[k].path].obj
      OBVIOUS
    <2>6. Sha(x) = op[k].key /\ IsDeclared(x)
      BY <2>3, <2>4, <2>5 DEF RowInv, VouchSound, VouchFor
    <2>7. Sha(x)' = op[k].key /\ IsDeclared(x)'
      BY <1>1, <1>2, <2>6 DEF Sha, IsDeclared
    <2>8. row'[op'[k].path].obj = x
      BY <1>1, <2>2, <2>5
    <2> QED
      BY <2>2, <2>7, <2>8 DEF VouchFor, Sha, IsDeclared
  <1> QED
    BY <1>3, <1>4, <1>5 DEF RowInv

LEMMA RowInvStep == FileInv /\ RowInv /\ [Next]_vars => RowInv'
  <1> SUFFICES ASSUME FileInv, RowInv, [Next]_vars PROVE RowInv'
    OBVIOUS
  <1>1. ASSUME Steady, UNCHANGED <<tree, row, seq>> PROVE RowInv'
    BY <1>1, TreeSame, RowsKept, RowStep DEF tree
  <1>2. CASE UNCHANGED vars
    <2>1. UNCHANGED <<tree, op, others, row, seq>>
      BY <1>2 DEF vars, tree
    <2> QED
      BY <1>1, <2>1, BarrierKeeps
  <1>3. ASSUME NEW o \in Ops, NEW q \in Requests, NEW t \in 1..ten, Declare(o, q, t) PROVE RowInv'
    BY <1>3, DeclareRows
  <1>4. ASSUME NEW o \in Ops, Timeout(o) \/ GraceOver(o) PROVE RowInv'
    <2>1. UNCHANGED <<tree, row, seq>>
      BY <1>4 DEF Timeout, GraceOver, tables
    <2> QED
      BY <1>1, <1>4, <2>1, TimeoutKeeps, GraceKeeps
  <1>5. ASSUME NEW o \in Ops, Run(o) PROVE RowInv'
    BY <1>5, RunKeeps, RunPool, RunRows, RowStep
  <1>6. ASSUME NEW o \in Ops, Reconcile(o) PROVE RowInv'
    BY <1>6, ReconcileKeeps, ReconcilePool, ReconcileRows, RowStep
  <1>7. ASSUME NEW crash \in BOOLEAN, Takeover(crash) PROVE RowInv'
    <2>1. UNCHANGED <<tree, row, seq>>
      BY <1>7 DEF Takeover, tables
    <2> QED
      BY <1>1, <1>7, <2>1, TakeoverKeeps
  <1>8. CASE (\E t \in 1..ten : watchWriter(t)) \/ SetScopeFrozen \/ cutScope \/ Release
    <2>1. UNCHANGED <<tree, op, others, row, seq>>
      BY <1>8 DEF watchWriter, SetScopeFrozen, cutScope, Release, tables
    <2> QED
      BY <1>1, <2>1, BarrierKeeps
  <1>9. ASSUME NEW p \in Paths, OthersWrite(p) \/ OthersRemove(p) PROVE RowInv'
    <2>1. UNCHANGED <<row, seq>>
      BY <1>9 DEF OthersWrite, OthersRemove, tables
    <2> QED
      BY <1>9, <2>1, OthersKeep, OthersPool, RowsKept, RowStep
  <1> QED
    BY <1>2, <1>3, <1>4, <1>5, <1>6, <1>7, <1>8, <1>9 DEF Next

(* At a path no rename leads to, a recorded version never vouches for bytes *)
(* its operation did not write, whoever settled it and whatever late        *)
(* effect, capture or foreign write came between (apply, settleIntent,      *)
(* homeRowTx, relocateRows).                                                *)
THEOREM RowsAlwaysVouchTruly == Spec => []RowsVouchTruly
  <1>1. Init => FileInv /\ RowInv
    BY FileInvInit, RowInvInit
  <1>2. FileInv /\ RowInv /\ [Next]_vars => FileInv' /\ RowInv'
    BY FileStep, RowInvStep
  <1>3. RowInv => RowsVouchTruly
    BY DEF RowInv, VouchSound, VouchFor, RowsVouchTruly
  <1> QED
    BY <1>1, <1>2, <1>3, PTL DEF Spec
=============================================================================
