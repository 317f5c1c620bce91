----------------------------- MODULE FileStore -----------------------------
(***************************************************************************)
(* The files service: a journal of intended operations and a table of      *)
(* versions in the database, over a POSIX tree that others write too       *)
(* (filesvc/store.go, posixfs.go).  One scope, a flat set of paths.        *)
(*                                                                         *)
(* An object is a file identity (fingerprint and durable id) and is a      *)
(* number: 0 is no object, the body that operation o writes is o, and      *)
(* foreign objects are larger.  An operation is declared in the database,  *)
(* runs in its own goroutine system call by system call, and is settled in *)
(* the database again.  The process may crash or lose the writer lock      *)
(* between any two of these steps; the next owner settles what it left by  *)
(* what the disk shows.  A process that lost the lock goes on until it     *)
(* notices (watchWriter), and stops at the next fence (landing).           *)
(***************************************************************************)
EXTENDS Naturals, FiniteSets

CONSTANTS
    Paths,       \* public names
    MaxOps,      \* bound: operations declared
    Requests,    \* what clients ask: [kind, path, to, key, iv]
    Seeded,      \* the paths that hold a recorded file in the beginning
    MaxForeign,  \* bound: objects written by others
    MaxRemovals, \* bound: removals by others
    Scenes       \* which troubles meet in one run: sets of "crash", "depose", "freeze", "others", "slow"

Ops == 1..MaxOps
Seed(p) == 100 + (CHOOSE f \in [Paths -> 1..Cardinality(Paths)] :
                     \A a, b \in Paths : f[a] = f[b] => a = b)[p]
Foreign == 201..(200 + MaxForeign)
Objects == {0} \cup Ops \cup {Seed(p) : p \in Paths} \cup Foreign
Keys == {q.key : q \in Requests}
ASSUME FileStoreAssumption ==
    /\ MaxOps \in 0..100 /\ Seeded \subseteq Paths /\ \A p \in Paths : Seed(p) \notin Ops
    /\ \A q \in Requests : /\ q.kind \in {"write", "rename", "remove"}
                          /\ q.path \in Paths /\ q.to \in Paths

VARIABLES
    pub,       \* the object at each public name
    slot,      \* the object at each operation's private name
    held,      \* the object the reconciler captured from it
    recovered, \* the objects surfaced under a recovered-... name
    op,        \* file_op, with its goroutine
    row,       \* file_version
    receipt,   \* file_receipt
    seq,       \* file_version_seq
    mu,        \* each process' lock on the scope: an operation, a pass, or free
    ten, fenced,     \* the writer's tenure; the processes that know they lost the lock
    frozen, cut,     \* file_freeze; the manifest of the sealed cut
    scene,           \* the troubles of this run
    killed, others   \* history: <<object, operation>> unlinked by the service;
                     \* what others wrote and removed
vars == <<pub, slot, held, recovered, op, row, receipt, seq, mu, ten, fenced, frozen, cut, scene, killed, others>>
tree == <<pub, slot, held, recovered, killed>>
tables == <<row, receipt, seq>>
reign == <<ten, fenced, frozen, cut, scene>>

NoRow == [ver |-> 0, obj |-> 0, oid |-> 0, div |-> FALSE]
Unused == [st |-> "none", kind |-> "none", path |-> CHOOSE p \in Paths : TRUE,
           to |-> CHOOSE p \in Paths : TRUE, key |-> CHOOSE k \in Keys : TRUE,
           ver |-> 0, pre |-> 0, dst |-> 0, own |-> 0, pc |-> "idle", act |-> "unset", res |-> "unset",
           eff |-> "unset", done |-> FALSE, tomb |-> FALSE, snap |-> <<"none", "unset">>,
           home |-> "none", seen |-> 0, landed |-> FALSE, out |-> "none"]

Init ==
    /\ pub = [p \in Paths |-> IF p \in Seeded THEN Seed(p) ELSE 0]
    /\ slot = [o \in Ops |-> 0] /\ held = [o \in Ops |-> 0] /\ recovered = {}
    /\ op = [o \in Ops |-> Unused]
    /\ row = [p \in Paths |-> IF p \in Seeded
                              THEN [ver |-> 1, obj |-> Seed(p), oid |-> Seed(p), div |-> FALSE]
                              ELSE NoRow]
    /\ receipt = [k \in Keys |-> "none"]
    /\ mu = [t \in 1..2 |-> 0]
    /\ seq = 1 /\ ten = 1 /\ fenced = {} /\ frozen = "no" /\ cut = {}
    /\ scene \in Scenes
    /\ killed = {} /\ others = [wrote |-> 0, removed |-> {}, count |-> 0]

(* The content of an object: retries of one key carry the same bytes.      *)
Sha(x) == IF x \in Ops THEN op[x].key ELSE x

-----------------------------------------------------------------------------
(* Declaring.  Overlap is what may not be unsettled; a resolved intent     *)
(* blocks its paths for deadGrace and is "aged" after that.                *)
Touches(o) == IF op[o].kind = "rename" THEN {op[o].path, op[o].to} ELSE {op[o].path}
Needs(q) == IF q.kind = "rename" THEN {q.path, q.to} ELSE {q.path}
Unsettled(q) == \E o \in Ops : op[o].st \in {"pending", "resolved"} /\ Touches(o) \cap Needs(q) # {}
checkVersion(q) ==
    LET p == IF q.kind = "rename" THEN q.to ELSE q.path IN
    CASE q.iv = "any" -> TRUE
      [] q.iv = "none" -> q.kind # "remove" /\ pub[p] = 0
      [] q.iv = "eq" -> row[p].ver # 0 /\ pub[p] # 0 /\ ~row[p].div /\ row[p].obj = pub[p]

FirstStep(q) == CASE q.kind = "write" -> "put" [] q.kind = "rename" -> "src" [] q.kind = "remove" -> "cap"
Declare(o, q, t) ==
    /\ op[o].st = "none" /\ \A k \in Ops : k < o => op[k].st # "none"
    /\ t \in (1..ten) \ fenced
    /\ receipt[q.key] = "none" /\ frozen = "no" /\ ~Unsettled(q) /\ checkVersion(q)
    /\ ~\E k \in Ops : op[k].st = "pending" /\ op[k].key = q.key
    /\ op' = [op EXCEPT ![o] = [Unused EXCEPT
                 !.st = "pending", !.kind = q.kind, !.path = q.path, !.to = q.to, !.key = q.key,
                 !.ver = seq + 1, !.own = t, !.pc = FirstStep(q), !.pre = pub[q.path],
                 !.dst = IF q.kind = "rename" THEN pub[q.to] ELSE pub[q.path],
                 !.act = IF q.kind = "write" THEN "put" ELSE "unset"]]
    /\ seq' = seq + 1
    /\ mu[t] = 0 /\ mu' = [mu EXCEPT ![t] = o]
    /\ UNCHANGED <<tree, row, receipt, reign, others>>
(* waitFs: the client gives up and the lock is free; the goroutine is not  *)
(* interrupted.                                                            *)
Timeout(o) ==
    /\ "slow" \in scene /\ op[o].st # "none" /\ mu[op[o].own] = o
    /\ mu' = [mu EXCEPT ![op[o].own] = 0]
    /\ op' = [op EXCEPT ![o].out = "unknown"]
    /\ UNCHANGED <<tree, tables, reign, others>>
GraceOver(o) ==
    /\ op[o].st = "resolved" /\ op' = [op EXCEPT ![o].st = "aged"]
    /\ UNCHANGED <<tree, tables, mu, reign, others>>

-----------------------------------------------------------------------------
(* The end of an operation in the database.                                *)
Receipt(r, k, v) ==
    IF r[k] = "none" \/ (r[k] = "diverged" /\ v = "applied") THEN [r EXCEPT ![k] = v] ELSE r
WriteRow(rs, p, v, x, d) ==
    IF rs[p].ver < v THEN [rs EXCEPT ![p] = [ver |-> v, obj |-> x, oid |-> x, div |-> d]] ELSE rs
DropRow(rs, p, v) == IF rs[p].ver < v THEN [rs EXCEPT ![p] = NoRow] ELSE rs
Resolve(st) == IF st = "pending" THEN "resolved" ELSE st

(* apply: the receipt, the rows it supersedes, and the intent, which stays *)
(* as a tombstone while its private name is not known to be done.          *)
ApplyRows(o, x, d, verdict) ==
    LET i == op[o] IN
    CASE i.kind = "remove" -> DropRow(row, i.path, i.ver)
      [] i.kind = "rename" -> WriteRow(DropRow(row, i.path, i.ver), i.to, i.ver, x, FALSE)
      [] i.kind = "write" ->
            IF row[i.path].ver = i.ver /\ row[i.path].div /\ verdict = "applied" /\ ~d
            THEN [row EXCEPT ![i.path].obj = x, ![i.path].div = FALSE]
            ELSE WriteRow(row, i.path, i.ver, x, d)
apply(o, x, d, keep, verdict) ==
    /\ row' = ApplyRows(o, x, d, verdict)
    /\ receipt' = Receipt(receipt, op[o].key, verdict)
    /\ op' = [op EXCEPT ![o].snap = <<"none", "unset">>, ![o].st = IF keep \/ ~op[o].done THEN Resolve(@) ELSE "gone",
                        ![o].pc = IF op[o].own = ten THEN "idle" ELSE @,
                        ![o].out = IF @ = "none" /\ op[o].own = ten THEN "ok" ELSE @]
(* A settlement is the owner's: another process leaves the intent as it is. *)
Owner(o) == op[o].own = ten
Answer(o, a) == IF op[o].out = "none" THEN a ELSE op[o].out
Leave(o) == op' = [op EXCEPT ![o].pc = "idle", ![o].out = "unknown"] /\ UNCHANGED <<row, receipt>>
Applied(o, x, keep) == IF Owner(o) THEN apply(o, x, FALSE, keep, "applied") ELSE Leave(o)
dropIntent(o) ==
    IF Owner(o) THEN /\ op' = [op EXCEPT ![o].st = "gone", ![o].pc = "idle", ![o].out = Answer(o, "fail")]
                     /\ UNCHANGED <<row, receipt>>
    ELSE Leave(o)
dropIntentGhosts(o) ==
    IF Owner(o) THEN /\ op' = [op EXCEPT ![o].st = "gone", ![o].pc = "idle", ![o].out = Answer(o, "ok")]
                     /\ row' = DropRow(row, op[o].path, op[o].ver)
                     /\ receipt' = Receipt(receipt, op[o].key, "applied")
    ELSE Leave(o)
Parked(o) ==
    IF Owner(o) THEN /\ op' = [op EXCEPT ![o].st = "resolved", ![o].pc = "idle", ![o].out = Answer(o, "diverged")]
                     /\ receipt' = Receipt(receipt, op[o].key, "diverged") /\ UNCHANGED row
    ELSE Leave(o)

-----------------------------------------------------------------------------
(* The goroutine of an operation.  Every public mutation passes the fence. *)
Landing(o) == op[o].own \notin fenced
At(o, pc) == op[o].pc = pc
Ours(o) == IF op[o].kind = "write" THEN o ELSE op[o].pre
Peer(o) == IF op[o].kind = "rename" THEN op[o].to ELSE op[o].path
(* The client is answered and the lock released when the goroutine ends.   *)
Body ==
    /\ mu' = [t \in 1..2 |-> IF mu[t] \in Ops /\ op'[mu[t]].pc \in {"idle", "dead"} THEN 0 ELSE mu[t]]
    /\ UNCHANGED <<seq, reign, others>>
Quiet == UNCHANGED <<row, receipt>>

Fenced(o) ==
    /\ op[o].pc \in {"put", "src", "move", "cap", "pub", "xch", "und", "restore"} /\ ~Landing(o)
    /\ Leave(o) /\ Body /\ UNCHANGED tree

(* atomicWrite: the body is staged at the private name.                    *)
Put(o) ==
    /\ At(o, "put") /\ Landing(o)
    /\ slot' = [slot EXCEPT ![o] = o]
    /\ op' = [op EXCEPT ![o].res = "ok", ![o].pc = IF op[o].dst = 0 THEN "pub" ELSE "xch"]
    /\ Body /\ Quiet /\ UNCHANGED <<pub, held, recovered, killed>>
(* rename: the source must be the declared one; without a destination it   *)
(* is one rename that replaces nothing, and no name is journaled.          *)
RenameSource(o) ==
    /\ At(o, "src") /\ Landing(o)
    /\ IF pub[op[o].path] # 0 /\ pub[op[o].path] = op[o].pre
       THEN op' = [op EXCEPT ![o].pc = IF op[o].dst = 0 THEN "move" ELSE "cap"] /\ Quiet
       ELSE dropIntent(o)
    /\ Body /\ UNCHANGED tree
RenameMove(o) ==
    /\ At(o, "move") /\ Landing(o)
    /\ LET i == op[o] IN
       IF pub[i.path] # 0 /\ pub[i.to] = 0
       THEN /\ pub' = [pub EXCEPT ![i.to] = pub[i.path], ![i.path] = 0]
            /\ op' = [op EXCEPT ![o].pc = "info", ![o].landed = TRUE] /\ Quiet
       ELSE dropIntent(o) /\ UNCHANGED pub
    /\ Body /\ UNCHANGED <<slot, held, recovered, killed>>

(* Journal the act, call the system, journal the result.  A call that hung *)
(* when its process died may still land.                                   *)
Act(o) ==
    /\ op[o].pc \in {"pub", "xch", "cap"} /\ Landing(o)
    /\ op' = [op EXCEPT ![o].act = op[o].pc, ![o].res = "unset", ![o].pc = "sys"]
    /\ Body /\ Quiet /\ UNCHANGED tree
Effect(o, e) ==
    op' = [op EXCEPT ![o].eff = e, ![o].pc = IF At(o, "hung") THEN "dead" ELSE "res",
                     ![o].landed = @ \/ (e = "ok" /\ op[o].act \in {"pub", "xch"})]
Sys(o) ==
    /\ At(o, "sys") \/ At(o, "hung")
    /\ LET i == op[o]
           works == CASE i.act = "pub" -> slot[o] # 0 /\ pub[i.path] = 0
                      [] i.act = "xch" -> slot[o] # 0 /\ pub[Peer(o)] # 0
                      [] i.act = "cap" -> slot[o] = 0 /\ pub[i.path] # 0
           name == IF i.act = "xch" THEN Peer(o) ELSE i.path
       IN IF works
          THEN /\ pub' = [pub EXCEPT ![name] = slot[o]]
               /\ slot' = [slot EXCEPT ![o] = pub[name]]
               /\ Effect(o, "ok")
          ELSE Effect(o, "noeff") /\ UNCHANGED <<pub, slot>>
    /\ Body /\ Quiet /\ UNCHANGED <<held, recovered, killed>>
(* Mutant: the displaced object is not compared with the declared one.     *)
AfterEffectUnchecked(o) ==
    CASE op[o].eff = "ok" /\ op[o].act = "cap" /\ op[o].kind = "rename" -> "xch"
      [] op[o].eff = "ok" /\ (op[o].act # "cap" \/ op[o].kind # "rename") -> "commit"
      [] op[o].eff # "ok" /\ op[o].act = "cap" -> "absent"
      [] OTHER -> IF op[o].kind = "rename" THEN "restore" ELSE "fail"
(* What the private name then holds decides how the operation goes on.     *)
AfterEffect(o) ==
    LET i == op[o] IN
    CASE i.act = "pub" -> IF i.eff = "ok" THEN "commit" ELSE "fail"
      [] i.act = "cap" /\ i.eff = "ok" ->
            CASE i.kind = "rename" -> IF slot[o] = i.pre THEN "xch" ELSE "restore"
              [] OTHER -> IF slot[o] = i.dst THEN "commit" ELSE "restore"
      [] i.act = "cap" /\ i.eff # "ok" -> "absent"
      [] i.act = "xch" /\ i.eff = "ok" ->
            CASE slot[o] = 0 -> "lost"
              [] slot[o] # 0 /\ slot[o] = i.dst /\ (i.kind = "rename" => pub[i.to] = i.pre) -> "commit"
              [] OTHER -> "und"
      [] OTHER -> IF i.kind = "rename" THEN "restore" ELSE "fail"
Res(o) ==
    /\ At(o, "res")
    /\ LET next == AfterEffect(o)
           noted == [op EXCEPT ![o].res = op[o].eff, ![o].pc = next] IN
       CASE next = "absent" -> IF op[o].kind = "remove" THEN dropIntentGhosts(o) ELSE dropIntent(o)
         [] next = "lost" -> op' = [noted EXCEPT ![o].pc = "idle", ![o].out = "unknown"] /\ Quiet
         [] OTHER -> op' = noted /\ Quiet
    /\ Body /\ UNCHANGED tree

(* discardOwned unlinks the displaced object, if it is the declared one.   *)
Commit(o) ==
    /\ At(o, "commit")
    /\ slot' = [slot EXCEPT ![o] = 0]
    /\ killed' = IF slot[o] = 0 THEN killed ELSE killed \cup {<<slot[o], o>>}
    /\ op' = [op EXCEPT ![o].done = TRUE, ![o].pc = "info",
                        ![o].landed = @ \/ (op[o].kind = "remove" /\ slot[o] # 0)]
    /\ Body /\ Quiet /\ UNCHANGED <<pub, held, recovered>>
(* Success is only claimed if the path still shows it.                     *)
Info(o) ==
    /\ At(o, "info")
    /\ LET i == op[o] IN
       CASE i.kind = "remove" -> IF pub[i.path] = 0 THEN Applied(o, 0, FALSE) ELSE dropIntent(o)
         [] OTHER -> IF pub[Peer(o)] = Ours(o) THEN Applied(o, Ours(o), FALSE) ELSE Leave(o)
    /\ Body /\ UNCHANGED tree
Fail(o) ==
    /\ At(o, "fail")
    /\ slot' = [slot EXCEPT ![o] = 0]
    /\ killed' = IF slot[o] = o THEN killed \cup {<<o, o>>} ELSE killed
    /\ IF Owner(o) THEN op' = [op EXCEPT ![o].st = "gone", ![o].pc = "idle", ![o].done = TRUE, ![o].out = Answer(o, "fail")]
       ELSE op' = [op EXCEPT ![o].pc = "idle", ![o].done = TRUE, ![o].out = "unknown"]
    /\ Body /\ Quiet /\ UNCHANGED <<pub, held, recovered>>

(* undoDisplaced: look, then rename; others may write in between.          *)
Und(o) ==
    /\ At(o, "und") /\ Landing(o)
    /\ op' = [op EXCEPT ![o].act = "und", ![o].res = "unset", ![o].pc = "look"]
    /\ Body /\ Quiet /\ UNCHANGED tree
UndoLook(o) ==
    /\ At(o, "look")
    /\ LET there == pub[Peer(o)]
           plan == CASE slot[o] = Ours(o) -> "undone"
                     [] slot[o] # Ours(o) /\ there = 0 -> IF slot[o] = 0 THEN "park" ELSE "back"
                     [] slot[o] # Ours(o) /\ there # 0 /\ there = Ours(o) -> IF slot[o] = 0 THEN "pull" ELSE "swap"
                     [] OTHER -> "park"
       IN op' = [op EXCEPT ![o].pc = plan]
    /\ Body /\ Quiet /\ UNCHANGED tree
UndoAct(o) ==
    /\ op[o].pc \in {"back", "pull", "swap"}
    /\ LET there == pub[Peer(o)]
           works == CASE At(o, "back") -> slot[o] # 0 /\ there = 0
                      [] At(o, "pull") -> slot[o] = 0 /\ there # 0
                      [] At(o, "swap") -> slot[o] # 0 /\ there # 0
       IN IF works
          THEN /\ pub' = [pub EXCEPT ![Peer(o)] = slot[o]] /\ slot' = [slot EXCEPT ![o] = there]
               /\ op' = [op EXCEPT ![o].pc = "look"]
          ELSE op' = [op EXCEPT ![o].pc = "park"] /\ UNCHANGED <<pub, slot>>
    /\ Body /\ Quiet /\ UNCHANGED <<held, recovered, killed>>
Undone(o) ==
    /\ At(o, "undone")
    /\ op' = [op EXCEPT ![o].res = "ok", ![o].landed = FALSE,
                        ![o].pc = IF op[o].kind = "rename" THEN "restore" ELSE "fail"]
    /\ Body /\ Quiet /\ UNCHANGED tree
(* restoreSrc, and what remove captured by mistake: back, replacing nothing. *)
Restore(o) ==
    /\ At(o, "restore") /\ Landing(o)
    /\ LET i == op[o] IN
       CASE slot[o] # 0 /\ pub[i.path] = 0 ->
               /\ pub' = [pub EXCEPT ![i.path] = slot[o]] /\ slot' = [slot EXCEPT ![o] = 0]
               /\ dropIntent(o)
         [] slot[o] = 0 -> Leave(o) /\ UNCHANGED <<pub, slot>>
         [] OTHER -> Parked(o) /\ UNCHANGED <<pub, slot>>
    /\ Body /\ UNCHANGED <<held, recovered, killed>>
Park(o) ==
    /\ At(o, "park")
    /\ IF op[o].kind = "rename" /\ pub[op[o].to] = op[o].pre
       THEN Applied(o, op[o].pre, TRUE) ELSE Parked(o)
    /\ Body /\ UNCHANGED tree

Run(o) == \/ Put(o) \/ RenameSource(o) \/ RenameMove(o) \/ Act(o) \/ Sys(o) \/ Res(o) \/ Commit(o)
          \/ Info(o) \/ Fail(o) \/ Und(o) \/ UndoLook(o) \/ UndoAct(o) \/ Undone(o) \/ Restore(o)
          \/ Park(o) \/ Fenced(o)

-----------------------------------------------------------------------------
(* Reconciliation.  The owner takes up the intents its own goroutines do   *)
(* not hold, and tombstones, unless the scope is sealed; it judges by the  *)
(* journal as it loaded it.  A predecessor's intent is left alone for      *)
(* deadGrace: by then its goroutine has stopped at a fence or died, and at *)
(* most a hung call of it may still land.                                  *)
Stopped(o) == op[o].own \in fenced /\ op[o].pc \in {"idle", "dead", "sys", "hung"}
Reconcilable(o) ==
    /\ op[o].st \in {"pending", "resolved", "aged"} /\ frozen # "sealed"
    /\ op[o].st = "pending" => IF Owner(o) THEN At(o, "idle") ELSE Stopped(o)
Loaded(o) == mu[ten] = MaxOps + o
Load(o) ==
    /\ Reconcilable(o) /\ mu[ten] = 0 /\ mu' = [mu EXCEPT ![ten] = MaxOps + o]
    /\ op' = [op EXCEPT ![o].snap = <<op[o].act, op[o].res>>]
    /\ UNCHANGED <<tree, tables, reign, others>>
EndPass(o) == mu' = [mu EXCEPT ![ten] = 0]

(* settleNames: an empty private name is done unless its last act has no   *)
(* result; an occupied one is captured under a fresh private name.         *)
NameAbsent(o) ==
    /\ Loaded(o) /\ slot[o] = 0 /\ held[o] = 0 /\ op[o].home = "none" /\ ~op[o].done
    /\ op' = IF op[o].snap[1] # "unset" /\ op[o].snap[2] = "unset" THEN [op EXCEPT ![o].tomb = TRUE]
             ELSE [op EXCEPT ![o].done = ~op[o].tomb]
    /\ op' # op
    /\ UNCHANGED <<mu, tree, tables, reign, others>>
captureName(o) ==
    /\ Loaded(o) /\ slot[o] # 0 /\ held[o] = 0 /\ op[o].home = "none"
    /\ held' = [held EXCEPT ![o] = slot[o]] /\ slot' = [slot EXCEPT ![o] = 0]
    /\ op' = [op EXCEPT ![o].seen = slot[o]]
    /\ UNCHANGED <<mu, pub, recovered, killed, tables, reign, others>>

(* What an object is to the intent, by its identity.                       *)
Displaced(o, x) == x = op[o].dst /\ op[o].dst # 0
Source(o, x) == op[o].kind = "rename" /\ x = op[o].pre
Authored(o, x) == op[o].kind = "write" /\ x = o
(* ambiguousMeaning: an act without a result leaves only the identity.     *)
ambiguousMeaning(o, x) ==
    CASE Displaced(o, x) -> Peer(o)
      [] ~Displaced(o, x) /\ (Source(o, x) \/ Authored(o, x)) -> op[o].path
      [] OTHER -> "none"
(* provMeaning: the public name an object of this intent belongs to, by    *)
(* its identity and the last act on the private name.                      *)
provMeaning(o, x) ==
    LET i == op[o]
        act == i.snap[1]
        res == i.snap[2]
        home(is, p) == IF is THEN p ELSE "none"
    IN CASE act = "cap" -> home(res # "noeff" /\ (Source(o, x) \/ (i.kind = "remove" /\ Displaced(o, x))), i.path)
         [] act = "put" -> home(Authored(o, x), i.path)
         [] act = "pub" /\ res = "ok" -> "none"
         [] act = "xch" /\ res = "ok" -> home(Displaced(o, x), Peer(o))
         [] act \notin {"unset", "cap", "put"} /\ res # "unset"
            /\ (act \in {"pub", "xch"} => res # "ok") -> home(Authored(o, x) \/ Source(o, x), i.path)
         [] OTHER -> ambiguousMeaning(o, x)
(* judgeName: home only if a row claims the object there and the name is   *)
(* free; a capture whose pass was cut short may be judged unknown.  The    *)
(* destination is journaled before the move.                               *)
Surface == "recovered"
judgeName(o) ==
    /\ Loaded(o) /\ held[o] # 0 /\ op[o].home = "none"
    /\ \E known \in BOOLEAN :
          LET h == IF known THEN provMeaning(o, held[o]) ELSE "none" IN
          op' = [op EXCEPT ![o].home =
                    IF h # "none" THEN IF row[h].oid = held[o] /\ pub[h] = 0 THEN h ELSE Surface
                    ELSE Surface]
    /\ UNCHANGED <<mu, tree, tables, reign, others>>
moveSettled(o) ==
    /\ Loaded(o) /\ held[o] # 0 /\ op[o].home # "none"
    /\ IF op[o].home # Surface
       THEN IF pub[op[o].home] = 0
            THEN /\ pub' = [pub EXCEPT ![op[o].home] = held[o]] /\ UNCHANGED <<recovered, op>>
            ELSE /\ recovered' = recovered \cup {held[o]}
                 /\ op' = [op EXCEPT ![o].home = Surface] /\ UNCHANGED pub
       ELSE recovered' = recovered \cup {held[o]} /\ UNCHANGED <<pub, op>>
    /\ held' = [held EXCEPT ![o] = 0]
    /\ UNCHANGED <<mu, slot, killed, tables, reign, others>>
(* settleRow: at home the declared row is kept and any other replaced by a *)
(* fresh version; a surfaced object takes the claims of empty paths along. *)
HomeRow(o, h) ==
    LET declared == IF op[o].kind = "rename" /\ h = op[o].to THEN op[o].dst ELSE op[o].pre IN
    IF row[h].obj = declared /\ ~row[h].div /\ declared = op[o].seen THEN row
    ELSE [row EXCEPT ![h] = [ver |-> seq + 1, obj |-> op[o].seen, oid |-> op[o].seen, div |-> FALSE]]
DropStaleClaims(x) ==
    [p \in Paths |-> IF row[p].oid = x /\ pub[p] = 0 /\ ~row[p].div THEN NoRow ELSE row[p]]
settleRow(o) ==
    /\ Loaded(o) /\ held[o] = 0 /\ op[o].home # "none"
    /\ LET h == op[o].home IN
       CASE h = Surface -> row' = DropStaleClaims(op[o].seen)
         [] h # Surface -> row' = IF pub[h] = op[o].seen THEN HomeRow(o, h) ELSE row
    /\ seq' = IF \E p \in Paths : row'[p].ver = seq + 1 THEN seq + 1 ELSE seq
    /\ op' = [op EXCEPT ![o].home = "none", ![o].seen = 0]
    /\ UNCHANGED <<mu, tree, receipt, reign, others>>

(* settleIntent, by the verdict of the disk.                               *)
(* Mutant: an act without a result counts as landed.                       *)
LandedByAct(o) ==
    op[o].snap[1] \in (CASE op[o].kind = "write" -> {"pub", "xch"}
                         [] op[o].kind = "remove" -> {"cap"} [] OTHER -> {})
Landed(o) ==   \* intentLanded
    LET s == op[o].snap IN
    s[2] = "ok" /\ (CASE op[o].kind = "write" -> s[1] \in {"pub", "xch"}
                      [] op[o].kind = "remove" -> s[1] = "cap" [] OTHER -> FALSE)
(* A tombstone is judged again, and only a late effect changes anything.   *)
Tombstone(o, rs, v) ==
    IF op[o].st = "pending"
    THEN /\ op' = [op EXCEPT ![o].st = "resolved", ![o].snap = <<"none", "unset">>]
         /\ row' = rs
         /\ receipt' = IF v = "none" THEN receipt ELSE Receipt(receipt, op[o].key, v)
    ELSE op' = [op EXCEPT ![o].snap = <<"none", "unset">>] /\ UNCHANGED <<row, receipt>>
Verdict(o) == IF Landed(o) THEN "applied" ELSE "diverged"
(* Mutant: the bytes at the path are not compared with the intent's.       *)
settleWriteUnread(o) ==
    LET i == op[o] there == pub[op[o].path] IN
    /\ i.kind = "write"
    /\ CASE there = 0 -> Tombstone(o, DropRow(row, i.path, i.ver), Verdict(o))
         [] there # 0 /\ there = i.pre -> Tombstone(o, row, "none")
         [] OTHER -> apply(o, there, FALSE, FALSE, "applied")
settleWrite(o) ==
    LET i == op[o] there == pub[op[o].path] IN
    /\ i.kind = "write"
    /\ CASE there = 0 -> Tombstone(o, DropRow(row, i.path, i.ver), Verdict(o))
         [] there # 0 /\ there = i.pre -> Tombstone(o, row, "none")
         [] there # 0 /\ there # i.pre /\ Sha(there) # i.key -> apply(o, there, TRUE, TRUE, Verdict(o))
         [] OTHER -> apply(o, there, FALSE, FALSE, "applied")
settleRemove(o) ==
    LET i == op[o] there == pub[op[o].path] IN
    /\ i.kind = "remove"
    /\ IF there = 0 THEN Tombstone(o, DropRow(row, i.path, i.ver), "applied")
       ELSE Tombstone(o, row, IF Landed(o) /\ i.pre # 0 /\ there # i.pre THEN "applied" ELSE "diverged")
(* relocateRows: the row follows an object that is provably the source.    *)
Recorders == \E k \in Ops : op[k].own = ten /\ op[k].pc \notin {"idle", "dead"}
Relocated(o) ==
    LET i == op[o] IN
    IF row[i.path].ver # 0 /\ pub[i.path] = 0 /\ pub[i.to] = i.pre /\ row[i.to].obj # i.pre /\ ~Recorders
    THEN [row EXCEPT ![i.to] = [row[i.path] EXCEPT !.obj = i.pre, !.div = FALSE], ![i.path] = NoRow]
    ELSE row
settleRename(o) ==
    LET i == op[o] IN
    /\ i.kind = "rename"
    /\ CASE pub[i.path] # 0 /\ pub[i.path] = i.pre -> Tombstone(o, row, "none")
         [] (pub[i.path] = 0 \/ pub[i.path] # i.pre) /\ pub[i.to] # 0 ->
                             /\ row' = Relocated(o) /\ UNCHANGED receipt
                             /\ op' = [op EXCEPT ![o].st = Resolve(@), ![o].snap = <<"none", "unset">>]
         [] OTHER -> Tombstone(o, IF pub[i.path] = 0 THEN DropRow(row, i.path, i.ver) ELSE row, "none")
settleIntent(o) ==
    /\ Loaded(o) /\ EndPass(o) /\ (settleWrite(o) \/ settleRemove(o) \/ settleRename(o))
    /\ UNCHANGED <<tree, seq, reign, others>>

Reconcile(o) == \/ Load(o) \/ NameAbsent(o) \/ captureName(o) \/ judgeName(o) \/ moveSettled(o)
                \/ settleRow(o) \/ settleIntent(o)

-----------------------------------------------------------------------------
(* The writer.  A crash ends the goroutines; a lost lock does not, until   *)
(* the process notices.                                                    *)
Takeover(crash) ==
    /\ ten = 1 /\ (IF crash THEN "crash" ELSE "depose") \in scene
    /\ ten' = ten + 1
    /\ op' = [o \in Ops |-> [op[o] EXCEPT
                 !.snap = <<"none", "unset">>,
                 !.pc = CASE ~crash \/ @ = "idle" -> @ [] @ \in {"sys", "hung"} -> "hung" [] OTHER -> "dead",
                 !.out = IF crash /\ op[o].pc # "idle" THEN "unknown" ELSE @]]
    /\ fenced' = IF crash THEN fenced \cup {ten} ELSE fenced
    /\ mu' = IF crash \/ mu[ten] > MaxOps THEN [mu EXCEPT ![ten] = 0] ELSE mu
    /\ UNCHANGED <<tree, tables, frozen, cut, scene, others>>
watchWriter(t) ==
    /\ t < ten /\ t \notin fenced /\ fenced' = fenced \cup {t}
    /\ UNCHANGED <<mu, tree, tables, op, ten, frozen, cut, scene, others>>

(* The barrier.  cutScope seals once no intent is pending, every private   *)
(* name is settled, and the owner's tenure has outlasted whatever a        *)
(* predecessor may still have had in flight (cutHorizon).                  *)
SetScopeFrozen == "freeze" \in scene /\ frozen = "no" /\ frozen' = "up" /\ UNCHANGED <<mu, tree, tables, op, ten, fenced, cut, scene, others>>
Manifest == [public |-> pub, surfaced |-> recovered]
(* Mutant: only pending intents hold the cut back.                         *)
DrainedOfPending == \A o \in Ops : op[o].st # "pending"
Drained ==
    /\ \A o \in Ops : /\ op[o].st # "pending" /\ slot[o] = 0 /\ held[o] = 0 /\ op[o].home = "none"
                      /\ op[o].own # ten => op[o].pc \in {"idle", "dead"}
    /\ \A t \in 1..(ten - 1) : t \in fenced
cutScope ==
    /\ frozen = "up" /\ Drained
    /\ frozen' = "sealed" /\ cut' = {Manifest}
    /\ UNCHANGED <<mu, tree, tables, op, ten, fenced, scene, others>>
Release == frozen # "no" /\ frozen' = "no" /\ cut' = {} /\ UNCHANGED <<mu, tree, tables, op, ten, fenced, scene, others>>

(* Others write and remove public files; not under a sealed cut, whose     *)
(* owner stopped them.                                                     *)
OthersWrite(p) ==
    /\ "others" \in scene /\ others.wrote < MaxForeign /\ frozen # "sealed"
    /\ pub' = [pub EXCEPT ![p] = 201 + others.wrote]
    /\ others' = [others EXCEPT !.wrote = @ + 1, !.removed = @ \cup ({pub[p]} \ {0})]
    /\ UNCHANGED <<mu, slot, held, recovered, killed, op, tables, reign>>
OthersRemove(p) ==
    /\ "others" \in scene /\ others.count < MaxRemovals /\ frozen # "sealed" /\ pub[p] # 0
    /\ pub' = [pub EXCEPT ![p] = 0]
    /\ others' = [others EXCEPT !.count = @ + 1, !.removed = @ \cup {pub[p]}]
    /\ UNCHANGED <<mu, slot, held, recovered, killed, op, tables, reign>>

Next ==
    \/ \E o \in Ops : \/ \E q \in Requests, t \in 1..ten : Declare(o, q, t)
                      \/ Timeout(o) \/ GraceOver(o) \/ Run(o) \/ Reconcile(o)
    \/ \E crash \in BOOLEAN : Takeover(crash)
    \/ \E t \in 1..ten : watchWriter(t)
    \/ SetScopeFrozen \/ cutScope \/ Release
    \/ \E p \in Paths : OthersWrite(p) \/ OthersRemove(p)

Spec == Init /\ [][Next]_vars

-----------------------------------------------------------------------------
Exists(x) == \/ x \in recovered
             \/ \E p \in Paths : pub[p] = x
             \/ \E o \in Ops : slot[o] = x \/ held[o] = x
Born(x) == \/ x \in {Seed(p) : p \in Seeded} \/ (x \in Foreign /\ x - 200 <= others.wrote)
           \/ x \in Ops /\ op[x].kind = "write" /\ op[x].act # "put"
(* Whatever the service, its crashes and its stragglers do, an object is   *)
(* only destroyed by the operation that declared it as what it replaces or *)
(* removes, or by its own failed writer; everything else is still under    *)
(* some name; and a write or rename answered with a definite failure has   *)
(* left what it would have replaced (discardOwned, undoDisplaced,          *)
(* settleNames, runFs).                                                    *)
NothingLost ==
    /\ \A x \in Objects \ {0} : Born(x) /\ ~Exists(x) =>
          x \in others.removed \/ \E k \in killed : k[1] = x
    /\ \A k \in killed : k[1] = op[k[2]].dst \/ (k[1] = k[2] /\ op[k[2]].out \in {"fail", "unknown"})
    /\ \A o \in Ops : op[o].out = "fail" /\ op[o].kind # "remove" =>
          ~op[o].landed /\ ~\E k \in killed : k[2] = o /\ k[1] # o

(* A receipt that says applied stands for an effect: some operation of the *)
(* key took effect, or what it removes is not there (recordReceiptTx).     *)
ReceiptTrue ==
    \A k \in Keys : receipt[k] = "applied" =>
        \E o \in Ops : op[o].st # "none" /\ op[o].key = k /\ (op[o].landed \/ op[o].kind = "remove")

(* A recorded version never vouches for bytes its operation did not write: *)
(* content that came from elsewhere is marked diverged or has a version of *)
(* its own (apply, settleIntent, homeRowTx).  Of a path that a rename      *)
(* leads to this is not true: see NothingLaundered.                        *)
Vouches(p, o) == op[o].kind = "write" /\ row[p].ver = op[o].ver /\ ~row[p].div
RenamedTo(p) == \E o \in Ops : op[o].kind = "rename" /\ op[o].to = p
RowsVouchTruly ==
    \A o \in Ops : Vouches(op[o].path, o) /\ ~RenamedTo(op[o].path) => Sha(row[op[o].path].obj) = op[o].key

(* The same of every path: a diverged row may not lose its mark when a     *)
(* rename takes it along (divergedFP, relocateRows).                       *)
NothingLaundered == \A p \in Paths, o \in Ops : Vouches(p, o) => Sha(row[p].obj) = op[o].key

(* Until its release nothing the service does changes the tree of a sealed *)
(* cut, and no object is left out of it under a private name (cutScope).   *)
SealedTreeIsTheCut ==
    frozen = "sealed" => cut = {Manifest} /\ \A o \in Ops : slot[o] = 0 /\ held[o] = 0

(* What the service says is true: its receipts of effects, its recorded    *)
(* versions of bytes, and a sealed cut of the tree.                        *)
ToldTruly == ReceiptTrue /\ RowsVouchTruly /\ SealedTreeIsTheCut
=============================================================================
