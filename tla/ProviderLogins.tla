--------------------------- MODULE ProviderLogins ---------------------------
(***************************************************************************)
(* Linking and unlinking the sign-in providers of one account.  Firebase   *)
(* holds the account; koseki holds the credentials it honours and the      *)
(* operations that change them.  An unlink is a saga of the server's: a    *)
(* pending operation fences the account while the server reads it, deletes *)
(* the provider and records what a second read shows.  An unlink whose     *)
(* request was lost is settled, after its expiry, by a later request.      *)
(***************************************************************************)
EXTENDS Integers, Sequences, FiniteSets

CONSTANTS
    Hubs,        \* providers: google.com, github.com
    Subjects,    \* provider accounts that may be linked: positive numbers
    Requests,    \* requests the server may have under way at once
    MaxOps,      \* bound: operations begun
    HubPerils    \* subset of {"late", "retry"}

ASSUME HubAssumption == IsFiniteSet(Hubs) /\ Subjects \subseteq 1..9

VARIABLES
    remote,    \* the subject the Firebase account holds for a provider (0: none)
    cred,      \* the active credential of a provider (0: none)
    mail,      \* whether the account can sign in by e-mail
    op,        \* provider_operations, in the order they were begun
    req,       \* the requests under way
    flying,    \* deletes whose answer was lost: operations whose delete may still land
    rowLock,   \* providers whose credential row a request has locked
    linkedAs   \* a provider's last completed link or sign-in, and the operations begun before it
hubVars == <<remote, cred, mail, op, req, flying, rowLock, linkedAs>>

Resting == [phase |-> "idle", op |-> 0, hub |-> "none", sub |-> 0, removed |-> FALSE, why |-> "none"]
PendingOp(o) == op[o].st = "pending"
Usable == {p \in Hubs : remote[p] # 0}
\* supportedProviderMethodCount, and the e-mail method when it is usable.
usableMethods == Cardinality(Usable) + (IF mail THEN 1 ELSE 0)

HubInit ==
    /\ remote \in [Hubs -> {0, 1}] /\ cred = remote
    /\ linkedAs = [p \in Hubs |-> [sub |-> remote[p], since |-> 0]]
    /\ mail \in BOOLEAN /\ usableMethods >= 1
    /\ op = <<>> /\ flying = {} /\ rowLock = {}
    /\ req = [q \in Requests |-> Resting]

\* The operations that were over before any unlink that is still pending.
Ended == Cardinality({o \in DOMAIN op : \A x \in 1..o : ~(PendingOp(x) /\ op[x].kind = "unlink")})
Goes(q, phase) == req' = [req EXCEPT ![q].phase = phase]
Ends(q) == req' = [req EXCEPT ![q] = Resting]
accountVars == <<remote, mail, linkedAs>>

-----------------------------------------------------------------------------
(* Beginning an operation: the fence of pending unlinks.                   *)
FencedPerHub(kind, p) ==
    \E o \in DOMAIN op : PendingOp(o) /\ op[o].hub = p /\ op[o].kind = "unlink"
Fenced(kind, p) ==
    \E o \in DOMAIN op :
        /\ PendingOp(o)
        /\ op[o].kind = "unlink" \/ (kind = "unlink" /\ op[o].kind = "link" /\ op[o].age = "new")
BeginProviderOperation(kind, p) ==
    /\ Len(op) < MaxOps /\ ~Fenced(kind, p)
    /\ op' = Append(op, [kind |-> kind, hub |-> p, st |-> "pending", age |-> "new"])

StartUnlink(q, p) ==
    /\ req[q] = Resting /\ BeginProviderOperation("unlink", p)
    /\ req' = [req EXCEPT ![q] = [Resting EXCEPT !.phase = "begun", !.op = Len(op'), !.hub = p]]
    /\ UNCHANGED <<accountVars, cred, flying, rowLock>>
\* Nothing in the code keeps two requests off one operation, or a retry off
\* one whose delete was not answered; a run without the peril "retry" shows
\* what holds when they do not meet.
OneAtATime(o) == "retry" \in HubPerils \/ \A r \in Requests : req[r].op # o
\* The holder of the nonce asks again about an unlink still unexpired.
RetryUnlink(q, o) ==
    /\ req[q] = Resting /\ PendingOp(o) /\ op[o].kind = "unlink" /\ op[o].age = "new"
    /\ OneAtATime(o) /\ ("retry" \in HubPerils \/ o \notin flying)
    /\ req' = [req EXCEPT ![q] = [Resting EXCEPT !.phase = "begun", !.op = o, !.hub = op[o].hub]]
    /\ UNCHANGED <<accountVars, cred, op, flying, rowLock>>
StartLink(p) ==
    /\ BeginProviderOperation("link", p)
    /\ UNCHANGED <<accountVars, cred, req, flying, rowLock>>

\* The end of an operation, once: its status and its one security event.
Finished(o, st) == IF PendingOp(o) THEN [op EXCEPT ![o].st = st] ELSE op

-----------------------------------------------------------------------------
(* Linking: the browser links at Firebase, then the server is told.        *)
LinkWithCredential(o, s) ==
    /\ PendingOp(o) /\ op[o].kind = "link" /\ remote[op[o].hub] = 0
    /\ remote' = [remote EXCEPT ![op[o].hub] = s]
    /\ UNCHANGED <<cred, mail, op, req, flying, rowLock, linkedAs>>
CompleteProviderLink(o) ==
    LET p == op[o].hub
    IN /\ PendingOp(o) /\ op[o].kind = "link" /\ op[o].age = "new"
       /\ remote[p] # 0 /\ p \notin rowLock
       /\ cred' = [cred EXCEPT ![p] = remote[p]]
       /\ linkedAs' = [linkedAs EXCEPT ![p] = [sub |-> remote[p], since |-> Ended]]
       /\ op' = Finished(o, "completed")
       /\ UNCHANGED <<remote, mail, req, flying, rowLock>>
\* The browser gives a link up: credential_in_use, cancelled, failed.
FailLink(o) ==
    /\ PendingOp(o) /\ op[o].kind = "link" /\ op[o].age = "new"
    /\ op' = Finished(o, "failed")
    /\ UNCHANGED <<accountVars, cred, req, flying, rowLock>>
\* A sign-in with the provider activates its credential.
syncVerifiedProviderTx(p) ==
    /\ remote[p] # 0 /\ p \notin rowLock /\ cred[p] # remote[p]
    /\ cred' = [cred EXCEPT ![p] = remote[p]]
    /\ linkedAs' = [linkedAs EXCEPT ![p] = [sub |-> remote[p], since |-> Ended]]
    /\ UNCHANGED <<remote, mail, op, req, flying, rowLock>>

-----------------------------------------------------------------------------
(* runProviderUnlink.                                                      *)
ActiveProviderSubject(q) ==
    /\ req[q].phase = "begun"
    /\ IF cred[req[q].hub] = 0
       THEN req' = [req EXCEPT ![q].phase = "failing"]
       ELSE req' = [req EXCEPT ![q].phase = "reading", ![q].sub = cred[req[q].hub]]
    /\ UNCHANGED <<accountVars, cred, op, flying, rowLock>>

\* What the first read of the account decides.
Verdict(q) ==
    LET p == req[q].hub
    IN CASE remote[p] = 0 -> "finishing"
         [] remote[p] # req[q].sub -> "failing"
         [] remote[p] = req[q].sub /\ usableMethods <= 1 -> "failing"
         [] OTHER -> "deleting"
ReadAccount(q) ==
    /\ req[q].phase = "reading" /\ Goes(q, Verdict(q))
    /\ UNCHANGED <<accountVars, cred, op, flying, rowLock>>

\* A delete lands, fails, or is not answered in time; in the last case the
\* second read is out of time too, and the operation stays pending.
DeleteProvider(q) ==
    /\ req[q].phase \in {"deleting", "settledeleting"}
    /\ LET p == req[q].hub
           next == IF req[q].phase = "deleting" THEN "checking" ELSE "settlechecking"
       IN \/ remote' = [remote EXCEPT ![p] = 0] /\ Goes(q, next) /\ UNCHANGED flying
          \/ UNCHANGED <<remote, flying>> /\ Goes(q, next)
          \/ /\ req[q].phase = "deleting" \/ "late" \in HubPerils
             /\ flying' = flying \cup {req[q].op} /\ UNCHANGED remote /\ Ends(q)
    /\ UNCHANGED <<mail, linkedAs, cred, op, rowLock>>

\* The live postcheck is authoritative.
Postcheck(q) ==
    /\ req[q].phase = "checking"
    /\ Goes(q, IF remote[req[q].hub] = 0 THEN "finishing" ELSE "failing")
    /\ UNCHANGED <<accountVars, cred, op, flying, rowLock>>
FailProviderOperation(q) ==
    /\ req[q].phase = "failing" /\ Ends(q)
    /\ op' = Finished(req[q].op, "failed")
    /\ UNCHANGED <<accountVars, cred, flying, rowLock>>
CompleteProviderUnlink(q) ==
    /\ req[q].phase = "finishing" /\ Ends(q)
    /\ LET p == req[q].hub
       IN /\ p \notin rowLock
          /\ IF PendingOp(req[q].op) /\ cred[p] = req[q].sub
             THEN cred' = [cred EXCEPT ![p] = 0] /\ op' = Finished(req[q].op, "completed")
             ELSE UNCHANGED <<cred, op>>
    /\ UNCHANGED <<accountVars, flying, rowLock>>

-----------------------------------------------------------------------------
(* settleProviderUnlink, of an unlink that outlived its expiry.            *)
SettlingProviderUnlink(q, o) ==
    /\ req[q] = Resting /\ PendingOp(o) /\ op[o].kind = "unlink" /\ op[o].age # "new" /\ OneAtATime(o)
    /\ req' = [req EXCEPT ![q] = [Resting EXCEPT !.phase = "settling", !.op = o, !.hub = op[o].hub,
                                                 !.sub = cred[op[o].hub], !.why = op[o].age]]
    /\ UNCHANGED <<accountVars, cred, op, flying, rowLock>>
\* Past the grace the server deletes the provider itself, if the account
\* still has another method.
SettleRead(q) ==
    /\ req[q].phase = "settling"
    /\ LET p == req[q].hub
           gone == remote[p] = 0 \/ (req[q].sub # 0 /\ remote[p] # req[q].sub)
           drive == ~gone /\ req[q].why = "graced" /\ remote[p] = req[q].sub /\ usableMethods > 1
       IN req' = [req EXCEPT ![q].phase = IF drive THEN "settledeleting" ELSE "settled", ![q].removed = gone]
    /\ UNCHANGED <<accountVars, cred, op, flying, rowLock>>
SettleCheck(q) ==
    /\ req[q].phase = "settlechecking"
    /\ req' = [req EXCEPT ![q].phase = "settled", ![q].removed = remote[req[q].hub] = 0]
    /\ UNCHANGED <<accountVars, cred, op, flying, rowLock>>
SettleProviderUnlink(q) ==
    /\ req[q].phase = "settled" /\ Ends(q)
    /\ LET o == req[q].op
           p == req[q].hub
       IN \/ /\ PendingOp(o) /\ req[q].removed /\ req[q].sub # 0 /\ p \notin rowLock
             /\ cred' = [cred EXCEPT ![p] = IF @ = req[q].sub THEN 0 ELSE @]
             /\ op' = Finished(o, "completed")
          \/ /\ PendingOp(o) /\ ~(req[q].removed /\ req[q].sub # 0) /\ op[o].age = "graced"
             /\ op' = Finished(o, "failed") /\ UNCHANGED cred
          \/ /\ ~PendingOp(o) \/ (~(req[q].removed /\ req[q].sub # 0) /\ op[o].age # "graced")
             /\ UNCHANGED <<cred, op>>
    /\ UNCHANGED <<accountVars, flying, rowLock>>

-----------------------------------------------------------------------------
(* ProviderMethods heals a credential whose provider is gone: the absence  *)
(* is read again while the credential row is locked.                       *)
ProviderMethods(q, p) ==
    /\ req[q] = Resting /\ cred[p] # 0 /\ remote[p] # cred[p]
    /\ req' = [req EXCEPT ![q] = [Resting EXCEPT !.phase = "healing", !.hub = p, !.sub = cred[p]]]
    /\ UNCHANGED <<accountVars, cred, op, flying, rowLock>>
PendingUnlinkOf(p) == \E o \in DOMAIN op : PendingOp(o) /\ op[o].kind = "unlink" /\ op[o].hub = p
StillGoneAsRead(q) == TRUE
StillGone(q) == remote[req[q].hub] # req[q].sub
LockAndRecheck(q) ==
    /\ req[q].phase = "healing" /\ req[q].hub \notin rowLock
    /\ IF cred[req[q].hub] = req[q].sub /\ ~PendingUnlinkOf(req[q].hub) /\ StillGone(q)
       THEN Goes(q, "disabling") /\ rowLock' = rowLock \cup {req[q].hub}
       ELSE Ends(q) /\ UNCHANGED rowLock
    /\ UNCHANGED <<accountVars, cred, op, flying>>
DisableStaleProviderCredential(q) ==
    /\ req[q].phase = "disabling" /\ Ends(q)
    /\ cred' = [cred EXCEPT ![req[q].hub] = 0]
    /\ rowLock' = rowLock \ {req[q].hub}
    /\ UNCHANGED <<accountVars, op, flying>>

-----------------------------------------------------------------------------
(* Lost requests, late deletes, time.  A request is over (the saga's 30 s) *)
(* long before its operation expires (10 min), and a delete that was not   *)
(* answered has landed or died before the grace (2 min more) is over.      *)
RequestLost(q) ==
    /\ req[q] # Resting /\ Ends(q)
    /\ rowLock' = IF req[q].phase = "disabling" THEN rowLock \ {req[q].hub} ELSE rowLock
    /\ UNCHANGED <<accountVars, cred, op, flying>>
DeleteLands(o) ==
    /\ o \in flying /\ flying' = flying \ {o}
    /\ \E r \in {0, remote[op[o].hub]} : remote' = [remote EXCEPT ![op[o].hub] = r]
    /\ UNCHANGED <<mail, linkedAs, cred, op, req, rowLock>>
Age(o) ==
    /\ PendingOp(o)
    /\ \/ /\ op[o].age = "new" /\ \A q \in Requests : req[q].op # o
          /\ op' = [op EXCEPT ![o].age = "late"]
       \/ /\ op[o].age = "late" /\ op[o].kind = "unlink"
          /\ o \notin flying \/ "late" \in HubPerils
          /\ op' = [op EXCEPT ![o].age = "graced"]
    /\ UNCHANGED <<accountVars, cred, req, flying, rowLock>>

HubNext ==
    \/ \E p \in Hubs : StartLink(p) \/ syncVerifiedProviderTx(p)
    \/ \E q \in Requests, p \in Hubs : StartUnlink(q, p) \/ ProviderMethods(q, p)
    \/ \E o \in DOMAIN op : CompleteProviderLink(o) \/ FailLink(o) \/ DeleteLands(o) \/ Age(o)
    \/ \E o \in DOMAIN op, s \in Subjects : LinkWithCredential(o, s)
    \/ \E q \in Requests, o \in DOMAIN op : RetryUnlink(q, o) \/ SettlingProviderUnlink(q, o)
    \/ \E q \in Requests : \/ ActiveProviderSubject(q) \/ ReadAccount(q) \/ DeleteProvider(q) \/ Postcheck(q)
                           \/ FailProviderOperation(q) \/ CompleteProviderUnlink(q)
                           \/ SettleRead(q) \/ SettleCheck(q) \/ SettleProviderUnlink(q)
                           \/ LockAndRecheck(q) \/ DisableStaleProviderCredential(q) \/ RequestLost(q)

HubSpec == HubInit /\ [][HubNext]_hubVars

-----------------------------------------------------------------------------
(* No sequence of unlinks, retries and settlements takes the account's     *)
(* last way to sign in.                                                    *)
NeverStranded == usableMethods >= 1

(* A provider that was linked and is still held by the account keeps its   *)
(* credential: no heal, retry or settlement begun on an older reading      *)
(* retires it, unless an unlink was pending then or begun since.           *)
LinkKept ==
    \A p \in Hubs : (remote[p] # 0 /\ linkedAs[p].sub = remote[p]) =>
        \/ cred[p] = remote[p]
        \/ \E o \in DOMAIN op : o > linkedAs[p].since /\ op[o].kind = "unlink" /\ op[o].hub = p

(* An account keeps its last way in, and the providers it links.           *)
LoginsSound == NeverStranded /\ LinkKept
=============================================================================
