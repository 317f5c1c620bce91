-------------------------- MODULE BrowserSessions --------------------------
(***************************************************************************)
(* Signing in and out of one browser: the authentication flows of koseki,  *)
(* the durable ledger of browser sessions (one file under one exclusive    *)
(* lock) and the cookies of the browser's jar, which its tabs share.       *)
(* Session ids are numbered in the order they were issued, which is also   *)
(* the order in which they expire; epochs in the order they were minted.   *)
(***************************************************************************)
EXTENDS Integers, Sequences, FiniteSets

CONSTANTS
    Humans,       \* accounts
    Flows,        \* authentication flows (their nonces)
    Tabs,         \* requests that may be under way at once
    Nobody,       \* no account, no flow
    MaxSessions,  \* bound: sessions issued
    MaxEpochs,    \* bound: browser epochs minted
    MaxAsks,      \* bound: requests sent
    EpochsDrift,  \* whether epoch cookies are minted concurrently, or lost
    Begun         \* sessions a run begins with: subset of {0, 1}

VARIABLES
    ledger,   \* browserSessionRevocationState
    past,     \* every session ever issued: its flow, epoch, Human and parent
    expired,  \* the sessions up to this one are past their expiry
    minted,   \* epochs minted so far
    flow,     \* auth_flows
    jar,      \* the session and the epoch cookie of the browser
    ask,      \* the request of each tab
    asked,    \* requests sent so far
    ended     \* what logouts and discards have ended
authVars == <<ledger, past, expired, minted, flow, jar, ask, asked, ended>>

Sids == 1..MaxSessions
NoAsk == [kind |-> "none", phase |-> "idle", flow |-> Nobody, by |-> Nobody, from |-> Nobody,
          sid |-> 0, epoch |-> 0, listed |-> {}, newSid |-> 0, newEpoch |-> 0]
NoFlow == [st |-> "none", epoch |-> 0, human |-> Nobody, closed |-> FALSE, lapsed |-> FALSE]

(* A fresh browser, or one where FirstHuman signed in through FirstFlow.   *)
FirstHuman == CHOOSE h \in Humans : TRUE
FirstFlow == CHOOSE f \in Flows : TRUE
FirstLine == [parent |-> 0, succ |-> 0, flow |-> FirstFlow, epoch |-> 1, human |-> FirstHuman, retain |-> 1]
AuthInit ==
    /\ \E n \in Begun :
          /\ ledger = [revoked |-> {}, lin |-> [s \in 1..n |-> FirstLine], flows |-> {}, epochs |-> {},
                       tip |-> [e \in 1..MaxEpochs |-> IF e <= n THEN n ELSE 0]]
          /\ past = [s \in 1..n |-> [flow |-> FirstFlow, epoch |-> 1, human |-> FirstHuman,
                                     parent |-> 0, carried |-> 1]]
          /\ flow = [f \in Flows |-> IF f = FirstFlow /\ n = 1
                                     THEN [NoFlow EXCEPT !.st = "completed", !.epoch = 1, !.human = FirstHuman]
                                     ELSE NoFlow]
          /\ jar = [sid |-> n, epoch |-> n] /\ minted = n
    /\ expired = 0
    /\ ask = [t \in Tabs |-> NoAsk] /\ asked = 0
    /\ ended = [sessions |-> {}, since |-> [f \in Flows |-> MaxSessions]]

-----------------------------------------------------------------------------
(* The ledger's own definitions.                                           *)
Known(L) == DOMAIN L.lin
\* The end of a session's successor chain (a successor is always younger).
EndOf(L, s) ==
    LET end[x \in Sids] == IF x \in Known(L) /\ L.lin[x].succ # 0 THEN end[L.lin[x].succ] ELSE x
    IN end[s]
Ancestry(L, s) ==
    LET up[x \in Sids] == {x} \cup (IF x \in Known(L) /\ L.lin[x].parent # 0
                                    THEN up[L.lin[x].parent] ELSE {})
    IN up[s] \cap Known(L)
Descent(L, s) ==
    LET down[x \in Sids] == {x} \cup (IF x \in Known(L) /\ L.lin[x].succ # 0
                                      THEN down[L.lin[x].succ] ELSE {})
    IN down[s]

liveEpochSessionTip(L, e) ==
    IF e = 0 \/ L.tip[e] = 0 THEN 0
    ELSE LET s == EndOf(L, L.tip[e])
         IN IF s \in Known(L) /\ s \notin L.revoked /\ s > expired THEN s ELSE 0

lineageFlowsOf(L, S) == {L.lin[x].flow : x \in UNION {Ancestry(L, s) : s \in S}} \ {Nobody}
lineageEpochsOf(L, s) == {L.lin[x].epoch : x \in (Ancestry(L, s) \cup Descent(L, s)) \cap Known(L)}

\* A session and its successors, up to the first deliberate account switch.
revokeBrowserSessionState(L, s) ==
    LET down[x \in Sids] ==
            {x} \cup (IF x \in Known(L) /\ L.lin[x].succ # 0
                         /\ L.lin[L.lin[x].succ].human = L.lin[s].human
                      THEN down[L.lin[x].succ] ELSE {})
    IN IF s \in Known(L) THEN down[s] ELSE {s}
RevokeAll(L, S) == [L EXCEPT !.revoked = @ \cup UNION {revokeBrowserSessionState(L, s) : s \in S}]

\* Closures are dropped once nothing under way or still provable needs them.
StillNeeded(f) == ~flow[f].lapsed \/ \E t \in Tabs : ask[t].phase # "idle" /\ ask[t].flow = f
cleanup(L) ==
    LET kept == {s \in Known(L) : L.lin[s].retain > expired}
    IN [revoked |-> {s \in L.revoked : s > expired \/ s \in kept},
        lin |-> [s \in kept |-> IF L.lin[s].succ \in kept THEN L.lin[s] ELSE [L.lin[s] EXCEPT !.succ = 0]],
        flows |-> {f \in L.flows : StillNeeded(f)},
        epochs |-> {e \in L.epochs : \/ \E f \in Flows : flow[f].epoch = e /\ StillNeeded(f)
                                     \/ \E t \in Tabs : ask[t].phase # "idle" /\ ask[t].epoch = e},
        tip |-> [e \in DOMAIN L.tip |-> IF L.tip[e] \in kept THEN L.tip[e] ELSE 0]]
Clean == cleanup(ledger)

(* A ledger that fails this is not written, and every later mutation that  *)
(* reads it fails too.                                                     *)
validateBrowserSessionRevocationState(L) ==
    \A s \in Known(L) :
        /\ L.lin[s].retain >= s
        /\ L.lin[s].parent # 0 =>
              /\ L.lin[s].parent \in Known(L)
              /\ L.lin[L.lin[s].parent].succ = s
              /\ L.lin[L.lin[s].parent].retain >= L.lin[s].retain
        /\ L.lin[s].succ # 0 =>
              /\ L.lin[s].succ \in Known(L) /\ s \in L.revoked
              /\ L.lin[L.lin[s].succ].parent = s

(* checkBrowserSessionState, under VerifySession and AuthorizeSession.     *)
LiveSession(s) == s > expired /\ s \notin ledger.revoked
Presented(s) == s # 0 /\ s > expired

-----------------------------------------------------------------------------
(* browserEpochHash: the epoch the request carries while it is usable, or  *)
(* one minted for the response.                                            *)
EpochFor(e) == IF e # 0 /\ e \notin Clean.epochs THEN e ELSE minted + 1
Mints(t) == EpochFor(ask[t].epoch) > minted
Unrivalled(t) == ask[t].epoch = jar.epoch /\ \A u \in Tabs : ask[u].newEpoch = 0
MintFor(t) == /\ Mints(t) => minted < MaxEpochs /\ (EpochsDrift \/ Unrivalled(t))
              /\ minted' = IF Mints(t) THEN minted + 1 ELSE minted
NewEpoch(t) == IF Mints(t) THEN minted + 1 ELSE 0

(* A tab sends a request with the cookies its jar holds at that moment.    *)
Send(t, kind, f, by, from, listed) ==
    /\ ask[t].phase = "idle" /\ asked < MaxAsks
    /\ ask' = [ask EXCEPT ![t] = [NoAsk EXCEPT !.kind = kind, !.phase = "sent", !.flow = f, !.by = by,
                                  !.from = from, !.listed = listed, !.sid = jar.sid, !.epoch = jar.epoch]]
    /\ asked' = asked + 1
    /\ UNCHANGED <<ledger, past, expired, minted, flow, jar, ended>>
SendAny ==
    \E t \in Tabs :
        \/ \E f \in Flows : Send(t, "start", f, Nobody, Nobody, {})
        \/ \E f \in Flows, from \in Humans \cup {Nobody} :
              flow[f].st # "none" /\ Send(t, "prove", f, Nobody, from, {})
        \/ \E h \in Humans : Send(t, "exchange", Nobody, h, Nobody, {})
        \/ \E listed \in SUBSET {f \in Flows : flow[f].st # "none"} :
              Send(t, "logout", Nobody, Nobody, Nobody, listed)
        \/ \E f \in Flows : flow[f].st # "none" /\ Send(t, "discard", f, Nobody, Nobody, {})

Answer(t, sid, epoch) == [ask EXCEPT ![t].phase = "answered", ![t].newSid = sid, ![t].newEpoch = epoch]

(* serveStartAuthFlow: one flow per nonce; a repeated start returns it.    *)
StartAuthFlow(t) ==
    /\ ask[t].phase = "sent" /\ ask[t].kind = "start"
    /\ MintFor(t)
    /\ flow' = IF flow[ask[t].flow].st # "none" THEN flow
               ELSE [flow EXCEPT ![ask[t].flow] =
                        [NoFlow EXCEPT !.st = "open", !.epoch = EpochFor(ask[t].epoch)]]
    /\ ask' = Answer(t, 0, NewEpoch(t))
    /\ UNCHANGED <<ledger, past, expired, jar, asked, ended>>

(* advanceAuthFlow: the proof of an account either completes the flow, or  *)
(* asks for a confirmation that completes it; a completed flow repeats its *)
(* outcome within the replay window.                                       *)
Provable(f) == ~flow[f].closed /\ ~flow[f].lapsed
Proves(t, st) == ask[t].phase = "sent" /\ ask[t].kind = "prove" /\ Provable(ask[t].flow)
                 /\ flow[ask[t].flow].st = st
Proved(t, h) == [ask EXCEPT ![t].phase = "proved", ![t].by = h]
KeepsSessions == UNCHANGED <<ledger, past, expired, minted, jar, asked, ended>>

ResolveAuthProof(t) ==
    /\ Proves(t, "open")
    /\ \E h \in Humans :
          \/ /\ flow' = [flow EXCEPT ![ask[t].flow].st = "completed", ![ask[t].flow].human = h]
             /\ ask' = Proved(t, h)
          \/ /\ flow' = [flow EXCEPT ![ask[t].flow].st = "confirmation", ![ask[t].flow].human = h]
             /\ ask' = Answer(t, 0, 0)
    /\ KeepsSessions
ConfirmAuthFlow(t) ==
    /\ Proves(t, "confirmation")
    /\ flow' = [flow EXCEPT ![ask[t].flow].st = "completed"]
    /\ ask' = Proved(t, flow[ask[t].flow].human)
    /\ KeepsSessions
replayFlowCompletionTx(t) ==
    /\ Proves(t, "completed")
    /\ ask' = Proved(t, flow[ask[t].flow].human)
    /\ UNCHANGED flow /\ KeepsSessions
FlowRefuses(t) ==
    /\ ask[t].phase = "sent" /\ ask[t].kind = "prove" /\ ~Provable(ask[t].flow)
    /\ ask' = Answer(t, 0, 0)
    /\ UNCHANGED flow /\ KeepsSessions

\* serveSessionExchange: a provider token proves its account by itself.
ExchangeProved(t) ==
    /\ ask[t].phase = "sent" /\ ask[t].kind = "exchange"
    /\ ask' = [ask EXCEPT ![t].phase = "proved"]
    /\ UNCHANGED <<ledger, past, expired, minted, flow, jar, asked, ended>>

-----------------------------------------------------------------------------
(* admitBrowserSessionState, for the request r under epoch e.              *)
PresentedLive(L, r) ==
    Presented(r.sid) /\ r.sid \notin L.revoked /\ (r.sid \in Known(L) => L.lin[r.sid].succ = 0)
Authority(L, r, e) ==
    IF liveEpochSessionTip(L, e) # 0 THEN L.lin[liveEpochSessionTip(L, e)].human
    ELSE IF PresentedLive(L, r) THEN past[r.sid].human ELSE Nobody
\* Mutated: the epoch recorded on the flow is not consulted.
RefusedByRequest(L, r, e) ==
    r.flow \in L.flows \/ e \in L.epochs \/ Authority(L, r, e) \notin {Nobody, r.by, r.from}
Refused(L, r, e) ==
    \/ r.flow \in L.flows
    \/ r.flow # Nobody /\ flow[r.flow].epoch \in L.epochs
    \/ e \in L.epochs
    \/ Authority(L, r, e) \notin {Nobody, r.by, r.from}
Retired(L, r, e) ==
    (IF PresentedLive(L, r) THEN {r.sid} ELSE {})
        \cup (IF liveEpochSessionTip(L, e) \notin {0, IF Presented(r.sid) THEN r.sid ELSE 0}
              THEN {liveEpochSessionTip(L, e)} ELSE {})
ParentOf(L, r, e) ==
    IF PresentedLive(L, r) THEN r.sid
    ELSE IF Retired(L, r, e) # {} THEN liveEpochSessionTip(L, e) ELSE 0
CrossHuman(L, r, e) == Authority(L, r, e) \notin {Nobody, r.by}

admitBrowserSessionState(L, r, e, s) ==
    LET gone == Retired(L, r, e)
        up == ParentOf(L, r, e)
        M == RevokeAll(L, gone)
        line == [parent |-> up, succ |-> 0, flow |-> r.flow, epoch |-> e, human |-> r.by, retain |-> s]
    IN [M EXCEPT
          !.flows = IF CrossHuman(L, r, e) THEN @ \cup lineageFlowsOf(L, gone) ELSE @,
          !.lin = [x \in Known(L) \cup {s} |->
                     IF x = s THEN line
                     ELSE [L.lin[x] EXCEPT !.succ = IF x = up THEN s ELSE @,
                                           !.retain = IF up # 0 /\ x \in Ancestry(L, up) THEN s ELSE @]],
          !.tip = [@ EXCEPT ![e] = s]]

\* prepareSession: a fresh id that expires after all earlier ones.
NextSid == Len(past) + 1

\* CloseAuthFlows marks flows in the database; it may fail, and is not retried.
Mirror(S) == [f \in Flows |-> IF f \in S THEN [flow[f] EXCEPT !.closed = TRUE] ELSE flow[f]]

(* establishSession: under the session mutex the epoch is chosen, the      *)
(* successor registered in the ledger and only then signed; the flows a    *)
(* switch closed are marked in the database as far as that works.          *)
establishSession(t) ==
    LET r == ask[t]
        e == EpochFor(r.epoch)
        s == NextSid
        L == Clean
    IN
    /\ r.phase = "proved"
    /\ MintFor(t)
    /\ \/ /\ Refused(L, r, e)
          /\ ask' = Answer(t, 0, NewEpoch(t))
          /\ UNCHANGED <<ledger, past, flow>>
       \/ /\ ~Refused(L, r, e) /\ s <= MaxSessions
          /\ ledger' = admitBrowserSessionState(L, r, e, s)
          /\ past' = Append(past, [flow |-> r.flow, epoch |-> e, human |-> r.by,
                                   parent |-> ParentOf(L, r, e), carried |-> r.epoch])
          /\ \E mirrored \in {{}, ledger'.flows \ L.flows} :
                flow' = Mirror(mirrored)
          /\ ask' = Answer(t, s, NewEpoch(t))
    /\ UNCHANGED <<expired, jar, asked, ended>>

-----------------------------------------------------------------------------
(* closeBrowserSessionsForLogoutState                                      *)
epochReachesRetired(L, s, gone) == s # 0 /\ Descent(L, s) \cap gone # {}
LogoutEpochs(r) == ({r.epoch} \cup {flow[f].epoch : f \in r.listed}) \ {0}
LogoutLive(L, r) == Presented(r.sid) /\ r.sid \notin L.revoked
LogoutPresents(r) == {s \in {r.sid} : Presented(s)}
LogoutRetires(L, r) ==
    LET own == LogoutPresents(r)
        M == RevokeAll(L, own)
    IN own \cup (IF LogoutLive(L, r)
                 THEN {liveEpochSessionTip(M, e) : e \in LogoutEpochs(r)} \ {0} ELSE {})
LogoutCloses(L, r) ==
    LET gone == LogoutRetires(L, r)
    IN LogoutEpochs(r) \cup UNION {lineageEpochsOf(L, s) : s \in gone}
         \cup {e \in DOMAIN L.tip : epochReachesRetired(L, L.tip[e], gone)}
closeBrowserSessionsForLogoutState(L, r) ==
    LET gone == LogoutRetires(L, r)
    IN [RevokeAll(L, gone) EXCEPT !.epochs = @ \cup LogoutCloses(L, r),
                                  !.flows = @ \cup lineageFlowsOf(L, gone) \cup r.listed]

(* What a logout ends, told from history: the presented session with its   *)
(* successors of the same Human, the sessions of the jar's epoch when the  *)
(* presented one was live, and every flow that was listed, was begun in an *)
(* epoch of that lineage or issued a session of it.                        *)
Up(s) == LET up[x \in 0..MaxSessions] == IF x = 0 THEN {} ELSE {x} \cup up[past[x].parent] IN up[s]
Down(s) == {x \in 1..Len(past) : s \in Up(x)}
Kin(s) == {x \in Down(s) : \A y \in Up(x) \cap Down(s) : past[y].human = past[s].human}
LogoutEnds(r) ==
    LET line == IF Presented(r.sid) THEN Up(r.sid) \cup Kin(r.sid) ELSE {}
        epochs == ({r.epoch} \cup {past[x].epoch : x \in line}) \ {0}
    IN [sessions |-> (IF Presented(r.sid) THEN Kin(r.sid) ELSE {})
                        \cup (IF Presented(r.sid) /\ LiveSession(r.sid)
                              THEN {x \in 1..Len(past) : past[x].epoch = r.epoch} ELSE {}),
        flows |-> r.listed \cup {f \in Flows : flow[f].epoch \in epochs}
                    \cup ({past[x].flow : x \in line} \ {Nobody})]
EndNow(S, F) ==
    ended' = [sessions |-> ended.sessions \cup S,
              since |-> [f \in Flows |-> IF f \in F /\ ended.since[f] = MaxSessions
                                         THEN Len(past) ELSE ended.since[f]]]

(* serveLogout: one commit to the ledger; the database is told which flows *)
(* closed as far as that works, and the response clears the jar.           *)
Logout(t) ==
    LET r == ask[t]  L == Clean IN
    /\ r.phase = "sent" /\ r.kind = "logout"
    /\ ledger' = closeBrowserSessionsForLogoutState(L, r)
    /\ EndNow(LogoutEnds(r).sessions, LogoutEnds(r).flows)
    /\ \E mirrored \in {{}, {f \in Flows : f \in ledger'.flows \/ flow[f].epoch \in ledger'.epochs}} :
          flow' = Mirror(mirrored)
    /\ ask' = Answer(t, 0, 0)
    /\ UNCHANGED <<past, expired, minted, jar, asked>>

(* serveDiscardAuthFlow and CloseBrowserFlow: one flow and the sessions it *)
(* issued that are not retired already.                                    *)
\* Mutated: sessions already retired are revoked again, with their successors.
FlowSessionsAll(L, f) == {s \in Known(L) : L.lin[s].flow = f}
FlowSessions(L, f) == {s \in Known(L) : L.lin[s].flow = f /\ s \notin L.revoked}
CloseBrowserFlow(L, f) == [RevokeAll(L, FlowSessions(L, f)) EXCEPT !.flows = @ \cup {f}]
Discard(t) ==
    LET f == ask[t].flow IN
    /\ ask[t].phase = "sent" /\ ask[t].kind = "discard"
    /\ IF flow[f].lapsed THEN UNCHANGED <<ledger, ended>>
       ELSE /\ ledger' = CloseBrowserFlow(Clean, f)
            /\ EndNow({s \in 1..Len(past) : past[s].flow = f}, {f})
    /\ \E mirrored \in {{}, {f}} : flow' = Mirror(mirrored)
    /\ ask' = Answer(t, 0, 0)
    /\ UNCHANGED <<past, expired, minted, jar, asked>>

-----------------------------------------------------------------------------
(* The answer reaches the jar, or it is lost on the way.                   *)
Deliver(t) ==
    /\ ask[t].phase = "answered"
    /\ jar' = IF ask[t].kind = "logout" THEN [sid |-> 0, epoch |-> 0]
              ELSE [sid |-> IF ask[t].newSid # 0 THEN ask[t].newSid ELSE jar.sid,
                    epoch |-> IF ask[t].newEpoch # 0 THEN ask[t].newEpoch ELSE jar.epoch]
    /\ ask' = [ask EXCEPT ![t] = NoAsk]
    /\ UNCHANGED <<ledger, past, expired, minted, flow, asked, ended>>
Lose(t) ==
    /\ ask[t].phase \in {"proved", "answered"} /\ (EpochsDrift \/ ask[t].newEpoch = 0)
    /\ ask' = [ask EXCEPT ![t] = NoAsk]
    /\ UNCHANGED <<ledger, past, expired, minted, flow, jar, asked, ended>>

\* Time: the oldest session expires; a flow is past its expiry and replay window.
ExpireOldest ==
    /\ expired < Len(past)
    /\ expired' = expired + 1
    /\ UNCHANGED <<ledger, past, minted, flow, jar, ask, asked, ended>>
LapseFlow(f) ==
    /\ flow[f].st # "none" /\ ~flow[f].lapsed
    /\ flow' = [flow EXCEPT ![f].lapsed = TRUE]
    /\ UNCHANGED <<ledger, past, expired, minted, jar, ask, asked, ended>>

AuthNext ==
    \/ SendAny
    \/ \E t \in Tabs : \/ StartAuthFlow(t) \/ ResolveAuthProof(t) \/ ConfirmAuthFlow(t)
                       \/ replayFlowCompletionTx(t) \/ FlowRefuses(t) \/ ExchangeProved(t)
                       \/ establishSession(t) \/ Logout(t) \/ Discard(t) \/ Deliver(t) \/ Lose(t)
    \/ ExpireOldest
    \/ \E f \in Flows : LapseFlow(f)

AuthSpec == AuthInit /\ [][AuthNext]_authVars

-----------------------------------------------------------------------------
AuthTypeOK ==
    /\ expired \in 0..Len(past) /\ Len(past) <= MaxSessions
    /\ minted \in 0..MaxEpochs /\ asked \in 0..MaxAsks
    /\ jar.sid \in 0..Len(past) /\ jar.epoch \in 0..minted
    /\ Known(ledger) \subseteq 1..Len(past) /\ ledger.revoked \subseteq 1..Len(past)

(* What a logout or a discard ended stays ended: none of its sessions is   *)
(* live again, and no flow it ended issues a session afterwards, whatever  *)
(* requests were under way, lost or repeated (serveLogout's closures).     *)
EndedStaysEnded ==
    \A s \in 1..Len(past) : LiveSession(s) =>
        s \notin ended.sessions /\ (past[s].flow # Nobody => s <= ended.since[past[s].flow])

(* At most one live session per browser epoch: an admission displaces the  *)
(* jar's current session also when the request did not carry its cookie.   *)
OneLivePerEpoch ==
    \A s, u \in 1..Len(past) :
        LiveSession(s) /\ LiveSession(u) /\ past[s].epoch = past[u].epoch => s = u

(* A logout that carries only a retired cookie, and a discard, end nothing *)
(* but that cookie's own Human's succession, or that flow's sessions: a    *)
(* later deliberate choice survives stale cleanup.                         *)
StaleCleanupSpares ==
    [][\A t \in Tabs, s \in 1..Len(past) :
          LiveSession(s) /\ s \in ledger'.revoked =>
              /\ Logout(t) /\ ~LiveSession(ask[t].sid) =>
                    ask[t].sid # 0 /\ s \in Kin(ask[t].sid)
              /\ Discard(t) => past[s].flow = ask[t].flow]_authVars

(* The ledger is always readable and stays so after the cleanup with which *)
(* every mutation begins: no admission or logout is refused for good by    *)
(* the store's own validation.                                             *)
NeverWedged ==
    validateBrowserSessionRevocationState(ledger) /\ validateBrowserSessionRevocationState(Clean)

(* A session admission that carries a closed epoch is refused (the comment *)
(* on ClosedEpochs).  The code replaces the epoch instead.                 *)
ClosedEpochRefuses ==
    [][\A s \in (Len(past) + 1)..Len(past') : past'[s].carried \notin ledger.epochs]_authVars

(* Ended sessions stay ended, a browser has one live session at most, and  *)
(* the ledger that decides both is never one its own store refuses.        *)
SessionsSound == EndedStaysEnded /\ OneLivePerEpoch /\ NeverWedged
=============================================================================
