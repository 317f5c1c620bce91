----------------------------- MODULE CallSession -----------------------------
(***************************************************************************)
(* A secretary's presence in a place's call (messaging/call_sessions.go,   *)
(* call_bridge.go): sessions the secretary requests, claims under which a  *)
(* media bridge joins the room and speaks, and the ledger of what was      *)
(* said.  A claim generation <<s, e>> is session s at epoch e; the bridge  *)
(* that holds it may be slow, cut off, or superseded.  In the room its     *)
(* identity is the persona and the epoch e alone.                          *)
(***************************************************************************)
EXTENDS Integers, FiniteSets

CONSTANTS
    Visits,     \* session ids, taken in order
    MaxClaims,  \* bound: epochs of a session
    Says        \* utterance ids

ASSUME CallSessionConstantsOK ==
    Visits \subseteq Nat /\ MaxClaims \in Nat /\ Says \subseteq Nat

VARIABLES
    allowed,   \* the persona is active here and a member of the place
    visit,     \* call_sessions: status, epoch, a claim is held, it has not expired
    said,      \* call_utterances: session, session_epoch, status
    spoken,    \* how often an utterance was heard in the room
    bridge,    \* per generation: holds the claim, has a ticket, the utterance at its mouth
    inRoom,    \* generations connected to the room
    arrivals,  \* participant_joined webhooks not handled yet
    sweeps     \* sessions whose claim has not swept the room yet

callVars == <<allowed, visit, said, spoken, bridge, inRoom, arrivals, sweeps>>

CallLive == {"requested", "claimed", "active", "ending", "interrupted"}
CallOver == {"ended", "revoked", "failed"}
Pending == {"intended", "dequeued", "emitting"}
Generations == Visits \X (1 .. MaxClaims)
NoVisit == [status |-> "none", epoch |-> 0, held |-> FALSE, fresh |-> FALSE]
NoSaying == [sess |-> 0, epoch |-> 0, status |-> "none"]
NoBridge == [on |-> FALSE, ticket |-> FALSE, mouth |-> 0, heard |-> FALSE]
LiveVisits == {s \in Visits : visit[s].status \in CallLive}

\* The persona's authority here and its membership, both share-locked.
callSessionAccess == allowed

CallTypeOK ==
    /\ allowed \in BOOLEAN
    /\ visit \in [Visits -> [status : CallLive \cup CallOver \cup {"none"}, epoch : 0 .. MaxClaims,
                             held : BOOLEAN, fresh : BOOLEAN]]
    /\ said \in [Says -> [sess : Visits \cup {0}, epoch : 0 .. MaxClaims,
                 status : Pending \cup {"none", "emitted", "interrupted", "expired", "failed", "unknown"}]]
    /\ spoken \in [Says -> Nat]
    /\ inRoom \subseteq Generations /\ arrivals \subseteq Generations /\ sweeps \subseteq Visits

CallInit ==
    /\ allowed = TRUE
    /\ visit = [s \in Visits |-> NoVisit]
    /\ said = [u \in Says |-> NoSaying]
    /\ spoken = [u \in Says |-> 0]
    /\ bridge = [g \in Generations |-> NoBridge]
    /\ inRoom = {} /\ arrivals = {} /\ sweeps = {}

-----------------------------------------------------------------------------
(* The secretary: call.join, call.leave, call.say. *)

\* One live session per persona and place: a second join returns the first.
applyCallJoin(s) ==
    /\ callSessionAccess /\ LiveVisits = {}
    /\ visit[s].status = "none" /\ \A t \in Visits : t < s => visit[t].status # "none"
    /\ visit' = [visit EXCEPT ![s].status = "requested"]
    /\ UNCHANGED <<allowed, said, spoken, bridge, inRoom, arrivals, sweeps>>

\* Mutant: what nobody reported on is taken for never spoken.
UtterancesSweptAsExpired(utts, S) ==
    [u \in Says |-> IF utts[u].sess \in S /\ utts[u].status \in Pending
                    THEN [utts[u] EXCEPT !.status = "expired"] ELSE utts[u]]

\* sweepCallUtterancesInTx: speech of a session that is over.
UtterancesSwept(utts, S) ==
    [u \in Says |-> IF utts[u].sess \in S /\ utts[u].status \in Pending
                    THEN [utts[u] EXCEPT !.status = IF @ = "intended" THEN "expired" ELSE "unknown"]
                    ELSE utts[u]]

Closed(v, status) == [v EXCEPT !.status = status, !.held = FALSE, !.fresh = FALSE]

applyCallLeave(s) ==
    /\ visit[s].status \in CallLive \ {"ending"}
    /\ \/ /\ visit[s].status \in {"requested", "interrupted"}
          /\ visit' = [visit EXCEPT ![s] = Closed(@, "ended")]
          /\ said' = UtterancesSwept(said, {s})
       \/ /\ visit[s].status \in {"claimed", "active"}
          /\ visit' = [visit EXCEPT ![s].status = "ending"]
          /\ UNCHANGED said
    /\ UNCHANGED <<allowed, spoken, bridge, inRoom, arrivals, sweeps>>

\* Before the first claim speech waits with epoch 0; later it needs a live claim.
applyCallSay(s, u) ==
    /\ visit[s].status \in {"requested", "claimed", "active"}
    /\ visit[s].epoch > 0 => visit[s].fresh
    /\ said[u].status = "none" /\ \A w \in Says : w < u => said[w].status # "none"
    /\ said' = [said EXCEPT ![u] = [sess |-> s, epoch |-> visit[s].epoch, status |-> "intended"]]
    /\ UNCHANGED <<allowed, visit, spoken, bridge, inRoom, arrivals, sweeps>>

-----------------------------------------------------------------------------
(* The claim. *)

\* Time passes with no heartbeat.
ClaimExpires(s) ==
    /\ visit[s].fresh
    /\ visit' = [visit EXCEPT ![s].fresh = FALSE]
    /\ UNCHANGED <<allowed, said, spoken, bridge, inRoom, arrivals, sweeps>>

\* What is said before any claim belongs to the first; what an earlier
\* generation may have spoken is never offered again.
adoptOrSweepUtterances(utts, s, e) ==
    [u \in Says |->
        IF utts[u].sess # s \/ utts[u].status \notin Pending THEN utts[u]
        ELSE IF utts[u].epoch = 0 /\ utts[u].status = "intended" THEN [utts[u] EXCEPT !.epoch = e]
        ELSE [utts[u] EXCEPT !.status = IF @ = "intended" THEN "expired" ELSE "unknown"]]

\* Lapsed claims first: a session that was leaving is over, another waits
\* for a new claim; then each waiting session is claimed at the next epoch.
\* The room is swept after the commit and before the caller has its answer.
ClaimCallSessions ==
    LET lapsed == {s \in Visits : /\ visit[s].status \in {"claimed", "active", "ending"}
                                  /\ ~visit[s].fresh}
        v1 == [s \in Visits |->
                  IF s \notin lapsed THEN visit[s]
                  ELSE Closed(visit[s], IF visit[s].status = "ending" THEN "ended" ELSE "interrupted")]
        u1 == UtterancesSwept(said, lapsed)
        picked == {s \in Visits : /\ v1[s].status \in {"requested", "interrupted"}
                                  /\ v1[s].epoch < MaxClaims}
    IN  /\ callSessionAccess /\ (lapsed # {} \/ picked # {})
        /\ visit' = [s \in Visits |->
                        IF s \notin picked THEN v1[s]
                        ELSE [status |-> "claimed", epoch |-> v1[s].epoch + 1, held |-> TRUE, fresh |-> TRUE]]
        /\ IF picked = {} THEN said' = u1
           ELSE \E s \in picked : said' = adoptOrSweepUtterances(u1, s, v1[s].epoch + 1)
        /\ sweeps' = sweeps \cup picked
        /\ UNCHANGED <<allowed, spoken, bridge, inRoom, arrivals>>

\* Every connection of the persona belongs to an older generation.
sweepPersonaCallParticipants(s) ==
    /\ s \in sweeps /\ sweeps' = sweeps \ {s}
    /\ inRoom' = {}
    /\ bridge' = IF visit[s].epoch > 0 /\ visit[s].held
                 THEN [bridge EXCEPT ![<<s, visit[s].epoch>>].on = TRUE] ELSE bridge
    /\ UNCHANGED <<allowed, visit, said, spoken, arrivals>>

HoldsBridge(g) == /\ callSessionAccess /\ bridge[g].on
            /\ visit[g[1]].held /\ visit[g[1]].fresh /\ visit[g[1]].epoch = g[2]

CallSessionTicket(g) ==
    /\ HoldsBridge(g) /\ visit[g[1]].status \in {"claimed", "active"}
    /\ ~bridge[g].ticket /\ bridge' = [bridge EXCEPT ![g].ticket = TRUE]
    /\ UNCHANGED <<allowed, visit, said, spoken, inRoom, arrivals, sweeps>>

ReportCallSessionStatus(g, status) ==
    /\ HoldsBridge(g) /\ visit[g[1]].status \in CallLive \ {"requested"}
    /\ \/ /\ status = "active" /\ visit[g[1]].status = "claimed"
          /\ visit' = [visit EXCEPT ![g[1]].status = status] /\ UNCHANGED said
       \/ /\ status = "ending" /\ visit[g[1]].status # "ending"
          /\ visit' = [visit EXCEPT ![g[1]].status = status] /\ UNCHANGED said
       \/ /\ status \in {"ended", "failed"}
          /\ visit' = [visit EXCEPT ![g[1]] = Closed(@, status)]
          /\ said' = UtterancesSwept(said, {g[1]})
    /\ UNCHANGED <<allowed, spoken, bridge, inRoom, arrivals, sweeps>>

-----------------------------------------------------------------------------
(* The media bridge (apps/core/src/call/session.ts) and the room. *)

\* A ticket outlives its claim.  LiveKit keeps one connection per identity.
ConnectBridge(g) ==
    /\ bridge[g].ticket /\ g \notin inRoom
    /\ inRoom' = {h \in inRoom : h[2] # g[2]} \cup {g}
    /\ arrivals' = arrivals \cup {g}
    /\ bridge' = [bridge EXCEPT ![g].ticket = FALSE]
    /\ UNCHANGED <<allowed, visit, said, spoken, sweeps>>

LeaveRoom(g) ==
    /\ g \in inRoom /\ inRoom' = inRoom \ {g}
    /\ bridge' = [bridge EXCEPT ![g].on = FALSE, ![g].ticket = FALSE]
    /\ UNCHANGED <<allowed, visit, said, spoken, arrivals, sweeps>>

callUtteranceTransitions ==
    [status \in Pending |->
        CASE status = "intended" -> {"dequeued", "interrupted", "expired", "failed", "unknown"}
          [] status = "dequeued" -> {"emitting", "interrupted", "failed", "unknown"}
          [] status = "emitting" -> {"emitted", "interrupted", "failed", "unknown"}]

Accepted(g, u, status) ==
    /\ HoldsBridge(g) /\ said[u].sess = g[1] /\ said[u].epoch = g[2]
    /\ said[u].status \in Pending /\ status \in callUtteranceTransitions[said[u].status]

\* PendingCallUtterances and the first report of emit(): the bridge goes on
\* only when it hears that the utterance is its own; the answer may be lost.
DequeueUtterance(g) ==
    \E u \in Says :
        /\ bridge[g].mouth = 0 /\ said[u].status = "intended" /\ Accepted(g, u, "dequeued")
        /\ said' = [said EXCEPT ![u].status = "dequeued"]
        /\ \E answered \in BOOLEAN :
               bridge' = IF answered THEN [bridge EXCEPT ![g].mouth = u, ![g].heard = FALSE] ELSE bridge
        /\ UNCHANGED <<allowed, visit, spoken, inRoom, arrivals, sweeps>>

\* The report that speech begins is best effort: refused or not, it begins.
Speak(g) ==
    LET u == bridge[g].mouth IN
    /\ u # 0 /\ ~bridge[g].heard /\ g \in inRoom
    /\ said' = IF Accepted(g, u, "emitting") THEN [said EXCEPT ![u].status = "emitting"] ELSE said
    /\ spoken' = [spoken EXCEPT ![u] = @ + 1]
    /\ bridge' = [bridge EXCEPT ![g].heard = TRUE]
    /\ UNCHANGED <<allowed, visit, inRoom, arrivals, sweeps>>

\* The last report: emitted, interrupted by someone speaking, or failed;
\* unknown when there was no room to speak in.
ReportUtteranceDisposition(g, status) ==
    LET u == bridge[g].mouth IN
    /\ u # 0
    /\ status \in IF bridge[g].heard THEN {"emitted", "interrupted", "failed"} ELSE {"unknown"}
    /\ ~bridge[g].heard => g \notin inRoom
    /\ said' = IF Accepted(g, u, status) THEN [said EXCEPT ![u].status = status] ELSE said
    /\ bridge' = [bridge EXCEPT ![g].mouth = 0, ![g].heard = FALSE]
    /\ UNCHANGED <<allowed, visit, spoken, inRoom, arrivals, sweeps>>

-----------------------------------------------------------------------------
(* The room's webhooks, removal, and the end of the room. *)

\* Mutant: an older epoch than the live session's passes for it.
StaleUnlessOlder(g) == \A s \in LiveVisits : visit[s].epoch < g[2]

\* An arrival under an epoch that is not the live session's is removed by its identity.
Stale(g) == \A s \in LiveVisits : visit[s].epoch # g[2]

removeStaleEpochParticipant(g) ==
    /\ g \in arrivals /\ arrivals' = arrivals \ {g}
    /\ inRoom' = IF Stale(g) THEN {h \in inRoom : h[2] # g[2]} ELSE inRoom
    /\ UNCHANGED <<allowed, visit, said, spoken, bridge, sweeps>>

\* serveRemoveCallParticipant and RemoveWorkspaceParticipant: the session
\* first, then the media.  A seal (portable.Seal) leaves the media to notice.
RevokePlaceCallSessions(why) ==
    /\ LiveVisits # {} /\ allowed
    /\ allowed' = (why = "removed")
    /\ visit' = [s \in Visits |-> IF s \in LiveVisits THEN Closed(visit[s], "revoked") ELSE visit[s]]
    /\ said' = UtterancesSwept(said, LiveVisits)
    /\ inRoom' = IF why = "sealed" THEN inRoom ELSE {}
    /\ UNCHANGED <<spoken, bridge, arrivals, sweeps>>

endCallSessionsForRoom ==
    /\ LiveVisits # {}
    /\ visit' = [s \in Visits |-> IF s \in LiveVisits THEN Closed(visit[s], "ended") ELSE visit[s]]
    /\ said' = UtterancesSwept(said, LiveVisits)
    /\ inRoom' = {}
    /\ UNCHANGED <<allowed, spoken, bridge, arrivals, sweeps>>

CallNext ==
    \/ \E s \in Visits :
          \/ applyCallJoin(s) \/ applyCallLeave(s) \/ ClaimExpires(s)
          \/ sweepPersonaCallParticipants(s)
          \/ \E u \in Says : applyCallSay(s, u)
    \/ ClaimCallSessions \/ endCallSessionsForRoom
    \/ \E why \in {"removed", "membership", "sealed"} : RevokePlaceCallSessions(why)
    \/ \E g \in Generations :
          \/ CallSessionTicket(g) \/ ConnectBridge(g) \/ LeaveRoom(g)
          \/ \E status \in {"active", "ending", "ended", "failed"} : ReportCallSessionStatus(g, status)
          \/ DequeueUtterance(g) \/ Speak(g)
          \/ \E status \in {"emitted", "interrupted", "failed", "unknown"} :
                ReportUtteranceDisposition(g, status)
          \/ removeStaleEpochParticipant(g)
CallSpec == CallInit /\ [][CallNext]_callVars

-----------------------------------------------------------------------------
\* Across claims that lapse, bridges that are slow and answers that are lost,
\* no utterance is heard twice; one the ledger calls expired was never heard
\* and one it calls emitted was (call_bridge.go: "it is never replayed").
SpeechLedgerTrue ==
    \A u \in Says :
        /\ spoken[u] <= 1
        /\ said[u].status = "expired" => spoken[u] = 0
        /\ said[u].status = "emitted" => spoken[u] = 1

\* Once a claim swept the room and every arrival is handled, the persona is in
\* the room under the epoch of its live claim or not at all, whatever older
\* bridges still hold tickets (call_sessions.go: "A stale-epoch participant is
\* distinguishable from the current one").
RoomHoldsCurrentEpoch ==
    \A s \in Visits :
        visit[s].held /\ sweeps = {} /\ arrivals = {} => \A g \in inRoom : g[2] = visit[s].epoch

\* The stronger reading: what is in the room is the live claim's own bridge.
RoomHoldsCurrentBridge ==
    \A s \in Visits :
        visit[s].held /\ sweeps = {} /\ arrivals = {} => \A g \in inRoom : g = <<s, visit[s].epoch>>
=============================================================================
