---------------------------- MODULE CallRegistry ----------------------------
(***************************************************************************)
(* The volatile roster of one place's call (messaging/call.go): what the   *)
(* API believes about a LiveKit room, folded from webhooks and rebuilt     *)
(* once after a restart from RoomService listings.  LiveKit is external:   *)
(* rooms are generations 1, 2, ...; a participant has several connections, *)
(* each with a SID of its own.  Webhooks arrive in the order they were     *)
(* sent; a delivered one may be repeated later.                            *)
(***************************************************************************)
EXTENDS Integers, Sequences, FiniteSets

CONSTANTS
    Conns,         \* connections of one participant
    MaxRooms,      \* bound: room generations
    MaxHooks,      \* bound: the room rests while so many webhooks are under way
    MaxRepeats,    \* bound: repeated webhooks and API restarts
    CallPerils     \* what else may happen: see CallPerilNames

\* unseen: a webhook of a room the registry does not hold arrives while that
\* room is listed; forgot: a webhook is repeated that came before a restart,
\* or before the registry held its room;
\* behind: a room is listed before its predecessor's webhooks arrived.
CallPerilNames == {"unseen", "forgot", "behind"}

ASSUME CallRegistryConstantsOK ==
    /\ IsFiniteSet(Conns) /\ MaxRooms \in Nat /\ MaxHooks \in Nat /\ MaxRepeats \in Nat
    /\ CallPerils \subseteq CallPerilNames

VARIABLES
    livekit,  \* the room: its generation (0: none), its generations so far,
              \* who ever connected, who is connected, who shares a screen
    hooks,    \* webhooks not delivered yet, oldest first
    old,      \* webhooks delivered that may be repeated
    repeats,  \* repeats and restarts so far
    roster,   \* CallRegistry: sid, open, connections, share, pending share,
              \* finished SIDs, tombstoned connections, sequence
    rebuild   \* rebuildRegistry: step, listed SID, listed connections, sequences, attempt

registryVars == <<livekit, hooks, old, repeats, roster, rebuild>>

Attempts == 3    \* callSnapshotAttempts
Blank == [sid |-> 0, open |-> FALSE, conns |-> {}, share |-> FALSE,
          pending |-> "none", finished |-> {}, left |-> {}, seq |-> 0]
NoRebuild == [step |-> "idle", sid |-> 0, conns |-> {}, share |-> FALSE,
              start |-> 0, seq |-> 0, attempt |-> 0]
Hook(type, c) == [type |-> type, sid |-> livekit.sid, conn |-> c]
HookTypes == {"room_started", "room_finished", "participant_joined",
              "participant_left", "track_published", "track_unpublished"}

RegistryTypeOK ==
    /\ livekit.sid \in 0 .. MaxRooms /\ livekit.rooms \in 0 .. MaxRooms
    /\ livekit.sharing \subseteq livekit.here /\ livekit.here \subseteq livekit.known
    /\ \A i \in DOMAIN hooks : hooks[i].type \in HookTypes
    /\ roster.sid \in 0 .. MaxRooms /\ roster.open \in BOOLEAN
    /\ roster.conns \subseteq Conns /\ roster.left \subseteq Conns
    /\ roster.finished \subseteq 1 .. MaxRooms
    /\ rebuild.step \in {"idle", "list", "check", "done"}

RegistryInit ==
    /\ livekit = [sid |-> 0, rooms |-> 0, known |-> {}, here |-> {}, sharing |-> {}]
    /\ hooks = <<>> /\ old = {} /\ repeats = 0
    /\ roster = Blank /\ rebuild = NoRebuild

-----------------------------------------------------------------------------
(* LiveKit (external). *)

Rested == Len(hooks) < MaxHooks

RoomStarts ==
    /\ Rested /\ livekit.sid = 0 /\ livekit.rooms < MaxRooms
    /\ livekit' = [livekit EXCEPT !.sid = livekit.rooms + 1, !.rooms = @ + 1]
    /\ hooks' = Append(hooks, [Hook("room_started", 0) EXCEPT !.sid = livekit.rooms + 1])
    /\ UNCHANGED <<old, repeats, roster, rebuild>>

Connects(c) ==
    /\ Rested /\ livekit.sid # 0 /\ c \notin livekit.known
    /\ livekit' = [livekit EXCEPT !.known = @ \cup {c}, !.here = @ \cup {c}]
    /\ hooks' = Append(hooks, Hook("participant_joined", c))
    /\ UNCHANGED <<old, repeats, roster, rebuild>>

\* A screen track is published by one connection of the participant at a time.
Shares(c) ==
    /\ Rested /\ c \in livekit.here /\ livekit.sharing = {}
    /\ livekit' = [livekit EXCEPT !.sharing = {c}]
    /\ hooks' = Append(hooks, Hook("track_published", c))
    /\ UNCHANGED <<old, repeats, roster, rebuild>>

Gone(c) == [livekit EXCEPT !.here = @ \ {c}, !.sharing = @ \ {c}]
GoneHooks(c) ==
    hooks \o (IF c \in livekit.sharing THEN <<Hook("track_unpublished", c)>> ELSE <<>>)
          \o <<Hook("participant_left", c)>>

Disconnects(c) ==
    /\ Rested /\ c \in livekit.here
    /\ livekit' = Gone(c) /\ hooks' = GoneHooks(c)
    /\ UNCHANGED <<old, repeats, roster, rebuild>>

RoomFinishes ==
    /\ Rested /\ livekit.sid # 0 /\ livekit.here = {}
    /\ livekit' = [livekit EXCEPT !.sid = 0]
    /\ hooks' = Append(hooks, Hook("room_finished", 0))
    /\ UNCHANGED <<old, repeats, roster, rebuild>>

-----------------------------------------------------------------------------
(* CallRegistry: what each webhook does to the roster. *)

Changed(r) == [r EXCEPT !.seq = @ + 1]
activeSID(r, sid) == r.open /\ r.sid = sid

openRoom(r, h) ==
    IF h.sid \in r.finished \/ activeSID(r, h.sid) THEN r
    ELSE Changed([r EXCEPT !.sid = h.sid, !.open = TRUE, !.conns = {}, !.share = FALSE,
                           !.pending = "none", !.left = {},
                           !.finished = IF r.sid \notin {0, h.sid} THEN @ \cup {r.sid} ELSE @])

closeRoom(r, h) ==
    IF r.sid \notin {0, h.sid} \/ h.sid \in r.finished THEN r
    ELSE Changed([r EXCEPT !.sid = h.sid, !.open = FALSE, !.conns = {}, !.share = FALSE,
                           !.pending = "none", !.left = {}, !.finished = @ \cup {h.sid}])

\* A connection's join is ignored once its leave was seen; a participant's
\* first connection takes the screen share its track announced before it.
join(r, h) ==
    IF ~activeSID(r, h.sid) \/ h.conn \in r.left \cup r.conns THEN r
    ELSE Changed([r EXCEPT !.conns = @ \cup {h.conn},
                           !.share = IF r.conns = {} THEN r.pending = "on" ELSE @,
                           !.pending = IF r.conns = {} THEN "none" ELSE @])

\* Mutant: a leave leaves no tombstone.
leaveUnmarked(r, h) ==
    IF ~activeSID(r, h.sid) THEN r
    ELSE Changed([r EXCEPT !.conns = @ \ {h.conn}, !.share = @ /\ r.conns \ {h.conn} # {}])

\* The leave names its connection; the entry goes with its last connection.
leave(r, h) ==
    IF ~activeSID(r, h.sid) THEN r
    ELSE Changed([r EXCEPT !.left = @ \cup {h.conn}, !.conns = @ \ {h.conn},
                           !.share = @ /\ r.conns \ {h.conn} # {}])

setScreenShare(r, h) ==
    LET on == h.type = "track_published"
        want == IF on THEN "on" ELSE "off"
    IN  IF ~activeSID(r, h.sid) THEN r
        ELSE IF r.conns # {}
        THEN IF r.share = on THEN r ELSE Changed([r EXCEPT !.share = on])
        ELSE IF r.pending = want THEN r ELSE Changed([r EXCEPT !.pending = want])

applyWebhook(r, h) ==
    CASE h.type = "room_started" -> openRoom(r, h)
      [] h.type = "room_finished" -> closeRoom(r, h)
      [] h.type = "participant_joined" -> join(r, h)
      [] h.type = "participant_left" -> leave(r, h)
      [] h.type \in {"track_published", "track_unpublished"} -> setScreenShare(r, h)

\* A webhook the registry drops unseen while the room is being listed: the
\* sequence does not move, so the listing is not retried (peril unseen).
Unseen(h) ==
    /\ rebuild.step \in {"list", "check"}
    /\ ~activeSID(roster, h.sid) /\ h.type \notin {"room_started", "room_finished"}

\* LiveKit repeats a webhook it has no answer for.  Nothing tells a repeated
\* track event from a new one, so those are left out.
Repeatable(h) ==
    /\ h.type \notin {"track_published", "track_unpublished"}
    /\ "forgot" \in CallPerils \/ h.conn = 0 \/ activeSID(roster, h.sid)

serveWebhook ==
    /\ hooks # <<>>
    /\ LET h == Head(hooks) IN
        /\ Unseen(h) => "unseen" \in CallPerils
        /\ roster' = applyWebhook(roster, h)
        /\ old' = IF Repeatable(h) THEN old \cup {h} ELSE old
    /\ hooks' = Tail(hooks)
    /\ UNCHANGED <<livekit, repeats, rebuild>>

RepeatedWebhook(h) ==
    /\ h \in old /\ repeats < MaxRepeats
    /\ repeats' = repeats + 1
    /\ roster' = applyWebhook(roster, h)
    /\ UNCHANGED <<livekit, hooks, old, rebuild>>

\* A member is removed: LiveKit first, then the roster; the webhook follows.
serveRemoveCallParticipant(c) ==
    /\ Rested /\ c \in livekit.here
    /\ livekit' = Gone(c) /\ hooks' = GoneHooks(c)
    /\ roster' = leave(roster, [type |-> "participant_left", sid |-> roster.sid, conn |-> c])
    /\ UNCHANGED <<old, repeats, rebuild>>

-----------------------------------------------------------------------------
(* The API restarts; its first read of call state rebuilds the registry. *)

RestartAPI ==
    /\ repeats < MaxRepeats /\ repeats' = repeats + 1
    /\ roster' = Blank /\ rebuild' = NoRebuild
    /\ old' = IF "forgot" \in CallPerils THEN old ELSE {}
    /\ UNCHANGED <<livekit, hooks>>

\* snapshotSequence is read before ListRooms.
rebuildRegistry ==
    /\ rebuild.step = "idle"
    /\ "behind" \in CallPerils \/ \A i \in DOMAIN hooks : hooks[i].sid = livekit.rooms
    /\ rebuild' = [NoRebuild EXCEPT !.step = "list", !.sid = livekit.sid, !.start = roster.seq]
    /\ UNCHANGED <<livekit, hooks, old, repeats, roster>>

\* One listing of the room's participants; a room not listed has none.
snapshotRoom ==
    /\ rebuild.step = "list"
    /\ rebuild' = [rebuild EXCEPT !.step = "check", !.seq = roster.seq,
                                  !.conns = IF rebuild.sid = 0 THEN {} ELSE livekit.here,
                                  !.share = rebuild.sid # 0 /\ livekit.sharing # {}]
    /\ UNCHANGED <<livekit, hooks, old, repeats, roster>>

Raced == rebuild.sid # 0 /\ roster.seq # rebuild.seq

Relist ==
    /\ rebuild.step = "check" /\ Raced /\ rebuild.attempt < Attempts - 1
    /\ rebuild' = [rebuild EXCEPT !.step = "list", !.attempt = @ + 1]
    /\ UNCHANGED <<livekit, hooks, old, repeats, roster>>

\* The listing is dropped for a finished generation, and gives way to the
\* registry's room of another generation or with a later webhook.
Snapshotted ==
    LET r == roster
        listed == rebuild.sid \notin r.finished \cup {0}
        newer == r.seq > rebuild.seq \/ (r.open /\ r.sid # rebuild.sid)
    IN  IF listed /\ ~newer
        THEN [r EXCEPT !.sid = rebuild.sid, !.open = TRUE,
                       !.conns = rebuild.conns, !.share = rebuild.share]
        ELSE IF listed \/ r.seq > rebuild.start THEN r
        ELSE [r EXCEPT !.open = FALSE, !.conns = {}, !.share = FALSE]

replaceSnapshot ==
    /\ rebuild.step = "check" /\ (Raced => rebuild.attempt = Attempts - 1)
    /\ roster' = Snapshotted
    /\ rebuild' = [NoRebuild EXCEPT !.step = "done"]
    /\ UNCHANGED <<livekit, hooks, old, repeats>>

RegistryNext ==
    \/ RoomStarts \/ RoomFinishes \/ serveWebhook \/ RestartAPI
    \/ rebuildRegistry \/ snapshotRoom \/ Relist \/ replaceSnapshot
    \/ \E c \in Conns : Connects(c) \/ Shares(c) \/ Disconnects(c) \/ serveRemoveCallParticipant(c)
    \/ \E h \in old : RepeatedWebhook(h)

-----------------------------------------------------------------------------
\* Once the registry was rebuilt and every webhook is delivered, the roster is
\* the room: the same generation, exactly the live connections, and whether
\* the participant shares a screen (call.go: the registry against webhooks
\* that are repeated, snapshots they race, and connections that come back).
RosterIsTheRoom ==
    hooks = <<>> /\ rebuild.step = "done" =>
        /\ roster.open <=> livekit.sid # 0
        /\ roster.open => /\ roster.sid = livekit.sid
                          /\ roster.conns = livekit.here
                          /\ roster.share <=> livekit.sharing # {}
=============================================================================
