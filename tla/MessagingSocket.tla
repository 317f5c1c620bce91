--------------------------- MODULE MessagingSocket ---------------------------
(***************************************************************************)
(* The messaging socket of one browser and the hub that feeds it, seen at  *)
(* one place: a thread that a Workspace member may have joined, may only   *)
(* watch while it is on screen, or may not see.  Messages are committed    *)
(* first and published afterwards, in whatever order their senders get to  *)
(* it.  The handler subscribes before it replays, and a thread is declared *)
(* open before it is replayed; a queue that is full ends the subscription. *)
(* One connection is followed at a time: subscribers share nothing.        *)
(***************************************************************************)
EXTENDS Integers, Sequences, FiniteSets

CONSTANTS
    MaxPosts,      \* bound: messages of the place
    MaxTurns,      \* bound: changes of what the viewer may see
    MaxDials,      \* bound: connections
    CatchUpLimit,  \* messages one replay reads (500 in the code)
    SendLimit,     \* frames the send queue may hold (256 in the code)
    FirstRoles     \* what the viewer may be to the place at first

ASSUME SocketAssumption ==
    CatchUpLimit \in Nat /\ SendLimit \in Nat /\ FirstRoles \subseteq {"out", "watcher", "joined"}

VARIABLES
    headSeq,        \* the place's last committed seq
    unpublished,   \* committed seqs whose sender has not published them yet
    role,          \* the viewer: out, watcher, joined
    turns,         \* changes of role so far
    session,         \* whether the browser session stands
    wire,          \* the connection: none, up, lost (the handler has not ended)
    dials,         \* connections so far
    subscribed,    \* whether the hub holds the subscriber (done is not closed)
    outbox,          \* the subscriber's queue
    openPlaceID,   \* whether this connection declared the place open
    deferred,      \* the handshake cursor kept for an open, or NoSeq
    replayed,      \* the replay high-water mark
    caughtUp,      \* the last head announced, or NoSeq
    reader,        \* where the handler's goroutine stands
    got,           \* seqs the browser received
    lastSeq,       \* the browser's cursor: the seq of the last message frame it received
    owed,          \* history: the seq above which the socket owes everything
    cut            \* history: seqs a replay left out by its limit
socketVars == <<headSeq, unpublished, role, turns, session, wire, dials, subscribed, outbox,
                openPlaceID, deferred, replayed, caughtUp, reader, got, lastSeq, owed, cut>>
storeVars == <<headSeq, unpublished, role, turns, session>>
subscriberVars == <<openPlaceID, deferred, replayed, caughtUp>>
browserVars == <<got, lastSeq>>

NoSeq == 0 - 1
Idle == [at |-> "idle", opening |-> FALSE, since |-> 0, latest |-> 0, todo |-> <<>>]
SocketInit ==
    /\ headSeq = 0 /\ unpublished = {} /\ role \in FirstRoles /\ turns = 0 /\ session = TRUE
    /\ wire = "none" /\ dials = 0 /\ subscribed = FALSE /\ outbox = <<>> /\ openPlaceID = FALSE
    /\ deferred = NoSeq /\ replayed = 0 /\ caughtUp = NoSeq /\ reader = Idle
    /\ got = {} /\ lastSeq = 0 /\ owed = NoSeq /\ cut = {}

Larger(m, n) == IF m > n THEN m ELSE n
Smaller(m, n) == IF m < n THEN m ELSE n
MessageFrame(s) == [frame |-> "event", seq |-> s]
Bound(f) == f.frame \notin {"hello_ack", "error"}

\* Frames offered to the queue: one that finds it full ends the subscription.
enqueueLossy(fs) ==
    /\ outbox' = IF subscribed /\ Len(outbox \o fs) <= SendLimit THEN outbox \o fs ELSE outbox
    /\ UNCHANGED subscribed
enqueueJSONAt(fs) ==
    /\ outbox' = IF subscribed /\ Len(outbox \o fs) <= SendLimit THEN outbox \o fs ELSE outbox
    /\ subscribed' = (subscribed /\ Len(outbox \o fs) <= SendLimit)

\* The audience of a live event, read with the event's place locked, and
\* whether it takes the viewer in.
liveAudience == [members |-> role = "joined", watchers |-> role = "watcher"]
admitsMembers(audience, watching) == audience.members
admits(audience, watching) == audience.members \/ (watching /\ audience.watchers)
\* What the viewer may expect of the live stream.
Due(r, opened) == r = "joined" \/ (r = "watcher" /\ opened)

-----------------------------------------------------------------------------
(* The place: messages, and what the viewer is to it.                      *)
AppendMessage ==
    /\ headSeq < MaxPosts /\ headSeq' = headSeq + 1 /\ unpublished' = unpublished \cup {headSeq + 1}
    /\ UNCHANGED <<role, turns, session, wire, dials, subscribed, outbox, subscriberVars, reader,
                   browserVars, owed, cut>>
publishVariants(s) ==
    /\ s \in unpublished /\ unpublished' = unpublished \ {s}
    /\ IF admits(liveAudience, openPlaceID) THEN enqueueJSONAt(<<MessageFrame(s)>>) ELSE UNCHANGED <<outbox, subscribed>>
    /\ UNCHANGED <<headSeq, role, turns, session, wire, dials, subscriberVars, reader, browserVars, owed, cut>>
\* Joined by a mention or a post, left, removed from or returned to the Workspace.
ChangeRole(r) ==
    /\ r # role /\ turns < MaxTurns /\ role' = r /\ turns' = turns + 1
    /\ owed' = IF Due(r, openPlaceID) THEN owed ELSE NoSeq
    /\ UNCHANGED <<headSeq, unpublished, session, wire, dials, subscribed, outbox, subscriberVars, reader,
                   browserVars, cut>>
\* Logout closes the sockets of the session.
CloseMessagingSession ==
    /\ session /\ session' = FALSE /\ wire' = IF wire = "up" THEN "lost" ELSE wire
    /\ UNCHANGED <<headSeq, unpublished, role, turns, dials, subscribed, outbox, subscriberVars, reader,
                   browserVars, owed, cut>>

-----------------------------------------------------------------------------
(* The handler: subscribe, acknowledge, then catch up from the cursor.     *)
ServeMessagingSocket ==
    /\ wire = "none" /\ session /\ dials < MaxDials /\ wire' = "up" /\ dials' = dials + 1
    /\ subscribed' = TRUE /\ outbox' = <<[frame |-> "hello_ack", seq |-> 0]>>
    /\ openPlaceID' = FALSE /\ deferred' = NoSeq /\ replayed' = 0 /\ caughtUp' = NoSeq
    /\ reader' = [Idle EXCEPT !.at = "hello", !.since = lastSeq]
    /\ owed' = NoSeq /\ cut' = {} /\ UNCHANGED <<storeVars, browserVars>>
\* The handler ends: it unsubscribes and gives its lease back.
removeConnection ==
    /\ wire = "lost" /\ wire' = "none" /\ subscribed' = FALSE /\ outbox' = <<>> /\ reader' = Idle
    /\ owed' = NoSeq /\ UNCHANGED <<storeVars, dials, subscriberVars, browserVars, cut>>
ConnectionDrops ==
    /\ wire = "up" /\ wire' = "lost"
    /\ UNCHANGED <<storeVars, dials, subscribed, outbox, subscriberVars, reader, browserVars, owed, cut>>

\* A place that cannot be seen is passed over, a thread only watched waits
\* for an open; the head is read here, with the viewer's part in the place.
catchUp ==
    /\ wire = "up" /\ reader.at = "hello"
    /\ \/ /\ role = "out" /\ reader' = Idle /\ UNCHANGED deferred
       \/ /\ role = "watcher" /\ ~openPlaceID /\ reader' = Idle /\ deferred' = reader.since
       \/ /\ role = "joined" \/ (role = "watcher" /\ openPlaceID)
          /\ reader' = [reader EXCEPT !.at = "replay", !.latest = headSeq]
          /\ UNCHANGED deferred
    /\ UNCHANGED <<storeVars, wire, dials, subscribed, outbox, openPlaceID, replayed, caughtUp,
                   browserVars, owed, cut>>
\* An open frame: the place is looked up, then declared open, then replayed
\* from the older of the frame's seq and a deferred cursor.
handleOpen ==
    /\ wire = "up" /\ reader.at = "idle"
    /\ IF role = "out"
       THEN enqueueJSONAt(<<[frame |-> "error", seq |-> 0]>>) /\ UNCHANGED reader
       ELSE /\ reader' = [Idle EXCEPT !.at = "found", !.opening = TRUE, !.since = lastSeq, !.latest = headSeq]
            /\ UNCHANGED <<outbox, subscribed>>
    /\ UNCHANGED <<storeVars, wire, dials, subscriberVars, browserVars, owed, cut>>
openPlace ==
    /\ wire = "up" /\ reader.at = "found" /\ openPlaceID' = TRUE /\ deferred' = NoSeq
    /\ reader' = [reader EXCEPT !.at = "replay",
                                !.since = IF deferred # NoSeq THEN Smaller(deferred, @) ELSE @]
    /\ UNCHANGED <<storeVars, wire, dials, subscribed, outbox, replayed, caughtUp, browserVars, owed, cut>>
closePlace ==
    /\ wire = "up" /\ reader.at = "idle" /\ openPlaceID /\ openPlaceID' = FALSE
    /\ owed' = IF role = "joined" THEN owed ELSE NoSeq
    /\ UNCHANGED <<storeVars, wire, dials, subscribed, outbox, deferred, replayed, caughtUp, reader, browserVars, cut>>

\* The replay reads the log, after authorising the viewer again: in the
\* handshake a refusal ends the connection, after an open only the replay.
replaySince(since) == Larger(since, replayed)
MessagesSince ==
    /\ wire = "up" /\ reader.at = "replay"
    /\ IF role = "out"
       THEN /\ reader' = Idle /\ wire' = (IF reader.opening THEN "up" ELSE "lost")
            /\ UNCHANGED <<replayed, owed, cut>>
       ELSE LET since == replaySince(reader.since)
                upto == Smaller(since + CatchUpLimit, headSeq)
            IN /\ reader' = [reader EXCEPT !.at = "sending",
                                !.todo = [i \in 1..Larger(upto - since, 0) |-> since + i]]
               /\ replayed' = since
               /\ cut' = cut \cup ((upto + 1)..headSeq)
               /\ owed' = IF owed = NoSeq /\ Due(role, openPlaceID) THEN since ELSE owed
               /\ UNCHANGED wire
    /\ UNCHANGED <<storeVars, dials, subscribed, outbox, openPlaceID, deferred, caughtUp, browserVars>>
\* One replayed frame; a refused offer ends the replay.
replayPlace ==
    /\ wire = "up" /\ reader.at = "sending" /\ reader.todo # <<>>
    /\ enqueueJSONAt(<<MessageFrame(Head(reader.todo))>>)
    /\ IF subscribed'
       THEN /\ reader' = [reader EXCEPT !.todo = Tail(@)]
            /\ replayed' = Larger(replayed, Head(reader.todo)) /\ UNCHANGED wire
       ELSE /\ reader' = Idle /\ wire' = (IF reader.opening THEN "up" ELSE "lost")
            /\ UNCHANGED replayed
    /\ UNCHANGED <<storeVars, dials, openPlaceID, deferred, caughtUp, browserVars, owed, cut>>
\* The head is announced once; an open is acknowledged after its replay.
markCaughtUp ==
    /\ wire = "up" /\ reader.at = "sending" /\ reader.todo = <<>> /\ reader' = Idle
    /\ caughtUp' = Larger(caughtUp, reader.latest)
    /\ enqueueJSONAt(
           (IF reader.latest > caughtUp THEN <<[frame |-> "caught_up", seq |-> reader.latest]>> ELSE <<>>)
        \o (IF reader.opening THEN <<[frame |-> "open_ack", seq |-> 0]>> ELSE <<>>))
    /\ UNCHANGED <<storeVars, wire, dials, openPlaceID, deferred, replayed, browserVars, owed, cut>>
\* A send frame: the message is committed, its author joins the thread, and
\* the receipt is queued before the publication.
handleSend ==
    /\ wire = "up" /\ reader.at = "idle" /\ session
    /\ IF role = "out"
       THEN enqueueJSONAt(<<[frame |-> "error", seq |-> 0]>>) /\ UNCHANGED storeVars
       ELSE /\ headSeq < MaxPosts /\ headSeq' = headSeq + 1 /\ unpublished' = unpublished \cup {headSeq + 1}
            /\ role' = "joined" /\ enqueueJSONAt(<<[frame |-> "receipt", seq |-> headSeq + 1]>>)
            /\ UNCHANGED <<turns, session>>
    /\ UNCHANGED <<wire, dials, subscriberVars, reader, browserVars, owed, cut>>

-----------------------------------------------------------------------------
(* The write pump: every frame is authorised again as it is written.       *)
authorizeWrite(f) == session /\ (Bound(f) => role # "out")
writePump ==
    /\ wire = "up" /\ outbox # <<>> /\ outbox' = Tail(outbox)
    /\ IF authorizeWrite(Head(outbox))
       THEN /\ got' = IF Head(outbox).frame = "event" THEN got \cup {Head(outbox).seq} ELSE got
            /\ lastSeq' = IF Head(outbox).frame = "event" THEN Head(outbox).seq ELSE lastSeq
            /\ UNCHANGED wire
       ELSE wire' = "lost" /\ UNCHANGED browserVars
    /\ UNCHANGED <<storeVars, dials, subscribed, subscriberVars, reader, owed, cut>>
\* A closed subscription, which the pump may notice before the queue is empty.
writePumpDone ==
    /\ wire = "up" /\ ~subscribed /\ wire' = "lost"
    /\ UNCHANGED <<storeVars, dials, subscribed, outbox, subscriberVars, reader, browserVars, owed, cut>>

SocketNext ==
    \/ AppendMessage \/ CloseMessagingSession \/ ServeMessagingSocket \/ removeConnection \/ ConnectionDrops
    \/ \E s \in unpublished : publishVariants(s)
    \/ \E r \in {"out", "watcher", "joined"} : ChangeRole(r)
    \/ catchUp \/ handleOpen \/ openPlace \/ closePlace \/ MessagesSince \/ replayPlace
    \/ markCaughtUp \/ handleSend \/ writePump \/ writePumpDone
SocketSpec == SocketInit /\ [][SocketNext]_socketVars

-----------------------------------------------------------------------------
Coming == got \cup unpublished
          \cup {outbox[i].seq : i \in {j \in DOMAIN outbox : outbox[j].frame = "event"}}
          \cup {reader.todo[i] : i \in DOMAIN reader.todo}
InHand == Coming \cup cut
\* Replay and live delivery overlap and leave no gap: as long as the hub
\* keeps the subscriber of a connected viewer who has joined the thread or
\* has it open, every message after the seq its replay started from was
\* received, is queued, is still to be replayed or published, or was left to
\* the history by the replay's limit.
NothingMissed == (wire = "up" /\ subscribed /\ owed # NoSeq)
    => \A s \in (owed + 1)..headSeq : s \in InHand

\* What the header of the socket server says of a reconnecting client: a
\* dropped connection loses nothing.  It does not hold.
ReconnectLosesNothing == (wire = "up" /\ subscribed /\ owed # NoSeq)
    => \A s \in 1..headSeq : s \in InHand
\* What the limit's comment says: a client the replay left behind sees the
\* head beyond it.  It does not hold.
GapIsAnnounced == (wire = "up" /\ subscribed /\ reader.at = "sending" /\ reader.todo = <<>>)
    => (cut \ Coming # {} => reader.latest > replayed)
=============================================================================
