---------------------------- MODULE BrowserSocket ----------------------------
(***************************************************************************)
(* The sockets one browser session holds open on the API: direct chat (a   *)
(* durable log replayed and followed, live-only deltas, commands with their *)
(* acceptance) and a terminal attach.  Every effect of a chat socket runs  *)
(* under the session's shared lease and the lifecycle fence's read permit; *)
(* logout takes the lease exclusively, then closes the sockets it finds.   *)
(* Each socket has an event pump and a read pump sharing one write mutex.  *)
(***************************************************************************)
EXTENDS Integers, Sequences, FiniteSets

CONSTANTS
    Chats,        \* direct-chat sockets that may be opened
    Attaches,     \* terminal attach sockets that may be opened
    MaxLog,       \* bound: durable events
    MaxDeltas,    \* bound: live-only events published
    QueueLimit,   \* live-only events a socket's queue may hold
    Cmds          \* commands the browser may send, identified by numbers from 1
ASSUME SocketsAssumption ==
    MaxLog \in Nat /\ "nobody" \notin Chats /\ Cmds \subseteq Nat \ {0}

VARIABLES
    logged,    \* the durable event log: the command an event answers, or 0
    deltas,    \* live-only events published so far
    login,     \* the session: live, ended, swept (its sockets were closed)
    granted,   \* whether the direct-chat and terminal authority still stands
    leased,    \* sockets inside an operation under the lease
    sock,      \* the chat sockets
    attach,    \* the terminal sockets: none, open, refused (waiting for the peer), gone
    sentBy,    \* the socket that got a command appended first
    typed,     \* terminal inputs submitted, and the last login they were submitted under
    draining   \* whether the server is shutting down
sockVars == <<logged, deltas, login, granted, leased, sock, attach, sentBy, typed, draining>>

NoSock == [at |-> "none", next |-> 0, upto |-> 0, queue |-> <<>>, subscribed |-> FALSE,
           batch |-> <<>>, owing |-> 0, fresh |-> FALSE, told |-> {}]
SockInit ==
    /\ logged = <<>> /\ deltas = 0 /\ login = "live" /\ granted = TRUE /\ leased = {}
    /\ sock = [c \in Chats |-> NoSock] /\ attach = [a \in Attaches |-> "none"]
    /\ sentBy = [k \in Cmds |-> "nobody"] /\ typed = "none" /\ draining = FALSE

\* A session ends, and authority changes, only when no operation is inside.
LeaseFreeAlways == TRUE
LeaseFree == leased = {}
authorizeBrowserOperation == login = "live" /\ granted
Connected(c) == sock[c].at \notin {"none", "upgrading", "closed"}
Moves(c, at) == sock' = [sock EXCEPT ![c].at = at]
Closes(c) == sock' = [sock EXCEPT ![c] = [NoSock EXCEPT !.at = "closed"]]
WriteFree(c) == sock[c].owing = 0
restOfSocket == <<logged, deltas, login, granted, attach, sentBy, typed, draining>>

-----------------------------------------------------------------------------
(* Opening a direct-chat socket: upgraded and registered under one lease.  *)
ServeHTTP(c) ==
    /\ sock[c].at \in {"none", "closed"} /\ authorizeBrowserOperation
    /\ Moves(c, "upgrading") /\ leased' = leased \cup {c} /\ UNCHANGED restOfSocket
addConnection(c) ==
    /\ sock[c].at = "upgrading" /\ leased' = leased \ {c}
    /\ IF draining THEN Closes(c) ELSE Moves(c, "hello")
    /\ UNCHANGED restOfSocket
\* The hello names the last event the browser has; then the queue of live
\* events is joined before the log is read.
SubscribeBrowserVolatile(c, n) ==
    /\ sock[c].at = "hello"
    /\ IF authorizeBrowserOperation
       THEN sock' = [sock EXCEPT ![c].at = "replay", ![c].next = n, ![c].upto = n,
                                 ![c].subscribed = TRUE]
       ELSE Closes(c)
    /\ UNCHANGED <<leased, restOfSocket>>

-----------------------------------------------------------------------------
(* The event pump.                                                         *)
\* Reading the log: the suffix there is now.  A cursor ahead of the log ends
\* the socket.
ReadsLog == {"replay", "loop", "rescan"}
Drains(at) == CASE at = "replay" -> "replaying" [] at = "loop" -> "looping" [] at = "rescan" -> "rescanning"
EventCatchUp(c) ==
    /\ sock[c].at \in ReadsLog
    /\ IF sock[c].next > Len(logged) THEN Closes(c)
       ELSE sock' = [sock EXCEPT ![c].upto = Len(logged), ![c].at = Drains(sock[c].at)]
    /\ UNCHANGED <<leased, restOfSocket>>
\* One durable frame, under the write mutex and the lease.
WriteDurable(c) ==
    /\ sock[c].at \in {"replaying", "looping", "rescanning"} /\ sock[c].next < sock[c].upto
    /\ WriteFree(c)
    /\ IF authorizeBrowserOperation
       THEN sock' = [sock EXCEPT ![c].next = @ + 1,
                                 ![c].told = IF logged[sock[c].next + 1] = 0 THEN @
                                             ELSE @ \cup {logged[sock[c].next + 1]}]
       ELSE Closes(c)
    /\ UNCHANGED <<leased, restOfSocket>>
After(at) == CASE at = "replaying" -> "status" [] at = "looping" -> "select" [] at = "rescanning" -> "emit"
CaughtUp(c) ==
    /\ sock[c].at \in {"replaying", "looping", "rescanning"} /\ sock[c].next = sock[c].upto
    /\ Moves(c, After(sock[c].at)) /\ UNCHANGED <<leased, restOfSocket>>
\* The status frame opens the read pump.
WriteStatus(c) ==
    /\ sock[c].at = "status"
    /\ IF authorizeBrowserOperation THEN Moves(c, "loop") ELSE Closes(c)
    /\ UNCHANGED <<leased, restOfSocket>>
\* A batch was taken: the log is read again before any of it is written.
TakesBatchAtOnce(c) ==
    /\ sock[c].at = "select" /\ sock[c].queue # <<>>
    /\ sock' = [sock EXCEPT ![c].batch = sock[c].queue, ![c].queue = <<>>, ![c].at = "emit"]
    /\ UNCHANGED <<leased, restOfSocket>>
TakesBatch(c) ==
    /\ sock[c].at = "select" /\ sock[c].queue # <<>>
    /\ sock' = [sock EXCEPT ![c].batch = sock[c].queue, ![c].queue = <<>>, ![c].at = "rescan"]
    /\ UNCHANGED <<leased, restOfSocket>>
\* The queue overflowed and was closed.
QueueExhausted(c) ==
    /\ sock[c].at = "select" /\ sock[c].queue = <<>> /\ ~sock[c].subscribed
    /\ Closes(c) /\ UNCHANGED <<leased, restOfSocket>>
WriteVolatile(c) ==
    /\ sock[c].at = "emit" /\ WriteFree(c)
    /\ IF sock[c].batch = <<>> THEN Moves(c, "loop")
       ELSE IF authorizeBrowserOperation THEN sock' = [sock EXCEPT ![c].batch = Tail(@)]
       ELSE Closes(c)
    /\ UNCHANGED <<leased, restOfSocket>>
\* The poll tick turns the loop; the authorization tick may end the socket.
PumpTicks(c) ==
    /\ sock[c].at = "select"
    /\ IF authorizeBrowserOperation THEN Moves(c, "loop") ELSE Closes(c)
    /\ UNCHANGED <<leased, restOfSocket>>

-----------------------------------------------------------------------------
(* The read pump: a command and its acceptance are one effect, under the   *)
(* write mutex and the lease.                                              *)
ReadOpen(c) == sock[c].at \in {"loop", "looping", "select", "rescan", "rescanning", "emit"}
AppendCommand(c, k) ==
    /\ ReadOpen(c) /\ WriteFree(c) /\ authorizeBrowserOperation
    /\ sentBy' = [sentBy EXCEPT ![k] = IF @ = "nobody" THEN c ELSE @]
    /\ sock' = [sock EXCEPT ![c].owing = k, ![c].fresh = sentBy[k] = "nobody"]
    /\ leased' = leased \cup {c}
    /\ UNCHANGED <<logged, deltas, login, granted, attach, typed, draining>>
WriteAccepted(c) ==
    /\ Connected(c) /\ sock[c].owing # 0
    /\ sock' = [sock EXCEPT ![c].owing = 0] /\ leased' = leased \ {c}
    /\ UNCHANGED restOfSocket
\* A frame that arrives when the authority is gone ends the socket; one that
\* the validator, the state check or the appender refuses is answered with a
\* rejection and changes nothing.
ReadRefused(c) ==
    /\ ReadOpen(c) /\ WriteFree(c) /\ ~authorizeBrowserOperation
    /\ Closes(c) /\ UNCHANGED <<leased, restOfSocket>>
\* The peer goes, or a write misses its deadline, in the middle of anything.
PeerGone(c) ==
    /\ Connected(c) /\ Closes(c) /\ leased' = leased \ {c} /\ UNCHANGED restOfSocket

-----------------------------------------------------------------------------
(* What the sockets follow.                                                *)
AppendProjectedEvent(k) ==
    /\ k # 0 => sentBy[k] # "nobody"
    /\ Len(logged) < MaxLog /\ logged' = Append(logged, k)
    /\ UNCHANGED <<deltas, login, granted, leased, sock, attach, sentBy, typed, draining>>
\* A queue that is full loses its socket; a delta may merge into the one before.
Queued(s, d, merges) ==
    IF ~s.subscribed THEN s
    ELSE IF merges /\ s.queue # <<>> THEN [s EXCEPT !.queue[Len(s.queue)] = d]
    ELSE IF Len(s.queue) = QueueLimit THEN [s EXCEPT !.subscribed = FALSE, !.queue = <<>>]
    ELSE [s EXCEPT !.queue = Append(@, d)]
PublishVolatile(merges) ==
    /\ deltas < MaxDeltas /\ deltas' = deltas + 1
    /\ sock' = [c \in Chats |-> Queued(sock[c], Len(logged), merges)]
    /\ UNCHANGED <<logged, login, granted, leased, attach, sentBy, typed, draining>>

-----------------------------------------------------------------------------
(* Logout, a change of authority, shutdown.                                *)
RevokeBrowserSession ==
    /\ login = "live" /\ LeaseFree /\ login' = "ended"
    /\ UNCHANGED <<logged, deltas, granted, leased, sock, attach, sentBy, typed, draining>>
\* Only registered sockets are found: the chat sockets, not the attaches.
CloseBrowserSession ==
    /\ login = "ended" /\ login' = "swept"
    /\ sock' = [c \in Chats |-> IF Connected(c) THEN [NoSock EXCEPT !.at = "closed"] ELSE sock[c]]
    /\ leased' = {c \in leased : ~Connected(c)}
    /\ UNCHANGED <<logged, deltas, granted, attach, sentBy, typed, draining>>
AuthorityEnds ==
    /\ granted /\ LeaseFree /\ granted' = FALSE
    /\ UNCHANGED <<logged, deltas, login, leased, sock, attach, sentBy, typed, draining>>
ShutdownBrowserConnections ==
    /\ ~draining /\ draining' = TRUE
    /\ sock' = [c \in Chats |-> IF Connected(c) THEN [NoSock EXCEPT !.at = "closed"] ELSE sock[c]]
    /\ leased' = {c \in leased : ~Connected(c)}
    /\ UNCHANGED <<logged, deltas, login, granted, attach, sentBy, typed>>

-----------------------------------------------------------------------------
(* The terminal attach.                                                    *)
serveTerminalWS(a) ==
    /\ attach[a] = "none" /\ authorizeBrowserOperation
    /\ attach' = [attach EXCEPT ![a] = "open"]
    /\ UNCHANGED <<logged, deltas, login, granted, leased, sock, sentBy, typed, draining>>
\* Each input is authorized by itself, also while the socket waits to close.
terminalWSInputUnchecked(a) ==
    /\ attach[a] \in {"open", "refused"}
    /\ typed' = login
    /\ UNCHANGED <<logged, deltas, login, granted, leased, sock, attach, sentBy, draining>>
terminalWSInput(a) ==
    /\ attach[a] \in {"open", "refused"} /\ authorizeBrowserOperation
    /\ typed' = login
    /\ UNCHANGED <<logged, deltas, login, granted, leased, sock, attach, sentBy, draining>>
\* The periodic recheck: once refused nothing more is sent, and the socket
\* is kept until its peer closes it.
TerminalRecheck(a) ==
    /\ attach[a] = "open" /\ ~authorizeBrowserOperation
    /\ attach' = [attach EXCEPT ![a] = "refused"]
    /\ UNCHANGED <<logged, deltas, login, granted, leased, sock, sentBy, typed, draining>>
TerminalPeerGone(a) ==
    /\ attach[a] \in {"open", "refused"} /\ attach' = [attach EXCEPT ![a] = "gone"]
    /\ UNCHANGED <<logged, deltas, login, granted, leased, sock, sentBy, typed, draining>>

SockNext ==
    \/ \E c \in Chats :
           \/ ServeHTTP(c) \/ addConnection(c)
           \/ \E n \in 0..MaxLog : SubscribeBrowserVolatile(c, n)
           \/ EventCatchUp(c) \/ WriteDurable(c) \/ CaughtUp(c) \/ WriteStatus(c)
           \/ TakesBatch(c) \/ QueueExhausted(c) \/ WriteVolatile(c) \/ PumpTicks(c)
           \/ (\E k \in Cmds : AppendCommand(c, k)) \/ WriteAccepted(c) \/ ReadRefused(c) \/ PeerGone(c)
    \/ \E k \in Cmds \cup {0} : AppendProjectedEvent(k)
    \/ \E merges \in BOOLEAN : PublishVolatile(merges)
    \/ RevokeBrowserSession \/ CloseBrowserSession \/ AuthorityEnds \/ ShutdownBrowserConnections
    \/ \E a \in Attaches : serveTerminalWS(a) \/ terminalWSInput(a) \/ TerminalRecheck(a) \/ TerminalPeerGone(a)
SockSpec == SockInit /\ [][SockNext]_sockVars

-----------------------------------------------------------------------------
(***************************************************************************)
(* SocketOrder: a live-only event is never written before a durable event  *)
(* that was committed before it was published (browserEventPump reads the  *)
(* log again for each batch), and a new command's acceptance is written on *)
(* its socket before any event that answers the command.                   *)
(***************************************************************************)
SocketOrder ==
    \A c \in Chats :
        /\ sock[c].at = "emit" => \A i \in DOMAIN sock[c].batch : sock[c].batch[i] <= sock[c].next
        /\ sock[c].owing # 0 /\ sock[c].fresh => sock[c].owing \notin sock[c].told
(***************************************************************************)
(* SocketsEnd: once logout has closed the session's sockets no chat socket *)
(* of it is open or being opened; an operation inside its lease never sees *)
(* the session end; after a shutdown began no chat socket is left or comes *)
(* in; and no terminal input was submitted for a session that had ended.   *)
(***************************************************************************)
SocketsEnd ==
    /\ login = "swept" \/ draining => \A c \in Chats : ~Connected(c)
    /\ leased # {} => login = "live" /\ granted
    /\ typed \in {"none", "live"}

(***************************************************************************)
(* SocketsSound: sockets tell things in order, and end with their session. *)
(***************************************************************************)
SocketsSound == SocketOrder /\ SocketsEnd
=============================================================================
