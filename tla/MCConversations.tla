-------------------------- MODULE MCConversations ---------------------------
(* Model checking of the conversations: direct chat (two processes overlap *)
(* on a message and the decision it asks for; one process meets a fault    *)
(* while a command is sent twice, or is not served), its sockets, threads  *)
(* and what a secretary hears of them.  A behaviour follows one of them.   *)
EXTENDS DirectChat, BrowserSocket, MessagingSocket, AgentAttention

MCSends == {<<1, 1>>, <<1, 2>>, <<2, 1>>, <<2, 2>>, <<3, 1>>}
AtRest == [sends |-> {}, overlap |-> FALSE, faults |-> 0, moves |-> 0]
MCChatScenes ==
    { [sends |-> {<<1, 1>>, <<2, 1>>}, overlap |-> TRUE, faults |-> 0, moves |-> 0],
      [sends |-> {<<1, 1>>, <<1, 2>>}, overlap |-> TRUE, faults |-> 0, moves |-> 0],
      [sends |-> {<<1, 1>>, <<2, 1>>, <<2, 2>>}, overlap |-> FALSE, faults |-> 1,
                    moves |-> 1],
      [sends |-> {<<1, 1>>, <<3, 1>>}, overlap |-> FALSE, faults |-> 1, moves |-> 1],
      AtRest }

VARIABLE follows   \* the component this behaviour follows

ConversationsInit ==
    /\ follows \in {"chat", "socket", "thread", "attention"}
    /\ ChatInit /\ SockInit /\ SocketInit
    /\ AttentionInit
    /\ (follows = "chat") <=> \E s \in Sends : send[s] = "new"
    /\ follows # "thread" => role = "out"

ConversationsNext ==
    /\ UNCHANGED follows
    /\ \/ follows = "chat" /\ ChatNext
          /\ UNCHANGED <<sockVars, socketVars, attentionVars>>
       \/ follows = "socket" /\ SockNext
          /\ UNCHANGED <<chatVars, socketVars, attentionVars>>
       \/ follows = "thread" /\ SocketNext
          /\ UNCHANGED <<chatVars, sockVars, attentionVars>>
       \/ follows = "attention" /\ AttentionNext
          /\ UNCHANGED <<chatVars, sockVars, socketVars>>

ConversationsSpec == ConversationsInit /\ [][ConversationsNext]_<<follows, chatVars,
                                                                  sockVars, socketVars,
                                                                  attentionVars>>
=============================================================================
