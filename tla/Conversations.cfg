\* One message and one decision; one chat socket and one terminal socket; two
\* messages of a thread; a secretary that hears of two messages.
SPECIFICATION ConversationsSpec
CONSTANTS
    Messages = {1}
    Decisions = {2}
    Others = {3}
    Sends <- MCSends
    Projectors = {1, 2}
    Leaving = {2}
    MaxEnds = 1
    ChatScenes <- MCChatScenes
    ChatPerils = {}
    Chats = {c1}
    Attaches = {a1}
    MaxLog = 2
    MaxDeltas = 2
    QueueLimit = 1
    Cmds = {1}
    MaxPosts = 2
    MaxTurns = 1
    MaxDials = 1
    CatchUpLimit = 1
    SendLimit = 2
    FirstRoles = {"out", "watcher", "joined"}
    Secretaries = {a}
    Person = h
    Posts = {1, 2}
    MaxRevision = 2
    MaxStays = 2
    MaxLosses = 1
    MaxStirs = 2
    AttentionPerils = {}
INVARIANTS ChatTrue SocketsSound  AttentionTrue
CHECK_DEADLOCK FALSE
