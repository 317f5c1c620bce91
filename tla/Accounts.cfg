\* One browser with two tabs and two humans; one mailbox with its owner and a
\* stranger; two login providers; a workspace of three memberships; two
\* browsers that receive push messages; two secretaries that share a budget.
SPECIFICATION AccountsSpec
CONSTANTS
    Humans = {h1, h2}
    Flows = {f1, f2}
    Tabs = {t1, t2}
    Nobody = Nobody
    MaxSessions = 3
    MaxEpochs = 2
    MaxAsks = 3
    EpochsDrift = FALSE
    Begun = {1}
    Browsers = {r1, x}
    Readers = {r1}
    MailFlows = {e1}
    HubFlows = {p}
    Uids = {u1, u2}
    Stranger = Stranger
    Transfers = TRUE
    MaxMails = 2
    MaxWrong = 1
    MaxPosts = 1
    MailPerils = {}
    Hubs = {g, h}
    Subjects = {1, 2}
    Requests = {q1, q2}
    MaxOps = 2
    HubPerils = {}
    Founder = o
    Guests = {}
    Newcomers = {n}
    Agents = {g}
    RoleIds = {1}
    Knacks = {k}
    MaxTenures = 3
    MaxInvites = 2
    MaxActs = 4
    Machines = {b1, b2}
    Owners = {h1, h2}
    NoOne = NoOne
    Sends = {s1}
    MaxDevices = 2
    MaxSubs = 1
    MaxTerms = 2
    capped = capped
    free = free
    Spenders = {p1, p2}
    Sources = {capped, free}
    Cards <- MCCards
    Estimates <- MCEstimates
    Uses <- MCUses
    PerMTok = 2
    MaxFacts = 1
    MaxUpsets = 1
    BudgetPerils = {}
INVARIANTS
    
    SignInSound
    LoginsSound
    MembersSound
    PushStaysWithItsHuman
    SpendCounted
    BudgetSound
PROPERTIES StaleCleanupSpares
CHECK_DEADLOCK FALSE
