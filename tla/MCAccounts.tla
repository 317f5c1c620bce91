----------------------------- MODULE MCAccounts -----------------------------
(* Model checking of accounts: sign-in by mail, browser sessions, login    *)
(* providers, workspace members, web push and what calls may cost.  They   *)
(* share no state that these modules keep: a behaviour follows one and     *)
(* leaves the others at rest.                                              *)
EXTENDS BrowserSessions, EmailSignIn, ProviderLogins, WorkspaceMembers, PushDelivery,
        UsageBudget

\* One call fits the first card, and a second once the first used less; two fit
\* the second card. Cached input is free on the first and input on the second.
CONSTANTS capped, free   \* two sources, the first with a budget
Tight == [limit |-> 3, cur |-> "jpy", in |-> 2, out |-> 2, cached |-> 0]
Wide == [limit |-> 6, cur |-> "usd", in |-> 1, out |-> 3, cached |-> -1]
MCCards == {Tight, Wide}
MCEstimates == {[in |-> 1, out |-> 1]}
MCUses == {[in |-> 0, out |-> 1, cached |-> 1], [in |-> 2, out |-> 2, cached |-> 0]}

VARIABLE follows   \* the component this behaviour follows

AccountsInit ==
    /\ follows \in {"sessions", "mail", "logins", "members", "push", "usage"}
    /\ AuthInit /\ MailInit /\ HubInit
    /\ MemberInit /\ PushInit /\ UsageInit
    /\ follows # "mail" => challenge = <<>> /\ invite.named
    /\ follows # "logins" => mail /\ \A p \in Hubs : remote[p] = 0
    /\ budget = [s \in Sources |-> IF s = capped THEN Tight ELSE NoCard] /\ selected = capped

AccountsNext ==
    /\ UNCHANGED follows
    /\ \/ follows = "sessions" /\ AuthNext
          /\ UNCHANGED <<mailVars, hubVars, memberVars, pushVars, usageVars>>
       \/ follows = "mail" /\ MailNext
          /\ UNCHANGED <<authVars, hubVars, memberVars, pushVars, usageVars>>
       \/ follows = "logins" /\ HubNext
          /\ UNCHANGED <<authVars, mailVars, memberVars, pushVars, usageVars>>
       \/ follows = "members" /\ MemberNext
          /\ UNCHANGED <<authVars, mailVars, hubVars, pushVars, usageVars>>
       \/ follows = "push" /\ PushNext
          /\ UNCHANGED <<authVars, mailVars, hubVars, memberVars, usageVars>>
       \/ follows = "usage" /\ UsageNext
          /\ UNCHANGED <<authVars, mailVars, hubVars, memberVars, pushVars>>

AccountsSpec == AccountsInit /\ [][AccountsNext]_<<follows, authVars, mailVars, hubVars,
                                                   memberVars, pushVars, usageVars>>
=============================================================================
