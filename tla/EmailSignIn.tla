---------------------------- MODULE EmailSignIn ----------------------------
(***************************************************************************)
(* Signing in with one e-mail address: koseki's challenges and mail        *)
(* queue, the proof a flow holds, the Firebase principal of the address    *)
(* and the Human an invitation admits.  A database transaction is one      *)
(* step; every call to Firebase is a step of its own.  Codes and link      *)
(* tokens are known only to those who read the mail.                       *)
(***************************************************************************)
EXTENDS Integers, Sequences, FiniteSets

CONSTANTS
    Browsers,     \* browsers (a browser keeps the nonce of the flows it holds)
    Readers,      \* the browsers of the person who reads the address's mail
    MailFlows,    \* flows of the channel email_code
    HubFlows,     \* flows of the channel provider, for an account with this address
    Uids,         \* Firebase principals
    Stranger,     \* no browser, no principal, no flow
    Transfers,    \* whether the store knows transfer sessions (sign-up then asks)
    MaxMails,     \* EmailSendHourlyLimit, and the bound on challenges and deliveries
    MaxWrong,     \* EmailCodeMaxAttempts
    MaxPosts,     \* EmailDeliveryMaxAttempts
    MailPerils    \* subset of {"token", "commit"}

ASSUME SignInAssumption ==
    /\ Readers \subseteq Browsers /\ MailFlows \cap HubFlows = {}
    /\ IsFiniteSet(Uids) /\ MaxMails \in Nat
    /\ Stranger \notin Browsers \cup Uids \cup MailFlows \cup HubFlows

VARIABLES
    door,       \* auth_flows
    challenge,  \* auth_email_challenges, in the order they were made
    delivery,   \* auth_email_deliveries
    posts,      \* sends under way: <<delivery, attempt>>
    inbox,      \* challenges whose mail has arrived
    principal,  \* Firebase's accounts with this address
    bound,      \* credentials of the provider firebase: the Human of a principal
    invite,     \* the enrollment invitation of the flows, and whether it names the address
    errand,      \* the request each browser has under way
    signedIn    \* the Human each browser's session is for (0: none)
mailVars == <<door, challenge, delivery, posts, inbox, principal, bound, invite, errand, signedIn>>

Doors == MailFlows \cup HubFlows
NoDoor == [st |-> "none", intent |-> "in", late |-> FALSE, holder |-> Stranger, adopted |-> FALSE,
           proved |-> FALSE, proofUid |-> Stranger, uid |-> Stranger, verified |-> FALSE,
           action |-> "none", human |-> 0]
\* A flow just begun by browser b; a hub that is not used.
NewDoor(b, intent) == [NoDoor EXCEPT !.st = "pending", !.intent = intent, !.holder = b]
NoHub == [NoDoor EXCEPT !.st = "absent"]
Idle == [phase |-> "idle", flow |-> Stranger, uid |-> Stranger, verified |-> FALSE]
NewChallenge(f) == [flow |-> f, st |-> "live", late |-> FALSE, wrong |-> 0]
NewDelivery(c) == [of |-> c, st |-> "pending", attempts |-> 0, lapsed |-> FALSE]

\* Nothing has happened and only the mail channel is used; or every flow of
\* the mail channel has had all its mail, and the hub may be used as well.
MailInit ==
    /\ \/ /\ door = [f \in Doors |-> IF f \in MailFlows THEN NoDoor ELSE NoHub]
          /\ challenge = <<>> /\ delivery = <<>> /\ inbox = {}
       \/ \E b \in Browsers, f \in MailFlows, i \in {"in", "up"} :
             /\ door = [g \in Doors |-> IF g = f THEN NewDoor(b, i) ELSE NoDoor]
             /\ challenge = <<NewChallenge(f)>> /\ inbox = {1}
             /\ delivery = [d \in 1..MaxMails |-> [NewDelivery(1) EXCEPT !.st = "sent", !.attempts = 1]]
    /\ posts = {}
    /\ principal = [u \in Uids |-> "none"]
    /\ bound = [u \in Uids |-> 0]
    /\ invite \in [st : {"open"}, named : BOOLEAN]
    /\ errand = [b \in Browsers |-> Idle]
    /\ signedIn = [b \in Browsers |-> 0]

Standing == {u \in Uids : principal[u] \in {"unverified", "verified"}}
HoldsDoor(b, f) == door[f].holder = b /\ door[f].st # "none"
LiveOf(f) == {c \in DOMAIN challenge : challenge[c].flow = f /\ challenge[c].st = "live"}
SupersededOf(f) == {c \in DOMAIN challenge : challenge[c].flow = f /\ challenge[c].st = "superseded"}
dbVars == <<door, challenge, delivery, invite, bound>>
cloudAccountVars == <<principal, bound, invite, signedIn>>
postVars == <<posts, inbox>>

-----------------------------------------------------------------------------
(* Challenges and their mail.                                              *)
\* checkEmailSendLimit counts the deliveries whose challenge is not consumed.
checkEmailSendLimit ==
    Cardinality({d \in DOMAIN delivery : challenge[delivery[d].of].st # "consumed"}) < MaxMails

StartEmailCodeFlow(b, f, intent) ==
    /\ f \in MailFlows /\ door[f].st = "none" /\ errand[b] = Idle
    /\ intent = "up" => invite.st = "open"
    /\ checkEmailSendLimit
    /\ door' = [door EXCEPT ![f] = NewDoor(b, intent)]
    /\ challenge' = Append(challenge, NewChallenge(f))
    /\ delivery' = Append(delivery, NewDelivery(Len(challenge')))
    /\ UNCHANGED <<postVars, cloudAccountVars, errand>>

\* A live challenge with attempts and more than EmailCodeReuseMinRemaining
\* left is mailed again; any other is superseded, with the deliveries it
\* still has pending.  How much is left is not told apart: either may happen.
ResendEmailChallenge(b, f) ==
    /\ HoldsDoor(b, f) /\ f \in MailFlows /\ errand[b] = Idle
    /\ door[f].st # "completed" /\ ~door[f].proved /\ ~door[f].late
    /\ checkEmailSendLimit /\ Len(delivery) < MaxMails
    /\ \/ \E c \in LiveOf(f) :
             /\ ~challenge[c].late /\ challenge[c].wrong < MaxWrong
             /\ delivery' = Append(delivery, NewDelivery(c))
             /\ UNCHANGED challenge
       \/ /\ challenge' = Append([c \in DOMAIN challenge |->
                              IF c \in LiveOf(f) THEN [challenge[c] EXCEPT !.st = "superseded"] ELSE challenge[c]],
                              NewChallenge(f))
          /\ delivery' = Append([d \in DOMAIN delivery |->
                             IF delivery[d].of \in LiveOf(f) /\ delivery[d].st = "pending"
                             THEN [delivery[d] EXCEPT !.st = "cancelled"] ELSE delivery[d]],
                             NewDelivery(Len(challenge')))
    /\ UNCHANGED <<postVars, cloudAccountVars, door, errand>>

ClaimEmailDeliveries(d) ==
    /\ delivery[d].st = "pending" \/ (delivery[d].st = "sending" /\ delivery[d].lapsed)
    /\ LET c == challenge[delivery[d].of]
           dead == c.st # "live" \/ c.late
       IN \/ dead /\ delivery' = [delivery EXCEPT ![d].st = "cancelled"] /\ UNCHANGED posts
          \/ /\ ~dead /\ delivery[d].attempts >= MaxPosts
             /\ delivery' = [delivery EXCEPT ![d].st = "failed"] /\ UNCHANGED posts
          \/ /\ ~dead /\ delivery[d].attempts < MaxPosts
             /\ delivery' = [delivery EXCEPT ![d].st = "sending", ![d].attempts = @ + 1, ![d].lapsed = FALSE]
             /\ posts' = posts \cup {<<d, delivery[d].attempts + 1>>}
    /\ UNCHANGED <<inbox, cloudAccountVars, door, challenge, errand>>

\* A result is recorded for exactly the attempt that was leased.
FinishEmailDelivery(p, to) ==
    IF delivery[p[1]].st = "sending" /\ delivery[p[1]].attempts = p[2]
    THEN [delivery EXCEPT ![p[1]].st = to, ![p[1]].lapsed = FALSE] ELSE delivery
deliver(p, arrives, to) ==
    /\ p \in posts /\ posts' = posts \ {p}
    /\ IF arrives THEN inbox' = inbox \cup {delivery[p[1]].of} ELSE UNCHANGED inbox
    /\ to = "sent" => arrives
    /\ to = "pending" => p[2] < MaxPosts
    /\ delivery' = FinishEmailDelivery(p, to)
    /\ UNCHANGED <<cloudAccountVars, door, challenge, errand>>

-----------------------------------------------------------------------------
(* Proving the address.                                                    *)
\* emailProofRetryError: a proved flow may be asked about again until it
\* lapses; a completed one for as long as its completion is replayable.
MayRetry(f) == door[f].st = "completed" \/ ~door[f].late

\* The request goes on to finishProof.
GoesOn(b, f) == errand' = [errand EXCEPT ![b] = [Idle EXCEPT !.phase = "proved", !.flow = f]]

consumeEmailChallengeTx(b, c, row) ==
    /\ challenge' = [challenge EXCEPT ![c].st = "consumed"]
    /\ door' = [door EXCEPT ![challenge[c].flow] = [row EXCEPT !.proved = TRUE]]
    /\ GoesOn(b, challenge[c].flow)

\* Only the mail carries the link and the code of a challenge.
HasSecret(b, c) == b \in Readers /\ c \in inbox
\* A code is the one of challenge c, or wrong (c = 0).
VerifyEmailCode(b, f, c) ==
    /\ HoldsDoor(b, f) /\ f \in MailFlows /\ errand[b] = Idle
    /\ c = 0 \/ HasSecret(b, c)
    /\ \/ /\ door[f].proved /\ MayRetry(f) /\ GoesOn(b, f)
          /\ UNCHANGED <<door, challenge>>
       \/ /\ ~door[f].proved /\ ~door[f].late
          /\ \E k \in LiveOf(f) :
                /\ ~challenge[k].late /\ challenge[k].wrong < MaxWrong
                /\ \/ /\ c = k
                      /\ consumeEmailChallengeTx(b, k, door[f])
                   \/ /\ c # k /\ c \notin SupersededOf(f)
                      /\ challenge' = [challenge EXCEPT ![k].wrong = @ + 1]
                      /\ UNCHANGED <<door, errand>>
    /\ UNCHANGED <<postVars, cloudAccountVars, delivery>>

AdoptedShared(f, b) == [door[f] EXCEPT !.adopted = TRUE]
\* Adoption moves the flow to the browser that opened the link.
Adopted(f, b) == [door[f] EXCEPT !.holder = b, !.adopted = TRUE]
CompleteEmailLink(b, c, adopt) ==
    /\ HasSecret(b, c) /\ errand[b] = Idle
    /\ LET f == challenge[c].flow
           same == HoldsDoor(b, f)
       IN \/ /\ door[f].proved /\ same /\ MayRetry(f) /\ GoesOn(b, f)
             /\ UNCHANGED <<door, challenge>>
          \/ /\ ~door[f].proved /\ (same \/ adopt)
             /\ door[f].st # "completed" /\ challenge[c].st = "live"
             /\ ~challenge[c].late /\ ~door[f].late
             /\ ~same => ~door[f].adopted
             /\ consumeEmailChallengeTx(b, c, IF same THEN door[f] ELSE Adopted(f, b))
    /\ UNCHANGED <<postVars, cloudAccountVars, delivery>>

-----------------------------------------------------------------------------
(* finishProof: from a proved address to the one principal that owns it.   *)
Drop(b) == errand' = [errand EXCEPT ![b] = Idle]
At(b, phase) == errand[b].phase = phase

\* The principal of a bound proof is read again; otherwise it is looked up.
GetUser(b) ==
    /\ At(b, "proved")
    /\ LET u == door[errand[b].flow].proofUid
       IN \/ u # Stranger /\ principal[u] = "verified" /\ errand' = [errand EXCEPT ![b].phase = "token", ![b].uid = u]
          \/ u # Stranger /\ principal[u] # "verified" /\ Drop(b)
          \/ /\ u = Stranger
             /\ \/ \E v \in Standing : errand' = [errand EXCEPT
                      ![b].phase = IF principal[v] = "verified" THEN "binding" ELSE "unverified", ![b].uid = v]
                \/ Standing = {} /\ errand' = [errand EXCEPT ![b].phase = "creating"]
    /\ UNCHANGED <<dbVars, postVars, principal, signedIn>>

\* An address already taken (EMAIL_EXISTS) is looked up again.
CreateUser(b, u) ==
    /\ At(b, "creating")
    /\ \/ /\ Standing = {} /\ principal[u] = "none"
          /\ principal' = [principal EXCEPT ![u] = "verified"]
          /\ errand' = [errand EXCEPT ![b].phase = "binding", ![b].uid = u]
       \/ Standing # {} /\ errand' = [errand EXCEPT ![b].phase = "proved"] /\ UNCHANGED principal
    /\ UNCHANGED <<dbVars, postVars, signedIn>>

ExpireFlowsProving(u) ==
    [f \in Doors |-> IF door[f].st # "completed" /\ u = door[f].proofUid
                     THEN [door[f] EXCEPT !.late = TRUE] ELSE door[f]]
\* Unfinished flows that proved the principal are expired before it goes.
ExpireFlowsOf(u) ==
    [f \in Doors |-> IF door[f].st # "completed" /\ u \in {door[f].uid, door[f].proofUid}
                     THEN [door[f] EXCEPT !.late = TRUE] ELSE door[f]]
\* A principal that a Human is bound to is verified only for that Human.
VerifyOwn(b, u) ==
    IF signedIn[b] = bound[u]
    THEN /\ principal' = [principal EXCEPT ![u] = IF @ = "unverified" THEN "verified" ELSE @]
         /\ errand' = [errand EXCEPT ![b].phase = "binding"]
    ELSE Drop(b) /\ UNCHANGED principal
DeleteUnboundFirebasePrincipal(b) ==
    /\ At(b, "unverified")
    /\ LET u == errand[b].uid
       IN \/ /\ bound[u] # 0
             /\ VerifyOwn(b, u)
             /\ UNCHANGED door
          \/ /\ bound[u] = 0
             /\ "token" \notin MailPerils => \A x \in Browsers : ~(At(x, "resolving") /\ errand[x].uid = u)
             /\ principal' = [principal EXCEPT ![u] = "deleted"]
             /\ \/ door' = ExpireFlowsOf(u)
                \/ "commit" \in MailPerils /\ UNCHANGED door   \* deleted, then the commit failed
             /\ errand' = [errand EXCEPT ![b].phase = "proved", ![b].uid = Stranger]
    /\ UNCHANGED <<postVars, challenge, delivery, invite, bound, signedIn>>

BindEmailProofUID(b) ==
    /\ At(b, "binding")
    /\ LET f == errand[b].flow
           u == errand[b].uid
       IN \/ /\ HoldsDoor(b, f) /\ door[f].proved /\ MayRetry(f)
             /\ door[f].proofUid = Stranger /\ door[f].st # "completed"
             /\ door' = [door EXCEPT ![f].proofUid = u]
             /\ errand' = [errand EXCEPT ![b].phase = "token"]
          \/ /\ HoldsDoor(b, f) /\ MayRetry(f) /\ door[f].proofUid = u
             /\ errand' = [errand EXCEPT ![b].phase = "token"] /\ UNCHANGED door
          \/ /\ ~HoldsDoor(b, f) \/ ~MayRetry(f) \/ door[f].proofUid \notin {u, Stranger}
             /\ Drop(b) /\ UNCHANGED door
    /\ UNCHANGED <<postVars, challenge, delivery, invite, principal, bound, signedIn>>

-----------------------------------------------------------------------------
(* The provider channel: a hub account whose address Firebase has verified *)
(* only when its owner reads the mail.                                     *)
StartProviderFlow(b, f, intent) ==
    /\ f \in HubFlows /\ door[f].st = "none" /\ errand[b] = Idle
    /\ intent = "up" => invite.st = "open"
    /\ door' = [door EXCEPT ![f] = NewDoor(b, intent)]
    /\ UNCHANGED <<challenge, delivery, postVars, cloudAccountVars, errand>>

\* The browser's popup at Firebase: the principal is made by the first sign-in.
SignInWithHub(b, f, u) ==
    /\ f \in HubFlows /\ HoldsDoor(b, f) /\ errand[b] = Idle /\ door[f].st = "pending"
    /\ Standing = {} /\ principal[u] = "none"
    /\ \E v \in (IF b \in Readers THEN {"verified", "unverified"} ELSE {"unverified"}) :
          /\ principal' = [principal EXCEPT ![u] = v]
          /\ errand' = [errand EXCEPT ![b] = [Idle EXCEPT !.phase = "token", !.flow = f, !.uid = u,
                                                        !.verified = v = "verified"]]
    /\ UNCHANGED <<dbVars, postVars, signedIn>>

-----------------------------------------------------------------------------
(* An ID token is verified against Firebase, then the flow is advanced.    *)
VerifyIDToken(b) ==
    /\ At(b, "token")
    /\ IF principal[errand[b].uid] \in {"unverified", "verified"}
       THEN errand' = [errand EXCEPT ![b].phase = "resolving"]
       ELSE Drop(b)
    /\ UNCHANGED <<dbVars, postVars, principal, signedIn>>

\* checkEnrollmentInviteProof: an invitation that names the address admits
\* only who proved it.
Invited(verified) == invite.st = "open" /\ (invite.named => verified)
NextHuman == 1 + Cardinality({u \in Uids : bound[u] # 0})
Completed(f, u, h) == [door EXCEPT ![f].st = "completed", ![f].uid = u, ![f].human = h, ![f].action = "none"]
provisionFromFlow(b, f, u, verified) ==
    /\ bound[u] = 0 /\ Invited(verified)
    /\ bound' = [bound EXCEPT ![u] = NextHuman]
    /\ invite' = [invite EXCEPT !.st = "consumed"]
    /\ door' = Completed(f, u, NextHuman)
    /\ signedIn' = [signedIn EXCEPT ![b] = NextHuman]
completeExistingFlow(b, f, u) ==
    /\ bound[u] # 0
    /\ door' = Completed(f, u, bound[u])
    /\ signedIn' = [signedIn EXCEPT ![b] = bound[u]]
    /\ UNCHANGED <<bound, invite>>

\* emailCodeIdentityMatches: only the principal the proof was bound to.
ProofMatches(f, u) == f \in MailFlows => door[f].proofUid = u
AdvanceOnProof(b) ==
    /\ At(b, "resolving") /\ Drop(b)
    /\ LET f == errand[b].flow
           u == errand[b].uid
           verified == f \in MailFlows \/ errand[b].verified
           asking == [door EXCEPT ![f].st = "confirm", ![f].uid = u, ![f].verified = verified,
                               ![f].action = IF bound[u] = 0 THEN "create" ELSE "signin"]
           open == HoldsDoor(b, f) /\ door[f].st = "pending" /\ ~door[f].late /\ ProofMatches(f, u)
       IN \/ open /\ door[f].intent = "in" /\ completeExistingFlow(b, f, u)
          \/ open /\ door[f].intent = "up" /\ ~Transfers /\ provisionFromFlow(b, f, u, verified)
          \/ /\ open /\ \/ bound[u] = 0 /\ (Transfers \/ door[f].intent = "in") /\ Invited(verified)
                        \/ bound[u] # 0 /\ door[f].intent = "up"
             /\ door' = asking /\ UNCHANGED <<bound, invite, signedIn>>
          \/ \* a completion whose answer was lost is given again
             /\ HoldsDoor(b, f) /\ door[f].st = "completed" /\ door[f].uid = u /\ bound[u] = door[f].human
             /\ signedIn' = [signedIn EXCEPT ![b] = door[f].human]
             /\ UNCHANGED <<door, bound, invite>>
          \/ ~open /\ UNCHANGED <<door, bound, invite, signedIn>>
    /\ UNCHANGED <<postVars, challenge, delivery, principal>>

AdvanceOnConfirm(b, f) ==
    /\ HoldsDoor(b, f) /\ errand[b] = Idle
    /\ door[f].st = "confirm" /\ ~door[f].late
    /\ \/ door[f].action = "create" /\ provisionFromFlow(b, f, door[f].uid, door[f].verified)
       \/ door[f].action = "signin" /\ completeExistingFlow(b, f, door[f].uid)
    /\ UNCHANGED <<postVars, challenge, delivery, principal, errand>>

-----------------------------------------------------------------------------
(* The passing of time, lost requests and the inviter.                     *)
Lapse ==
    /\ \/ \E f \in Doors : door[f].st \in {"pending", "confirm"} /\ ~door[f].late
                           /\ door' = [door EXCEPT ![f].late = TRUE] /\ UNCHANGED <<challenge, delivery>>
       \/ \E c \in DOMAIN challenge :
             /\ challenge[c].st = "live" /\ ~challenge[c].late
             /\ challenge' = [challenge EXCEPT ![c].late = TRUE]
             /\ UNCHANGED <<door, delivery>>
       \/ \E d \in DOMAIN delivery :
             /\ delivery[d].st = "sending" /\ ~delivery[d].lapsed
             /\ delivery' = [delivery EXCEPT ![d].lapsed = TRUE] /\ UNCHANGED <<door, challenge>>
    /\ UNCHANGED <<postVars, cloudAccountVars, errand>>
LoseRequest(b) ==
    /\ errand[b] # Idle /\ Drop(b)
    /\ UNCHANGED <<dbVars, postVars, principal, signedIn>>
RevokeEnrollmentInvite ==
    /\ invite.st = "open" /\ invite' = [invite EXCEPT !.st = "revoked"]
    /\ UNCHANGED <<door, challenge, delivery, postVars, principal, bound, errand, signedIn>>

MailNext ==
    \/ \E b \in Browsers, f \in MailFlows, i \in {"in", "up"} : StartEmailCodeFlow(b, f, i)
    \/ \E b \in Browsers, f \in HubFlows, i \in {"in", "up"} : StartProviderFlow(b, f, i)
    \/ \E b \in Browsers, f \in MailFlows : ResendEmailChallenge(b, f)
    \/ \E d \in DOMAIN delivery : ClaimEmailDeliveries(d)
    \/ \E p \in posts, a \in BOOLEAN, to \in {"sent", "failed", "pending"} : deliver(p, a, to)
    \/ \E b \in Browsers, f \in MailFlows, c \in {0} \cup inbox : VerifyEmailCode(b, f, c)
    \/ \E b \in Browsers, c \in inbox, a \in BOOLEAN : CompleteEmailLink(b, c, a)
    \/ \E b \in Browsers : \/ GetUser(b) \/ DeleteUnboundFirebasePrincipal(b) \/ BindEmailProofUID(b)
                           \/ VerifyIDToken(b) \/ AdvanceOnProof(b) \/ LoseRequest(b)
    \/ \E b \in Browsers, u \in Uids : CreateUser(b, u)
    \/ \E b \in Browsers, f \in HubFlows, u \in Uids : SignInWithHub(b, f, u)
    \/ \E b \in Browsers, f \in Doors : AdvanceOnConfirm(b, f)
    \/ Lapse \/ RevokeEnrollmentInvite

MailSpec == MailInit /\ [][MailNext]_mailVars

-----------------------------------------------------------------------------
(* A Human someone reached by proving the mailbox is signed in only in the *)
(* mailbox owner's browsers: no flow a stranger began, no request of his   *)
(* that was under way and no account he had registered for the address     *)
(* with a hub survives the proof.                                          *)
OnlyReadersSignIn ==
    \A f \in MailFlows : door[f].st = "completed" =>
        \A b \in Browsers : signedIn[b] = door[f].human => b \in Readers

(* Every Human's principal exists at Firebase: a principal is deleted only *)
(* if nobody is bound to it, and no flow that proved it binds it later.    *)
HumanHasPrincipal == \A u \in Uids : bound[u] # 0 => principal[u] # "deleted"

(* Who proves the mailbox gets the account, and the account stays usable.  *)
SignInSound == OnlyReadersSignIn /\ HumanHasPrincipal
=============================================================================
