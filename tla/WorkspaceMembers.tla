-------------------------- MODULE WorkspaceMembers --------------------------
(***************************************************************************)
(* One Workspace: membership tenures, roles and the capabilities they      *)
(* carry, invitations (a share code, a code bundled with an enrolment, an  *)
(* invitation addressed to an agent) and the private places members are    *)
(* seated in.  Every operation runs in one transaction under the Workspace *)
(* row's lock, so each is one action; what can go wrong is a long sequence *)
(* of legal operations by several members.                                 *)
(***************************************************************************)
EXTENDS Integers, Sequences, FiniteSets

CONSTANTS
    Founder, Guests,  \* Humans who have an account
    Newcomers,        \* people who get an account only by an enrolment
    Agents,           \* personality agents, employed by every Human of the model
    RoleIds,          \* roles that may exist at once
    Knacks,           \* capabilities of apps, beside the platform's permissions
    MaxTenures,       \* bound: memberships ever begun
    MaxInvites,       \* bound: invitations ever issued
    MaxActs           \* bound: invitations, direct messages and role operations, together

ASSUME MemberAssumption ==
    Newcomers \cap (Guests \cup {Founder}) = {} /\ "absent" \notin Knacks

Platform == {"manage_members", "manage_roles"}
Capabilities == Platform \cup Knacks
People == {Founder} \cup Guests \cup Newcomers

VARIABLES
    tenure,   \* workspace_members, in the order they joined
    owner,    \* owner_workspace_member_id
    role,     \* workspace_roles: the capabilities stored on each, or absent
    retired,  \* app capabilities retired from the catalogue
    wsInvite,   \* workspace_invites, with the enrolment bundled to each
    known,    \* people with an account
    seat,     \* place_members without left_at
    handed,   \* observer: what owners ever put in the hands of non-owners
    acts      \* counter of MaxActs
memberVars == <<tenure, owner, role, retired, wsInvite, known, seat, handed, acts>>

Absent == {"absent"}
Tenures == DOMAIN tenure
Open(t) == tenure[t].open
ActiveOf(p) == {t \in Tenures : Open(t) /\ tenure[t].who = p}
Exists(r) == role[r] # Absent
Acts == acts < MaxActs /\ acts' = acts + 1

Joined(p) == [who |-> p, open |-> TRUE, roles |-> {}, ends |-> 0]
NewInvite(t, kind, target) ==
    [by |-> t, kind |-> kind, target |-> target, revoked |-> FALSE, expired |-> FALSE, got |-> 0,
     taker |-> "nobody", enrol |-> IF kind = "bundle" THEN "open" ELSE "none", kept |-> "nobody",
     made |-> Cardinality({x \in Tenures : ~Open(x)})]

MemberInit ==
    /\ tenure = <<Joined(Founder)>> /\ owner = 1
    /\ role = [r \in RoleIds |-> Absent] /\ retired = {} /\ wsInvite = <<>>
    /\ known = {Founder} \cup Guests /\ seat = {} /\ handed = {} /\ acts = 0

-----------------------------------------------------------------------------
(* What a membership may do.                                               *)
EffectiveCapabilities(r) == role[r] \ retired
permissionsForMembership(t) ==
    IF t = owner THEN Capabilities \ retired
    ELSE UNION {EffectiveCapabilities(r) : r \in tenure[t].roles}
Can(t, permission) == Open(t) /\ permission \in permissionsForMembership(t)
permissionsWithin(t, caps) == t = owner \/ caps \subseteq permissionsForMembership(t)

\* Capabilities of non-owners after an owner's step belong to what owners handed out.
HeldBy(t) == UNION {role'[r] \ retired : r \in tenure'[t].roles}
HandsOut(t) ==
    handed' = IF t # owner THEN handed
              ELSE handed \cup UNION {HeldBy(x) : x \in {y \in DOMAIN tenure' : tenure'[y].open}}

\* A new role takes active capabilities only; a retired one already on a
\* role may be kept there, never added.
resolveRoleCapabilities(caps) == caps \cap retired = {}
resolveRoleCapabilitiesForUpdate(r, caps) == (caps \cap retired) \subseteq role[r]
CreateRoleWithPosition(t, r, caps) ==
    /\ Acts /\ Open(t) /\ ~Exists(r) /\ resolveRoleCapabilities(caps)
    /\ t = owner \/ (Can(t, "manage_roles") /\ permissionsWithin(t, caps))
    /\ role' = [role EXCEPT ![r] = caps]
    /\ UNCHANGED <<tenure, owner, retired, wsInvite, known, seat, handed>>
MayRewritePrevious(t, r, caps) ==
    t = owner \/ (Can(t, "manage_roles") /\ permissionsWithin(t, EffectiveCapabilities(r)))
MayRewrite(t, r, caps) ==
    t = owner \/ ( /\ Can(t, "manage_roles")
                   /\ permissionsWithin(t, EffectiveCapabilities(r))
                   /\ permissionsWithin(t, caps \ retired) )
UpdateRoleWithPosition(t, r, caps) ==
    /\ Acts /\ Open(t) /\ Exists(r) /\ resolveRoleCapabilitiesForUpdate(r, caps)
    /\ MayRewrite(t, r, caps)
    /\ role' = [role EXCEPT ![r] = caps] /\ UNCHANGED tenure /\ HandsOut(t)
    /\ UNCHANGED <<owner, retired, wsInvite, known, seat>>
DeleteRole(t, r) ==
    /\ Acts /\ Open(t) /\ Exists(r)
    /\ t = owner \/ (Can(t, "manage_roles") /\ permissionsWithin(t, EffectiveCapabilities(r)))
    /\ role' = [role EXCEPT ![r] = Absent]
    /\ tenure' = [x \in Tenures |-> [tenure[x] EXCEPT !.roles = @ \ {r}]]
    /\ UNCHANGED <<owner, retired, wsInvite, known, seat, handed>>
\* Only roles given or taken are judged, the ones left alone are not.
rolesForMembership(m) == tenure[m].roles
RolesChanged(m, rs) == (rs \cup rolesForMembership(m)) \ (rs \cap rolesForMembership(m))
SetMembershipRoles(t, m, rs) ==
    /\ Acts /\ Open(t) /\ Can(t, "manage_members") /\ Open(m) /\ \A r \in rs : Exists(r)
    /\ \A r \in RolesChanged(m, rs) : permissionsWithin(t, EffectiveCapabilities(r))
    /\ tenure' = [tenure EXCEPT ![m].roles = rs] /\ UNCHANGED role /\ HandsOut(t)
    /\ UNCHANGED <<owner, retired, wsInvite, known, seat>>
\* The owner who gives the Workspace away keeps the roles held beside it.
TransferOwnership(t, m) ==
    /\ Acts /\ t = owner /\ Open(m) /\ m # t /\ owner' = m
    /\ UNCHANGED <<tenure, role>> /\ HandsOut(t)
    /\ UNCHANGED <<retired, wsInvite, known, seat>>
\* The catalogue drops a capability, for good.
RetireCapability(k) ==
    /\ Acts /\ k \notin retired /\ retired' = retired \cup {k}
    /\ UNCHANGED <<tenure, owner, role, wsInvite, known, seat, handed>>

-----------------------------------------------------------------------------
(* Issuing invitations.                                                    *)
InvitePending(i) == ~wsInvite[i].revoked /\ wsInvite[i].got = 0
requireInviteIssuerAuthority(i) == Can(wsInvite[i].by, "manage_members")
IssuesTo(t, kind, target, closed) ==
    /\ Acts /\ Len(wsInvite) < MaxInvites /\ Can(t, "manage_members")
    /\ wsInvite' = Append([i \in DOMAIN wsInvite |-> IF i \in closed THEN [wsInvite[i] EXCEPT !.revoked = TRUE]
                                                 ELSE wsInvite[i]],
                        NewInvite(t, kind, target))
    /\ UNCHANGED <<tenure, owner, role, retired, known, seat, handed>>
CreateInvite(t) == IssuesTo(t, "share", "anyone", {})
CreateEnrollmentBundle(t, p) == tenure[t].who \in People /\ IssuesTo(t, "bundle", p, {})
\* One invitation per agent may be pending: an expired one, and one whose
\* issuer lost the authority, is closed; any other is the answer.
PendingFor(g) == {i \in DOMAIN wsInvite : wsInvite[i].kind = "agent" /\ wsInvite[i].target = g /\ InvitePending(i)}
Obsolete(i) == wsInvite[i].expired \/ ~requireInviteIssuerAuthority(i)
CreateCurrentAgentInvite(t, g) ==
    /\ tenure[t].who \in People /\ ActiveOf(g) = {}
    /\ \A i \in PendingFor(g) : Obsolete(i)
    /\ IssuesTo(t, "agent", g, PendingFor(g))
InviteExpires(i) ==
    /\ ~wsInvite[i].expired /\ InvitePending(i) /\ wsInvite' = [wsInvite EXCEPT ![i].expired = TRUE]
    /\ UNCHANGED <<tenure, owner, role, retired, known, seat, handed, acts>>
\* Revoking either of the two grants of a bundle takes the other that is left.
RevokedEnrol(i) == IF wsInvite[i].enrol = "open" THEN "revoked" ELSE wsInvite[i].enrol
RevokeInvite(t, i) ==
    /\ Can(t, "manage_members")
    /\ wsInvite' = [wsInvite EXCEPT ![i].revoked = TRUE, ![i].enrol = RevokedEnrol(i)]
    /\ UNCHANGED <<tenure, owner, role, retired, known, seat, handed, acts>>
RevokeBundledEnrollment(i) ==
    /\ wsInvite[i].kind = "bundle"
    /\ wsInvite' = [wsInvite EXCEPT ![i].enrol = RevokedEnrol(i),
                                ![i].revoked = @ \/ wsInvite[i].got = 0]
    /\ UNCHANGED <<tenure, owner, role, retired, known, seat, handed, acts>>

-----------------------------------------------------------------------------
(* Coming in.                                                              *)
\* A newcomer's account consumes the enrolment and reserves the invitation.
ValidateEnrollmentWorkspaceInvite(i) ==
    InvitePending(i) /\ wsInvite[i].kept = "nobody" /\ ~wsInvite[i].expired /\ requireInviteIssuerAuthority(i)
consumeEnrollmentInvite(p, i) ==
    /\ p \in Newcomers \ known /\ wsInvite[i].kind = "bundle" /\ wsInvite[i].enrol = "open"
    /\ wsInvite[i].target \in {"anyone", p} /\ ValidateEnrollmentWorkspaceInvite(i)
    /\ wsInvite' = [wsInvite EXCEPT ![i].enrol = "consumed", ![i].kept = p]
    /\ known' = known \cup {p}
    /\ UNCHANGED <<tenure, owner, role, retired, seat, handed, acts>>
requireBundleRecipientAddressed(p, i) ==
    \/ wsInvite[i].kind = "share"
    \/ p \in People /\ wsInvite[i].target \in {"anyone", p}
requireBundleRecipient(p, i) ==
    \/ wsInvite[i].kind = "share"
    \/ /\ p \in People
       /\ IF wsInvite[i].kept # "nobody" THEN wsInvite[i].kept = p /\ wsInvite[i].enrol = "consumed"
          ELSE wsInvite[i].enrol = "open" /\ wsInvite[i].target \in {"anyone", p}

\* The participant's other targeted invitations end when a membership begins.
closePendingKeeping(p, i) == wsInvite
closePendingTargetedInvitesForParticipant(p, i) ==
    [x \in DOMAIN wsInvite |-> IF x \in PendingFor(p) \ {i} THEN [wsInvite[x] EXCEPT !.revoked = TRUE]
                             ELSE wsInvite[x]]
\* finishShareInvite: redeemed, and the enrolment that is left is retired.
Taken(inv, i, p, t) ==
    [inv EXCEPT ![i].got = t, ![i].taker = p, ![i].enrol = RevokedEnrol(i),
                ![i].kept = IF wsInvite[i].kind = "bundle" THEN p ELSE @]
Enters(p, i) ==
    /\ Len(tenure) < MaxTenures
    /\ tenure' = Append(tenure, Joined(p))
    /\ wsInvite' = Taken(closePendingTargetedInvitesForParticipant(p, i), i, p, Len(tenure) + 1)
    /\ UNCHANGED <<owner, role, retired, known, seat, handed, acts>>
InviteUsable(i) == InvitePending(i) /\ ~wsInvite[i].expired /\ requireInviteIssuerAuthority(i)
RedeemInviteWithEnrollmentProof(p, i) ==
    /\ p \in known \cup Agents /\ wsInvite[i].kind \in {"share", "bundle"}
    /\ InviteUsable(i) /\ requireBundleRecipient(p, i)
    /\ \/ ActiveOf(p) = {} /\ Enters(p, i)
       \/ /\ ActiveOf(p) # {} /\ wsInvite[i].kind = "bundle"
          /\ wsInvite' = Taken(wsInvite, i, p, CHOOSE t \in ActiveOf(p) : TRUE)
          /\ UNCHANGED <<tenure, owner, role, retired, known, seat, handed, acts>>
AcceptTargetedInvitationInTx(i) ==
    /\ wsInvite[i].kind = "agent" /\ InviteUsable(i) /\ ActiveOf(wsInvite[i].target) = {}
    /\ Enters(wsInvite[i].target, i)

-----------------------------------------------------------------------------
(* Private places, and going.                                              *)
\* admitPlaceTenure for both ends of a direct message, once per tenure.
Dm(a, b) == {tenure[a].who, tenure[b].who}
EnsureDM(a, b) ==
    /\ Acts /\ a # b /\ Open(a) /\ Open(b)
    /\ \A s \in seat : s.place = Dm(a, b) /\ tenure[s.of].who \in Dm(a, b) => s.of \in {a, b}
    /\ seat' = seat \cup {[place |-> Dm(a, b), of |-> t] : t \in {a, b}}
    /\ UNCHANGED <<tenure, owner, role, retired, wsInvite, known, handed>>
closeBoundPlaceTenures(t) == {s \in seat : s.of # t}
TenureCloses(t) ==
    /\ tenure' = [tenure EXCEPT ![t].open = FALSE,
                                ![t].ends = Cardinality({x \in Tenures : ~Open(x)}) + 1]
    /\ seat' = closeBoundPlaceTenures(t)
    /\ UNCHANGED <<owner, role, retired, wsInvite, known, handed, acts>>
removeMember(t, m) ==
    /\ Can(t, "manage_members") /\ Open(m) /\ m # owner
    /\ permissionsWithin(t, permissionsForMembership(m)) /\ TenureCloses(m)
Leave(t) == Open(t) /\ t # owner /\ TenureCloses(t)

MemberNext ==
    \/ \E t \in Tenures, r \in RoleIds, caps \in SUBSET Capabilities :
           CreateRoleWithPosition(t, r, caps) \/ UpdateRoleWithPosition(t, r, caps)
    \/ \E t \in Tenures, r \in RoleIds : DeleteRole(t, r)
    \/ \E t, m \in Tenures : \/ \E rs \in SUBSET RoleIds : SetMembershipRoles(t, m, rs)
                             \/ TransferOwnership(t, m) \/ removeMember(t, m) \/ EnsureDM(t, m)
    \/ \E k \in Knacks : RetireCapability(k)
    \/ \E t \in Tenures : CreateInvite(t) \/ Leave(t)
    \/ \E t \in Tenures, p \in Newcomers \cup {"anyone"} : CreateEnrollmentBundle(t, p)
    \/ \E t \in Tenures, g \in Agents : CreateCurrentAgentInvite(t, g)
    \/ \E i \in DOMAIN wsInvite :
           \/ InviteExpires(i) \/ RevokeBundledEnrollment(i) \/ AcceptTargetedInvitationInTx(i)
           \/ \E t \in Tenures : RevokeInvite(t, i)
           \/ \E p \in Newcomers : consumeEnrollmentInvite(p, i)
           \/ \E p \in People \cup Agents : RedeemInviteWithEnrollmentProof(p, i)
MemberSpec == MemberInit /\ [][MemberNext]_memberVars

-----------------------------------------------------------------------------
(***************************************************************************)
(* NoEscalation: whatever members who are not the owner do with roles,     *)
(* assignments and retired capabilities, together they never hold a        *)
(* capability that no owner ever put in the hands of a member              *)
(* (permissionsWithin in CreateRole, UpdateRole and SetMembershipRoles).   *)
(***************************************************************************)
NoEscalation ==
    \A t \in Tenures : Open(t) /\ t # owner => permissionsForMembership(t) \subseteq handed
(***************************************************************************)
(* ComesBackInvited: an agent that was removed or left comes back through  *)
(* an invitation addressed to it only if that was issued after it had      *)
(* gone; a bundled invitation admits nobody but the person whose account   *)
(* its enrolment made; and no private seat outlives its membership.        *)
(***************************************************************************)
ComesBackInvited ==
    /\ \A i \in DOMAIN wsInvite : wsInvite[i].got # 0 =>
           /\ wsInvite[i].kind = "agent" =>
                \A t \in 1..(wsInvite[i].got - 1) :
                    tenure[t].who = wsInvite[i].taker => wsInvite[i].made >= tenure[t].ends
           /\ wsInvite[i].enrol = "consumed" => wsInvite[i].taker = wsInvite[i].kept /\ wsInvite[i].taker \in Newcomers
    /\ \A s \in seat : Open(s.of)

(***************************************************************************)
(* MembersSound: no member rises above what was given, and nobody who is   *)
(* gone comes back uninvited.                                              *)
(***************************************************************************)
MembersSound == NoEscalation /\ ComesBackInvited
=============================================================================
