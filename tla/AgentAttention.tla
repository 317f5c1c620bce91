--------------------------- MODULE AgentAttention ---------------------------
(***************************************************************************)
(* How a message of a shared place reaches the secretaries it concerns: a  *)
(* posting, an edit or a deletion writes one attention row per secretary in *)
(* its own transaction; a drain re-authorises each row against the place   *)
(* and the message as they stand, prepares the secretary's queue, and      *)
(* re-authorises again while it submits the input and records the receipt. *)
(* The input is stored by another store: its receipt can be lost.          *)
(***************************************************************************)
EXTENDS Integers, Sequences, FiniteSets

CONSTANTS
    Secretaries,       \* the personality agents of the workspace
    Person,            \* the human who writes, and manages the channels
    Posts,             \* messages that may be posted, 1..n in the order of their seq
    MaxRevision,       \* bound: revisions of one message
    MaxStays,          \* bound: workspace tenures of one secretary
    MaxLosses,         \* bound: receipts lost
    MaxStirs,          \* bound: edits, deletions, changes of tenure, level and authority
    AttentionPerils    \* "forked": a receipt may also be lost for a downgraded edit

ASSUME AttentionAssumption ==
    Person \notin Secretaries /\ IsFiniteSet(Secretaries) /\ Posts \subseteq Nat \ {0}

VARIABLES
    posted,     \* the messages: by, to (the message answered, or 0), names, rev, gone, and who is owed the change
    intents,    \* the secretaries selected when a message was posted
    rows,       \* the attention rows, in the order they were written
    told,       \* the inputs in the secretaries' queues, in order
    stays,      \* the tenures: a secretary's last one, and who is inside
    level,      \* a secretary's notification level
    home,       \* where a secretary's state is: active, sealed, transferred
    prepared,   \* the row between the two attempts of the drain, which takes one at a time
    losses, stirs
attentionVars == <<posted, intents, rows, told, stays, level, home, prepared, losses, stirs>>

Blank == [by |-> Person, to |-> 0, names |-> {}, rev |-> 0, gone |-> FALSE, owed |-> {}]
AttentionInit ==
    /\ posted = [m \in Posts |-> Blank] /\ intents = [m \in Posts |-> {}]
    /\ rows = <<>> /\ told = <<>>
    /\ stays = [last |-> [a \in Secretaries |-> 1], inside |-> Secretaries]
    /\ level = [a \in Secretaries |-> "mention"] /\ home = [a \in Secretaries |-> "active"]
    /\ prepared = {} /\ losses = 0 /\ stirs = 0

activeMembersScoped == stays.inside
authorizeMutationInTx(p) == p = Person \/ p \in activeMembersScoped
authorizeManageChannelsInTx(p) == p = Person
messageByNonce(m) == posted[m].rev > 0
Stored(r) == {i \in DOMAIN told : told[i].row = r}
RowsOf(a, m) == {r \in DOMAIN rows : rows[r].to = a /\ rows[r].msg = m}
WasShown(a, m) == \E i \in DOMAIN told : rows[told[i].row].to = a /\ rows[told[i].row].msg = m
lockMessageScoped(m) == posted[m].rev > 0 /\ ~posted[m].gone

-----------------------------------------------------------------------------
(* Whom a message selects, and whose own message it answers.               *)
notificationDecisionsForMembersScoped(by, names) ==
    {a \in activeMembersScoped \ {by} : level[a] # "mute" /\ (a \in names \/ level[a] = "all")}
replyAddressee(by, to, requireLiveParent) ==
    {a \in activeMembersScoped \ {by} :
        /\ to # 0 /\ level[a] # "mute"
        /\ \E p \in Posts : p = to /\ posted[p].by = a /\ (requireLiveParent => ~posted[p].gone)}

\* One row per secretary, in any fixed order, of the tenure it holds now.
insertAgentAttention(m, rev, change, whom, picked, answered, required) ==
    LET Row(a) == [to |-> a, msg |-> m, rev |-> rev, change |-> change, picked |-> a \in picked,
                   answers |-> a \in answered, required |-> a \in required,
                   stay |-> stays.last[a], end |-> "pending", why |-> "none"]
        order == CHOOSE s \in [1..Cardinality(whom) -> whom] : \A a \in whom : \E i \in DOMAIN s : s[i] = a
    IN rows' = rows \o [i \in DOMAIN order |-> Row(order[i])]

\* The secretary a reply answers gets one event for it, whatever selects it too.
issueAgentReply(by, to) == replyAddressee(by, to, TRUE)
issueAgentMessage(decided, answered) == decided \ answered
issueScopedNotificationIntents(m, by, to, names) ==
    LET decided == notificationDecisionsForMembersScoped(by, names)
        answered == issueAgentReply(by, to)
    IN /\ intents' = [intents EXCEPT ![m] = decided]
       /\ insertAgentAttention(m, 1, "posted", answered \cup issueAgentMessage(decided, answered),
                               decided, answered, answered \ decided)

\* Whom a change concerns: the recorded selection, every secretary with a row
\* that was not proven undeliverable, the author when someone else changes it,
\* and whoever the edited content selects.
ReachedByIntent(m) == intents[m]
ReachedBy(m) == intents[m] \cup {a \in Secretaries : \E r \in RowsOf(a, m) : rows[r].end # "suppressed"}
LatestReason(a, m) ==
    LET open == {r \in RowsOf(a, m) : rows[r].end # "suppressed"}
    IN open # {} /\ rows[CHOOSE r \in open : \A s \in open : s <= r].picked
issueAgentMessageChange(m, actor, change, names) ==
    LET edited == change = "edited"
        decided == notificationDecisionsForMembersScoped(posted[m].by, names)
        whom == (ReachedBy(m) \cup {posted[m].by} \cup (IF edited THEN decided ELSE {}))
                    \cap (stays.inside \ {actor})
        picked == IF edited THEN decided
                  ELSE {a \in whom : a \in intents[m] \/ LatestReason(a, m)}
    IN insertAgentAttention(m, posted[m].rev + 1, change, whom, picked,
                            replyAddressee(posted[m].by, posted[m].to, edited), {})

-----------------------------------------------------------------------------
(* Posting, editing, deleting.  An append repeated with its nonce is the   *)
(* message it made; edits are the author's, deletions a manager's too.     *)
appendScopedInTx(m, by, to, names) ==
    /\ ~messageByNonce(m) /\ authorizeMutationInTx(by) /\ (to # 0 => posted[to].rev > 0)
    /\ \A n \in Posts : n < m => posted[n].rev > 0
    /\ posted' = [posted EXCEPT ![m] = [Blank EXCEPT !.by = by, !.to = to, !.names = names, !.rev = 1]]
    /\ issueScopedNotificationIntents(m, by, to, names)
    /\ UNCHANGED <<told, stays, level, home, prepared, losses, stirs>>
Stirred == stirs < MaxStirs /\ stirs' = stirs + 1
Owed(m, actor) == {a \in stays.inside \ {actor} : WasShown(a, m)}
editMessage(m, names) ==
    /\ lockMessageScoped(m) /\ authorizeMutationInTx(posted[m].by) /\ posted[m].rev < MaxRevision
    /\ posted' = [posted EXCEPT ![m].names = names, ![m].rev = @ + 1,
                                ![m].owed = Owed(m, posted[m].by)]
    /\ issueAgentMessageChange(m, posted[m].by, "edited", names)
    /\ Stirred /\ UNCHANGED <<intents, told, stays, level, home, prepared, losses>>
DeleteMessage(m, actor) ==
    /\ lockMessageScoped(m) /\ authorizeMutationInTx(actor)
    /\ (actor = posted[m].by \/ authorizeManageChannelsInTx(actor))
    /\ posted' = [posted EXCEPT ![m].names = {}, ![m].rev = @ + 1, ![m].gone = TRUE,
                                ![m].owed = Owed(m, actor)]
    /\ issueAgentMessageChange(m, actor, "deleted", {})
    /\ Stirred /\ UNCHANGED <<intents, told, stays, level, home, prepared, losses>>
SetNotificationSetting(a, to) ==
    /\ a \in stays.inside /\ level[a] = "mention" /\ to # "mention"
    /\ level' = [level EXCEPT ![a] = to]
    /\ Stirred /\ UNCHANGED <<posted, intents, rows, told, stays, home, prepared, losses>>

(* The workspace ends a tenure and begins another; the secretary's state is *)
(* sealed for a move, comes back, leaves for another placement, or returns. *)
endTenure(a) ==
    /\ a \in stays.inside /\ stays' = [stays EXCEPT !.inside = @ \ {a}]
    /\ Stirred /\ UNCHANGED <<posted, intents, rows, told, level, home, prepared, losses>>
admitTenure(a) ==
    /\ a \notin stays.inside /\ stays.last[a] < MaxStays
    /\ stays' = [stays EXCEPT !.inside = @ \cup {a}, !.last[a] = @ + 1]
    /\ UNCHANGED <<posted, intents, rows, told, level, home, prepared, losses, stirs>>
setAuthority(a) ==
    /\ \/ home[a] = "active" /\ home' = [home EXCEPT ![a] = "sealed"] /\ Stirred
       \/ /\ home[a] = "sealed" /\ UNCHANGED stirs
          /\ \E h \in {"active", "transferred"} : home' = [home EXCEPT ![a] = h]
       \/ home[a] = "transferred" /\ home' = [home EXCEPT ![a] = "active"] /\ UNCHANGED stirs
    /\ UNCHANGED <<posted, intents, rows, told, stays, level, prepared, losses>>

-----------------------------------------------------------------------------
(* Delivery.                                                               *)
coreInputFromEvent(r, downgraded) == [row |-> r, form |-> IF downgraded THEN "plain" ELSE "whole"]
\* Whether the tenure the row was written for is the one held now.
SameTenure(row) == row.to \in stays.inside /\ row.stay = stays.last[row.to]
ParentStands(row) == posted[row.msg].to # 0 => ~posted[posted[row.msg].to].gone
SourceStandsInAnyTenure(row) ==
    row.to \in stays.inside /\ (row.change = "deleted" <=> posted[row.msg].gone)
SourceStands(row) == SameTenure(row) /\ (row.change = "deleted" <=> posted[row.msg].gone)
\* A change without a reason of its own needs a view it corrects.
NeedsView(row) == row.change # "posted" /\ ~row.picked /\ posted[row.msg].by # row.to
Established(r) ==
    \E d \in RowsOf(rows[r].to, rows[r].msg) \ {r} : rows[d].end = "admitted" \/ Stored(d) # {}
PriorPending(r) == \E d \in RowsOf(rows[r].to, rows[r].msg) : d < r /\ rows[d].end = "pending"
authorizeAttentionSource(r) ==
    LET row == rows[r] IN
    IF ~SourceStands(row) THEN "unavailable"
    ELSE IF NeedsView(row) /\ ~Established(r)
         THEN IF PriorPending(r) THEN "wait" ELSE "no view"
    ELSE IF (row.required \/ (row.change = "edited" /\ row.answers)) /\ ~ParentStands(row)
         THEN IF row.change = "edited" THEN "downgraded" ELSE "unavailable"
    ELSE "stands"

EndsRow(r, end, why) == rows' = [rows EXCEPT ![r].end = end, ![r].why = why]
restOfAttention == <<posted, intents, stays, level, home, stirs>>
\* The stored input is this event's when it carries the effective content, or
\* the content as issued when the designation went after its admission.
Lookup(r, verdict) ==
    LET form == told[CHOOSE i \in Stored(r) : TRUE].form
    IN IF verdict = "downgraded" \/ form = "whole" THEN "found" ELSE "conflict"
settleFound(r, verdict) ==
    /\ Stored(r) # {}
    /\ IF Lookup(r, verdict) = "found" THEN EndsRow(r, "admitted", "none") ELSE EndsRow(r, "suppressed", "conflict")
settleUnavailable(r, verdict) ==
    /\ Stored(r) = {} /\ verdict \in {"unavailable", "no view"} /\ EndsRow(r, "suppressed", verdict)

\* The rows the drain may take, in any order its backoff makes; it takes one at a time.
DeliverAgentAttention == {r \in DOMAIN rows : rows[r].end = "pending" /\ prepared = {}}
\* The first attempt only finds out whether the row may be delivered.
attemptAgentAttention(r) ==
    /\ r \in DeliverAgentAttention
    /\ LET verdict == authorizeAttentionSource(r) IN
       \/ settleFound(r, verdict) /\ UNCHANGED prepared
       \/ settleUnavailable(r, verdict) /\ UNCHANGED prepared
       \/ /\ Stored(r) = {} /\ verdict \in {"stands", "downgraded"}
          /\ prepared' = prepared \cup {r} /\ UNCHANGED rows
    /\ UNCHANGED <<restOfAttention, told, losses>>

\* The second holds the source's locks while the input is submitted.
Lawful(row) ==
    /\ SameTenure(row) /\ (row.change = "deleted" <=> posted[row.msg].gone)
    /\ (row.required => ParentStands(row))
Admit(r, verdict) ==
    told' = Append(told, [row |-> r, form |-> coreInputFromEvent(r, verdict = "downgraded").form,
                          lawful |-> Lawful(rows[r])])
deliverAgentAttention(r) ==
    /\ r \in prepared /\ prepared' = prepared \ {r}
    /\ LET verdict == authorizeAttentionSource(r) IN
       \/ rows[r].end # "pending" /\ UNCHANGED <<rows, told, losses>>
       \/ /\ rows[r].end = "pending" /\ (settleFound(r, verdict) \/ settleUnavailable(r, verdict))
          /\ UNCHANGED <<told, losses>>
       \/ /\ rows[r].end = "pending" /\ Stored(r) = {} /\ verdict \in {"stands", "downgraded"}
          /\ \/ home[rows[r].to] = "sealed" /\ UNCHANGED <<rows, told, losses>>
             \/ home[rows[r].to] = "transferred" /\ EndsRow(r, "suppressed", "transferred")
                /\ UNCHANGED <<told, losses>>
             \/ /\ home[rows[r].to] = "active" /\ Admit(r, verdict)
                /\ EndsRow(r, "admitted", "none") /\ UNCHANGED losses
             \/ /\ home[rows[r].to] = "active" /\ Admit(r, verdict)
                /\ losses < MaxLosses /\ losses' = losses + 1 /\ UNCHANGED rows
                /\ (verdict = "downgraded" => "forked" \in AttentionPerils)
       \/ rows[r].end = "pending" /\ verdict = "wait" /\ UNCHANGED <<rows, told, losses>>
    /\ UNCHANGED restOfAttention
\* The drain's process dies between the attempts.
drainDies ==
    /\ prepared # {} /\ prepared' = {}
    /\ UNCHANGED <<restOfAttention, rows, told, losses>>

AttentionNext ==
    \/ \E m \in Posts, by \in Secretaries \cup {Person}, to \in Posts \cup {0}, names \in SUBSET Secretaries :
          /\ to < m /\ by \notin names /\ appendScopedInTx(m, by, to, names)
    \/ \E m \in Posts, names \in SUBSET Secretaries : posted[m].by \notin names /\ editMessage(m, names)
    \/ \E m \in Posts, actor \in Secretaries \cup {Person} : DeleteMessage(m, actor)
    \/ \E a \in Secretaries :
          \/ \E to \in {"mute", "all"} : SetNotificationSetting(a, to)
          \/ endTenure(a) \/ admitTenure(a) \/ setAuthority(a)
    \/ \E r \in DOMAIN rows : attemptAgentAttention(r) \/ deliverAgentAttention(r)
    \/ drainDies
AttentionSpec == AttentionInit /\ [][AttentionNext]_attentionVars

-----------------------------------------------------------------------------
AttentionTypeOK ==
    /\ \A m \in Posts : posted[m].rev \in 0..(MaxRevision + 1) /\ intents[m] \subseteq Secretaries
    /\ \A r \in DOMAIN rows : rows[r].to \in Secretaries /\ rows[r].end \in {"pending", "admitted", "suppressed"}
    /\ stays.inside \subseteq Secretaries /\ prepared \subseteq DOMAIN rows

\* A secretary that was shown a message is told of every change made to it
\* while it has access: a row for the current revision was written for it, and
\* that row is only dropped when the tenure ended, the state left, or a later
\* revision replaced it.
CorrectionsReach ==
    /\ \A m \in Posts : \A a \in posted[m].owed :
          \E r \in RowsOf(a, m) : rows[r].rev = posted[m].rev
    /\ \A r \in DOMAIN rows :
          LET row == rows[r] IN
          (row.change # "posted" /\ row.end = "suppressed" /\ WasShown(row.to, row.msg)) =>
              \/ row.why = "transferred" \/ ~SameTenure(row) \/ row.rev < posted[row.msg].rev

\* What a queue holds was lawful when it was put there: the row's own tenure
\* stood and the message was as the event says; a correction without a reason
\* follows something that showed the message; one input per event, and the
\* row says what became of it.
InputsLawful ==
    /\ \A i \in DOMAIN told :
          LET row == rows[told[i].row] IN
          /\ told[i].lawful
          /\ NeedsView(row) => \E j \in 1..(i - 1) : rows[told[j].row].to = row.to
                                                    /\ rows[told[j].row].msg = row.msg
          /\ \A j \in DOMAIN told : told[j].row = told[i].row => j = i
          /\ row.end # "suppressed"
    /\ \A r \in DOMAIN rows : rows[r].end = "admitted" => Stored(r) # {}

\* A secretary hears of what it should, and of nothing else.
AttentionTrue == CorrectionsReach /\ InputsLawful
=============================================================================
