---------------------------- MODULE CloudBrowser ----------------------------
(***************************************************************************)
(* A secretary's cloud browser: the profile row the API keeps, the grants  *)
(* of its tabs with their host tokens, the key of its helper model, and    *)
(* the Worker that runs one remote browser at a time (an incarnation).     *)
(* Grants and keys changed while a browser runs are announced by a refresh *)
(* request on the row; the wake sweep tells the Worker, which fetches them.*)
(* Requests of a browser that is gone may still arrive.                    *)
(***************************************************************************)
EXTENDS Integers, FiniteSets

CONSTANTS
    Grants,         \* tab attachments
    MaxClock,       \* bound: refresh requests made (each at its own time)
    MaxLives,       \* bound: incarnations
    MaxSaves,       \* bound: checkpoints an incarnation may save
    CloudPerils     \* "reply": the answer to a refresh may be lost;
                    \* "clock": a request may be stamped with an earlier time than the last

VARIABLES
    profile,   \* the row: enabled, state, incarnation, refresh_requested_at (0: none), snapshot
    grants,    \* grants: none, on, off
    jev,       \* the version of the key (0: none) and whether it was rejected
    clock,     \* the time of the last refresh request
    host,      \* the Worker: whether a browser runs, the grants whose valid token it
               \* holds, its key and the number of its last checkpoint
    reply,     \* the answer to a refresh under way to the Worker
    wakes,     \* the wake under way: the request it is for, and the Worker's answer
    saves,     \* checkpoints under way
    restored   \* history: the snapshot the last fresh browser was given
cloudVars == <<profile, grants, jev, clock, host, reply, wakes, saves, restored>>

NoHost == [phase |-> "none", inc |-> 0, known |-> {}, key |-> 0, seq |-> 0]
NoReply == [at |-> "none", inc |-> 0, fresh |-> {}, key |-> 0, enabled |-> FALSE]
NoWake == [at |-> "none", asOf |-> 0]
CloudInit ==
    /\ profile = [enabled |-> TRUE, state |-> "sleeping", inc |-> 0, refresh |-> 0, seq |-> 0, snapInc |-> 0]
    /\ grants = [g \in Grants |-> "none"] /\ jev = [version |-> 0, rejected |-> FALSE]
    /\ clock = 0 /\ host = NoHost /\ reply = NoReply /\ wakes = NoWake /\ saves = {}
    /\ restored = 0

Live == host.phase = "live"
jevKey == IF jev.rejected THEN 0 ELSE jev.version
\* A request is stamped with the time its transaction began.
Stamped(p) == \E t \in {clock + 1} \cup (IF "clock" \in CloudPerils /\ clock > 0 THEN {clock} ELSE {}) :
    /\ clock < MaxClock /\ clock' = clock + 1 /\ profile' = [p EXCEPT !.refresh = t]
hostVars == <<host, reply, wakes, saves, restored>>

-----------------------------------------------------------------------------
(* The human's side.                                                       *)
\* Every grant is a new attachment; the token it is made with is given to nobody.
Grant(g) ==
    /\ profile.enabled /\ grants[g] = "none" /\ Stamped(profile)
    /\ grants' = [grants EXCEPT ![g] = "on"]
    /\ UNCHANGED <<jev, hostVars>>
Revoke(g) ==
    /\ grants[g] = "on" /\ grants' = [grants EXCEPT ![g] = "off"]
    /\ UNCHANGED <<profile, jev, clock, hostVars>>
SetJevKey ==
    /\ Stamped(profile) /\ jev' = [version |-> clock + 1, rejected |-> FALSE]
    /\ UNCHANGED <<grants, hostVars>>
DeleteJevKey ==
    /\ jev.version # 0 /\ Stamped(profile) /\ jev' = [version |-> 0, rejected |-> FALSE]
    /\ UNCHANGED <<grants, hostVars>>
\* Only the version that was refused is marked.
JevRejected(v) ==
    /\ v # 0 /\ jev.version = v /\ ~jev.rejected /\ jev' = [jev EXCEPT !.rejected = TRUE]
    /\ UNCHANGED <<profile, grants, clock, hostVars>>
ResetProfile ==
    /\ profile.enabled /\ Stamped([profile EXCEPT !.enabled = FALSE])
    /\ grants' = [g \in Grants |-> IF grants[g] = "on" THEN "off" ELSE grants[g]]
    /\ UNCHANGED <<jev, hostVars>>

-----------------------------------------------------------------------------
(* The Worker's side.                                                      *)
\* New tokens are made for the grants that stand, except the known ones.
rotate(alreadyKnown) == {g \in Grants : grants[g] = "on"} \ alreadyKnown
\* A browser is created (fresh) or found again; either receives everything.
Begin(fresh) ==
    /\ host.phase = (IF fresh THEN "none" ELSE "detached")
    /\ IF ~profile.enabled
       THEN /\ profile' = [profile EXCEPT !.refresh = 0, !.state = "sleeping"] /\ host' = NoHost
            /\ UNCHANGED restored
       ELSE /\ fresh => profile.inc < MaxLives
            /\ fresh \/ host.inc = profile.inc
            /\ profile' = [profile EXCEPT !.inc = IF fresh THEN @ + 1 ELSE @, !.state = "live", !.refresh = 0]
            /\ restored' = IF fresh THEN profile.seq ELSE restored
            /\ host' = [phase |-> "live", inc |-> profile'.inc, key |-> jevKey, seq |-> profile.seq,
                        known |-> rotate({})]
    /\ UNCHANGED <<grants, jev, clock, reply, wakes, saves>>
\* A fetch of what the running browser does not know; its answer follows.
Refresh ==
    /\ reply.at = "asked" /\ UNCHANGED <<grants, jev, clock, host, wakes, saves, restored>>
    /\ IF reply.inc # profile.inc
       THEN reply' = NoReply /\ UNCHANGED profile
       ELSE /\ profile' = [profile EXCEPT !.refresh = 0]
            /\ reply' = [at |-> "answered", inc |-> reply.inc, enabled |-> profile.enabled,
                         fresh |-> rotate(host.known), key |-> jevKey]
Adopt ==
    /\ reply.at = "answered" /\ reply' = NoReply
    /\ \/ host' = IF ~reply.enabled THEN NoHost
                  ELSE [host EXCEPT !.key = reply.key, !.known = @ \cup reply.fresh]
       \/ "reply" \in CloudPerils /\ UNCHANGED host
    /\ UNCHANGED <<profile, grants, jev, clock, wakes, saves, restored>>
\* The browser is lost, or the Worker restarts beside a browser that runs.
HostDies ==
    /\ host.phase \in {"live", "detached"} /\ \E ph \in {"none", "detached"} \ {host.phase} :
           host' = IF ph = "none" THEN NoHost ELSE [host EXCEPT !.phase = "detached"]
    /\ reply' = NoReply /\ UNCHANGED <<profile, grants, jev, clock, wakes, saves, restored>>
\* What the Worker says of the state counts for the current incarnation only.
SetState(s) ==
    /\ host.phase = "none" /\ profile.inc > 0 /\ profile.state = "live"
    /\ profile' = [profile EXCEPT !.state = s]
    /\ UNCHANGED <<grants, jev, clock, hostVars>>
Checkpoint ==
    /\ Live /\ host.seq - profile.seq < MaxSaves /\ host.seq < MaxSaves * MaxLives
    /\ host' = [host EXCEPT !.seq = @ + 1] /\ saves' = saves \cup {[inc |-> host.inc, seq |-> host.seq + 1]}
    /\ UNCHANGED <<profile, grants, jev, clock, reply, wakes, restored>>
SaveFitsAny(s) == profile.enabled /\ s.seq > profile.seq
SaveFits(s) == profile.enabled /\ s.inc = profile.inc /\ s.seq > profile.seq
SaveSnapshot(s) ==
    /\ s \in saves /\ saves' = saves \ {s}
    /\ profile' = IF SaveFits(s) THEN [profile EXCEPT !.seq = s.seq, !.snapInc = s.inc] ELSE profile
    /\ UNCHANGED <<grants, jev, clock, host, reply, wakes, restored>>

-----------------------------------------------------------------------------
(* The wake sweep.                                                         *)
\* Requests of a profile without a live host are dropped first.
WakeCandidates ==
    /\ wakes.at = "none" /\ profile.refresh # 0
    /\ IF profile.state # "live"
       THEN profile' = [profile EXCEPT !.refresh = 0] /\ UNCHANGED wakes
       ELSE wakes' = [at |-> "sent", asOf |-> profile.refresh] /\ UNCHANGED profile
    /\ UNCHANGED <<grants, jev, clock, host, reply, saves, restored>>
\* The Worker starts a fetch, or answers that it hosts nothing.
wake ==
    /\ wakes.at = "sent" /\ (Live => reply.at = "none")
    /\ wakes' = IF Live THEN NoWake ELSE [wakes EXCEPT !.at = "idle"]
    /\ reply' = IF Live THEN [NoReply EXCEPT !.at = "asked", !.inc = host.inc] ELSE reply
    /\ UNCHANGED <<profile, grants, jev, clock, host, saves, restored>>
\* Only the request the wake was sent for is dropped.
DropsAny(asOf) == TRUE
Drops(asOf) == profile.refresh <= asOf
DropRefresh ==
    /\ wakes.at = "idle" /\ wakes' = NoWake
    /\ profile' = [profile EXCEPT !.refresh = IF Drops(wakes.asOf) THEN 0 ELSE @]
    /\ UNCHANGED <<grants, jev, clock, host, reply, saves, restored>>

CloudNext ==
    \/ \E g \in Grants : Grant(g) \/ Revoke(g)
    \/ SetJevKey \/ DeleteJevKey \/ JevRejected(host.key) \/ ResetProfile
    \/ \E fresh \in BOOLEAN : Begin(fresh)
    \/ Refresh \/ Adopt \/ HostDies \/ \E s \in {"sleeping", "lost"} : SetState(s)
    \/ Checkpoint \/ \E s \in saves : SaveSnapshot(s)
    \/ WakeCandidates \/ wake \/ DropRefresh
CloudSpec == CloudInit /\ [][CloudNext]_cloudVars

-----------------------------------------------------------------------------
\* A running browser is never left without what it was granted: once no
\* request is pending and no answer is on its way, it holds the valid token
\* of every grant that stands and the key in force, however the grant, the
\* start, the sweep and the Worker's answers interleaved.
GrantsReachHost ==
    (profile.enabled /\ Live /\ profile.refresh = 0 /\ reply.at = "none") =>
        /\ \A g \in Grants : grants[g] = "on" => g \in host.known
        /\ jev.rejected \/ host.key = jev.version
\* What a new browser was restored from stays the last checkpoint until this
\* browser saves its own: one of an earlier browser that arrives late is refused.
SnapshotKept == profile.snapInc = profile.inc \/ profile.seq = restored
\* The browser has its grants, and its profile the last state worth keeping.
CloudBrowserSound == GrantsReachHost /\ SnapshotKept
=============================================================================
