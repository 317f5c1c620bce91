---------------------------- MODULE StoresProofs ----------------------------
(* Theorems about a browser and a runtime that sleep and are woken, about  *)
(* the attachments a Workspace stores, about the sockets that carry its    *)
(* messages and a session's chats, about a secretary's visit to a call,    *)
(* and about what it hears of a shared place, for every value of the       *)
(* constants.                                                              *)
EXTENDS AgentAttention, Attachments, BrowserSocket, CallSession, CloudBrowser, MessagingSocket,
        RuntimeWaker, FiniteSetTheorems, WellFoundedInduction, TLAPS

-----------------------------------------------------------------------------
(* The cloud browser *)

HostPhases == {"none", "detached", "live"}
ProfileRows == [enabled : BOOLEAN, state : {"sleeping", "live", "lost"}, inc : Nat,
                refresh : Nat, seq : Nat, snapInc : Nat]
CloudType ==
    /\ profile \in ProfileRows
    /\ grants \in [Grants -> {"none", "on", "off"}]
    /\ jev \in [version : Nat, rejected : BOOLEAN] /\ clock \in Nat
    /\ host \in [phase : HostPhases, inc : Nat, known : SUBSET Grants, key : Nat, seq : Nat]
    /\ reply \in [at : {"none", "asked", "answered"}, inc : Nat, fresh : SUBSET Grants, key : Nat,
                  enabled : BOOLEAN]
    /\ wakes \in [at : {"none", "sent", "idle"}, asOf : Nat]
    /\ saves \subseteq [inc : Nat, seq : Nat] /\ restored \in Nat

\* A browser with these tokens and this key lacks nothing.
Supplied(known, key) ==
    /\ \A g \in Grants : grants[g] = "on" => g \in known
    /\ jev.rejected \/ key = jev.version
\* The row and the Worker speak of the same incarnation, and only a running
\* browser is asked about.
SameLife ==
    /\ host.phase # "none" => profile.state = "live" /\ host.inc = profile.inc
    /\ ~Live => reply.at = "none"
    /\ reply.at # "none" => reply.inc = profile.inc
\* Times: a wake found idle is for a request older than any the browser that
\* runs now still waits for.
Times ==
    /\ profile.refresh <= clock /\ wakes.asOf <= clock
    /\ Live /\ wakes.at = "idle" => profile.refresh = 0 \/ profile.refresh > wakes.asOf
\* What a running browser lacks is requested, asked for, or in the answer.
NothingForgotten ==
    profile.enabled /\ Live =>
        \/ profile.refresh # 0 \/ reply.at = "asked"
        \/ reply.at = "answered" /\ reply.enabled /\ Supplied(host.known \cup reply.fresh, reply.key)
        \/ reply.at = "none" /\ Supplied(host.known, host.key)
AnswerStands == reply.at = "answered" /\ profile.enabled => reply.enabled
CloudInv == CloudType /\ SameLife /\ Times /\ AnswerStands /\ NothingForgotten /\ SnapshotKept

LEMMA CloudInvInit == CloudInit => CloudInv
  <1> SUFFICES ASSUME CloudInit PROVE CloudInv
    OBVIOUS
  <1>1. CloudType
    BY DEF CloudInit, CloudType, ProfileRows, NoHost, NoReply, NoWake, HostPhases
  <1> QED
    BY <1>1 DEF CloudInv, CloudInit, SameLife, Times, AnswerStands, NothingForgotten, SnapshotKept,
            Live, NoHost, NoReply, NoWake

\* A request is stamped later than everything the sweep has seen.
LEMMA StampFacts ==
    ASSUME CloudPerils = {}, CloudType, NEW enabled \in BOOLEAN,
           Stamped([profile EXCEPT !.enabled = enabled])
    PROVE  /\ clock' = clock + 1 /\ profile'.refresh = clock + 1 /\ profile'.enabled = enabled
           /\ profile' \in ProfileRows
           /\ profile'.state = profile.state /\ profile'.inc = profile.inc
           /\ profile'.seq = profile.seq /\ profile'.snapInc = profile.snapInc
  <1> DEFINE n == clock + 1
  <1>1. clock' = n /\ profile' = [[profile EXCEPT !.enabled = enabled] EXCEPT !.refresh = n]
    BY DEF Stamped
  <1>2. n \in Nat /\ profile \in ProfileRows
    BY DEF CloudType, ProfileRows
  <1> HIDE DEF n
  <1>3. /\ profile'.refresh = n /\ profile'.enabled = enabled /\ profile' \in ProfileRows
        /\ profile'.state = profile.state /\ profile'.inc = profile.inc
        /\ profile'.seq = profile.seq /\ profile'.snapInc = profile.snapInc
    BY <1>1, <1>2 DEF ProfileRows
  <1> QED
    BY <1>1, <1>3 DEF n

LEMMA StampKeeps ==
    ASSUME CloudInv, CloudType', clock' = clock + 1, profile'.refresh = clock + 1,
           profile'.state = profile.state, profile'.inc = profile.inc,
           profile'.seq = profile.seq, profile'.snapInc = profile.snapInc,
           profile'.enabled => profile.enabled,
           UNCHANGED hostVars
    PROVE  CloudInv'
  <1>1. clock \in Nat /\ wakes.asOf \in Nat
    BY DEF CloudInv, CloudType, ProfileRows
  <1> QED
    BY <1>1 DEF CloudInv, SameLife, Times, AnswerStands, NothingForgotten, SnapshotKept, Live, hostVars

LEMMA HumanSteps ==
    ASSUME CloudPerils = {}, CloudInv,
           \/ \E g \in Grants : Grant(g) \/ Revoke(g)
           \/ SetJevKey \/ DeleteJevKey \/ JevRejected(host.key) \/ ResetProfile
    PROVE  CloudInv'
  <1>0. CloudType /\ profile = [profile EXCEPT !.enabled = profile.enabled] /\ profile.enabled \in BOOLEAN
    BY DEF CloudInv, CloudType, ProfileRows
  <1>1. ASSUME NEW g \in Grants, Grant(g) PROVE CloudInv'
    <2>1. Stamped(profile) /\ grants' = [grants EXCEPT ![g] = "on"] /\ UNCHANGED <<jev, hostVars>>
      BY <1>1 DEF Grant
    <2>2. Stamped([profile EXCEPT !.enabled = profile.enabled])
      BY <1>0, <2>1
    <2>3. CloudType'
      BY <1>0, <2>1, <2>2, StampFacts DEF ProfileRows, CloudType, hostVars
    <2> QED
      BY <1>0, <2>1, <2>2, <2>3, StampFacts, StampKeeps
  <1>2. ASSUME NEW g \in Grants, Revoke(g) PROVE CloudInv'
    <2>1. grants' = [grants EXCEPT ![g] = "off"] /\ UNCHANGED <<profile, jev, clock, hostVars>>
      BY <1>2 DEF Revoke
    <2>2. CloudType'
      BY <1>0, <2>1 DEF ProfileRows, CloudType, hostVars
    <2>3. \A x \in Grants : grants'[x] = "on" => grants[x] = "on"
      BY <1>0, <2>1 DEF CloudType, ProfileRows
    <2> QED
      BY <2>1, <2>2, <2>3 DEF CloudInv, SameLife, Times, AnswerStands, NothingForgotten, SnapshotKept, Live,
              hostVars, Supplied
  <1>3. ASSUME SetJevKey \/ DeleteJevKey PROVE CloudInv'
    <2>1. Stamped(profile) /\ UNCHANGED <<grants, hostVars>>
          /\ (jev' = [version |-> clock + 1, rejected |-> FALSE] \/ jev' = [version |-> 0, rejected |-> FALSE])
      BY <1>3 DEF SetJevKey, DeleteJevKey
    <2>2. Stamped([profile EXCEPT !.enabled = profile.enabled])
      BY <1>0, <2>1
    <2>3. CloudType'
      <3>1. profile' \in ProfileRows /\ clock' \in Nat /\ clock + 1 \in Nat
        BY <1>0, <2>2, StampFacts DEF CloudType, ProfileRows
      <3>2. PICK k \in Nat : jev' = [version |-> k, rejected |-> FALSE]
        BY <2>1, <3>1
      <3>3. jev' \in [version : Nat, rejected : BOOLEAN]
        BY <3>2
      <3> QED
        BY <1>0, <2>1, <3>1, <3>3 DEF CloudType, hostVars
    <2> QED
      BY <1>0, <2>1, <2>2, <2>3, StampFacts, StampKeeps
  <1>4. ASSUME JevRejected(host.key) PROVE CloudInv'
    <2>1. jev' = [jev EXCEPT !.rejected = TRUE] /\ UNCHANGED <<profile, grants, clock, hostVars>>
      BY <1>4 DEF JevRejected
    <2>2. CloudType' /\ jev'.rejected
      BY <1>0, <2>1 DEF ProfileRows, CloudType, hostVars
    <2> QED
      BY <2>1, <2>2 DEF CloudInv, SameLife, Times, AnswerStands, NothingForgotten, SnapshotKept, Live,
              hostVars, Supplied
  <1>5. ASSUME ResetProfile PROVE CloudInv'
    <2>1. /\ Stamped([profile EXCEPT !.enabled = FALSE]) /\ UNCHANGED <<jev, hostVars>>
          /\ grants' = [g \in Grants |-> IF grants[g] = "on" THEN "off" ELSE grants[g]]
      BY <1>5 DEF ResetProfile
    <2>2. CloudType'
      <3>0. CloudType /\ clock + 1 \in Nat
        BY <1>0 DEF CloudType
      <3>1. profile' \in ProfileRows /\ clock' \in Nat
        BY <3>0, <2>1, StampFacts
      <3>2. grants' \in [Grants -> {"none", "on", "off"}]
        <4>1. \A g \in Grants : grants[g] \in {"none", "on", "off"}
          BY <1>0 DEF CloudType
        <4>2. grants' = [g \in Grants |-> IF grants[g] = "on" THEN "off" ELSE grants[g]]
          BY <2>1
        <4> QED
          BY <4>1, <4>2
      <3> QED
        BY <1>0, <2>1, <3>1, <3>2 DEF ProfileRows, CloudType, hostVars
    <2> QED
      BY <1>0, <2>1, <2>2, StampFacts, StampKeeps
  <1> QED
    BY <1>1, <1>2, <1>3, <1>4, <1>5

LEMMA BeginSteps ==
    ASSUME CloudInv, NEW fresh \in BOOLEAN, Begin(fresh)
    PROVE  CloudInv'
  <1>0. CloudType /\ SameLife /\ Times /\ SnapshotKept /\ ~Live /\ reply.at = "none"
    BY DEF CloudInv, SameLife, Begin, Live
  <1>1. UNCHANGED <<grants, jev, clock, reply, wakes, saves>>
    BY DEF Begin
  <1>2. CASE ~profile.enabled
    <2>1. /\ profile' = [profile EXCEPT !.refresh = 0, !.state = "sleeping"] /\ host' = NoHost
          /\ restored' = restored
      BY <1>2 DEF Begin
    <2>2. CloudType' /\ ~Live' /\ profile'.refresh = 0 /\ profile'.inc = profile.inc
          /\ profile'.seq = profile.seq /\ profile'.snapInc = profile.snapInc /\ host'.phase = "none"
      BY <1>0, <1>1, <2>1 DEF ProfileRows, CloudType, NoHost, HostPhases, Live
    <2> QED
      BY <1>0, <1>1, <2>1, <2>2 DEF CloudInv, SameLife, Times, AnswerStands, NothingForgotten, SnapshotKept,
              Live, CloudType, ProfileRows
  <1>3. CASE profile.enabled
    <2> DEFINE row == [profile EXCEPT !.inc = IF fresh THEN @ + 1 ELSE @, !.state = "live", !.refresh = 0]
    <2>1. /\ profile' = row /\ restored' = IF fresh THEN profile.seq ELSE restored
          /\ host' = [phase |-> "live", inc |-> profile'.inc, key |-> jevKey, seq |-> profile.seq,
                      known |-> rotate({})]
      BY <1>3 DEF Begin
    <2>2. /\ row \in ProfileRows
          /\ row.refresh = 0 /\ row.state = "live" /\ row.inc = (IF fresh THEN profile.inc + 1 ELSE profile.inc)
          /\ row.seq = profile.seq /\ row.snapInc = profile.snapInc
      <3> DEFINE n == IF fresh THEN profile.inc + 1 ELSE profile.inc
      <3>1. row = [profile EXCEPT !.inc = n, !.state = "live", !.refresh = 0]
        OBVIOUS
      <3>2. n \in Nat /\ profile \in ProfileRows
        BY <1>0 DEF CloudType, ProfileRows
      <3> HIDE DEF n, row
      <3>3. row \in ProfileRows /\ row.refresh = 0 /\ row.state = "live" /\ row.inc = n
            /\ row.seq = profile.seq /\ row.snapInc = profile.snapInc
        BY <3>1, <3>2 DEF ProfileRows
      <3> QED
        BY <3>3 DEF n
    <2> HIDE DEF row
    <2>3. jevKey \in Nat /\ rotate({}) \in SUBSET Grants /\ Supplied(rotate({}), jevKey)
      BY <1>0 DEF ProfileRows, CloudType, jevKey, rotate, Supplied
    <2>4. /\ host' \in [phase : HostPhases, inc : Nat, known : SUBSET Grants, key : Nat, seq : Nat]
          /\ host'.phase = "live" /\ host'.inc = profile'.inc /\ host'.key = jevKey /\ host'.known = rotate({})
      BY <1>0, <2>1, <2>2, <2>3 DEF ProfileRows, CloudType, HostPhases
    <2>5. CloudType'
      BY <1>0, <1>1, <2>1, <2>2, <2>4 DEF CloudType, ProfileRows
    <2>6. Supplied(host.known, host.key)'
      BY <1>1, <2>3, <2>4 DEF Supplied
    <2>7. SnapshotKept'
      BY <1>0, <2>1, <2>2 DEF SnapshotKept
    <2>8. NothingForgotten'
      BY <1>0, <1>1, <2>6 DEF NothingForgotten
    <2>9. SameLife' /\ Times' /\ AnswerStands'
      BY <1>0, <1>1, <2>1, <2>2, <2>4 DEF SameLife, Times, AnswerStands, CloudType, Live
    <2> QED
      BY <2>5, <2>7, <2>8, <2>9 DEF CloudInv
  <1> QED
    BY <1>2, <1>3

LEMMA WorkerSteps ==
    ASSUME CloudPerils = {}, CloudInv,
           \/ Refresh \/ Adopt \/ HostDies \/ \E s \in {"sleeping", "lost"} : SetState(s)
           \/ Checkpoint \/ \E s \in saves : SaveSnapshot(s)
    PROVE  CloudInv'
  <1>0. CloudType /\ SameLife /\ Times /\ SnapshotKept /\ AnswerStands /\ NothingForgotten
    BY DEF CloudInv
  <1>1. CASE Refresh
    <2>1. /\ reply.at = "asked" /\ UNCHANGED <<grants, jev, clock, host, wakes, saves, restored>>
          /\ profile' = [profile EXCEPT !.refresh = 0]
          /\ reply' = [at |-> "answered", inc |-> reply.inc, enabled |-> profile.enabled,
                       fresh |-> rotate(host.known), key |-> jevKey]
      BY <1>0, <1>1 DEF Refresh, SameLife
    <2>2. /\ profile' \in ProfileRows
          /\ profile'.refresh = 0 /\ profile'.state = profile.state /\ profile'.inc = profile.inc
          /\ profile'.seq = profile.seq /\ profile'.snapInc = profile.snapInc
          /\ profile'.enabled = profile.enabled
      BY <1>0, <2>1 DEF CloudType, ProfileRows
    <2>3. jevKey \in Nat /\ rotate(host.known) \in SUBSET Grants
          /\ Supplied(host.known \cup rotate(host.known), jevKey)
      BY <1>0 DEF ProfileRows, CloudType, jevKey, rotate, Supplied
    <2>4. /\ reply'.at = "answered" /\ reply'.inc = reply.inc /\ reply'.enabled = profile.enabled
          /\ reply'.fresh = rotate(host.known) /\ reply'.key = jevKey
      BY <2>1
    <2>5. CloudType'
      BY <1>0, <2>1, <2>2, <2>3 DEF CloudType, ProfileRows
    <2>6. Supplied(host.known \cup reply.fresh, reply.key)'
      BY <2>1, <2>3, <2>4 DEF Supplied
    <2>7. SameLife' /\ Times' /\ AnswerStands' /\ SnapshotKept'
      BY <1>0, <2>1, <2>2, <2>4 DEF SameLife, Times, AnswerStands, SnapshotKept, CloudType, Live
    <2>8. NothingForgotten'
      BY <2>2, <2>4, <2>6 DEF NothingForgotten
    <2> QED
      BY <2>5, <2>7, <2>8 DEF CloudInv
  <1>2. CASE Adopt
    <2>1. /\ reply.at = "answered" /\ reply' = NoReply /\ Live
          /\ UNCHANGED <<profile, grants, jev, clock, wakes, saves, restored>>
          /\ host' = IF ~reply.enabled THEN NoHost
                     ELSE [host EXCEPT !.key = reply.key, !.known = @ \cup reply.fresh]
      BY <1>0, <1>2 DEF Adopt, SameLife
    <2>2. reply'.at = "none" /\ reply' \in [at : {"none", "asked", "answered"}, inc : Nat,
                fresh : SUBSET Grants, key : Nat, enabled : BOOLEAN]
      BY <2>1 DEF NoReply
    <2>3. CASE ~reply.enabled
      <3>1. /\ host' \in [phase : HostPhases, inc : Nat, known : SUBSET Grants, key : Nat, seq : Nat]
            /\ host'.phase = "none"
        BY <2>1, <2>3 DEF NoHost, HostPhases
      <3>2. CloudType'
        BY <1>0, <2>1, <2>2, <3>1 DEF CloudType, ProfileRows
      <3> QED
        BY <1>0, <2>1, <2>2, <3>1, <3>2 DEF CloudInv, SameLife, Times, AnswerStands, NothingForgotten,
                SnapshotKept, Live
    <2>4. CASE reply.enabled
      <3>1. /\ host' \in [phase : HostPhases, inc : Nat, known : SUBSET Grants, key : Nat, seq : Nat]
            /\ host'.phase = host.phase /\ host'.inc = host.inc /\ host'.key = reply.key
            /\ host'.known = host.known \cup reply.fresh
        BY <1>0, <2>1, <2>4 DEF CloudType, ProfileRows
      <3>2. CloudType'
        BY <1>0, <2>1, <2>2, <3>1 DEF CloudType, ProfileRows
      <3>3. profile.enabled /\ profile.refresh = 0 => Supplied(host.known, host.key)'
        BY <1>0, <2>1, <3>1 DEF NothingForgotten, Supplied
      <3>4. NothingForgotten'
        BY <2>1, <2>2, <3>3 DEF NothingForgotten
      <3> QED
        BY <1>0, <2>1, <2>2, <3>1, <3>2, <3>4 DEF CloudInv, SameLife, Times, AnswerStands,
                SnapshotKept, Live
    <2> QED
      BY <1>0, <2>3, <2>4 DEF CloudType, ProfileRows
  <1>3. CASE HostDies
    <2>1. /\ host.phase \in {"live", "detached"} /\ reply' = NoReply
          /\ UNCHANGED <<profile, grants, jev, clock, wakes, saves, restored>>
          /\ host' = NoHost \/ host' = [host EXCEPT !.phase = "detached"]
      BY <1>3 DEF HostDies
    <2>2. reply'.at = "none" /\ reply' \in [at : {"none", "asked", "answered"}, inc : Nat,
                fresh : SUBSET Grants, key : Nat, enabled : BOOLEAN]
      BY <2>1 DEF NoReply
    <2>3. /\ host' \in [phase : HostPhases, inc : Nat, known : SUBSET Grants, key : Nat, seq : Nat]
          /\ host'.phase = "none" \/ (host'.phase = "detached" /\ host'.inc = host.inc)
      BY <1>0, <2>1 DEF ProfileRows, CloudType, NoHost, HostPhases
    <2>4. CloudType'
      BY <1>0, <2>1, <2>2, <2>3 DEF CloudType, ProfileRows
    <2> QED
      BY <1>0, <2>1, <2>2, <2>3, <2>4 DEF CloudInv, SameLife, Times, AnswerStands, NothingForgotten,
              SnapshotKept, Live
  <1>4. ASSUME NEW s \in {"sleeping", "lost"}, SetState(s) PROVE CloudInv'
    <2>1. /\ host.phase = "none" /\ profile' = [profile EXCEPT !.state = s]
          /\ UNCHANGED <<grants, jev, clock, host, reply, wakes, saves, restored>>
      BY <1>4 DEF SetState, hostVars
    <2>2. /\ profile' \in ProfileRows
          /\ profile'.refresh = profile.refresh /\ profile'.inc = profile.inc
          /\ profile'.seq = profile.seq /\ profile'.snapInc = profile.snapInc
          /\ profile'.enabled = profile.enabled
      BY <1>0, <2>1 DEF CloudType, ProfileRows
    <2>3. CloudType'
      BY <1>0, <2>1, <2>2 DEF CloudType, ProfileRows
    <2> QED
      BY <1>0, <2>1, <2>2, <2>3 DEF CloudInv, SameLife, Times, AnswerStands, NothingForgotten,
              SnapshotKept, Live
  <1>5. CASE Checkpoint
    <2>1. /\ host' = [host EXCEPT !.seq = @ + 1]
          /\ saves' = saves \cup {[inc |-> host.inc, seq |-> host.seq + 1]}
          /\ UNCHANGED <<profile, grants, jev, clock, reply, wakes, restored>>
      BY <1>5 DEF Checkpoint
    <2>2. /\ host' \in [phase : HostPhases, inc : Nat, known : SUBSET Grants, key : Nat, seq : Nat]
          /\ host'.phase = host.phase /\ host'.inc = host.inc /\ host'.key = host.key
          /\ host'.known = host.known
      BY <1>0, <2>1 DEF CloudType, ProfileRows
    <2>3. CloudType'
      BY <1>0, <2>1, <2>2 DEF CloudType, ProfileRows
    <2> QED
      BY <1>0, <2>1, <2>2, <2>3 DEF CloudInv, SameLife, Times, AnswerStands, NothingForgotten,
              SnapshotKept, Live, Supplied
  <1>6. ASSUME NEW s \in saves, SaveSnapshot(s) PROVE CloudInv'
    <2>1. /\ saves' = saves \ {s} /\ UNCHANGED <<grants, jev, clock, host, reply, wakes, restored>>
          /\ profile' = IF SaveFits(s) THEN [profile EXCEPT !.seq = s.seq, !.snapInc = s.inc] ELSE profile
      BY <1>6 DEF SaveSnapshot
    <2>2. s.inc \in Nat /\ s.seq \in Nat
      BY <1>0 DEF CloudType, ProfileRows
    <2>3. /\ profile' \in ProfileRows
          /\ profile'.refresh = profile.refresh /\ profile'.inc = profile.inc /\ profile'.state = profile.state
          /\ profile'.enabled = profile.enabled
          /\ \/ profile'.seq = profile.seq /\ profile'.snapInc = profile.snapInc
             \/ profile'.snapInc = profile.inc
      BY <1>0, <2>1, <2>2 DEF ProfileRows, CloudType, SaveFits
    <2>4. CloudType'
      BY <1>0, <2>1, <2>3 DEF CloudType, ProfileRows
    <2> QED
      BY <1>0, <2>1, <2>3, <2>4 DEF CloudInv, SameLife, Times, AnswerStands, NothingForgotten,
              SnapshotKept, Live, Supplied
  <1> QED
    BY <1>1, <1>2, <1>3, <1>4, <1>5, <1>6

LEMMA SweepSteps ==
    ASSUME CloudInv, WakeCandidates \/ wake \/ DropRefresh \/ UNCHANGED cloudVars
    PROVE  CloudInv'
  <1>0. CloudType /\ SameLife /\ Times /\ SnapshotKept /\ AnswerStands /\ NothingForgotten
    BY DEF CloudInv
  <1>1. ASSUME NEW n \in {0, profile.refresh}, profile' = [profile EXCEPT !.refresh = n]
        PROVE  /\ profile' \in ProfileRows
               /\ profile'.refresh = n /\ profile'.inc = profile.inc /\ profile'.state = profile.state
               /\ profile'.enabled = profile.enabled
               /\ profile'.seq = profile.seq /\ profile'.snapInc = profile.snapInc
    BY <1>0, <1>1 DEF CloudType, ProfileRows
  <1>2. CASE WakeCandidates
    <2>1. wakes.at = "none" /\ UNCHANGED <<grants, jev, clock, host, reply, saves, restored>>
      BY <1>2 DEF WakeCandidates
    <2>2. CASE profile.state # "live" /\ profile' = [profile EXCEPT !.refresh = 0] /\ UNCHANGED wakes
      <3>1. CloudType'
        BY <1>0, <1>1, <2>1, <2>2 DEF CloudType, ProfileRows
      <3>2. ~Live /\ ~Live'
        BY <1>0, <2>1, <2>2 DEF SameLife, Live
      <3> QED
        BY <1>0, <1>1, <2>1, <2>2, <3>1, <3>2 DEF CloudInv, SameLife, Times, AnswerStands,
                NothingForgotten, SnapshotKept, CloudType, ProfileRows
    <2>3. CASE wakes' = [at |-> "sent", asOf |-> profile.refresh] /\ UNCHANGED profile
      <3>1. CloudType' /\ wakes'.at = "sent" /\ wakes'.asOf = profile.refresh
        BY <1>0, <2>1, <2>3 DEF CloudType, ProfileRows
      <3> QED
        BY <1>0, <2>1, <2>3, <3>1 DEF CloudInv, SameLife, Times, AnswerStands,
                NothingForgotten, SnapshotKept, Supplied, Live
    <2> QED
      BY <1>2, <2>2, <2>3 DEF WakeCandidates
  <1>3. CASE wake
    <2>1. wakes.at = "sent" /\ UNCHANGED <<profile, grants, jev, clock, host, saves, restored>>
      BY <1>3 DEF wake
    <2>2. CASE Live
      <3>1. wakes' = NoWake /\ reply' = [NoReply EXCEPT !.at = "asked", !.inc = host.inc]
        BY <1>3, <2>2 DEF wake
      <3>2. CloudType' /\ wakes'.at = "none" /\ wakes'.asOf = 0 /\ reply'.at = "asked" /\ reply'.inc = host.inc
        BY <1>0, <2>1, <3>1 DEF ProfileRows, CloudType, NoWake, NoReply
      <3> QED
        BY <1>0, <2>1, <2>2, <3>2 DEF CloudInv, SameLife, Times, AnswerStands,
                NothingForgotten, SnapshotKept, Live, CloudType, ProfileRows
    <2>3. CASE ~Live
      <3>1. wakes' = [wakes EXCEPT !.at = "idle"] /\ reply' = reply
        BY <1>3, <2>3 DEF wake
      <3>2. CloudType' /\ wakes'.at = "idle" /\ wakes'.asOf = wakes.asOf /\ ~Live'
        BY <1>0, <2>1, <2>3, <3>1 DEF ProfileRows, CloudType, Live
      <3> QED
        BY <1>0, <2>1, <2>3, <3>1, <3>2 DEF CloudInv, SameLife, Times, AnswerStands,
                NothingForgotten, SnapshotKept
    <2> QED
      BY <2>2, <2>3
  <1>4. CASE DropRefresh
    <2>1. /\ wakes.at = "idle" /\ wakes' = NoWake /\ UNCHANGED <<grants, jev, clock, host, reply, saves, restored>>
          /\ profile' = [profile EXCEPT !.refresh = IF profile.refresh <= wakes.asOf THEN 0 ELSE @]
      BY <1>4 DEF DropRefresh, Drops
    <2>2. PICK n \in {0, profile.refresh} : /\ profile' = [profile EXCEPT !.refresh = n]
                                            /\ n = IF profile.refresh <= wakes.asOf THEN 0 ELSE profile.refresh
      BY <2>1
    <2>3. CloudType' /\ wakes'.at = "none" /\ wakes'.asOf = 0
      BY <1>0, <1>1, <2>1, <2>2 DEF ProfileRows, CloudType, NoWake
    <2>4. Live => n = profile.refresh
      BY <1>0, <2>1, <2>2 DEF Times, CloudType, ProfileRows
    <2> QED
      BY <1>0, <1>1, <2>1, <2>2, <2>3, <2>4 DEF CloudInv, SameLife, Times, AnswerStands,
              NothingForgotten, SnapshotKept, Live, CloudType, Supplied
  <1>5. CASE UNCHANGED cloudVars
    BY <1>0, <1>5 DEF cloudVars, CloudInv, CloudType, SameLife, Times, AnswerStands,
            NothingForgotten, SnapshotKept, Live, Supplied
  <1> QED
    BY <1>2, <1>3, <1>4, <1>5

(***************************************************************************)
(* While no answer of the API is lost and request times never go back:     *)
(* however grants, starts, sweeps and answers interleave, a running        *)
(* browser is never left without what it was granted, and a snapshot is    *)
(* never replaced by an earlier browser's (Begin, Refresh, DropRefresh,    *)
(* SaveSnapshot).                                                          *)
(***************************************************************************)
THEOREM CloudBrowserStaysSound ==
    ASSUME CloudPerils = {} PROVE CloudSpec => []CloudBrowserSound
  <1>1. CloudInit => CloudInv
    BY CloudInvInit
  <1>2. CloudInv /\ [CloudNext]_cloudVars => CloudInv'
    <2> SUFFICES ASSUME CloudInv, [CloudNext]_cloudVars PROVE CloudInv'
      OBVIOUS
    <2> QED
      BY HumanSteps, BeginSteps, WorkerSteps, SweepSteps DEF CloudNext
  <1>3. CloudInv => CloudBrowserSound
    BY DEF CloudInv, CloudBrowserSound, GrantsReachHost, NothingForgotten, Supplied
  <1> QED
    BY <1>1, <1>2, <1>3, PTL DEF CloudSpec

-----------------------------------------------------------------------------
(* The runtime waker *)

MarkRows == [on : BOOLEAN, same : BOOLEAN, gap : Nat, at : Nat]
WakerType ==
    /\ work \in [PersonaIds -> {"none", "due", "rescue"}] /\ holder \subseteq PersonaIds
    /\ marks \in [PersonaIds -> MarkRows] /\ cursor \in 0 .. LastPersona
    /\ quiet \in [PersonaIds -> Nat] /\ passed \in [PersonaIds -> Nat]
\* A mark remembers a wake for as long as the least gap runs.
MarkOK(p) ==
    /\ marks[p].on => marks[p].gap >= MinGap
    /\ quiet[p] < MinGap => marks[p].on /\ marks[p].same /\ marks[p].at <= quiet[p]
\* Full pages the rotation may still see before p's own.
RankAt(c, p) ==
    IF p > c THEN (p - 1 - c) \div PageLimit
    ELSE (LastPersona - c) \div PageLimit + 1 + (p - 1) \div PageLimit
Rank(p) == RankAt(cursor, p)
Rounds == (LastPersona + PageLimit - 1) \div PageLimit
WakerInv ==
    /\ WakerType /\ hasty = {}
    /\ \A p \in PersonaIds : MarkOK(p) /\ passed[p] + Rank(p) <= Rounds

\* Arithmetic of pages.
LEMMA PageSteps ==
    ASSUME NEW L \in Nat \ {0}, NEW a \in Int, NEW b \in Int
    PROVE  /\ a \div L \in Int
           /\ a <= b => a \div L <= b \div L
           /\ a + L <= b => a \div L + 1 <= b \div L
           /\ (a + L) \div L = a \div L + 1
           /\ a \div L + b \div L <= (a + b) \div L
  <1>1. /\ a \div L \in Int /\ L * (a \div L) <= a /\ a < L * (a \div L) + L
        /\ b \div L \in Int /\ L * (b \div L) <= b /\ b < L * (b \div L) + L
    OBVIOUS
  <1>2. a <= b => a \div L <= b \div L
    OBVIOUS
  <1>3. a + L <= b => a \div L + 1 <= b \div L
    OBVIOUS
  <1>4. (a + L) \div L = a \div L + 1
    OBVIOUS
  <1>5. a \div L + b \div L <= (a + b) \div L
    <2> DEFINE x == a \div L
               y == b \div L
               z == (a + b) \div L
    <2>1. x \in Int /\ y \in Int /\ z \in Int /\ L * x <= a /\ L * y <= b /\ a + b < L * z + L
      <3>1. a + b \in Int
        OBVIOUS
      <3>2. z \in Int /\ a + b < L * z + L
        BY <3>1
      <3> QED
        BY <1>1, <3>2
    <2> HIDE DEF x, y, z
    <2>2. L * (x + y) = L * x + L * y /\ L * (z + 1) = L * z + L
      BY <2>1
    <2>3. L * (x + y) < L * (z + 1)
      BY <2>1, <2>2
    <2>4. x + y < z + 1
      BY <2>1, <2>3
    <2>5. x + y <= z
      BY <2>1, <2>4
    <2> QED
      BY <2>5 DEF x, y, z
  <1> QED
    BY <1>1, <1>2, <1>3, <1>4, <1>5

LEMMA LeastNat ==
    ASSUME NEW T \in SUBSET Nat, T # {} PROVE \E x \in T : \A y \in T : x <= y
  <1>1. IsWellFoundedOn(OpToRel(<, Nat), Nat)
    BY NatLessThanWellFounded
  <1>2. PICK x \in T : \A y \in T : ~ (<<y, x>> \in OpToRel(<, Nat))
    BY <1>1, WFMin
  <1>3. \A y \in T : ~(y < x)
    BY <1>2 DEF OpToRel
  <1> QED
    BY <1>3

\* A persona that was just woken, or just came, waits for one round at most.
LEMMA RankBound ==
    ASSUME NEW c \in 0 .. LastPersona, NEW p \in PersonaIds
    PROVE  RankAt(c, p) \in Nat /\ RankAt(c, p) <= Rounds /\ Rounds \in Nat /\ Rounds <= LastPersona
  <1> DEFINE L == PageLimit
             N == LastPersona
  <1>1. L \in Nat \ {0} /\ N \in Nat \ {0} /\ c \in Int /\ c >= 0 /\ c <= N
        /\ p \in Int /\ p >= 1 /\ p <= N
    BY WakerAssumption DEF PersonaIds
  <1> HIDE DEF L, N
  <1>2. /\ N - 1 \in Int /\ p - 1 - c \in Int /\ N - c \in Int /\ p - 1 \in Int
        /\ (N - c) + (p - 1) \in Int
    BY <1>1
  <1>3. 0 \div L = 0
    BY <1>1
  <1>4. (N + L - 1) \div L = (N - 1) \div L + 1
    <2>1. N + L - 1 = (N - 1) + L
      BY <1>1
    <2> QED
      BY <1>1, <1>2, <2>1, PageSteps
  <1>5. (N - 1) \div L \in Int /\ (N - 1) \div L >= 0
    <2>1. 0 <= N - 1
      BY <1>1
    <2> QED
      BY <1>1, <1>2, <1>3, <2>1, PageSteps
  <1>6. (N - 1) \div L + 1 <= N
    <2> DEFINE q == (N - 1) \div L
    <2>1. q \in Int /\ q >= 0 /\ L * q <= N - 1
      BY <1>1, <1>2, <1>5
    <2> HIDE DEF q
    <2>2. q <= L * q
      BY <1>1, <2>1
    <2>3. q + 1 <= N
      <3>1. L * q \in Int
        BY <1>1, <2>1
      <3> QED
        BY <1>1, <2>1, <2>2, <3>1
    <2> QED
      BY <2>3 DEF q
  <1>7. CASE p > c
    <2>1. 0 <= p - 1 - c /\ p - 1 - c <= N - 1
      BY <1>1, <1>7
    <2>2. /\ (p - 1 - c) \div L \in Int /\ 0 <= (p - 1 - c) \div L
          /\ (p - 1 - c) \div L <= (N - 1) \div L
      BY <1>1, <1>2, <1>3, <2>1, PageSteps
    <2>3. RankAt(c, p) = (p - 1 - c) \div L
      BY <1>7 DEF RankAt, L
    <2> QED
      BY <1>4, <1>5, <1>6, <2>2, <2>3 DEF Rounds, L, N
  <1>8. CASE ~(p > c)
    <2>1. 0 <= N - c /\ 0 <= p - 1 /\ (N - c) + (p - 1) <= N - 1
      BY <1>1, <1>8
    <2>2. /\ (N - c) \div L \in Int /\ 0 <= (N - c) \div L
          /\ (p - 1) \div L \in Int /\ 0 <= (p - 1) \div L
      BY <1>1, <1>2, <1>3, <2>1, PageSteps
    <2>3. (N - c) \div L + (p - 1) \div L <= ((N - c) + (p - 1)) \div L
      BY <1>1, <1>2, PageSteps
    <2>4. ((N - c) + (p - 1)) \div L \in Int /\ ((N - c) + (p - 1)) \div L <= (N - 1) \div L
      BY <1>1, <1>2, <2>1, PageSteps
    <2>5. RankAt(c, p) = (N - c) \div L + 1 + (p - 1) \div L
      BY <1>8 DEF RankAt, L, N
    <2> QED
      BY <1>4, <1>5, <1>6, <2>2, <2>3, <2>4, <2>5 DEF Rounds, L, N
  <1> QED
    BY <1>7, <1>8

\* The order of a page: the place in the rotation from the cursor.
Place(p) == IF p > cursor THEN p - cursor ELSE p + LastPersona - cursor

LEMMA PlaceOrder ==
    ASSUME cursor \in 0 .. LastPersona
    PROVE  /\ \A p \in PersonaIds : Place(p) \in Nat /\ Place(p) <= LastPersona
           /\ \A p, q \in PersonaIds : (Before(p, q) <=> Place(p) < Place(q)) /\ (Place(p) = Place(q) => p = q)
  BY WakerAssumption DEF PersonaIds, Place, Before

LEMMA FirstExists ==
    ASSUME cursor \in 0 .. LastPersona, NEW S \in SUBSET PersonaIds, S # {}
    PROVE  \E m \in S : \A q \in S \ {m} : Before(m, q)
  <1>1. {Place(q) : q \in S} \in SUBSET Nat /\ {Place(q) : q \in S} # {}
    BY PlaceOrder
  <1>2. PICK x \in {Place(q) : q \in S} : \A y \in {Place(q) : q \in S} : x <= y
    BY <1>1, LeastNat
  <1>3. PICK m \in S : x = Place(m)
    BY <1>2
  <1>4. ASSUME NEW q \in S \ {m} PROVE Before(m, q)
    <2>1. Place(m) <= Place(q) /\ Place(m) # Place(q) /\ Place(m) \in Nat /\ Place(q) \in Nat
      BY <1>2, <1>3, <1>4, PlaceOrder
    <2>2. Place(m) < Place(q)
      BY <2>1
    <2> QED
      BY <2>2, PlaceOrder
  <1> QED
    BY <1>4

LEMMA LastExists ==
    ASSUME cursor \in 0 .. LastPersona, NEW S \in SUBSET PersonaIds, S # {}
    PROVE  LastOf(S) \in S /\ \A q \in S \ {LastOf(S)} : Before(q, LastOf(S))
  <1>0. LastPersona \in Nat
    BY WakerAssumption
  <1>1. {LastPersona - Place(q) : q \in S} \in SUBSET Nat /\ {LastPersona - Place(q) : q \in S} # {}
    <2>1. \A q \in S : LastPersona - Place(q) \in Nat
      BY <1>0, PlaceOrder
    <2> QED
      BY <2>1
  <1>2. PICK x \in {LastPersona - Place(q) : q \in S} : \A y \in {LastPersona - Place(q) : q \in S} : x <= y
    BY <1>1, LeastNat
  <1>3. PICK m \in S : x = LastPersona - Place(m)
    BY <1>2
  <1>4. ASSUME NEW q \in S \ {m} PROVE Before(q, m)
    <2>1. /\ LastPersona - Place(m) <= LastPersona - Place(q) /\ Place(m) # Place(q)
          /\ Place(m) \in Nat /\ Place(q) \in Nat
      BY <1>2, <1>3, <1>4, PlaceOrder
    <2>2. Place(q) < Place(m)
      BY <1>0, <2>1
    <2> QED
      BY <2>2, PlaceOrder
  <1>5. \E p \in S : \A q \in S \ {p} : Before(q, p)
    BY <1>4
  <1> QED
    BY <1>5 DEF LastOf

\* A persona that a page leaves out: the page is full of others before it.
LEMMA LeftOut ==
    ASSUME WakerType, NEW p \in Awaiting, p \notin PersonasAwaitingRuntime
    PROVE  LET page == PersonasAwaitingRuntime
               l == LastOf(page)
           IN /\ Cardinality(page) \in Nat /\ Cardinality(page) >= PageLimit
              /\ l \in PersonaIds /\ Before(l, p) /\ (l > cursor => l >= cursor + PageLimit)
  <1> DEFINE page == PersonasAwaitingRuntime
             Ahead(q) == {x \in Awaiting : Before(x, q)}
  <1>0. cursor \in 0 .. LastPersona /\ Awaiting \subseteq PersonaIds /\ page \subseteq Awaiting
    BY DEF WakerType, Awaiting, PersonasAwaitingRuntime
  <1>1. PageLimit \in Nat \ {0} /\ LastPersona \in Nat
    BY WakerAssumption
  <1>2. IsFiniteSet(PersonaIds)
    BY <1>1, FS_Interval DEF PersonaIds
  <1>3. \A S \in SUBSET PersonaIds : IsFiniteSet(S) /\ Cardinality(S) \in Nat
    BY <1>2, FS_Subset, FS_CardinalityType
  <1>4. \A q \in Awaiting : q \in page <=> Cardinality(Ahead(q)) < PageLimit
    BY DEF PersonasAwaitingRuntime
  <1>5. \A q : Ahead(q) \in SUBSET PersonaIds
    BY <1>0
  <1>6. \A q \in Awaiting \ page : Cardinality(Ahead(q)) \in Nat /\ Cardinality(Ahead(q)) >= PageLimit
    BY <1>1, <1>3, <1>4, <1>5
  <1>7. PICK m \in Awaiting \ page : \A q \in (Awaiting \ page) \ {m} : Before(m, q)
    <2>1. Awaiting \ page \in SUBSET PersonaIds /\ Awaiting \ page # {}
      BY <1>0
    <2> QED
      BY <1>0, <2>1, FirstExists
  <1>8. Ahead(m) \subseteq page
    <2> SUFFICES ASSUME NEW q \in Ahead(m), q \notin page PROVE FALSE
      OBVIOUS
    <2>1. q \in Awaiting /\ Before(q, m) /\ q \in PersonaIds /\ m \in PersonaIds
      BY <1>0
    <2>2. Place(q) < Place(m) /\ Place(q) \in Nat /\ Place(m) \in Nat
      BY <1>0, <2>1, PlaceOrder
    <2>3. q # m
      BY <2>2
    <2>4. Place(m) < Place(q)
      BY <1>0, <1>7, <2>1, <2>3, PlaceOrder
    <2> QED
      BY <2>2, <2>4
  <1>9. Cardinality(page) \in Nat /\ Cardinality(page) >= PageLimit
    <2>1. page \in SUBSET PersonaIds /\ IsFiniteSet(page) /\ Cardinality(page) \in Nat
      BY <1>0, <1>3
    <2>2. Cardinality(Ahead(m)) <= Cardinality(page)
      BY <1>8, <2>1, FS_Subset
    <2> QED
      BY <1>1, <1>6, <1>7, <2>1, <2>2
  <1> DEFINE l == LastOf(page)
  <1>10. page # {} /\ page \in SUBSET PersonaIds
    <2>1. page # {}
      BY <1>1, <1>9, FS_EmptySet
    <2> QED
      BY <1>0, <2>1
  <1>11. l \in page /\ (\A q \in page \ {l} : Before(q, l)) /\ l \in PersonaIds
    BY <1>0, <1>10, LastExists
  <1> HIDE DEF page, l
  <1>12. Before(l, p)
    <2>1. p \in PersonaIds /\ l \in Awaiting /\ p # l
      BY <1>0, <1>11 DEF page
    <2>2. CASE Before(p, l)
      <3>1. Ahead(p) \subseteq Ahead(l)
        <4> SUFFICES ASSUME NEW q \in Awaiting, Before(q, p) PROVE Before(q, l)
          OBVIOUS
        <4>1. q \in PersonaIds /\ Place(q) < Place(p) /\ Place(p) < Place(l)
              /\ Place(q) \in Nat /\ Place(p) \in Nat /\ Place(l) \in Nat
          BY <1>0, <1>11, <2>1, <2>2, PlaceOrder
        <4>2. Place(q) < Place(l)
          BY <4>1
        <4> QED
          BY <1>0, <1>11, <4>1, <4>2, PlaceOrder
      <3>2. Cardinality(Ahead(p)) <= Cardinality(Ahead(l))
        BY <1>3, <1>5, <3>1, FS_Subset
      <3>3. Cardinality(Ahead(l)) < PageLimit /\ Cardinality(Ahead(l)) \in Nat
        BY <1>3, <1>4, <1>5, <1>11, <2>1
      <3>4. Cardinality(Ahead(p)) >= PageLimit /\ Cardinality(Ahead(p)) \in Nat
        BY <1>6 DEF page
      <3> QED
        BY <1>1, <3>2, <3>3, <3>4
    <2>3. Before(p, l) \/ Before(l, p)
      <3>1. Place(p) \in Nat /\ Place(l) \in Nat /\ Place(p) # Place(l)
        BY <1>0, <1>11, <2>1, PlaceOrder
      <3>2. Place(p) < Place(l) \/ Place(l) < Place(p)
        BY <3>1
      <3> QED
        BY <1>0, <1>11, <2>1, <3>2, PlaceOrder
    <2> QED
      BY <2>2, <2>3
  <1>13. l > cursor => l >= cursor + PageLimit
    <2> SUFFICES ASSUME l > cursor PROVE l >= cursor + PageLimit
      OBVIOUS
    <2>1. cursor \in Int /\ l \in Int
      BY <1>0, <1>1, <1>11 DEF PersonaIds
    <2>2. page \subseteq (cursor + 1) .. l
      <3> SUFFICES ASSUME NEW q \in page PROVE q \in (cursor + 1) .. l
        OBVIOUS
      <3>1. q \in Int
        BY <1>10, <1>1 DEF PersonaIds
      <3>2. q = l \/ Before(q, l)
        BY <1>11
      <3> QED
        BY <2>1, <3>1, <3>2 DEF Before
    <2>3. IsFiniteSet((cursor + 1) .. l) /\ Cardinality((cursor + 1) .. l) = l - cursor
      <3>1. cursor + 1 \in Int
        BY <2>1
      <3> QED
        BY <2>1, <3>1, FS_Interval
    <2>4. Cardinality(page) <= l - cursor
      BY <2>2, <2>3, FS_Subset
    <2> QED
      BY <1>1, <1>9, <2>1, <2>4
  <1> QED
    BY <1>9, <1>11, <1>12, <1>13 DEF page, l

LEMMA WakerInvInit == WakerInit => WakerInv
  <1> SUFFICES ASSUME WakerInit PROVE WakerInv
    OBVIOUS
  <1>0. MinGap \in Nat /\ LastPersona \in Nat
    BY WakerAssumption
  <1>1. NoMark \in MarkRows /\ ~NoMark.on
    BY DEF NoMark, MarkRows
  <1>2. WakerType
    BY <1>0, <1>1 DEF WakerInit, WakerType
  <1>3. ASSUME NEW p \in PersonaIds PROVE MarkOK(p) /\ passed[p] + Rank(p) <= Rounds
    <2>1. marks[p] = NoMark /\ quiet[p] = MinGap /\ passed[p] = 0
      BY DEF WakerInit
    <2>2. MarkOK(p)
      BY <1>0, <1>1, <2>1 DEF MarkOK
    <2>3. Rank(p) \in Nat /\ Rank(p) <= Rounds
      BY <1>2, RankBound DEF WakerType, Rank
    <2> QED
      BY <2>1, <2>2, <2>3
  <1> QED
    BY <1>2, <1>3 DEF WakerInv, WakerInit

\* While the cursor stays, a persona's turn comes no later.
LEMMA SameCursor ==
    ASSUME WakerInv, cursor' = cursor, NEW p \in PersonaIds, passed'[p] \in {0, passed[p]}
    PROVE  passed'[p] + Rank(p)' <= Rounds
  <1>1. Rank(p)' = Rank(p)
    BY DEF Rank
  <1>2. Rank(p) \in Nat /\ Rank(p) <= Rounds
    BY RankBound DEF WakerInv, WakerType, Rank
  <1> QED
    BY <1>1, <1>2 DEF WakerInv

LEMMA MovedKeeps ==
    ASSUME WakerInv, NEW p \in PersonaIds, NEW w \in {"none", "due", "rescue"}, Moved(p, w),
           holder' \subseteq PersonaIds
    PROVE  WakerInv'
  <1> DEFINE row == [marks[p] EXCEPT !.same = FALSE]
  <1>0. WakerType /\ hasty = {} /\ MinGap \in Nat
    BY WakerAssumption DEF WakerInv
  <1>1. /\ work' = [work EXCEPT ![p] = w] /\ marks' = [marks EXCEPT ![p] = row]
        /\ quiet' = [quiet EXCEPT ![p] = MinGap] /\ passed' = [passed EXCEPT ![p] = 0]
        /\ UNCHANGED <<cursor, hasty>>
    BY DEF Moved
  <1>2. row \in MarkRows /\ row.on = marks[p].on /\ row.gap = marks[p].gap
    BY <1>0 DEF WakerType, MarkRows
  <1> HIDE DEF row
  <1>3. WakerType'
    BY <1>0, <1>1, <1>2 DEF WakerType
  <1>4. ASSUME NEW q \in PersonaIds PROVE MarkOK(q)' /\ passed'[q] \in {0, passed[q]}
    <2>1. CASE q = p
      <3>1. marks'[q] = row /\ quiet'[q] = MinGap /\ passed'[q] = 0
        BY <1>0, <1>1, <2>1 DEF WakerType
      <3> QED
        BY <1>0, <1>2, <2>1, <3>1 DEF MarkOK, WakerInv
    <2>2. CASE q # p
      <3>1. marks'[q] = marks[q] /\ quiet'[q] = quiet[q] /\ passed'[q] = passed[q]
        BY <1>0, <1>1, <2>2 DEF WakerType
      <3> QED
        BY <3>1 DEF MarkOK, WakerInv
    <2> QED
      BY <2>1, <2>2
  <1> QED
    BY <1>0, <1>1, <1>3, <1>4, SameCursor DEF WakerInv, Rounds

LEMMA PersonaSteps ==
    ASSUME WakerInv,
           \/ \E p \in PersonaIds : WorkArrives(p) \/ RuntimeStarts(p) \/ RuntimeStops(p)
           \/ UNCHANGED wakerVars
    PROVE  WakerInv'
  <1>0. WakerType /\ hasty = {} /\ MinGap \in Nat
    BY WakerAssumption DEF WakerInv
  <1>1. ASSUME UNCHANGED <<work, marks, cursor, quiet, hasty>>, holder' \subseteq PersonaIds,
               passed' \in [PersonaIds -> Nat], \A q \in PersonaIds : passed'[q] \in {0, passed[q]}
        PROVE  WakerInv'
    <2>1. WakerType'
      BY <1>0, <1>1 DEF WakerType
    <2>2. \A q \in PersonaIds : MarkOK(q)'
      BY <1>1 DEF WakerInv, MarkOK
    <2> QED
      BY <1>0, <1>1, <2>1, <2>2, SameCursor DEF WakerInv, Rounds
  <1>2. ASSUME NEW p \in PersonaIds, WorkArrives(p) PROVE WakerInv'
    <2>1. PICK w \in {"due", "rescue"} : Moved(p, w)
      BY <1>2 DEF WorkArrives
    <2>2. holder' \subseteq PersonaIds
      BY <1>0, <1>2 DEF WorkArrives, WakerType
    <2> QED
      BY <2>1, <2>2, MovedKeeps
  <1>3. ASSUME NEW p \in PersonaIds, RuntimeStarts(p) PROVE WakerInv'
    <2>1. /\ holder' = holder \cup {p} /\ passed' = [passed EXCEPT ![p] = 0]
          /\ UNCHANGED <<work, marks, cursor, quiet, hasty>>
      BY <1>3 DEF RuntimeStarts
    <2>2. passed' \in [PersonaIds -> Nat] /\ (\A q \in PersonaIds : passed'[q] \in {0, passed[q]})
          /\ holder' \subseteq PersonaIds
      BY <1>0, <2>1 DEF WakerType
    <2> QED
      BY <1>1, <2>1, <2>2
  <1>4. ASSUME NEW p \in PersonaIds, RuntimeStops(p) PROVE WakerInv'
    <2>1. holder' \subseteq PersonaIds
      BY <1>0, <1>4 DEF RuntimeStops, WakerType
    <2>2. CASE UNCHANGED <<work, marks, cursor, quiet, passed, hasty>>
      BY <1>0, <1>1, <2>1, <2>2 DEF WakerType
    <2>3. ASSUME NEW w \in {"none", "due"}, Moved(p, w) PROVE WakerInv'
      BY <2>1, <2>3, MovedKeeps
    <2> QED
      BY <1>4, <2>2, <2>3 DEF RuntimeStops
  <1>5. ASSUME UNCHANGED wakerVars PROVE WakerInv'
    BY <1>0, <1>1, <1>5 DEF wakerVars, WakerType
  <1> QED
    BY <1>2, <1>3, <1>4, <1>5

LEMMA TickStep ==
    ASSUME WakerInv, Tick PROVE WakerInv'
  <1>0. WakerType /\ hasty = {} /\ MinGap \in Nat
    BY WakerAssumption DEF WakerInv
  <1>1. /\ marks' = [p \in PersonaIds |-> [marks[p] EXCEPT !.at = IF @ < marks[p].gap THEN @ + 1 ELSE @]]
        /\ quiet' = [p \in PersonaIds |-> IF quiet[p] < MinGap THEN quiet[p] + 1 ELSE MinGap]
        /\ UNCHANGED <<work, holder, cursor, passed, hasty>>
    BY DEF Tick
  <1>2. ASSUME NEW p \in PersonaIds
        PROVE  marks'[p] \in MarkRows /\ quiet'[p] \in Nat /\ MarkOK(p)'
    <2> DEFINE at == IF marks[p].at < marks[p].gap THEN marks[p].at + 1 ELSE marks[p].at
    <2>1. marks[p] \in MarkRows /\ quiet[p] \in Nat
      BY <1>0 DEF WakerType
    <2>2. marks[p].at \in Nat /\ marks[p].gap \in Nat
      BY <2>1 DEF MarkRows
    <2>3. at \in Nat /\ at <= marks[p].at + 1
      BY <2>2
    <2>4. marks'[p] = [marks[p] EXCEPT !.at = at]
      BY <1>1
    <2> HIDE DEF at
    <2>5. /\ marks'[p] \in MarkRows /\ marks'[p].on = marks[p].on /\ marks'[p].same = marks[p].same
          /\ marks'[p].gap = marks[p].gap /\ marks'[p].at = at
      BY <2>1, <2>3, <2>4 DEF MarkRows
    <2>6. quiet'[p] = IF quiet[p] < MinGap THEN quiet[p] + 1 ELSE MinGap
      BY <1>1
    <2>7. quiet'[p] \in Nat /\ (quiet'[p] < MinGap => quiet[p] < MinGap /\ quiet'[p] = quiet[p] + 1)
      BY <1>0, <2>1, <2>6
    <2>8. MarkOK(p)
      BY DEF WakerInv
    <2> QED
      BY <1>0, <2>1, <2>2, <2>3, <2>5, <2>7, <2>8 DEF MarkOK
  <1>3. WakerType'
    BY <1>0, <1>1, <1>2 DEF WakerType
  <1> QED
    BY <1>0, <1>1, <1>2, <1>3, SameCursor DEF WakerInv, Rounds

LEMMA RestartStep ==
    ASSUME WakerInv, Restart PROVE WakerInv'
  <1>0. WakerType /\ hasty = {} /\ MinGap \in Nat /\ LastPersona \in Nat
    BY WakerAssumption DEF WakerInv
  <1>1. /\ marks' = [p \in PersonaIds |-> NoMark] /\ cursor' = 0 /\ quiet' = [p \in PersonaIds |-> MinGap]
        /\ passed' = [p \in PersonaIds |-> 0] /\ UNCHANGED <<work, holder, hasty>>
    BY DEF Restart
  <1>2. NoMark \in MarkRows /\ ~NoMark.on
    BY DEF NoMark, MarkRows
  <1>3. WakerType'
    BY <1>0, <1>1, <1>2 DEF WakerType
  <1>4. \A p \in PersonaIds : MarkOK(p)'
    BY <1>0, <1>1, <1>2 DEF MarkOK
  <1>5. ASSUME NEW p \in PersonaIds PROVE passed'[p] + Rank(p)' <= Rounds'
    <2>1. cursor' \in 0 .. LastPersona
      BY <1>3 DEF WakerType
    <2>2. RankAt(cursor', p) \in Nat /\ RankAt(cursor', p) <= Rounds /\ Rounds' = Rounds
      BY <2>1, RankBound DEF Rounds
    <2>3. passed'[p] = 0
      BY <1>1
    <2> QED
      BY <2>2, <2>3 DEF Rank
  <1> QED
    BY <1>0, <1>1, <1>3, <1>4, <1>5 DEF WakerInv

\* A wake is followed by a gap of at least the least one.
LEMMA GapBound ==
    ASSUME WakerInv, NEW p \in PersonaIds
    PROVE  GapFor(p) \in Nat /\ GapFor(p) >= MinGap
  <1>1. MinGap \in Nat /\ MaxGap \in Nat /\ MemoryGap \in Nat /\ MinGap <= MaxGap
    BY WakerAssumption
  <1>2. marks[p].gap \in Nat /\ (marks[p].on => marks[p].gap >= MinGap)
    BY DEF WakerInv, WakerType, MarkRows, MarkOK
  <1> DEFINE g == marks[p].gap
             gap == IF marks[p].on /\ marks[p].same THEN Clipped(2 * g) ELSE MinGap
  <1>3. marks[p].on => Clipped(2 * g) \in Nat /\ Clipped(2 * g) >= MinGap
    <2> HIDE DEF g
    <2> QED
      BY <1>1, <1>2 DEF Clipped, g
  <1>4. gap \in Nat /\ gap >= MinGap
    BY <1>1, <1>3
  <1>5. GapFor(p) = IF work[p] = "rescue" /\ gap < MemoryGap THEN MemoryGap ELSE gap
    BY DEF GapFor
  <1> HIDE DEF gap
  <1> QED
    BY <1>1, <1>4, <1>5

\* The rotation's cursor is a persona of the page, or the beginning.
LEMMA CursorBound ==
    ASSUME WakerType
    PROVE  NextCursor(PersonasAwaitingRuntime) \in 0 .. LastPersona
  <1> DEFINE page == PersonasAwaitingRuntime
  <1>1. page \in SUBSET PersonaIds /\ cursor \in 0 .. LastPersona
    BY DEF WakerType, PersonasAwaitingRuntime, Awaiting
  <1>2. LastPersona \in Nat /\ PageLimit \in Nat \ {0}
    BY WakerAssumption
  <1>3. CASE page = {}
    <2>1. Cardinality(page) < PageLimit
      BY <1>2, <1>3, FS_EmptySet
    <2> QED
      BY <1>2, <2>1 DEF NextCursor
  <1>4. CASE page # {}
    <2>1. LastOf(page) \in PersonaIds
      BY <1>1, <1>4, LastExists
    <2> HIDE DEF page
    <2>2. NextCursor(page) \in {0, LastOf(page)}
      BY DEF NextCursor
    <2> QED
      BY <1>2, <2>1, <2>2 DEF PersonaIds, page
  <1> QED
    BY <1>3, <1>4

\* A sweep that leaves a waiting persona out brings its turn one page nearer.
LEMMA TurnNears ==
    ASSUME WakerType, NEW p \in Awaiting, p \notin PersonasAwaitingRuntime
    PROVE  RankAt(NextCursor(PersonasAwaitingRuntime), p) + 1 <= RankAt(cursor, p)
  <1> DEFINE page == PersonasAwaitingRuntime
             l == LastOf(page)
             L == PageLimit
             N == LastPersona
  <1>1. /\ Cardinality(page) \in Nat /\ Cardinality(page) >= L /\ l \in PersonaIds
        /\ Before(l, p) /\ (l > cursor => l >= cursor + L)
    BY LeftOut
  <1>2. /\ L \in Nat \ {0} /\ N \in Nat \ {0} /\ cursor \in Int /\ 0 <= cursor /\ cursor <= N
        /\ p \in Int /\ 1 <= p /\ p <= N /\ l \in Int /\ 1 <= l /\ l <= N
    BY <1>1, WakerAssumption DEF WakerType, Awaiting, PersonaIds
  <1>3. NextCursor(page) = IF l <= cursor THEN 0 ELSE l
    <2>1. ~(Cardinality(page) < L)
      BY <1>1, <1>2
    <2> QED
      BY <2>1 DEF NextCursor
  <1>4. (l > cursor /\ p <= cursor) \/ ((l > cursor <=> p > cursor) /\ l < p)
    BY <1>1 DEF Before
  <1> HIDE DEF page, l, L, N
  <1>5. CASE p > cursor
    <2>1. l > cursor /\ l < p /\ ~(l <= cursor) /\ l >= cursor + L
      BY <1>1, <1>2, <1>4, <1>5
    <2>2. RankAt(l, p) = (p - 1 - l) \div L /\ RankAt(cursor, p) = (p - 1 - cursor) \div L
      BY <1>5, <2>1 DEF RankAt, L
    <2>3. p - 1 - l \in Int /\ p - 1 - cursor \in Int /\ (p - 1 - l) + L <= p - 1 - cursor
      BY <1>2, <2>1
    <2>4. (p - 1 - l) \div L + 1 <= (p - 1 - cursor) \div L
      BY <1>2, <2>3, PageSteps
    <2> QED
      BY <1>3, <2>1, <2>2, <2>4 DEF page
  <1>6. CASE ~(p > cursor) /\ l > cursor
    <2>1. ~(p > l) /\ ~(l <= cursor) /\ l >= cursor + L
      BY <1>1, <1>2, <1>6
    <2>2. /\ RankAt(l, p) = (N - l) \div L + 1 + (p - 1) \div L
          /\ RankAt(cursor, p) = (N - cursor) \div L + 1 + (p - 1) \div L
      BY <1>6, <2>1 DEF RankAt, L, N
    <2>3. N - l \in Int /\ N - cursor \in Int /\ p - 1 \in Int /\ (N - l) + L <= N - cursor
      BY <1>2, <2>1
    <2>4. /\ (N - l) \div L + 1 <= (N - cursor) \div L /\ (N - l) \div L \in Int
          /\ (N - cursor) \div L \in Int /\ (p - 1) \div L \in Int
      BY <1>2, <2>3, PageSteps
    <2>5. RankAt(l, p) + 1 <= RankAt(cursor, p)
      BY <2>2, <2>4
    <2> QED
      BY <1>3, <2>1, <2>5 DEF page
  <1>7. CASE ~(p > cursor) /\ ~(l > cursor)
    <2>1. p > 0 /\ l <= cursor /\ p - 1 - 0 = p - 1
      BY <1>2, <1>7
    <2>2. /\ RankAt(0, p) = (p - 1) \div L
          /\ RankAt(cursor, p) = (N - cursor) \div L + 1 + (p - 1) \div L
      BY <1>7, <2>1 DEF RankAt, L, N
    <2>3. N - cursor \in Int /\ p - 1 \in Int /\ 0 <= N - cursor /\ 0 \div L = 0
      BY <1>2
    <2>4. 0 <= (N - cursor) \div L /\ (N - cursor) \div L \in Int /\ (p - 1) \div L \in Int
      BY <1>2, <2>3, PageSteps
    <2>5. RankAt(0, p) + 1 <= RankAt(cursor, p)
      BY <2>2, <2>4
    <2> QED
      BY <1>3, <2>1, <2>5 DEF page
  <1> QED
    BY <1>5, <1>6, <1>7

LEMMA SweepStep ==
    ASSUME WakerInv, Sweep PROVE WakerInv'
  <1> DEFINE page == PersonasAwaitingRuntime
             due == {p \in page : ~InGap(p)}
  <1>0. WakerType /\ hasty = {} /\ MinGap \in Nat /\ LastPersona \in Nat /\ 0 \in Nat /\ MinGap > 0
    BY WakerAssumption DEF WakerInv
  <1>1. /\ marks' = [p \in PersonaIds |->
              IF p \in due THEN [on |-> TRUE, same |-> TRUE, gap |-> GapFor(p), at |-> 0]
              ELSE IF p \in page \/ KeepsMark(p) THEN marks[p] ELSE NoMark]
        /\ cursor' = NextCursor(page)
        /\ quiet' = [p \in PersonaIds |-> IF p \in due THEN 0 ELSE quiet[p]]
        /\ passed' = [p \in PersonaIds |-> IF p \in due \/ p \notin Awaiting \/ InGap(p) THEN 0
                                   ELSE IF passed[p] <= LastPersona THEN passed[p] + 1 ELSE passed[p]]
        /\ hasty' = hasty \cup {p \in due : quiet[p] < MinGap} /\ UNCHANGED <<work, holder>>
    BY DEF Sweep
  <1>2. page \subseteq PersonaIds /\ page \subseteq Awaiting
    BY DEF PersonasAwaitingRuntime, Awaiting
  <1>3. cursor' \in 0 .. LastPersona
    BY <1>0, <1>1, CursorBound
  <1>4. NoMark \in MarkRows /\ ~NoMark.on
    BY DEF NoMark, MarkRows
  <1> HIDE DEF page
  <1>5. ASSUME NEW p \in PersonaIds
        PROVE  /\ marks[p] \in MarkRows /\ marks[p].at \in Nat /\ marks[p].gap \in Nat /\ quiet[p] \in Nat
               /\ (quiet[p] < MinGap => InGap(p) /\ KeepsMark(p))
    <2>1. marks[p] \in MarkRows /\ quiet[p] \in Nat
      BY <1>0 DEF WakerType
    <2>2. marks[p].at \in Nat /\ marks[p].gap \in Nat
      BY <2>1 DEF MarkRows
    <2>3. MarkOK(p)
      BY DEF WakerInv
    <2> QED
      BY <1>0, <2>1, <2>2, <2>3 DEF MarkOK, InGap, KeepsMark
  <1>6. hasty' = {}
    <2>1. {p \in due : quiet[p] < MinGap} = {}
      BY <1>2, <1>5
    <2> QED
      BY <1>0, <1>1, <2>1
  <1>7. ASSUME NEW p \in PersonaIds
        PROVE  marks'[p] \in MarkRows /\ quiet'[p] \in Nat /\ MarkOK(p)'
    <2>1. CASE p \in due
      <3> DEFINE g == GapFor(p)
                 row == [on |-> TRUE, same |-> TRUE, gap |-> g, at |-> 0]
      <3>1. g \in Nat /\ g >= MinGap
        BY GapBound
      <3>2. marks'[p] = row /\ quiet'[p] = 0
        BY <1>1, <2>1
      <3> HIDE DEF g
      <3>3. row \in MarkRows /\ row.on /\ row.same /\ row.gap = g /\ row.at = 0
        BY <3>1 DEF MarkRows
      <3> HIDE DEF row
      <3> QED
        BY <1>0, <3>1, <3>2, <3>3 DEF MarkOK
    <2>2. CASE p \notin due /\ (p \in page \/ KeepsMark(p))
      <3>1. marks'[p] = marks[p] /\ quiet'[p] = quiet[p]
        BY <1>1, <2>2
      <3> QED
        BY <1>5, <3>1 DEF MarkOK, WakerInv
    <2>3. CASE p \notin due /\ ~(p \in page \/ KeepsMark(p))
      <3>1. marks'[p] = NoMark /\ quiet'[p] = quiet[p]
        BY <1>1, <2>3
      <3>2. ~(quiet[p] < MinGap)
        BY <1>5, <2>3
      <3> QED
        BY <1>4, <1>5, <3>1, <3>2 DEF MarkOK
    <2> QED
      BY <2>1, <2>2, <2>3
  <1>8. ASSUME NEW p \in PersonaIds
        PROVE  passed'[p] \in Nat /\ passed'[p] + RankAt(cursor', p) <= Rounds
    <2>1. /\ RankAt(cursor', p) \in Nat /\ RankAt(cursor', p) <= Rounds
          /\ RankAt(cursor, p) \in Nat /\ Rounds \in Nat
      BY <1>0, <1>3, RankBound DEF WakerType
    <2>2. passed[p] \in Nat /\ passed[p] + RankAt(cursor, p) <= Rounds
      BY <1>0 DEF WakerType, WakerInv, Rank
    <2>3. CASE p \in due \/ p \notin Awaiting \/ InGap(p)
      <3>1. passed'[p] = 0
        BY <1>1, <2>3
      <3> QED
        BY <2>1, <3>1
    <2>4. CASE ~(p \in due \/ p \notin Awaiting \/ InGap(p))
      <3>1. passed'[p] \in {passed[p], passed[p] + 1}
        BY <1>1, <2>4
      <3>2. p \in Awaiting /\ p \notin page
        BY <2>4
      <3>3. RankAt(cursor', p) + 1 <= RankAt(cursor, p)
        BY <1>0, <1>1, <3>2, TurnNears DEF page
      <3> QED
        BY <2>1, <2>2, <3>1, <3>3
    <2> QED
      BY <2>3, <2>4
  <1>9. WakerType'
    <2>1. marks' \in [PersonaIds -> MarkRows]
      BY <1>1, <1>7
    <2>2. quiet' \in [PersonaIds -> Nat] /\ passed' \in [PersonaIds -> Nat]
      BY <1>1, <1>7, <1>8
    <2> QED
      BY <1>0, <1>1, <1>3, <2>1, <2>2 DEF WakerType
  <1>10. Rounds' = Rounds /\ \A p \in PersonaIds : Rank(p)' = RankAt(cursor', p)
    BY DEF Rounds, Rank, RankAt
  <1> QED
    BY <1>6, <1>7, <1>8, <1>9, <1>10 DEF WakerInv

\* No persona is starved by the page and none is woken again within the least
\* gap (RuntimeWaker.Sweep and its marks), for any number of personas, page
\* limit and gaps.
THEOREM WakesStayFair == WakerSpec => []WakesFairly
  <1>1. WakerInv /\ [WakerNext]_wakerVars => WakerInv'
    BY PersonaSteps, TickStep, RestartStep, SweepStep DEF WakerNext
  <1>2. WakerInv => WakesFairly
    <2> SUFFICES ASSUME WakerInv, NEW p \in PersonaIds PROVE passed[p] <= Rounds
      BY DEF WakesFairly, NeverPassedOver, NotHammered, Rounds, WakerInv
    <2>1. Rank(p) \in Nat /\ Rounds \in Nat
      BY RankBound DEF WakerInv, WakerType, Rank
    <2>2. passed[p] \in Nat /\ passed[p] + Rank(p) <= Rounds
      BY DEF WakerInv, WakerType
    <2> QED
      BY <2>1, <2>2
  <1> QED
    BY <1>1, <1>2, WakerInvInit, PTL DEF WakerSpec

-----------------------------------------------------------------------------
(* Attachments *)

AttemptStages == {"new", "reserved", "opened", "staged", "publishing", "abandon", "over"}
UploadRows == [state : {"none", "reserved", "finalized", "released"}, id : Ids \cup {0},
               token : Tries \cup {0}, lease : BOOLEAN, live : BOOLEAN]
TryRows == [at : AttemptStages, id : Ids \cup {0}]
AttRows == [state : {"none", "stored", "deleting", "deleted"}, of : Tries \cup {0},
            bound : BOOLEAN, old : BOOLEAN]
AttType ==
    /\ upload \in UploadRows /\ try \in [Tries -> TryRows] /\ staging \in [Ids -> Tries \cup {0}]
    /\ final \in [Ids -> Tries \cup {0}] /\ att \in [Ids -> AttRows] /\ usage \in Int
    /\ locked \in Tries \cup {0} /\ expiring \subseteq Ids /\ sent \in {"none", "shown", "deleted"}
KeptIds == {i \in Ids : att[i].state \in Kept}

\* The reservation: while its lease runs it is alive, and the id it will give
\* the attachment has none yet.
UploadOK ==
    /\ upload.state # "none" => upload.id \in Ids
    /\ upload.state = "none" => upload.id = 0
    /\ upload.state = "reserved" /\ upload.lease => upload.live
    /\ upload.state \in {"reserved", "released"} => att[upload.id].state = "none"
\* An attempt that still writes holds the reservation; one that publishes holds
\* the lock too, and what it published is its own.
TryOK(t) ==
    /\ try[t].at \notin {"new", "over"} => try[t].id \in Ids
    /\ try[t].at \in {"reserved", "opened"} =>
          upload.state = "reserved" /\ upload.id = try[t].id /\ upload.token = t /\ upload.lease
    /\ try[t].at \in {"opened", "staged"} /\ upload.state = "reserved" /\ upload.id = try[t].id
          /\ upload.token = t /\ upload.lease => staging[try[t].id] \in {0, t}
    /\ try[t].at = "publishing" =>
          /\ locked = t /\ final[try[t].id] = t
          /\ upload.state = "reserved" /\ upload.id = try[t].id /\ upload.token = t
ByteOK(i) ==
    /\ att[i].state = "stored" => final[i] = att[i].of
    /\ att[i].bound /\ sent = "shown" => att[i].state = "stored"
    /\ att[i].bound => sent # "none"
    /\ final[i] # 0 => att[i].state \in Kept \/ (upload.state = "reserved" /\ upload.id = i)
    /\ i \in expiring => att[i].state = "stored" /\ ~att[i].bound
UsageOK ==
    /\ IsFiniteSet(KeptIds) /\ usage <= Quota
    /\ usage = (IF upload.state = "reserved" THEN 1 ELSE 0) + Cardinality(KeptIds)
AttInv ==
    /\ AttType /\ UploadOK /\ UsageOK
    /\ \A t \in Tries : TryOK(t)
    /\ \A i \in Ids : ByteOK(i)

\* Attempts are named by positive numbers: zero is nobody.
LEMMA AttNames == (\A t \in Tries : t # 0) /\ (\A i \in Ids : i # 0 /\ i \in Nat) /\ Quota \in Nat
  BY AttachmentsConstantsOK

LEMMA AttInvInit == AttInit => AttInv
  <1> SUFFICES ASSUME AttInit PROVE AttInv
    OBVIOUS
  <1>1. /\ NoUpload \in UploadRows /\ NoUpload.state = "none" /\ NoUpload.id = 0
        /\ NoAtt \in AttRows /\ NoAtt.state = "none" /\ ~NoAtt.bound
    BY DEF NoUpload, UploadRows, NoAtt, AttRows
  <1>2. upload = NoUpload /\ usage = 0 /\ locked = 0 /\ expiring = {} /\ sent = "none"
    BY DEF AttInit
  <1>3. ASSUME NEW t \in Tries PROVE try[t].at = "new" /\ try[t] \in TryRows
    BY DEF AttInit, TryRows, AttemptStages
  <1>4. \A i \in Ids : staging[i] = 0 /\ final[i] = 0 /\ att[i] = NoAtt
    BY DEF AttInit
  <1>5. AttType
    BY <1>1, <1>2, <1>3, <1>4 DEF AttInit, AttType
  <1>6. KeptIds = {}
    BY <1>1, <1>4 DEF KeptIds, Kept
  <1>7. UsageOK
    <2>1. IsFiniteSet({}) /\ Cardinality({}) = 0
      BY FS_EmptySet
    <2> QED
      BY <1>1, <1>2, <1>6, <2>1, AttNames DEF UsageOK
  <1>8. UploadOK
    BY <1>1, <1>2 DEF UploadOK
  <1>9. \A t \in Tries : TryOK(t)
    BY <1>3 DEF TryOK
  <1>10. \A i \in Ids : ByteOK(i)
    BY <1>1, <1>2, <1>4 DEF ByteOK
  <1> QED
    BY <1>5, <1>7, <1>8, <1>9, <1>10 DEF AttInv

\* A step that leaves the ledger's rows alone leaves its count.
LEMMA SameLedger ==
    ASSUME UsageOK, usage' = usage, upload'.state = upload.state,
           \A i \in Ids : att'[i].state \in Kept <=> att[i].state \in Kept
    PROVE  UsageOK'
  <1>1. KeptIds' = KeptIds
    BY DEF KeptIds
  <1> QED
    BY <1>1 DEF UsageOK

\* A step of one attempt and perhaps of the staging files: it stops writing,
\* or goes from one stage of writing to the next.
LEMMA TryStep ==
    ASSUME AttInv, NEW t \in Tries, NEW a \in AttemptStages, try' = [try EXCEPT ![t].at = a],
           UNCHANGED <<upload, final, att, usage, locked, expiring, sent>>,
           try[t].at \notin {"publishing", "new", "over"},
           a \in {"abandon", "over"} \/ (a = "opened" /\ try[t].at = "reserved")
                                     \/ (a = "staged" /\ try[t].at = "opened"),
           staging' \in [Ids -> Tries \cup {0}],
           \A i \in Ids : \/ staging'[i] \in {0, staging[i]}
                          \/ staging'[i] = t /\ i = try[t].id /\ try[t].at = "reserved",
           a = "opened" => staging'[try[t].id] = t
    PROVE  AttInv'
  <1>0. AttType /\ UploadOK /\ UsageOK
    BY DEF AttInv
  <1> DEFINE row == [try[t] EXCEPT !.at = a]
  <1>1. try[t] \in TryRows /\ try' = [try EXCEPT ![t] = row]
    BY <1>0 DEF AttType
  <1>2. row \in TryRows /\ row.at = a /\ row.id = try[t].id
    BY <1>1 DEF TryRows
  <1> HIDE DEF row
  <1>3. try'[t] = row /\ \A x \in Tries \ {t} : try'[x] = try[x]
    BY <1>0, <1>1 DEF AttType
  <1>4. AttType'
    BY <1>0, <1>1, <1>2 DEF AttType
  <1>5. ASSUME NEW x \in Tries PROVE TryOK(x)'
    <2>0. TryOK(x) /\ TryOK(t)
      BY DEF AttInv
    <2>1. CASE x = t
      <3>1. try[t].id \in Ids
        BY <2>0 DEF TryOK
      <3>2. CASE a \in {"abandon", "over"}
        BY <1>2, <1>3, <2>1, <3>1, <3>2 DEF TryOK
      <3>3. CASE a = "opened" /\ try[t].at = "reserved"
        BY <1>2, <1>3, <2>0, <2>1, <3>3 DEF TryOK
      <3>4. CASE a = "staged" /\ try[t].at = "opened"
        <4>1. staging'[try[t].id] \in {0, staging[try[t].id]} /\ staging[try[t].id] \in {0, t}
          BY <2>0, <3>1, <3>4 DEF TryOK
        <4> QED
          BY <1>2, <1>3, <2>0, <2>1, <3>4, <4>1 DEF TryOK
      <3> QED
        BY <3>2, <3>3, <3>4
    <2>2. CASE x # t
      <3>1. try'[x] = try[x]
        BY <1>3, <2>2
      <3>2. try[t].at = "reserved" => upload.token = t
        BY <2>0 DEF TryOK
      <3>3. try[x].at \in {"opened", "staged"} /\ upload.token = x => staging'[try[x].id] \in {0, staging[try[x].id]}
        BY <2>0, <2>2, <3>2 DEF TryOK
      <3> QED
        BY <2>0, <3>1, <3>3 DEF TryOK
    <2> QED
      BY <2>1, <2>2
  <1>6. UploadOK' /\ UsageOK' /\ \A i \in Ids : ByteOK(i)'
    BY <1>0, SameLedger DEF AttInv, UploadOK, ByteOK
  <1> QED
    BY <1>4, <1>5, <1>6 DEF AttInv

LEMMA WriteSteps ==
    ASSUME AttInv, NEW t \in Tries, OpenStaging(t) \/ Stage(t) \/ UploadDies(t) PROVE AttInv'
  <1>0. AttType /\ TryOK(t)
    BY DEF AttInv
  <1>1. CASE OpenStaging(t)
    <2>1. try[t].at = "reserved" /\ try[t].id \in Ids /\ UNCHANGED <<upload, final, att, usage, locked, expiring, sent>>
      BY <1>0, <1>1 DEF OpenStaging, TryOK
    <2>2. CASE staging' = [staging EXCEPT ![try[t].id] = t] /\ try' = [try EXCEPT ![t].at = "opened"]
      <3>1. /\ staging' \in [Ids -> Tries \cup {0}] /\ staging'[try[t].id] = t
            /\ \A i \in Ids \ {try[t].id} : staging'[i] = staging[i]
        BY <1>0, <2>1, <2>2 DEF AttType
      <3> QED
        BY <2>1, <2>2, <3>1, TryStep DEF AttemptStages
    <2>3. CASE try' = [try EXCEPT ![t].at = "abandon"] /\ UNCHANGED staging
      <3>1. staging' \in [Ids -> Tries \cup {0}] /\ \A i \in Ids : staging'[i] = staging[i]
        BY <1>0, <2>3 DEF AttType
      <3> QED
        BY <2>1, <2>3, <3>1, TryStep DEF AttemptStages
    <2> QED
      BY <1>1, <2>2, <2>3 DEF OpenStaging
  <1>2. CASE Stage(t)
    <2>1. try[t].at = "opened" /\ try[t].id \in Ids /\ UNCHANGED <<upload, final, att, usage, locked, expiring, sent>>
      BY <1>0, <1>2 DEF Stage, TryOK
    <2>2. PICK a \in {"staged", "abandon"} : /\ try' = [try EXCEPT ![t].at = a]
                                             /\ staging' = staging \/ staging' = [staging EXCEPT ![try[t].id] = 0]
      BY <1>2 DEF Stage
    <2>3. staging' \in [Ids -> Tries \cup {0}] /\ \A i \in Ids : staging'[i] \in {0, staging[i]}
      BY <1>0, <2>1, <2>2 DEF AttType
    <2> QED
      BY <2>1, <2>2, <2>3, TryStep DEF AttemptStages
  <1>3. CASE UploadDies(t)
    <2>1. /\ try[t].at \in {"reserved", "opened", "staged", "abandon"} /\ try' = [try EXCEPT ![t].at = "over"]
          /\ UNCHANGED <<upload, staging, final, att, usage, locked, expiring, sent>>
      BY <1>3 DEF UploadDies
    <2>2. staging' \in [Ids -> Tries \cup {0}] /\ \A i \in Ids : staging'[i] = staging[i]
      BY <1>0, <2>1 DEF AttType
    <2> QED
      BY <2>1, <2>2, TryStep DEF AttemptStages
  <1> QED
    BY <1>1, <1>2, <1>3

\* A reservation is taken by an attempt that has none.
LEMMA ReserveStep ==
    ASSUME AttInv, NEW t \in Tries, ReserveAttachmentUpload(t) PROVE AttInv'
  <1>0. /\ AttType /\ UploadOK /\ UsageOK /\ TryOK(t) /\ try[t].at = "new" /\ locked = 0 /\ upload \in UploadRows
        /\ UNCHANGED <<staging, final, att, locked, expiring, sent>> /\ try[t] \in TryRows
    BY DEF AttInv, AttType, ReserveAttachmentUpload
  <1>1. ASSUME NEW x \in Tries PROVE TryOK(x) /\ try[x].at # "publishing"
    BY <1>0, AttNames DEF AttInv, TryOK
  <1>2. CASE try' = [try EXCEPT ![t].at = "over"] /\ UNCHANGED <<upload, usage>>
    <2> DEFINE row == [try[t] EXCEPT !.at = "over"]
    <2>1. row \in TryRows /\ row.at = "over" /\ try' = [try EXCEPT ![t] = row]
      BY <1>0, <1>2 DEF TryRows, AttemptStages
    <2> HIDE DEF row
    <2>2. try'[t] = row /\ \A x \in Tries \ {t} : try'[x] = try[x]
      BY <1>0, <2>1 DEF AttType
    <2>3. AttType'
      BY <1>0, <1>2, <2>1 DEF AttType
    <2>4. \A x \in Tries : TryOK(x)'
      BY <1>0, <1>1, <1>2, <2>1, <2>2 DEF TryOK
    <2>5. UploadOK' /\ UsageOK' /\ \A i \in Ids : ByteOK(i)'
      BY <1>0, <1>2, SameLedger DEF AttInv, UploadOK, ByteOK
    <2> QED
      BY <2>3, <2>4, <2>5 DEF AttInv
  <1>3. ASSUME NEW i \in Ids, NEW u \in UploadRows, upload' = u, u.state = "reserved", u.id = i, u.token = t,
               u.lease, u.live, try' = [try EXCEPT ![t] = [at |-> "reserved", id |-> i]], att[i].state = "none",
               \/ upload.state = "reserved" /\ upload.id = i /\ usage' = usage /\ ~upload.lease
               \/ upload.state \in {"none", "released"} /\ usage' = usage + 1 /\ usage' <= Quota
        PROVE  AttInv'
    <2> DEFINE row == [at |-> "reserved", id |-> i]
    <2>1. row \in TryRows /\ row.at = "reserved" /\ row.id = i /\ try' = [try EXCEPT ![t] = row]
      BY <1>3 DEF TryRows, AttemptStages
    <2> HIDE DEF row
    <2>2. try'[t] = row /\ \A x \in Tries \ {t} : try'[x] = try[x]
      BY <1>0, <2>1 DEF AttType
    <2>3. AttType'
      BY <1>0, <1>3, <2>1 DEF AttType
    <2>4. ASSUME NEW x \in Tries PROVE TryOK(x)'
      <3>1. CASE x = t
        BY <1>3, <2>1, <2>2, <3>1 DEF TryOK
      <3>2. CASE x # t
        <4>1. try'[x] = try[x] /\ TryOK(x) /\ try[x].at # "publishing" /\ try[x].at \notin {"reserved", "opened"}
          BY <1>1, <1>3, <2>2, <3>2 DEF TryOK
        <4> QED
          BY <1>3, <3>2, <4>1 DEF TryOK
      <3> QED
        BY <3>1, <3>2
    <2>5. UploadOK'
      BY <1>0, <1>3 DEF UploadOK
    <2>6. UsageOK'
      <3>1. KeptIds' = KeptIds
        BY <1>0 DEF KeptIds
      <3>2. IsFiniteSet(KeptIds) /\ Cardinality(KeptIds) \in Nat
        BY <1>0, FS_CardinalityType DEF UsageOK
      <3> QED
        BY <1>0, <1>3, <3>1, <3>2, AttNames DEF UsageOK
    <2>7. ASSUME NEW x \in Ids PROVE ByteOK(x)'
      <3>1. ByteOK(x)
        BY DEF AttInv
      <3> QED
        BY <1>0, <1>3, <3>1 DEF ByteOK
    <2> QED
      BY <2>3, <2>4, <2>5, <2>6, <2>7 DEF AttInv
  <1>4. CASE /\ upload.state = "reserved" /\ ~upload.lease
             /\ upload' = [upload EXCEPT !.token = t, !.lease = TRUE, !.live = TRUE]
             /\ try' = [try EXCEPT ![t] = [at |-> "reserved", id |-> upload.id]] /\ UNCHANGED usage
    <2> DEFINE v == [upload EXCEPT !.token = t, !.lease = TRUE, !.live = TRUE]
    <2>1. PICK u \in UploadRows : /\ upload' = u /\ u.state = "reserved" /\ u.id = upload.id /\ u.token = t
                                  /\ u.lease /\ u.live
      <3>1. v \in UploadRows /\ v.state = "reserved" /\ v.id = upload.id /\ v.token = t /\ v.lease /\ v.live
        BY <1>0, <1>4 DEF UploadRows
      <3>2. upload' = v
        BY <1>4
      <3> HIDE DEF v
      <3> QED
        BY <3>1, <3>2
    <2>2. upload.id \in Ids /\ att[upload.id].state = "none"
      BY <1>0, <1>4 DEF UploadOK
    <2> QED
      BY <1>3, <1>4, <2>1, <2>2
  <1>5. CASE /\ upload.state \in {"none", "released"} /\ usage + 1 <= Quota
             /\ \E i \in IF upload.state = "none" THEN FreshIds ELSE {upload.id} :
                   /\ upload' = [state |-> "reserved", id |-> i, token |-> t, lease |-> TRUE, live |-> TRUE]
                   /\ try' = [try EXCEPT ![t] = [at |-> "reserved", id |-> i]]
             /\ usage' = usage + 1
    <2>1. PICK i \in IF upload.state = "none" THEN FreshIds ELSE {upload.id} :
                   /\ upload' = [state |-> "reserved", id |-> i, token |-> t, lease |-> TRUE, live |-> TRUE]
                   /\ try' = [try EXCEPT ![t] = [at |-> "reserved", id |-> i]]
      BY <1>5
    <2>2. i \in Ids /\ att[i].state = "none"
      <3>1. CASE upload.state = "none"
        <4>1. i \in FreshIds /\ i \in Ids /\ i \in Nat
          BY <2>1, <3>1, AttNames DEF FreshIds
        <4>2. i \notin UsedIds
          BY <4>1 DEF FreshIds
        <4> QED
          BY <4>1, <4>2 DEF UsedIds
      <3>2. CASE upload.state = "released"
        BY <1>0, <2>1, <3>2 DEF UploadOK
      <3> QED
        BY <1>5, <3>1, <3>2
    <2> DEFINE v == [state |-> "reserved", id |-> i, token |-> t, lease |-> TRUE, live |-> TRUE]
    <2>3. PICK u \in UploadRows : /\ upload' = u /\ u.state = "reserved" /\ u.id = i /\ u.token = t
                                  /\ u.lease /\ u.live
      <3>1. v \in UploadRows /\ v.state = "reserved" /\ v.id = i /\ v.token = t /\ v.lease /\ v.live
        BY <2>2 DEF UploadRows
      <3>2. upload' = v
        BY <2>1
      <3> HIDE DEF v
      <3> QED
        BY <3>1, <3>2
    <2> QED
      BY <1>3, <1>5, <2>1, <2>2, <2>3
  <1> QED
    BY <1>2, <1>4, <1>5 DEF ReserveAttachmentUpload

\* The bytes are published, or the attempt is refused.
LEMMA PublishStep ==
    ASSUME AttInv, NEW t \in Tries, PublishBlob(t) PROVE AttInv'
  <1>0. /\ AttType /\ UploadOK /\ UsageOK /\ TryOK(t) /\ try[t].at = "staged" /\ locked = 0
        /\ try[t].id \in Ids /\ try[t] \in TryRows /\ UNCHANGED <<upload, att, usage, expiring, sent>>
    BY DEF AttInv, AttType, PublishBlob, TryOK
  <1> DEFINE i == try[t].id
  <1>1. CASE ~(MayPublish(t) /\ staging[i] # 0)
    <2>1. staging' = [staging EXCEPT ![i] = 0] /\ try' = [try EXCEPT ![t].at = "abandon"] /\ UNCHANGED <<final, locked>>
      BY <1>1 DEF PublishBlob
    <2>2. staging' \in [Ids -> Tries \cup {0}] /\ \A x \in Ids : staging'[x] \in {0, staging[x]}
      BY <1>0, <2>1 DEF AttType
    <2> QED
      BY <1>0, <2>1, <2>2, TryStep DEF AttemptStages
  <1>2. CASE MayPublish(t) /\ staging[i] # 0
    <2> DEFINE row == [try[t] EXCEPT !.at = "publishing"]
    <2>1. /\ final' = [final EXCEPT ![i] = staging[i]] /\ staging' = [staging EXCEPT ![i] = 0]
          /\ locked' = t /\ try' = [try EXCEPT ![t] = row]
          /\ upload.state = "reserved" /\ upload.id = i /\ upload.token = t /\ upload.lease
      BY <1>2 DEF PublishBlob, MayPublish
    <2>2. staging[i] = t
      BY <1>0, <1>2, <2>1 DEF TryOK
    <2>3. row \in TryRows /\ row.at = "publishing" /\ row.id = i
      BY <1>0 DEF TryRows, AttemptStages
    <2> HIDE DEF row
    <2>4. /\ try'[t] = row /\ (\A x \in Tries \ {t} : try'[x] = try[x])
          /\ final'[i] = t /\ (\A x \in Ids \ {i} : final'[x] = final[x])
          /\ \A x \in Ids : staging'[x] \in {0, staging[x]}
      BY <1>0, <2>1, <2>2 DEF AttType
    <2>5. AttType'
      BY <1>0, <2>1, <2>2, <2>3 DEF AttType
    <2>6. ASSUME NEW x \in Tries PROVE TryOK(x)'
      <3>1. CASE x = t
        BY <1>0, <2>1, <2>3, <2>4, <3>1 DEF TryOK
      <3>2. CASE x # t
        <4>1. try'[x] = try[x] /\ TryOK(x) /\ try[x].at \notin {"reserved", "opened", "publishing"}
          BY <1>0, <2>1, <2>4, <3>2, AttNames DEF AttInv, TryOK
        <4> QED
          BY <1>0, <2>1, <3>2, <4>1 DEF TryOK
      <3> QED
        BY <3>1, <3>2
    <2>7. ASSUME NEW x \in Ids PROVE ByteOK(x)'
      <3>1. ByteOK(x) /\ att[i].state = "none"
        BY <1>0, <2>1 DEF AttInv, UploadOK
      <3> QED
        BY <1>0, <2>1, <2>4, <3>1 DEF ByteOK
    <2>8. UploadOK' /\ UsageOK'
      BY <1>0, SameLedger DEF UploadOK
    <2> QED
      BY <2>5, <2>6, <2>7, <2>8 DEF AttInv
  <1> QED
    BY <1>1, <1>2

\* The row and the receipt commit, or the bytes are taken back, or neither.
LEMMA FinalizeStep ==
    ASSUME AttInv, NEW t \in Tries, FinalizeAttachmentUpload(t) PROVE AttInv'
  <1> DEFINE i == try[t].id
  <1>0. /\ AttType /\ UploadOK /\ UsageOK /\ try[t].at = "publishing" /\ locked = t /\ locked' = 0
        /\ i \in Ids /\ try[t] \in TryRows /\ final[i] = t /\ upload \in UploadRows
        /\ upload.state = "reserved" /\ upload.id = i /\ upload.token = t /\ att[i].state = "none"
        /\ UNCHANGED <<staging, usage, expiring, sent>>
    BY DEF AttInv, AttType, UploadOK, FinalizeAttachmentUpload, TryOK
  <1>1. ASSUME NEW x \in Tries \ {t} PROVE TryOK(x) /\ try[x].at \notin {"reserved", "opened", "publishing"}
    BY <1>0 DEF AttInv, TryOK
  <1>2. ASSUME NEW a \in {"over", "abandon"}, try' = [try EXCEPT ![t].at = a], upload'.token \in {0, t}
        PROVE  try' \in [Tries -> TryRows] /\ \A x \in Tries : TryOK(x)'
    <2> DEFINE row == [try[t] EXCEPT !.at = a]
    <2>1. row \in TryRows /\ row.at = a /\ row.id = i /\ try' = [try EXCEPT ![t] = row]
      BY <1>0, <1>2 DEF TryRows, AttemptStages
    <2> HIDE DEF row
    <2>2. try'[t] = row /\ (\A x \in Tries \ {t} : try'[x] = try[x]) /\ try' \in [Tries -> TryRows]
      BY <1>0, <2>1 DEF AttType
    <2>3. ASSUME NEW x \in Tries PROVE TryOK(x)'
      <3>1. CASE x = t
        BY <1>0, <2>1, <2>2, <3>1 DEF TryOK
      <3>2. CASE x # t
        BY <1>1, <1>2, <2>2, <3>2, AttNames DEF TryOK
      <3> QED
        BY <3>1, <3>2
    <2> QED
      BY <2>2, <2>3
  <1>3. CASE /\ att' = [att EXCEPT ![i] = [state |-> "stored", of |-> t, bound |-> FALSE, old |-> FALSE]]
             /\ upload' = [upload EXCEPT !.state = "finalized", !.token = 0, !.lease = FALSE]
             /\ try' = [try EXCEPT ![t].at = "over"] /\ UNCHANGED final
    <2> DEFINE row == [state |-> "stored", of |-> t, bound |-> FALSE, old |-> FALSE]
               v == [upload EXCEPT !.state = "finalized", !.token = 0, !.lease = FALSE]
    <2>1. /\ row \in AttRows /\ row.state = "stored" /\ row.of = t /\ ~row.bound /\ att' = [att EXCEPT ![i] = row]
      BY <1>3 DEF AttRows
    <2>2. v \in UploadRows /\ v.state = "finalized" /\ v.id = i /\ v.token = 0 /\ ~v.lease /\ upload' = v
      BY <1>0, <1>3 DEF UploadRows
    <2> HIDE DEF row, v
    <2>3. att'[i] = row /\ \A x \in Ids \ {i} : att'[x] = att[x]
      BY <1>0, <2>1 DEF AttType
    <2>4. AttType' /\ \A x \in Tries : TryOK(x)'
      BY <1>0, <1>2, <1>3, <2>1, <2>2 DEF AttType
    <2>5. UploadOK'
      BY <1>0, <2>2 DEF UploadOK
    <2>6. KeptIds' = KeptIds \cup {i} /\ i \notin KeptIds
      BY <1>0, <2>1, <2>3 DEF KeptIds, Kept
    <2>7. UsageOK'
      <3>1. IsFiniteSet(KeptIds \cup {i}) /\ Cardinality(KeptIds \cup {i}) = Cardinality(KeptIds) + 1
        BY <1>0, <2>6, FS_AddElement DEF UsageOK
      <3>2. Cardinality(KeptIds) \in Nat
        BY <1>0, FS_CardinalityType DEF UsageOK
      <3> QED
        BY <1>0, <2>2, <2>6, <3>1, <3>2 DEF UsageOK
    <2>8. ASSUME NEW x \in Ids PROVE ByteOK(x)'
      <3>1. ByteOK(x)
        BY DEF AttInv
      <3>2. CASE x = i
        BY <1>0, <1>3, <2>1, <2>2, <2>3, <3>1, <3>2 DEF ByteOK, Kept
      <3>3. CASE x # i
        BY <1>0, <1>3, <2>2, <2>3, <3>1, <3>3 DEF ByteOK
      <3> QED
        BY <3>2, <3>3
    <2> QED
      BY <2>4, <2>5, <2>7, <2>8 DEF AttInv
  <1>4. CASE /\ final' = [final EXCEPT ![i] = 0] \/ final' = final
             /\ try' = [try EXCEPT ![t].at = "abandon"] \/ try' = [try EXCEPT ![t].at = "over"]
             /\ UNCHANGED <<att, upload>>
    <2>1. /\ final'[i] \in Tries \cup {0} /\ (\A x \in Ids \ {i} : final'[x] = final[x])
          /\ final' \in [Ids -> Tries \cup {0}]
      BY <1>0, <1>4 DEF AttType
    <2>2. AttType' /\ \A x \in Tries : TryOK(x)'
      BY <1>0, <1>2, <1>4, <2>1 DEF AttType
    <2>3. UploadOK' /\ UsageOK'
      BY <1>0, <1>4, SameLedger DEF UploadOK
    <2>4. ASSUME NEW x \in Ids PROVE ByteOK(x)'
      <3>1. ByteOK(x)
        BY DEF AttInv
      <3>2. CASE x = i
        BY <1>0, <1>4, <2>1, <3>1, <3>2 DEF ByteOK
      <3>3. CASE x # i
        BY <1>0, <1>4, <2>1, <3>1, <3>3 DEF ByteOK
      <3> QED
        BY <3>2, <3>3
    <2> QED
      BY <2>2, <2>3, <2>4 DEF AttInv
  <1> QED
    BY <1>3, <1>4 DEF FinalizeAttachmentUpload

\* A step of the reservation alone, that gives up a lease nobody writes under.
LEMMA LeaseStep ==
    ASSUME AttInv, NEW v \in UploadRows, upload' = v, v.state = upload.state, v.id = upload.id,
           UNCHANGED <<final, att, usage, locked, expiring, sent>>,
           v.token = upload.token \/ (v.token = 0 /\ locked = 0), v.lease => upload.lease,
           v.live = upload.live \/ (~v.live /\ ~v.lease),
           staging' \in [Ids -> Tries \cup {0}], \A i \in Ids : staging'[i] \in {0, staging[i]},
           try' \in [Tries -> TryRows],
           \A t \in Tries : \/ try'[t] = try[t] \/ try'[t].at = "over",
           \A t \in Tries : try'[t].at \in {"reserved", "opened"} => upload' = upload
    PROVE  AttInv'
  <1>0. AttType /\ UploadOK /\ UsageOK
    BY DEF AttInv
  <1>1. AttType'
    BY <1>0 DEF AttType
  <1>2. UploadOK' /\ UsageOK'
    BY <1>0, SameLedger DEF UploadOK
  <1>3. ASSUME NEW i \in Ids PROVE ByteOK(i)'
    BY DEF AttInv, ByteOK
  <1>4. ASSUME NEW t \in Tries PROVE TryOK(t)'
    <2>1. TryOK(t)
      BY DEF AttInv
    <2>2. CASE try'[t].at = "over"
      BY <2>2 DEF TryOK
    <2>3. CASE try'[t] = try[t]
      <3>1. try[t].at \notin {"new", "over"} => staging'[try[t].id] \in {0, staging[try[t].id]}
        BY <2>1 DEF TryOK
      <3>2. CASE try[t].at \in {"reserved", "opened"}
        BY <2>1, <2>3, <3>1, <3>2 DEF TryOK
      <3>3. CASE try[t].at \notin {"reserved", "opened"}
        BY <2>1, <2>3, <3>1, <3>3, AttNames DEF TryOK
      <3> QED
        BY <3>2, <3>3
    <2> QED
      BY <2>2, <2>3
  <1> QED
    BY <1>1, <1>2, <1>3, <1>4 DEF AttInv

\* An attempt gives up its claim, or a lease or a reservation runs out, or a
\* staging file nobody writes is swept.
LEMMA LeaseSteps ==
    ASSUME AttInv,
           \/ \E t \in Tries : AbandonAttachmentStaging(t)
           \/ LeaseRunsOut \/ ReservationRunsOut \/ \E i \in Ids : SweepStaging(i)
    PROVE  AttInv'
  <1>0. AttType /\ UploadOK /\ upload \in UploadRows
    BY DEF AttInv, AttType
  <1>1. ASSUME NEW t \in Tries, AbandonAttachmentStaging(t) PROVE AttInv'
    <2> DEFINE row == [try[t] EXCEPT !.at = "over"]
               v == [upload EXCEPT !.token = 0, !.lease = FALSE]
    <2>1. /\ try[t].at = "abandon" /\ locked = 0 /\ try' = [try EXCEPT ![t] = row] /\ try[t] \in TryRows
          /\ UNCHANGED <<final, att, usage, locked, expiring, sent>>
      BY <1>0, <1>1 DEF AbandonAttachmentStaging, AttType
    <2>2. row \in TryRows /\ row.at = "over" /\ try[t].id \in Ids
      BY <2>1 DEF TryRows, AttemptStages, AttInv, TryOK
    <2>3. v \in UploadRows /\ v.state = upload.state /\ v.id = upload.id /\ v.token = 0 /\ ~v.lease /\ v.live = upload.live
      BY <1>0 DEF UploadRows
    <2> HIDE DEF row, v
    <2>4. try' \in [Tries -> TryRows] /\ \A x \in Tries : try'[x] = (IF x = t THEN row ELSE try[x])
      BY <1>0, <2>1, <2>2 DEF AttType
    <2>5. CASE upload.token = t /\ upload' = v /\ staging' = [staging EXCEPT ![try[t].id] = 0]
      <3>1. staging' \in [Ids -> Tries \cup {0}] /\ \A i \in Ids : staging'[i] \in {0, staging[i]}
        BY <1>0, <2>5 DEF AttType
      <3>2. ASSUME NEW x \in Tries PROVE try'[x].at \notin {"reserved", "opened"}
        <4>1. CASE x = t
          BY <2>2, <2>4, <4>1
        <4>2. CASE x # t
          BY <2>4, <2>5, <4>2 DEF AttInv, TryOK
        <4> QED
          BY <4>1, <4>2
      <3> QED
        BY <2>1, <2>2, <2>3, <2>4, <2>5, <3>1, <3>2, LeaseStep
    <2>6. CASE UNCHANGED <<upload, staging>>
      <3>1. staging' \in [Ids -> Tries \cup {0}] /\ \A i \in Ids : staging'[i] \in {0, staging[i]}
        BY <1>0, <2>6 DEF AttType
      <3> QED
        BY <1>0, <2>1, <2>2, <2>4, <2>6, <3>1, LeaseStep
    <2> QED
      BY <1>1, <2>5, <2>6 DEF AbandonAttachmentStaging, v
  <1>2. CASE LeaseRunsOut
    <2> DEFINE v == [upload EXCEPT !.lease = FALSE]
    <2>1. upload' = v /\ UNCHANGED <<try, staging, final, att, usage, locked, expiring, sent>>
      BY <1>2 DEF LeaseRunsOut
    <2>2. /\ v \in UploadRows /\ v.state = upload.state /\ v.id = upload.id /\ v.token = upload.token
          /\ ~v.lease /\ v.live = upload.live
      BY <1>0 DEF UploadRows
    <2> HIDE DEF v
    <2>3. ASSUME NEW x \in Tries PROVE try'[x].at \notin {"reserved", "opened"}
      BY <1>2, <2>1, AttNames DEF LeaseRunsOut, AttInv, TryOK
    <2>4. try' \in [Tries -> TryRows] /\ staging' \in [Ids -> Tries \cup {0}] /\ try' = try /\ staging' = staging
      BY <1>0, <2>1 DEF AttType
    <2> QED
      BY <2>1, <2>2, <2>3, <2>4, LeaseStep
  <1>3. CASE ReservationRunsOut
    <2> DEFINE v == [upload EXCEPT !.live = FALSE]
    <2>1. upload' = v /\ ~upload.lease /\ UNCHANGED <<try, staging, final, att, usage, locked, expiring, sent>>
      BY <1>3 DEF ReservationRunsOut
    <2>2. /\ v \in UploadRows /\ v.state = upload.state /\ v.id = upload.id /\ v.token = upload.token
          /\ ~v.lease /\ ~v.live
      BY <1>0, <2>1 DEF UploadRows
    <2> HIDE DEF v
    <2>3. ASSUME NEW x \in Tries PROVE try'[x].at \notin {"reserved", "opened"}
      BY <2>1 DEF AttInv, TryOK
    <2>4. try' \in [Tries -> TryRows] /\ staging' \in [Ids -> Tries \cup {0}] /\ try' = try /\ staging' = staging
      BY <1>0, <2>1 DEF AttType
    <2> QED
      BY <2>1, <2>2, <2>3, <2>4, LeaseStep
  <1>4. ASSUME NEW i \in Ids, SweepStaging(i) PROVE AttInv'
    <2>1. staging' = [staging EXCEPT ![i] = 0] /\ UNCHANGED <<upload, try, final, att, usage, locked, expiring, sent>>
      BY <1>4 DEF SweepStaging
    <2>2. /\ staging' \in [Ids -> Tries \cup {0}] /\ (\A x \in Ids : staging'[x] \in {0, staging[x]})
          /\ try' \in [Tries -> TryRows] /\ try' = try
      BY <1>0, <2>1 DEF AttType
    <2> QED
      BY <1>0, <2>1, <2>2, LeaseStep
  <1> QED
    BY <1>1, <1>2, <1>3, <1>4

\* A step of the attachments and the message that moves no bytes and no quota.
LEMMA AttStep ==
    ASSUME AttInv, UNCHANGED <<upload, try, staging, final, usage, locked>>,
           att' \in [Ids -> AttRows], expiring' \subseteq Ids, sent' \in {"none", "shown", "deleted"},
           \A i \in Ids : /\ att'[i].of = att[i].of
                          /\ \/ att'[i].state = att[i].state
                             \/ att[i].state = "stored" /\ att'[i].state = "deleting",
           \A i \in Ids : /\ att'[i].bound /\ sent' = "shown" => att'[i].state = "stored"
                          /\ att'[i].bound => sent' # "none"
                          /\ i \in expiring' => att'[i].state = "stored" /\ ~att'[i].bound
    PROVE  AttInv'
  <1>0. AttType /\ UploadOK /\ UsageOK
    BY DEF AttInv
  <1>1. AttType'
    BY <1>0 DEF AttType
  <1>2. UsageOK'
    BY <1>0, SameLedger DEF Kept
  <1>3. UploadOK'
    BY <1>0 DEF UploadOK
  <1>4. ASSUME NEW t \in Tries PROVE TryOK(t)'
    BY DEF AttInv, TryOK
  <1>5. ASSUME NEW i \in Ids PROVE ByteOK(i)'
    <2>1. ByteOK(i)
      BY DEF AttInv
    <2> QED
      BY <2>1 DEF ByteOK, Kept
  <1> QED
    BY <1>1, <1>2, <1>3, <1>4, <1>5 DEF AttInv

\* Drafts age, are sent, go with their message, or expire.
LEMMA DraftSteps ==
    ASSUME AttInv, SendRaces = FALSE,
           \/ \E i \in Ids : DraftGetsOld(i) \/ bindAttachments(i)
           \/ enqueueAttachmentDeletions \/ SelectOldDrafts \/ expireUnboundDrafts
    PROVE  AttInv'
  <1>0. /\ AttType /\ att \in [Ids -> AttRows] /\ expiring \subseteq Ids /\ sent \in {"none", "shown", "deleted"}
        /\ (\A i \in Ids : ByteOK(i)) /\ \A i \in Ids : att[i] \in AttRows
    BY DEF AttInv, AttType
  <1>1. ASSUME NEW i \in Ids, DraftGetsOld(i) PROVE AttInv'
    <2> DEFINE row == [att[i] EXCEPT !.old = TRUE]
    <2>1. att' = [att EXCEPT ![i] = row] /\ UNCHANGED <<upload, try, staging, final, usage, locked, expiring, sent>>
      BY <1>1 DEF DraftGetsOld
    <2>2. row \in AttRows /\ row.state = att[i].state /\ row.of = att[i].of /\ row.bound = att[i].bound
      BY <1>0 DEF AttRows
    <2> HIDE DEF row
    <2>3. att' \in [Ids -> AttRows] /\ \A x \in Ids : att'[x] = (IF x = i THEN row ELSE att[x])
      BY <1>0, <2>1, <2>2
    <2> QED
      BY <1>0, <2>1, <2>2, <2>3, AttStep DEF ByteOK
  <1>2. ASSUME NEW i \in Ids, bindAttachments(i) PROVE AttInv'
    <2> DEFINE row == [att[i] EXCEPT !.bound = TRUE]
    <2>1. /\ att' = [att EXCEPT ![i] = row] /\ sent = "none" /\ sent' = "shown" /\ att[i].state = "stored" /\ i \notin expiring
          /\ UNCHANGED <<upload, try, staging, final, usage, locked, expiring>>
      BY <1>2 DEF bindAttachments
    <2>2. row \in AttRows /\ row.state = att[i].state /\ row.of = att[i].of /\ row.bound
      BY <1>0 DEF AttRows
    <2> HIDE DEF row
    <2>3. att' \in [Ids -> AttRows] /\ \A x \in Ids : att'[x] = (IF x = i THEN row ELSE att[x])
      BY <1>0, <2>1, <2>2
    <2> QED
      BY <1>0, <2>1, <2>2, <2>3, AttStep DEF ByteOK
  <1>3. CASE SelectOldDrafts
    BY <1>0, <1>3, AttStep DEF SelectOldDrafts, ByteOK
  <1> DEFINE gone(i) == [att[i] EXCEPT !.state = "deleting"]
  <1>4. ASSUME NEW i \in Ids PROVE gone(i) \in AttRows /\ gone(i).state = "deleting" /\ gone(i).of = att[i].of /\ gone(i).bound = att[i].bound
    BY <1>0 DEF AttRows
  <1>5. CASE enqueueAttachmentDeletions
    <2>1. sent' = "deleted" /\ UNCHANGED <<upload, try, staging, final, usage, locked, expiring>>
      BY <1>5 DEF enqueueAttachmentDeletions
    <2>2. att' = [i \in Ids |-> IF att[i].bound /\ att[i].state = "stored" THEN gone(i) ELSE att[i]]
      BY <1>5 DEF enqueueAttachmentDeletions
    <2> HIDE DEF gone
    <2>3. att' \in [Ids -> AttRows] /\ \A i \in Ids : att'[i] = (IF att[i].bound /\ att[i].state = "stored" THEN gone(i) ELSE att[i])
      BY <1>0, <1>4, <2>2
    <2> QED
      BY <1>0, <1>4, <2>1, <2>3, AttStep DEF ByteOK
  <1>6. CASE expireUnboundDrafts
    <2>1. expiring' = {} /\ UNCHANGED <<upload, try, staging, final, usage, locked, sent>>
      BY <1>6 DEF expireUnboundDrafts
    <2>2. att' = [i \in Ids |-> IF i \in expiring THEN gone(i) ELSE att[i]]
      BY <1>6 DEF expireUnboundDrafts
    <2> HIDE DEF gone
    <2>3. att' \in [Ids -> AttRows] /\ \A i \in Ids : att'[i] = (IF i \in expiring THEN gone(i) ELSE att[i])
      BY <1>0, <1>4, <2>2
    <2> QED
      BY <1>0, <1>4, <2>1, <2>3, AttStep DEF ByteOK
  <1> QED
    BY <1>1, <1>2, <1>3, <1>5, <1>6

\* Bytes go that no stored attachment and no publishing attempt stands for.
LEMMA BlobStep ==
    ASSUME AttInv, NEW i \in Ids, UNCHANGED <<upload, try, staging, att, usage, locked, expiring, sent>>,
           final' = [final EXCEPT ![i] = 0], att[i].state # "stored",
           att[i].state = "none" /\ upload.id = i => locked = 0
    PROVE  AttInv'
  <1>0. AttType /\ UploadOK /\ UsageOK
    BY DEF AttInv
  <1>1. final' \in [Ids -> Tries \cup {0}] /\ final'[i] = 0 /\ \A x \in Ids \ {i} : final'[x] = final[x]
    BY <1>0 DEF AttType
  <1>2. AttType' /\ UploadOK' /\ UsageOK'
    BY <1>0, <1>1, SameLedger DEF AttType, UploadOK
  <1>3. ASSUME NEW t \in Tries PROVE TryOK(t)'
    <2>1. TryOK(t)
      BY DEF AttInv
    <2>2. try[t].at = "publishing" => try[t].id # i /\ try[t].id \in Ids
      BY <1>0, <2>1, AttNames DEF TryOK, UploadOK
    <2> QED
      BY <1>1, <2>1, <2>2 DEF TryOK
  <1>4. ASSUME NEW x \in Ids PROVE ByteOK(x)'
    <2>1. ByteOK(x)
      BY DEF AttInv
    <2> QED
      BY <1>1, <2>1 DEF ByteOK
  <1> QED
    BY <1>2, <1>3, <1>4 DEF AttInv

LEMMA BlobSteps ==
    ASSUME AttInv, NEW i \in Ids, RemoveDeleted(i) \/ removeOrphanAttachmentBlob(i) PROVE AttInv'
  BY BlobStep DEF RemoveDeleted, removeOrphanAttachmentBlob, Orphan, Kept

\* The quota of a reservation that ran out, after its files.
LEMMA ReleaseStep ==
    ASSUME AttInv, releaseExpiredReservations PROVE AttInv'
  <1> DEFINE i == upload.id
             v == [upload EXCEPT !.state = "released", !.token = 0, !.lease = FALSE]
  <1>0. /\ AttType /\ UploadOK /\ UsageOK /\ locked = 0 /\ upload.state = "reserved" /\ ~upload.live /\ i \in Ids
        /\ att[i].state = "none" /\ upload \in UploadRows /\ staging' = [staging EXCEPT ![i] = 0]
        /\ final' = [final EXCEPT ![i] = 0] /\ UNCHANGED <<try, att, locked, expiring, sent>>
        /\ (upload' = v /\ usage' = usage - 1) \/ UNCHANGED <<upload, usage>>
    BY DEF AttInv, AttType, UploadOK, releaseExpiredReservations
  <1>1. v \in UploadRows /\ v.state = "released" /\ v.id = i /\ v.token = 0 /\ ~v.lease
    BY <1>0 DEF UploadRows
  <1> HIDE DEF v
  <1>2. /\ final' \in [Ids -> Tries \cup {0}] /\ staging' \in [Ids -> Tries \cup {0}]
        /\ \A x \in Ids : /\ final'[x] = (IF x = i THEN 0 ELSE final[x])
                          /\ staging'[x] = (IF x = i THEN 0 ELSE staging[x])
    BY <1>0 DEF AttType
  <1>3. AttType'
    BY <1>0, <1>1, <1>2 DEF AttType
  <1>4. UploadOK'
    BY <1>0, <1>1 DEF UploadOK
  <1>5. UsageOK'
    <2>1. KeptIds' = KeptIds
      BY <1>0 DEF KeptIds
    <2>2. Cardinality(KeptIds) \in Nat
      BY <1>0, FS_CardinalityType DEF UsageOK
    <2> QED
      BY <1>0, <1>1, <2>1, <2>2, AttNames DEF UsageOK
  <1>6. ASSUME NEW t \in Tries PROVE TryOK(t)'
    <2>1. TryOK(t) /\ try[t].at \notin {"reserved", "opened", "publishing"}
      BY <1>0, AttNames DEF AttInv, TryOK, UploadOK
    <2> QED
      BY <1>0, <1>1, <1>2, <2>1 DEF TryOK
  <1>7. ASSUME NEW x \in Ids PROVE ByteOK(x)'
    <2>1. ByteOK(x)
      BY DEF AttInv
    <2> QED
      BY <1>0, <1>1, <1>2, <2>1 DEF ByteOK
  <1> QED
    BY <1>3, <1>4, <1>5, <1>6, <1>7 DEF AttInv

\* The outbox settles a row whose bytes are gone.
LEMMA DeletionStep ==
    ASSUME AttInv, NEW i \in Ids, processAttachmentDeletions(i) PROVE AttInv'
  <1> DEFINE row == IF att[i].bound THEN [att[i] EXCEPT !.state = "deleted"] ELSE NoAtt
  <1>0. /\ AttType /\ UploadOK /\ UsageOK /\ ByteOK(i) /\ att[i].state = "deleting" /\ final[i] = 0 /\ att[i] \in AttRows
        /\ att' = [att EXCEPT ![i] = row] /\ usage' = usage - 1
        /\ upload' = IF ~att[i].bound /\ upload.id = i THEN NoUpload ELSE upload
        /\ UNCHANGED <<try, staging, final, locked, expiring, sent>>
    BY DEF AttInv, AttType, processAttachmentDeletions
  <1>1. row \in AttRows /\ row.state \in {"deleted", "none"} /\ row.bound = att[i].bound
    BY <1>0 DEF AttRows, NoAtt
  <1>2. NoUpload \in UploadRows /\ NoUpload.state = "none" /\ NoUpload.id = 0
    BY DEF NoUpload, UploadRows
  <1> HIDE DEF row
  <1>3. att'[i] = row /\ (\A x \in Ids \ {i} : att'[x] = att[x]) /\ att' \in [Ids -> AttRows]
    BY <1>0, <1>1 DEF AttType
  <1>4. /\ upload.state = "reserved" => upload.id # i /\ upload' = upload
        /\ upload'.state = "reserved" => upload' = upload
        /\ upload' = NoUpload \/ upload' = upload
    BY <1>0, <1>2 DEF UploadOK
  <1>5. AttType'
    BY <1>0, <1>2, <1>3 DEF AttType
  <1>6. UploadOK'
    BY <1>0, <1>2, <1>3, <1>4 DEF UploadOK
  <1>7. UsageOK'
    <2>1. KeptIds' = KeptIds \ {i} /\ i \in KeptIds
      BY <1>0, <1>1, <1>3 DEF KeptIds, Kept
    <2>2. IsFiniteSet(KeptIds \ {i}) /\ Cardinality(KeptIds \ {i}) = Cardinality(KeptIds) - 1
      BY <1>0, <2>1, FS_RemoveElement DEF UsageOK
    <2>3. Cardinality(KeptIds) \in Nat
      BY <1>0, FS_CardinalityType DEF UsageOK
    <2> QED
      BY <1>0, <1>4, <2>1, <2>2, <2>3, AttNames DEF UsageOK
  <1>8. ASSUME NEW t \in Tries PROVE TryOK(t)'
    BY <1>0, <1>4 DEF AttInv, TryOK
  <1>9. ASSUME NEW x \in Ids PROVE ByteOK(x)'
    <2>1. ByteOK(x)
      BY DEF AttInv
    <2>2. CASE x = i
      BY <1>0, <1>1, <1>3, <2>1, <2>2 DEF ByteOK
    <2>3. CASE x # i
      BY <1>0, <1>3, <1>4, <2>1, <2>3 DEF ByteOK
    <2> QED
      BY <2>2, <2>3
  <1> QED
    BY <1>5, <1>6, <1>7, <1>8, <1>9 DEF AttInv

\* A receipt goes that holds no quota.
LEMMA PurgeStep ==
    ASSUME AttInv, purgeSettledUploadReceipts PROVE AttInv'
  <1>0. /\ AttType /\ UploadOK /\ UsageOK /\ upload.state \in {"released", "finalized"} /\ upload' = NoUpload
        /\ UNCHANGED <<try, staging, final, att, usage, locked, expiring, sent>>
    BY DEF AttInv, purgeSettledUploadReceipts
  <1>1. NoUpload \in UploadRows /\ NoUpload.state = "none" /\ NoUpload.id = 0
    BY DEF NoUpload, UploadRows
  <1>2. AttType' /\ UploadOK'
    BY <1>0, <1>1 DEF AttType, UploadOK
  <1>3. UsageOK'
    <2>1. KeptIds' = KeptIds
      BY <1>0 DEF KeptIds
    <2> QED
      BY <1>0, <1>1, <2>1 DEF UsageOK
  <1>4. ASSUME NEW t \in Tries PROVE TryOK(t)'
    BY <1>0, <1>1 DEF AttInv, TryOK
  <1>5. ASSUME NEW x \in Ids PROVE ByteOK(x)'
    BY <1>0, <1>1 DEF AttInv, ByteOK
  <1> QED
    BY <1>2, <1>3, <1>4, <1>5 DEF AttInv

\* With no message sent while the expiry of old drafts runs, whatever uploads
\* overlap, die, are resumed or swept: a stored attachment has on disk the
\* bytes whose digest it records, a shown message keeps its attachment, and
\* the ledger counts every reservation, every attachment and every published
\* byte once (attachment.go, attachment_reconcile.go).
THEOREM AttachmentsStaySound ==
    ASSUME SendRaces = FALSE PROVE AttSpec => []AttachmentsSound
  <1>1. AttInit => AttInv
    BY AttInvInit
  <1>2. AttInv /\ [AttNext]_attVars => AttInv'
    <2> SUFFICES ASSUME AttInv, [AttNext]_attVars PROVE AttInv'
      OBVIOUS
    <2>1. CASE UNCHANGED attVars
      <3>1. AttType' /\ UploadOK' /\ (\A t \in Tries : TryOK(t)') /\ \A i \in Ids : ByteOK(i)'
        BY <2>1 DEF attVars, AttInv, AttType, UploadOK, TryOK, ByteOK
      <3>2. UsageOK'
        BY <2>1, SameLedger DEF attVars, AttInv
      <3> QED
        BY <3>1, <3>2 DEF AttInv
    <2>2. ASSUME NEW t \in Tries,
                 \/ ReserveAttachmentUpload(t) \/ OpenStaging(t) \/ Stage(t) \/ PublishBlob(t)
                 \/ FinalizeAttachmentUpload(t) \/ AbandonAttachmentStaging(t) \/ UploadDies(t)
          PROVE  AttInv'
      BY <2>2, ReserveStep, WriteSteps, PublishStep, FinalizeStep, LeaseSteps
    <2>3. ASSUME NEW i \in Ids,
                 \/ DraftGetsOld(i) \/ bindAttachments(i) \/ RemoveDeleted(i)
                 \/ processAttachmentDeletions(i) \/ SweepStaging(i) \/ removeOrphanAttachmentBlob(i)
          PROVE  AttInv'
      BY <2>3, DraftSteps, BlobSteps, DeletionStep, LeaseSteps
    <2>4. CASE \/ LeaseRunsOut \/ ReservationRunsOut \/ enqueueAttachmentDeletions
               \/ releaseExpiredReservations \/ SelectOldDrafts \/ expireUnboundDrafts
               \/ purgeSettledUploadReceipts
      BY <2>4, LeaseSteps, DraftSteps, ReleaseStep, PurgeStep
    <2> QED
      BY <2>1, <2>2, <2>3, <2>4 DEF AttNext
  <1>3. AttInv => AttachmentsSound
    <2> SUFFICES ASSUME AttInv PROVE AttachmentsSound
      OBVIOUS
    <2>1. StoredHasItsBytes
      BY DEF AttInv, ByteOK, StoredHasItsBytes
    <2>2. UsageOK /\ \A i \in Ids : ByteOK(i)
      BY DEF AttInv
    <2>3. QuotaIsExact
      BY <2>2 DEF UsageOK, ByteOK, QuotaIsExact, KeptIds
    <2> QED
      BY <2>1, <2>3 DEF AttachmentsSound
  <1> QED
    BY <1>1, <1>2, <1>3, PTL DEF AttSpec

-----------------------------------------------------------------------------
(* The messaging socket *)

FrameRows == [frame : {"event", "error", "receipt", "caught_up", "open_ack", "hello_ack"}, seq : Int]
ReaderRows == [at : {"idle", "hello", "found", "replay", "sending"}, opening : BOOLEAN, since : Int,
               latest : Int, todo : Seq(Int)]
SocketType ==
    /\ headSeq \in Int /\ unpublished \subseteq Int /\ outbox \in Seq(FrameRows) /\ reader \in ReaderRows
    /\ lastSeq \in Int /\ deferred \in Int /\ replayed \in Int /\ owed \in Int /\ caughtUp \in Int
    /\ subscribed \in BOOLEAN /\ role \in {"out", "watcher", "joined"}
\* Only a replay under way has messages to send; what is owed is due.
SocketInv ==
    /\ SocketType /\ NothingMissed
    /\ reader.at # "sending" => reader.todo = <<>>
    /\ owed # NoSeq => Due(role, openPlaceID)

QueuedSeqs(q) == {q[i].seq : i \in {j \in DOMAIN q : q[j].frame = "event"}}
Listed(s) == {s[i] : i \in DOMAIN s}

LEMMA QueueGrows ==
    ASSUME NEW q \in Seq(FrameRows), NEW f \in FrameRows
    PROVE  /\ q \o <<f>> \in Seq(FrameRows) /\ QueuedSeqs(q) \subseteq QueuedSeqs(q \o <<f>>)
           /\ f.frame = "event" => f.seq \in QueuedSeqs(q \o <<f>>)
  <1> DEFINE p == q \o <<f>>
  <1>1. /\ p \in Seq(FrameRows) /\ Len(p) = Len(q) + 1 /\ p[Len(p)] = f /\ DOMAIN p = 1..Len(p)
        /\ \A i \in 1..Len(q) : p[i] = q[i]
    OBVIOUS
  <1>2. DOMAIN q = 1..Len(q) /\ Len(q) \in Nat
    OBVIOUS
  <1> HIDE DEF p
  <1>3. ASSUME NEW i \in DOMAIN q PROVE i \in DOMAIN p /\ p[i] = q[i]
    BY <1>1, <1>2
  <1>4. QueuedSeqs(q) \subseteq QueuedSeqs(p)
    BY <1>3 DEF QueuedSeqs
  <1>5. Len(p) \in DOMAIN p
    BY <1>1, <1>2
  <1>6. f.frame = "event" => f.seq \in QueuedSeqs(p)
    BY <1>1, <1>5 DEF QueuedSeqs
  <1> QED
    BY <1>1, <1>4, <1>6 DEF p

LEMMA QueueShrinks ==
    ASSUME NEW q \in Seq(FrameRows), q # <<>>
    PROVE  /\ Tail(q) \in Seq(FrameRows) /\ Head(q) \in FrameRows
           /\ \A s \in QueuedSeqs(q) : s \in QueuedSeqs(Tail(q)) \/ (Head(q).frame = "event" /\ s = Head(q).seq)
  <1> DEFINE p == Tail(q)
  <1>1. /\ p \in Seq(FrameRows) /\ Head(q) \in FrameRows /\ Head(q) = q[1] /\ Len(q) \in Nat \ {0}
        /\ DOMAIN q = 1..Len(q) /\ DOMAIN p = 1..(Len(q) - 1) /\ \A i \in 1..(Len(q) - 1) : p[i] = q[i + 1]
    OBVIOUS
  <1> HIDE DEF p
  <1>2. ASSUME NEW i \in DOMAIN q, q[i].frame = "event" PROVE q[i].seq \in QueuedSeqs(p) \/ i = 1
    <2>1. CASE i # 1
      <3>1. i - 1 \in DOMAIN p /\ p[i - 1] = q[i]
        BY <1>1, <2>1
      <3> QED
        BY <1>2, <3>1 DEF QueuedSeqs
    <2> QED
      BY <2>1
  <1>3. ASSUME NEW s \in QueuedSeqs(q) PROVE s \in QueuedSeqs(p) \/ (Head(q).frame = "event" /\ s = Head(q).seq)
    BY <1>1, <1>2 DEF QueuedSeqs
  <1> QED
    BY <1>1, <1>3 DEF p

LEMMA ListShrinks ==
    ASSUME NEW q \in Seq(Int), q # <<>>
    PROVE  /\ Tail(q) \in Seq(Int) /\ Head(q) \in Int
           /\ \A s \in Listed(q) : s \in Listed(Tail(q)) \/ s = Head(q)
  <1> DEFINE p == Tail(q)
  <1>1. /\ p \in Seq(Int) /\ Head(q) \in Int /\ Head(q) = q[1] /\ Len(q) \in Nat \ {0}
        /\ DOMAIN q = 1..Len(q) /\ DOMAIN p = 1..(Len(q) - 1) /\ \A i \in 1..(Len(q) - 1) : p[i] = q[i + 1]
    OBVIOUS
  <1> HIDE DEF p
  <1>2. ASSUME NEW i \in DOMAIN q PROVE q[i] \in Listed(p) \/ i = 1
    <2>1. CASE i # 1
      <3>1. i - 1 \in DOMAIN p /\ p[i - 1] = q[i]
        BY <1>1, <2>1
      <3> QED
        BY <3>1 DEF Listed
    <2> QED
      BY <2>1
  <1>3. ASSUME NEW s \in Listed(q) PROVE s \in Listed(p) \/ s = Head(q)
    BY <1>1, <1>2 DEF Listed
  <1> QED
    BY <1>1, <1>3 DEF p

LEMMA HandNames ==
    /\ InHand = got \cup unpublished \cup QueuedSeqs(outbox) \cup Listed(reader.todo) \cup cut
    /\ InHand' = got' \cup unpublished' \cup QueuedSeqs(outbox') \cup Listed(reader'.todo) \cup cut'
  BY DEF InHand, Coming, QueuedSeqs, Listed

\* A step that lets nothing go, and owes no more than before.
LEMMA HandKept ==
    ASSUME NothingMissed, headSeq' = headSeq, owed' \in {owed, NoSeq},
           wire' = "up" /\ subscribed' => wire = "up" /\ subscribed /\ InHand \subseteq InHand'
    PROVE  NothingMissed'
  BY DEF NothingMissed

\* One frame offered to the queue is in it, or the subscription is over.
LEMMA Offered ==
    ASSUME SocketType, NEW f \in FrameRows, enqueueJSONAt(<<f>>)
    PROVE  /\ outbox' \in Seq(FrameRows) /\ subscribed' \in BOOLEAN
           /\ subscribed' => /\ subscribed /\ QueuedSeqs(outbox) \subseteq QueuedSeqs(outbox')
                             /\ f.frame = "event" => f.seq \in QueuedSeqs(outbox')
  BY QueueGrows DEF SocketType, enqueueJSONAt

LEMMA QueueKeeps ==
    ASSUME NEW q \in Seq(FrameRows), NEW fs \in Seq(FrameRows)
    PROVE  q \o fs \in Seq(FrameRows) /\ QueuedSeqs(q) \subseteq QueuedSeqs(q \o fs)
  <1> DEFINE p == q \o fs
  <1>1. /\ p \in Seq(FrameRows) /\ Len(p) = Len(q) + Len(fs) /\ DOMAIN p = 1..Len(p)
        /\ \A i \in 1..Len(q) : p[i] = q[i]
    OBVIOUS
  <1>2. DOMAIN q = 1..Len(q) /\ Len(q) \in Nat /\ Len(fs) \in Nat
    OBVIOUS
  <1> HIDE DEF p
  <1>3. ASSUME NEW i \in DOMAIN q PROVE i \in DOMAIN p /\ p[i] = q[i]
    BY <1>1, <1>2
  <1>4. QueuedSeqs(q) \subseteq QueuedSeqs(p)
    BY <1>3 DEF QueuedSeqs
  <1> QED
    BY <1>1, <1>4 DEF p

\* The frames the handler makes.
LEMMA Frames ==
    /\ \A s \in Int : MessageFrame(s) \in FrameRows /\ MessageFrame(s).frame = "event" /\ MessageFrame(s).seq = s
    /\ [frame |-> "error", seq |-> 0] \in FrameRows /\ [frame |-> "open_ack", seq |-> 0] \in FrameRows
    /\ [frame |-> "hello_ack", seq |-> 0] \in FrameRows
    /\ \A s \in Int : [frame |-> "receipt", seq |-> s] \in FrameRows /\ [frame |-> "caught_up", seq |-> s] \in FrameRows
  <1>2. \A s \in Int : MessageFrame(s) \in FrameRows /\ MessageFrame(s).frame = "event" /\ MessageFrame(s).seq = s
    BY DEF FrameRows, MessageFrame
  <1>3. [frame |-> "error", seq |-> 0] \in FrameRows
    BY DEF FrameRows
  <1>4. [frame |-> "open_ack", seq |-> 0] \in FrameRows
    BY DEF FrameRows
  <1>5. [frame |-> "hello_ack", seq |-> 0] \in FrameRows
    BY DEF FrameRows
  <1>6. \A s \in Int : [frame |-> "receipt", seq |-> s] \in FrameRows
    BY DEF FrameRows
  <1>7. \A s \in Int : [frame |-> "caught_up", seq |-> s] \in FrameRows
    BY DEF FrameRows
  <1> QED
    BY <1>2, <1>3, <1>4, <1>5, <1>6, <1>7

LEMMA IdleReader == Idle \in ReaderRows /\ Idle.todo = <<>> /\ Idle.at = "idle"
  <1>1. <<>> \in Seq(Int)
    OBVIOUS
  <1> QED
    BY <1>1 DEF Idle, ReaderRows

LEMMA SocketInvInit == SocketInit => SocketInv
  <1> SUFFICES ASSUME SocketInit PROVE SocketInv
    OBVIOUS
  <1>1. Idle \in ReaderRows /\ Idle.todo = <<>>
    BY IdleReader
  <1>2. SocketType
    <2>1. <<>> \in Seq(FrameRows)
      OBVIOUS
    <2>2. role \in {"out", "watcher", "joined"}
      BY SocketAssumption DEF SocketInit
    <2>3. subscribed \in BOOLEAN /\ reader \in ReaderRows /\ outbox \in Seq(FrameRows)
      BY <1>1, <2>1 DEF SocketInit
    <2>4. /\ headSeq \in Int /\ unpublished \subseteq Int
          /\ lastSeq \in Int /\ deferred \in Int /\ replayed \in Int /\ owed \in Int /\ caughtUp \in Int
      BY DEF SocketInit, NoSeq
    <2> QED
      BY <2>2, <2>3, <2>4 DEF SocketType
  <1>3. NothingMissed
    BY DEF SocketInit, NothingMissed
  <1> QED
    BY <1>1, <1>2, <1>3 DEF SocketInit, SocketInv

\* Messages are committed, published, or the viewer's part changes.
LEMMA PlaceSteps ==
    ASSUME SocketInv,
           \/ AppendMessage \/ CloseMessagingSession \/ (\E s \in unpublished : publishVariants(s))
           \/ \E r \in {"out", "watcher", "joined"} : ChangeRole(r)
    PROVE  SocketInv'
  <1>0. SocketType /\ NothingMissed
    BY DEF SocketInv
  <1>1. CASE AppendMessage
    <2>1. /\ headSeq' = headSeq + 1 /\ unpublished' = unpublished \cup {headSeq + 1}
          /\ UNCHANGED <<role, wire, subscribed, outbox, openPlaceID, deferred, replayed, caughtUp, reader, got, lastSeq, owed, cut>>
      BY <1>1 DEF AppendMessage, subscriberVars, browserVars
    <2>2. SocketType'
      BY <1>0, <2>1 DEF SocketType
    <2>3. InHand \subseteq InHand' /\ headSeq + 1 \in InHand'
      BY <2>1, HandNames
    <2>4. NothingMissed'
      BY <1>0, <2>1, <2>3 DEF NothingMissed, SocketType
    <2> QED
      BY <2>1, <2>2, <2>4 DEF SocketInv
  <1>2. CASE CloseMessagingSession
    <2>1. /\ wire' # "up"
          /\ UNCHANGED <<headSeq, unpublished, role, subscribed, outbox, openPlaceID, deferred, replayed, caughtUp, reader, lastSeq, owed>>
      BY <1>2 DEF CloseMessagingSession, subscriberVars, browserVars
    <2>2. SocketType' /\ NothingMissed'
      BY <1>0, <2>1 DEF SocketType, NothingMissed
    <2> QED
      BY <2>1, <2>2 DEF SocketInv
  <1>3. ASSUME NEW s \in unpublished, publishVariants(s) PROVE SocketInv'
    <2>1. /\ unpublished' = unpublished \ {s}
          /\ UNCHANGED <<headSeq, role, wire, openPlaceID, deferred, replayed, caughtUp, reader, got, lastSeq, owed, cut>>
      BY <1>3 DEF publishVariants, subscriberVars, browserVars
    <2>2. s \in Int /\ MessageFrame(s) \in FrameRows
      BY <1>0, Frames DEF SocketType
    <2>3. CASE enqueueJSONAt(<<MessageFrame(s)>>)
      <3>1. /\ outbox' \in Seq(FrameRows) /\ subscribed' \in BOOLEAN
            /\ subscribed' => subscribed /\ QueuedSeqs(outbox) \subseteq QueuedSeqs(outbox') /\ s \in QueuedSeqs(outbox')
        BY <1>0, <2>2, <2>3, Offered, Frames
      <3>2. SocketType'
        BY <1>0, <2>1, <3>1 DEF SocketType
      <3>3. subscribed' => InHand \subseteq InHand'
        BY <2>1, <3>1, HandNames
      <3>4. NothingMissed'
        BY <1>0, <2>1, <3>1, <3>3, HandKept
      <3> QED
        BY <2>1, <3>2, <3>4 DEF SocketInv
    <2>4. CASE ~admits(liveAudience, openPlaceID) /\ UNCHANGED <<outbox, subscribed>>
      <3>1. owed = NoSeq
        BY <2>4 DEF SocketInv, Due, admits, liveAudience
      <3>2. SocketType' /\ NothingMissed'
        BY <1>0, <2>1, <2>4, <3>1 DEF SocketType, NothingMissed
      <3> QED
        BY <2>1, <3>2 DEF SocketInv
    <2> QED
      BY <1>3, <2>3, <2>4 DEF publishVariants
  <1>4. ASSUME NEW r \in {"out", "watcher", "joined"}, ChangeRole(r) PROVE SocketInv'
    <2>1. /\ role' = r /\ owed' = (IF Due(r, openPlaceID) THEN owed ELSE NoSeq)
          /\ UNCHANGED <<headSeq, unpublished, wire, subscribed, outbox, openPlaceID, deferred, replayed, caughtUp, reader, got, lastSeq, cut>>
      BY <1>4 DEF ChangeRole, subscriberVars, browserVars
    <2>2. SocketType'
      BY <1>0, <2>1 DEF SocketType, NoSeq
    <2>3. InHand' = InHand
      BY <2>1, HandNames
    <2>4. NothingMissed'
      BY <1>0, <2>1, <2>3, HandKept
    <2> QED
      BY <2>1, <2>2, <2>4 DEF SocketInv, Due
  <1> QED
    BY <1>1, <1>2, <1>3, <1>4

\* The connection begins, ends, or is lost; the place is found, opened or closed.
LEMMA WireSteps ==
    ASSUME SocketInv,
           \/ ServeMessagingSocket \/ removeConnection \/ ConnectionDrops \/ writePumpDone
    PROVE  SocketInv'
  <1>0. SocketType /\ NothingMissed
    BY DEF SocketInv
  <1>1. CASE ServeMessagingSocket
    <2> DEFINE row == [Idle EXCEPT !.at = "hello", !.since = lastSeq]
               ack == [frame |-> "hello_ack", seq |-> 0]
    <2>1. row \in ReaderRows /\ row.at = "hello" /\ row.todo = <<>>
      BY <1>0, IdleReader DEF ReaderRows, SocketType
    <2>2. ack \in FrameRows
      BY Frames
    <2>3. /\ subscribed' = TRUE /\ outbox' = <<ack>> /\ openPlaceID' = FALSE /\ deferred' = NoSeq /\ replayed' = 0
          /\ caughtUp' = NoSeq /\ reader' = row /\ owed' = NoSeq
          /\ UNCHANGED <<headSeq, unpublished, role, lastSeq>>
      BY <1>1 DEF ServeMessagingSocket, storeVars, browserVars
    <2> HIDE DEF row, ack
    <2>4. outbox' \in Seq(FrameRows)
      BY <2>2, <2>3
    <2>5. SocketType'
      <3>1. subscribed' \in BOOLEAN /\ NoSeq \in Int
        BY <2>3 DEF NoSeq
      <3> QED
        BY <1>0, <2>1, <2>3, <2>4, <3>1 DEF SocketType
    <2> QED
      BY <2>1, <2>3, <2>5 DEF SocketInv, NothingMissed
  <1>2. CASE removeConnection
    <2>1. /\ wire' = "none" /\ subscribed' = FALSE /\ outbox' = <<>> /\ reader' = Idle /\ owed' = NoSeq
          /\ UNCHANGED <<headSeq, unpublished, role, openPlaceID, deferred, replayed, caughtUp, lastSeq>>
      BY <1>2 DEF removeConnection, storeVars, browserVars, subscriberVars
    <2>2. outbox' \in Seq(FrameRows) /\ subscribed' \in BOOLEAN /\ owed' \in Int
      <3>1. <<>> \in Seq(FrameRows)
        OBVIOUS
      <3>2. subscribed' \in BOOLEAN
        BY <2>1
      <3>3. NoSeq \in Int
        BY DEF NoSeq
      <3> QED
        BY <2>1, <3>1, <3>2, <3>3
    <2>3. SocketType'
      BY <1>0, <2>1, <2>2, IdleReader DEF SocketType
    <2> QED
      BY <2>1, <2>3, IdleReader DEF SocketInv, NothingMissed
  <1>3. CASE ConnectionDrops \/ writePumpDone
    <2>1. /\ wire' = "lost"
          /\ UNCHANGED <<headSeq, unpublished, role, subscribed, outbox, openPlaceID, deferred, replayed, caughtUp, reader, lastSeq, owed>>
      BY <1>3 DEF ConnectionDrops, writePumpDone, storeVars, browserVars, subscriberVars
    <2>2. SocketType' /\ NothingMissed'
      BY <1>0, <2>1 DEF SocketType, NothingMissed
    <2> QED
      BY <2>1, <2>2 DEF SocketInv
  <1> QED
    BY <1>1, <1>2, <1>3

LEMMA OpenSteps ==
    ASSUME SocketInv, catchUp \/ handleOpen \/ openPlace \/ closePlace PROVE SocketInv'
  <1>0. SocketType /\ NothingMissed /\ reader \in ReaderRows /\ (reader.at # "sending" => reader.todo = <<>>)
    BY DEF SocketInv, SocketType
  <1>1. CASE catchUp
    <2> DEFINE row == [reader EXCEPT !.at = "replay", !.latest = headSeq]
    <2>1. row \in ReaderRows /\ row.at = "replay" /\ row.todo = reader.todo
      BY <1>0 DEF ReaderRows, SocketType
    <2>2. /\ reader.at = "hello" /\ (reader' = Idle \/ reader' = row)
          /\ deferred' = deferred \/ deferred' = reader.since
          /\ UNCHANGED <<headSeq, unpublished, role, wire, subscribed, outbox, openPlaceID, replayed, caughtUp, got, lastSeq, owed, cut>>
      BY <1>1 DEF catchUp, storeVars, browserVars
    <2> HIDE DEF row
    <2>3. reader' \in ReaderRows /\ reader'.todo = <<>> /\ reader.todo = <<>>
      BY <1>0, <2>1, <2>2, IdleReader
    <2>4. deferred' \in Int
      BY <1>0, <2>2 DEF ReaderRows, SocketType
    <2>5. SocketType'
      BY <1>0, <2>2, <2>3, <2>4 DEF SocketType
    <2>6. InHand' = InHand
      BY <2>2, <2>3, HandNames
    <2>7. NothingMissed'
      BY <1>0, <2>2, <2>6, HandKept
    <2> QED
      BY <2>2, <2>3, <2>5, <2>7 DEF SocketInv
  <1>2. CASE handleOpen
    <2>1. /\ reader.at = "idle" /\ reader.todo = <<>>
          /\ UNCHANGED <<headSeq, unpublished, role, wire, openPlaceID, deferred, replayed, caughtUp, got, lastSeq, owed, cut>>
      BY <1>0, <1>2 DEF handleOpen, storeVars, browserVars, subscriberVars
    <2>2. CASE enqueueJSONAt(<<[frame |-> "error", seq |-> 0]>>) /\ UNCHANGED reader
      <3>1. /\ outbox' \in Seq(FrameRows) /\ subscribed' \in BOOLEAN
            /\ subscribed' => subscribed /\ QueuedSeqs(outbox) \subseteq QueuedSeqs(outbox')
        BY <1>0, <2>2, Frames, Offered
      <3>2. SocketType'
        BY <1>0, <2>1, <2>2, <3>1 DEF SocketType
      <3>3. subscribed' => InHand \subseteq InHand'
        BY <2>1, <2>2, <3>1, HandNames
      <3>4. NothingMissed'
        BY <1>0, <2>1, <3>1, <3>3, HandKept
      <3> QED
        BY <2>1, <2>2, <3>2, <3>4 DEF SocketInv
    <2>3. CASE /\ reader' = [Idle EXCEPT !.at = "found", !.opening = TRUE, !.since = lastSeq, !.latest = headSeq]
               /\ UNCHANGED <<outbox, subscribed>>
      <3> DEFINE row == [Idle EXCEPT !.at = "found", !.opening = TRUE, !.since = lastSeq, !.latest = headSeq]
      <3>1. row \in ReaderRows /\ row.at = "found" /\ row.todo = <<>> /\ reader' = row
        BY <1>0, <2>3, IdleReader DEF ReaderRows, SocketType
      <3> HIDE DEF row
      <3>2. SocketType'
        BY <1>0, <2>1, <2>3, <3>1 DEF SocketType
      <3>3. InHand' = InHand
        BY <2>1, <2>3, <3>1, HandNames
      <3>4. NothingMissed'
        BY <1>0, <2>1, <2>3, <3>3, HandKept
      <3> QED
        BY <2>1, <3>1, <3>2, <3>4 DEF SocketInv
    <2> QED
      BY <1>2, <2>2, <2>3 DEF handleOpen
  <1>3. CASE openPlace
    <2> DEFINE from == IF deferred # NoSeq THEN Smaller(deferred, reader.since) ELSE reader.since
               row == [reader EXCEPT !.at = "replay", !.since = from]
    <2>1. /\ reader.at = "found" /\ openPlaceID' = TRUE /\ deferred' = NoSeq /\ reader' = row /\ NoSeq \in Int
          /\ UNCHANGED <<headSeq, unpublished, role, wire, subscribed, outbox, replayed, caughtUp, got, lastSeq, owed, cut>>
      BY <1>3 DEF openPlace, storeVars, browserVars, NoSeq
    <2>2. from \in Int
      BY <1>0 DEF Smaller, ReaderRows, SocketType
    <2> HIDE DEF from
    <2>3. row \in ReaderRows /\ row.todo = reader.todo
      BY <1>0, <2>2 DEF ReaderRows
    <2> HIDE DEF row
    <2>4. SocketType' /\ reader'.todo = <<>> /\ reader.todo = <<>>
      BY <1>0, <2>1, <2>3 DEF SocketType
    <2>5. InHand' = InHand
      BY <2>1, <2>4, HandNames
    <2>6. NothingMissed'
      BY <1>0, <2>1, <2>5, HandKept
    <2>7. owed # NoSeq => Due(role, TRUE)
      BY DEF SocketInv, Due
    <2> QED
      BY <2>1, <2>4, <2>6, <2>7 DEF SocketInv
  <1>4. CASE closePlace
    <2>1. /\ openPlaceID' = FALSE /\ owed' = (IF role = "joined" THEN owed ELSE NoSeq) /\ NoSeq \in Int
          /\ UNCHANGED <<headSeq, unpublished, role, wire, subscribed, outbox, deferred, replayed, caughtUp, reader, got, lastSeq, cut>>
      BY <1>4 DEF closePlace, storeVars, browserVars, NoSeq
    <2>2. SocketType'
      BY <1>0, <2>1 DEF SocketType
    <2>3. InHand' = InHand
      BY <2>1, HandNames
    <2>4. NothingMissed'
      BY <1>0, <2>1, <2>3, HandKept
    <2> QED
      BY <1>0, <2>1, <2>2, <2>4 DEF SocketInv, Due
  <1> QED
    BY <1>1, <1>2, <1>3, <1>4

\* The replay takes every message there is after its start, or leaves it out by its limit.
LEMMA ReplayReads ==
    ASSUME SocketInv, MessagesSince PROVE SocketInv'
  <1>0. SocketType /\ NothingMissed /\ reader \in ReaderRows /\ reader.at = "replay" /\ reader.todo = <<>>
    BY DEF SocketInv, SocketType, MessagesSince
  <1>1. UNCHANGED <<headSeq, unpublished, role, subscribed, outbox, openPlaceID, deferred, caughtUp, got, lastSeq>>
    BY DEF MessagesSince, storeVars, browserVars
  <1>2. CASE role = "out"
    <2>1. reader' = Idle /\ wire' \in {"up", "lost"} /\ wire = "up" /\ UNCHANGED <<replayed, owed, cut>>
      BY <1>2 DEF MessagesSince
    <2>2. SocketType'
      BY <1>0, <1>1, <2>1, IdleReader DEF SocketType
    <2>3. InHand' = InHand
      BY <1>0, <1>1, <2>1, IdleReader, HandNames
    <2>4. NothingMissed'
      BY <1>0, <1>1, <2>1, <2>3, HandKept
    <2> QED
      BY <1>1, <2>1, <2>2, <2>4, IdleReader DEF SocketInv
  <1>3. CASE role # "out"
    <2> DEFINE since == replaySince(reader.since)
               upto == Smaller(since + CatchUpLimit, headSeq)
               list == [i \in 1..Larger(upto - since, 0) |-> since + i]
               row == [reader EXCEPT !.at = "sending", !.todo = list]
    <2>1. /\ reader' = row /\ replayed' = since /\ cut' = cut \cup ((upto + 1)..headSeq) /\ wire' = wire /\ wire = "up"
          /\ owed' = IF owed = NoSeq /\ Due(role, openPlaceID) THEN since ELSE owed
      BY <1>3 DEF MessagesSince
    <2>2. since \in Int /\ CatchUpLimit \in Nat /\ headSeq \in Int
      BY <1>0, SocketAssumption DEF replaySince, Larger, ReaderRows, SocketType
    <2> HIDE DEF since
    <2>3. upto \in Int /\ upto <= headSeq /\ (upto >= since \/ headSeq < since)
      BY <2>2 DEF Smaller
    <2> HIDE DEF upto
    <2>4. Larger(upto - since, 0) \in Nat /\ Larger(upto - since, 0) >= upto - since
      BY <2>2, <2>3 DEF Larger
    <2>5. list \in Seq(Int) /\ DOMAIN list = 1..Larger(upto - since, 0) /\ \A i \in DOMAIN list : list[i] = since + i
      BY <2>2, <2>4
    <2> HIDE DEF list
    <2>6. row \in ReaderRows /\ row.at = "sending" /\ row.todo = list
      BY <1>0, <2>5 DEF ReaderRows
    <2> HIDE DEF row
    <2>7. SocketType'
      BY <1>0, <1>1, <2>1, <2>2, <2>6 DEF SocketType
    <2>8. InHand \subseteq InHand'
      <3>1. Listed(reader.todo) = {}
        BY <1>0 DEF Listed
      <3> QED
        BY <1>1, <2>1, <3>1, HandNames
    <2>9. ASSUME NEW s \in (since + 1)..headSeq PROVE s \in InHand'
      <3>1. CASE s > upto
        BY <2>1, <2>2, <2>3, <3>1, HandNames
      <3>2. CASE s <= upto
        <4>1. s - since \in DOMAIN list /\ list[s - since] = s
          BY <2>2, <2>3, <2>4, <2>5, <3>2
        <4>2. s \in Listed(list)
          BY <4>1 DEF Listed
        <4> QED
          BY <2>1, <2>6, <4>2, HandNames
      <3> QED
        BY <2>2, <2>3, <3>1, <3>2
    <2>10. NothingMissed'
      <3>1. CASE owed' = owed
        BY <1>0, <1>1, <2>1, <2>8, <3>1, HandKept
      <3>2. CASE owed' = since
        BY <1>1, <2>9, <3>2 DEF NothingMissed
      <3> QED
        BY <2>1, <3>1, <3>2
    <2>11. owed' # NoSeq => Due(role, openPlaceID)'
      BY <1>1, <2>1 DEF SocketInv, Due
    <2> QED
      BY <2>1, <2>6, <2>7, <2>10, <2>11 DEF SocketInv
  <1> QED
    BY <1>2, <1>3

\* One frame of the replay, the announcement after it, and a message sent.
LEMMA SendSteps ==
    ASSUME SocketInv, replayPlace \/ markCaughtUp \/ handleSend PROVE SocketInv'
  <1>0. SocketType /\ NothingMissed /\ reader \in ReaderRows /\ reader.todo \in Seq(Int)
    BY DEF SocketInv, SocketType, ReaderRows
  <1>1. CASE replayPlace
    <2> DEFINE n == Head(reader.todo)
    <2>1. /\ wire = "up" /\ reader.at = "sending" /\ reader.todo # <<>> /\ enqueueJSONAt(<<MessageFrame(n)>>)
          /\ UNCHANGED <<headSeq, unpublished, role, openPlaceID, deferred, caughtUp, got, lastSeq, owed, cut>>
      BY <1>1 DEF replayPlace, storeVars, browserVars
    <2>2. /\ Tail(reader.todo) \in Seq(Int) /\ n \in Int
          /\ \A s \in Listed(reader.todo) : s \in Listed(Tail(reader.todo)) \/ s = n
      BY <1>0, <2>1, ListShrinks
    <2> HIDE DEF n
    <2>3. /\ outbox' \in Seq(FrameRows) /\ subscribed' \in BOOLEAN
          /\ subscribed' => subscribed /\ QueuedSeqs(outbox) \subseteq QueuedSeqs(outbox') /\ n \in QueuedSeqs(outbox')
      BY <1>0, <2>1, <2>2, Offered, Frames
    <2> DEFINE row == [reader EXCEPT !.todo = Tail(reader.todo)]
    <2>4. row \in ReaderRows /\ row.at = "sending" /\ row.todo = Tail(reader.todo)
      BY <1>0, <2>1, <2>2 DEF ReaderRows
    <2>5. CASE subscribed'
      <3>1. reader' = row /\ replayed' = Larger(replayed, n) /\ UNCHANGED wire
        BY <1>1, <2>5 DEF replayPlace, n
      <3> HIDE DEF row
      <3>2. replayed' \in Int
        BY <1>0, <2>2, <3>1 DEF Larger, SocketType
      <3>3. SocketType'
        BY <1>0, <2>1, <2>3, <2>4, <3>1, <3>2 DEF SocketType
      <3>4. InHand \subseteq InHand'
        BY <2>1, <2>2, <2>3, <2>4, <2>5, <3>1, HandNames
      <3>5. NothingMissed'
        BY <1>0, <2>1, <2>3, <2>5, <3>1, <3>4, HandKept
      <3> QED
        BY <2>1, <2>4, <3>1, <3>3, <3>5 DEF SocketInv
    <2>6. CASE ~subscribed'
      <3>1. reader' = Idle /\ replayed' = replayed
        BY <1>1, <2>6 DEF replayPlace
      <3>2. SocketType'
        BY <1>0, <2>1, <2>3, <3>1, IdleReader DEF SocketType
      <3> QED
        BY <2>1, <2>6, <3>1, <3>2, IdleReader DEF SocketInv, NothingMissed
    <2> QED
      BY <2>3, <2>5, <2>6
  <1>2. CASE markCaughtUp
    <2> DEFINE head == IF reader.latest > caughtUp THEN <<[frame |-> "caught_up", seq |-> reader.latest]>> ELSE <<>>
               ack == IF reader.opening THEN <<[frame |-> "open_ack", seq |-> 0]>> ELSE <<>>
    <2>1. /\ reader.todo = <<>> /\ reader' = Idle /\ caughtUp' = Larger(caughtUp, reader.latest)
          /\ enqueueJSONAt(head \o ack)
          /\ UNCHANGED <<headSeq, unpublished, role, wire, openPlaceID, deferred, replayed, got, lastSeq, owed, cut>>
      BY <1>2 DEF markCaughtUp, storeVars, browserVars
    <2>2. reader.latest \in Int /\ caughtUp \in Int
      BY <1>0 DEF ReaderRows, SocketType
    <2>3. head \in Seq(FrameRows) /\ ack \in Seq(FrameRows)
      <3>1. [frame |-> "caught_up", seq |-> reader.latest] \in FrameRows /\ [frame |-> "open_ack", seq |-> 0] \in FrameRows
        BY <2>2, Frames
      <3> QED
        BY <3>1
    <2> HIDE DEF head, ack
    <2>4. PICK fs \in Seq(FrameRows) : enqueueJSONAt(fs)
      <3>1. head \o ack \in Seq(FrameRows)
        BY <2>3
      <3> QED
        BY <2>1, <3>1, Zenon
    <2>5. outbox' \in Seq(FrameRows) /\ subscribed' \in BOOLEAN /\ (subscribed' => subscribed /\ QueuedSeqs(outbox) \subseteq QueuedSeqs(outbox'))
      <3>1. outbox \o fs \in Seq(FrameRows) /\ QueuedSeqs(outbox) \subseteq QueuedSeqs(outbox \o fs) /\ outbox \in Seq(FrameRows)
        BY <1>0, QueueKeeps DEF SocketType
      <3> QED
        BY <2>4, <3>1 DEF enqueueJSONAt
    <2>6. caughtUp' \in Int
      BY <2>1, <2>2 DEF Larger
    <2>7. SocketType'
      BY <1>0, <2>1, <2>5, <2>6, IdleReader DEF SocketType
    <2>8. subscribed' => InHand \subseteq InHand'
      BY <2>1, <2>5, IdleReader, HandNames
    <2>9. NothingMissed'
      BY <1>0, <2>1, <2>5, <2>8, HandKept
    <2> QED
      BY <2>1, <2>7, <2>9, IdleReader DEF SocketInv
  <1>3. CASE handleSend
    <2>1. /\ UNCHANGED <<wire, openPlaceID, deferred, replayed, caughtUp, reader, got, lastSeq, owed, cut>>
      BY <1>3 DEF handleSend, subscriberVars, browserVars
    <2>2. PICK f \in FrameRows : enqueueJSONAt(<<f>>)
      <3>1. headSeq + 1 \in Int
        BY <1>0 DEF SocketType
      <3>2. [frame |-> "receipt", seq |-> headSeq + 1] \in FrameRows
        BY <3>1, Frames
      <3>3. CASE role = "out"
        BY <1>3, <3>3, Frames DEF handleSend
      <3>4. CASE role # "out"
        BY <1>3, <3>2, <3>4 DEF handleSend
      <3> QED
        BY <3>3, <3>4
    <2>3. /\ outbox' \in Seq(FrameRows) /\ subscribed' \in BOOLEAN
          /\ subscribed' => subscribed /\ QueuedSeqs(outbox) \subseteq QueuedSeqs(outbox')
      BY <1>0, <2>2, Offered
    <2>4. \/ UNCHANGED <<headSeq, unpublished, role>>
          \/ headSeq' = headSeq + 1 /\ unpublished' = unpublished \cup {headSeq + 1} /\ role' = "joined"
      BY <1>3 DEF handleSend, storeVars
    <2>5. SocketType'
      <3>1. headSeq' \in Int /\ unpublished' \subseteq Int /\ role' \in {"out", "watcher", "joined"}
        <4>1. headSeq \in Int /\ unpublished \subseteq Int /\ role \in {"out", "watcher", "joined"}
          BY <1>0 DEF SocketType
        <4>2. CASE UNCHANGED <<headSeq, unpublished, role>>
          BY <4>1, <4>2
        <4>3. CASE headSeq' = headSeq + 1 /\ unpublished' = unpublished \cup {headSeq + 1} /\ role' = "joined"
          BY <4>1, <4>3
        <4> QED
          BY <2>4, <4>2, <4>3
      <3> QED
        BY <1>0, <2>1, <2>3, <3>1 DEF SocketType
    <2>6. subscribed' => InHand \subseteq InHand' /\ (headSeq' = headSeq \/ headSeq' \in InHand')
      BY <2>1, <2>3, <2>4, HandNames
    <2>7. NothingMissed'
      BY <1>0, <2>1, <2>3, <2>4, <2>6 DEF NothingMissed, SocketType
    <2> QED
      BY <2>1, <2>4, <2>5, <2>7 DEF SocketInv, Due
  <1> QED
    BY <1>1, <1>2, <1>3

LEMMA PumpStep ==
    ASSUME SocketInv, writePump PROVE SocketInv'
  <1>0. SocketType /\ NothingMissed
    BY DEF SocketInv
  <1> DEFINE f == Head(outbox)
  <1>1. /\ wire = "up" /\ outbox # <<>> /\ outbox' = Tail(outbox)
        /\ UNCHANGED <<headSeq, unpublished, role, subscribed, openPlaceID, deferred, replayed, caughtUp, reader, owed, cut>>
        /\ \/ /\ got' = (IF f.frame = "event" THEN got \cup {f.seq} ELSE got)
              /\ lastSeq' = (IF f.frame = "event" THEN f.seq ELSE lastSeq)
           \/ wire' = "lost" /\ UNCHANGED <<got, lastSeq>>
    BY DEF writePump, storeVars, browserVars, subscriberVars
  <1>2. /\ outbox' \in Seq(FrameRows) /\ f \in FrameRows
        /\ \A s \in QueuedSeqs(outbox) : s \in QueuedSeqs(outbox') \/ (f.frame = "event" /\ s = f.seq)
    BY <1>0, <1>1, QueueShrinks DEF SocketType
  <1> HIDE DEF f
  <1>3. lastSeq' \in Int
    BY <1>0, <1>1, <1>2 DEF FrameRows, SocketType
  <1>4. SocketType'
    BY <1>0, <1>1, <1>2, <1>3 DEF SocketType
  <1>5. wire' = "up" => InHand \subseteq InHand'
    BY <1>1, <1>2, HandNames
  <1>6. NothingMissed'
    BY <1>0, <1>1, <1>5, HandKept
  <1> QED
    BY <1>1, <1>4, <1>6 DEF SocketInv

\* Replay and live delivery leave no gap, for every replay limit, queue
\* length, number of messages, connections and changes of what the viewer may
\* see: as long as the hub keeps the subscriber of a viewer who has joined the
\* thread or has it open, every message after the start of its replay was
\* received, is on its way, or was left out by the replay's limit (ws.go,
\* hub.go: subscribe before replay).
THEOREM NothingIsMissed == SocketSpec => []NothingMissed
  <1>1. SocketInit => SocketInv
    BY SocketInvInit
  <1>2. SocketInv /\ [SocketNext]_socketVars => SocketInv'
    <2> SUFFICES ASSUME SocketInv, [SocketNext]_socketVars PROVE SocketInv'
      OBVIOUS
    <2>1. CASE UNCHANGED socketVars
      <3>1. SocketType' /\ InHand' = InHand
        BY <2>1, HandNames DEF socketVars, SocketInv, SocketType
      <3>2. NothingMissed'
        BY <2>1, <3>1, HandKept DEF socketVars, SocketInv
      <3> QED
        BY <2>1, <3>1, <3>2 DEF socketVars, SocketInv, Due
    <2>2. CASE SocketNext
      BY <2>2, PlaceSteps, WireSteps, OpenSteps, ReplayReads, SendSteps, PumpStep DEF SocketNext
    <2> QED
      BY <2>1, <2>2
  <1>3. SocketInv => NothingMissed
    BY DEF SocketInv
  <1> QED
    BY <1>1, <1>2, <1>3, PTL DEF SocketSpec

(***************************************************************************)
(* The sockets of a browser session.                                       *)
(***************************************************************************)
SockAts == {"none", "upgrading", "closed", "hello", "replay", "replaying", "status", "loop",
            "looping", "select", "rescan", "rescanning", "emit"}
SockRows == [at : SockAts, next : Nat, upto : Nat, queue : Seq(Nat), subscribed : BOOLEAN,
             batch : Seq(Nat), owing : Cmds \cup {0}, fresh : BOOLEAN, told : SUBSET Cmds]
SockType ==
    /\ logged \in Seq(Cmds \cup {0}) /\ sock \in [Chats -> SockRows]
    /\ sentBy \in [Cmds -> Chats \cup {"nobody"}]
\* What was queued is a length the log had; a batch is written only when the
\* log was read beyond it; an event that was written answers a command that
\* was sent, so a command nobody had sent has no answer on the socket.
Within(q, n) == \A i \in DOMAIN q : q[i] <= n
SockRowOK(v, n) ==
    /\ Within(v.queue, n) /\ Within(v.batch, n)
    /\ v.at \in {"replaying", "looping", "rescanning"} => v.upto <= n
    /\ v.at = "rescanning" => Within(v.batch, v.upto)
    /\ v.at = "emit" => Within(v.batch, v.next)
    /\ v.owing # 0 /\ v.fresh => v.owing \notin v.told
    /\ \A k \in v.told : sentBy[k] # "nobody"
Opened(v) == v.at \notin {"none", "upgrading", "closed"}
SocketsInv ==
    /\ SockType
    /\ \A i \in DOMAIN logged : logged[i] # 0 => sentBy[logged[i]] # "nobody"
    /\ \A c \in Chats : SockRowOK(sock[c], Len(logged))
    /\ \A c \in Chats : sock[c].at = "upgrading" => c \in leased
    /\ SocketsEnd

LEMMA NoSockRow ==
    ASSUME NEW n \in Nat
    PROVE  /\ NoSock \in SockRows /\ SockRowOK(NoSock, n) /\ NoSock.at = "none"
           /\ [NoSock EXCEPT !.at = "closed"] \in SockRows
           /\ SockRowOK([NoSock EXCEPT !.at = "closed"], n)
           /\ [NoSock EXCEPT !.at = "closed"].at = "closed"
  <1>1. <<>> \in Seq(Nat) /\ Within(<<>>, n)
    BY DEF Within
  <1>2. FALSE \in BOOLEAN
    OBVIOUS
  <1>3. NoSock \in SockRows /\ SockRowOK(NoSock, n) /\ NoSock.at = "none"
    BY <1>1, <1>2 DEF NoSock, SockRows, SockAts, SockRowOK
  <1>4. [NoSock EXCEPT !.at = "closed"] \in SockRows
    BY <1>1, <1>2 DEF NoSock, SockRows, SockAts
  <1>5. /\ SockRowOK([NoSock EXCEPT !.at = "closed"], n)
        /\ [NoSock EXCEPT !.at = "closed"].at = "closed"
    BY <1>1, <1>2 DEF NoSock, SockRowOK
  <1> QED
    BY <1>3, <1>4, <1>5

LEMMA SocketsInvInit == SockInit => SocketsInv
  <1> SUFFICES ASSUME SockInit PROVE SocketsInv
    OBVIOUS
  <1>1. /\ logged = <<>> /\ sock = [c \in Chats |-> NoSock] /\ sentBy = [k \in Cmds |-> "nobody"]
        /\ leased = {} /\ login = "live" /\ draining = FALSE /\ typed = "none"
    BY DEF SockInit
  <1>2. logged \in Seq(Cmds \cup {0}) /\ Len(logged) = 0 /\ DOMAIN logged = {}
    BY <1>1
  <1>3. NoSock \in SockRows /\ SockRowOK(NoSock, 0) /\ NoSock.at = "none"
    BY NoSockRow
  <1>4. SockType
    BY <1>1, <1>2, <1>3 DEF SockType
  <1>5. \A c \in Chats : sock[c] = NoSock
    BY <1>1
  <1>6. SocketsEnd
    BY <1>1, <1>3, <1>5 DEF SocketsEnd, Connected
  <1> QED
    BY <1>2, <1>3, <1>4, <1>5, <1>6 DEF SocketsInv

\* A step of one socket.
LEMMA SocketStep ==
    ASSUME SocketsInv, NEW c \in Chats, NEW v \in SockRows, SockRowOK(v, Len(logged)),
           sock' = [sock EXCEPT ![c] = v], UNCHANGED restOfSocket,
           Opened(v) => login # "swept" /\ ~draining,
           v.at = "upgrading" => c \in leased',
           \/ leased' = leased \/ leased' = leased \ {c}
           \/ leased' = leased \cup {c} /\ authorizeBrowserOperation
    PROVE  SocketsInv'
  <1>1. /\ UNCHANGED <<logged, sentBy, login, granted, typed, draining>>
        /\ sock \in [Chats -> SockRows]
    BY DEF restOfSocket, SocketsInv, SockType
  <1>2. sock' \in [Chats -> SockRows] /\ \A d \in Chats : sock'[d] = IF d = c THEN v ELSE sock[d]
    BY <1>1
  <1>3. SockType'
    BY <1>1, <1>2 DEF SocketsInv, SockType
  <1>4. ASSUME NEW d \in Chats PROVE SockRowOK(sock[d], Len(logged))'
    BY <1>1, <1>2 DEF SocketsInv, SockRowOK
  <1>5. ASSUME NEW d \in Chats PROVE (sock[d].at = "upgrading" => d \in leased)'
    BY <1>2 DEF SocketsInv
  <1>6. SocketsEnd'
    <2>1. ASSUME login' = "swept" \/ draining', NEW d \in Chats PROVE ~Connected(d)'
      BY <1>1, <1>2, <2>1 DEF SocketsInv, SocketsEnd, Connected, Opened
    <2>2. leased' # {} => login' = "live" /\ granted'
      BY <1>1 DEF SocketsInv, SocketsEnd, authorizeBrowserOperation
    <2> QED
      BY <1>1, <2>1, <2>2 DEF SocketsInv, SocketsEnd
  <1>7. (\A i \in DOMAIN logged : logged[i] # 0 => sentBy[logged[i]] # "nobody")'
    BY <1>1 DEF SocketsInv
  <1> QED
    BY <1>3, <1>4, <1>5, <1>6, <1>7 DEF SocketsInv

\* A socket that closes.
LEMMA CloseStep ==
    ASSUME SocketsInv, NEW c \in Chats, Closes(c), UNCHANGED restOfSocket,
           leased' = leased \/ leased' = leased \ {c}
    PROVE  SocketsInv'
  <1> DEFINE v == [NoSock EXCEPT !.at = "closed"]
  <1>1. Len(logged) \in Nat
    BY DEF SocketsInv, SockType
  <1>2. v \in SockRows /\ SockRowOK(v, Len(logged)) /\ v.at = "closed"
    BY <1>1, NoSockRow
  <1>3. sock' = [sock EXCEPT ![c] = v]
    BY DEF Closes
  <1> HIDE DEF v
  <1> QED
    BY <1>2, <1>3, SocketStep DEF Opened

\* A step that leaves the row of a socket but for where its pump is.
LEMMA PumpMoves ==
    ASSUME SocketsInv, NEW c \in Chats, NEW at \in SockAts, Moves(c, at), UNCHANGED restOfSocket,
           at \notin {"replaying", "looping", "rescanning"},
           at = "emit" => Within(sock[c].batch, sock[c].next),
           at \notin {"none", "upgrading", "closed"} => login # "swept" /\ ~draining,
           at = "upgrading" => c \in leased',
           \/ leased' = leased \/ leased' = leased \ {c}
           \/ leased' = leased \cup {c} /\ authorizeBrowserOperation
    PROVE  SocketsInv'
  <1> DEFINE v == [sock[c] EXCEPT !.at = at]
  <1>0. sock[c] \in SockRows /\ SockRowOK(sock[c], Len(logged))
    BY DEF SocketsInv, SockType
  <1>1. v \in SockRows /\ v.at = at /\ SockRowOK(v, Len(logged))
    BY <1>0 DEF SockRows, SockRowOK
  <1>2. sock' = [sock EXCEPT ![c] = v]
    BY DEF Moves
  <1> HIDE DEF v
  <1> QED
    BY <1>1, <1>2, SocketStep DEF Opened

LEMMA StillOpen ==
    ASSUME SocketsInv, NEW c \in Chats, Connected(c) PROVE login # "swept" /\ ~draining
  BY DEF SocketsInv, SocketsEnd

LEMMA OpeningSteps ==
    ASSUME SocketsInv, NEW c \in Chats,
           ServeHTTP(c) \/ addConnection(c) \/ \E n \in 0..MaxLog : SubscribeBrowserVolatile(c, n)
    PROVE  SocketsInv'
  <1>0. sock[c] \in SockRows /\ SockRowOK(sock[c], Len(logged))
    BY DEF SocketsInv, SockType
  <1>1. CASE ServeHTTP(c)
    BY <1>1, PumpMoves DEF ServeHTTP, SockAts
  <1>2. CASE addConnection(c)
    <2>1. c \in leased /\ leased' = leased \ {c} /\ UNCHANGED restOfSocket
      BY <1>2 DEF addConnection, SocketsInv
    <2>2. login # "swept"
      BY <2>1 DEF SocketsInv, SocketsEnd
    <2>3. CASE draining
      BY <1>2, <2>1, <2>3, CloseStep DEF addConnection
    <2>4. CASE ~draining
      <3>1. Moves(c, "hello")
        BY <1>2, <2>4 DEF addConnection
      <3> QED
        BY <2>1, <2>2, <2>4, <3>1, PumpMoves DEF SockAts
    <2> QED
      BY <2>3, <2>4
  <1>3. ASSUME NEW n \in 0..MaxLog, SubscribeBrowserVolatile(c, n) PROVE SocketsInv'
    <2>1. sock[c].at = "hello" /\ leased' = leased /\ UNCHANGED restOfSocket
      BY <1>3 DEF SubscribeBrowserVolatile
    <2>0. n \in Nat
      BY SocketsAssumption
    <2>2. login # "swept" /\ ~draining
      BY <2>1, StillOpen DEF Connected
    <2>3. CASE ~authorizeBrowserOperation
      BY <1>3, <2>1, <2>3, CloseStep DEF SubscribeBrowserVolatile
    <2>4. CASE authorizeBrowserOperation
      <3> DEFINE v == [sock[c] EXCEPT !.at = "replay", !.next = n, !.upto = n, !.subscribed = TRUE]
      <3>1. sock' = [sock EXCEPT ![c] = v]
        BY <1>3, <2>4 DEF SubscribeBrowserVolatile
      <3>2. TRUE \in BOOLEAN
        OBVIOUS
      <3>3. v \in SockRows /\ v.at = "replay" /\ SockRowOK(v, Len(logged))
        BY <1>0, <2>0, <2>1, <3>2 DEF SockRows, SockAts, SockRowOK
      <3> HIDE DEF v
      <3> QED
        BY <2>1, <2>2, <3>1, <3>3, SocketStep
    <2> QED
      BY <2>3, <2>4
  <1> QED
    BY <1>1, <1>2, <1>3

\* The event pump reads the log and writes what it read.
LEMMA LogSteps ==
    ASSUME SocketsInv, NEW c \in Chats, EventCatchUp(c) \/ WriteDurable(c) \/ CaughtUp(c)
    PROVE  SocketsInv'
  <1>0. /\ sock[c] \in SockRows /\ SockRowOK(sock[c], Len(logged)) /\ Len(logged) \in Nat
        /\ logged \in Seq(Cmds \cup {0})
    BY DEF SocketsInv, SockType
  <1>1. Connected(c) /\ leased' = leased /\ UNCHANGED restOfSocket
    BY DEF EventCatchUp, WriteDurable, CaughtUp, ReadsLog, Connected
  <1>2. login # "swept" /\ ~draining
    BY <1>1, StillOpen
  <1>3. CASE Closes(c)
    BY <1>1, <1>3, CloseStep
  <1>4. CASE EventCatchUp(c) /\ ~(sock[c].next > Len(logged))
    <2> DEFINE at == Drains(sock[c].at)
    <2>1. at \in {"replaying", "looping", "rescanning"} /\ sock[c].at \in {"replay", "loop", "rescan"}
      BY <1>4 DEF EventCatchUp, ReadsLog, Drains
    <2>2. sock' = [sock EXCEPT ![c].upto = Len(logged), ![c].at = at]
      BY <1>4 DEF EventCatchUp
    <2> HIDE DEF at
    <2> DEFINE v == [sock[c] EXCEPT !.upto = Len(logged), !.at = at]
    <2>3. sock' = [sock EXCEPT ![c] = v]
      BY <2>2
    <2>4. v \in SockRows /\ v.at = at
      BY <1>0, <2>1 DEF SockRows, SockAts
    <2>5. SockRowOK(v, Len(logged))
      BY <1>0, <2>1 DEF SockRowOK, SockRows
    <2> HIDE DEF v
    <2> QED
      BY <1>1, <1>2, <2>1, <2>3, <2>4, <2>5, SocketStep
  <1>5. CASE WriteDurable(c) /\ authorizeBrowserOperation
    <2> DEFINE k == logged[sock[c].next + 1]
    <2>1. /\ sock[c].at \in {"replaying", "looping", "rescanning"} /\ sock[c].next < sock[c].upto
          /\ sock[c].owing = 0
          /\ sock' = [sock EXCEPT ![c].next = @ + 1, ![c].told = IF k = 0 THEN @ ELSE @ \cup {k}]
      BY <1>5 DEF WriteDurable, WriteFree
    <2>2. sock[c].next + 1 \in DOMAIN logged
      <3>1. sock[c].next \in Nat /\ sock[c].upto \in Nat /\ sock[c].upto <= Len(logged)
        BY <1>0, <2>1 DEF SockRows, SockRowOK
      <3> QED
        BY <1>0, <2>1, <3>1
    <2>3. k \in Cmds \cup {0} /\ (k # 0 => sentBy[k] # "nobody")
      BY <1>0, <2>2 DEF SocketsInv
    <2> HIDE DEF k
    <2> DEFINE t == IF k = 0 THEN sock[c].told ELSE sock[c].told \cup {k}
    <2>4. t \in SUBSET Cmds /\ \A j \in t : sentBy[j] # "nobody"
      BY <1>0, <2>3 DEF SockRows, SockRowOK
    <2>5. sock' = [sock EXCEPT ![c].next = @ + 1, ![c].told = t]
      BY <2>1
    <2> HIDE DEF t
    <2> DEFINE v == [sock[c] EXCEPT !.next = @ + 1, !.told = t]
    <2>6. sock' = [sock EXCEPT ![c] = v]
      BY <2>5
    <2>7. v \in SockRows /\ v.at = sock[c].at
      <3>1. sock[c].next + 1 \in Nat
        BY <1>0 DEF SockRows
      <3> QED
        BY <1>0, <2>4, <3>1 DEF SockRows
    <2>8. SockRowOK(v, Len(logged))
      BY <1>0, <2>1, <2>4 DEF SockRowOK, SockRows
    <2> HIDE DEF v
    <2> QED
      BY <1>1, <1>2, <2>1, <2>6, <2>7, <2>8, SocketStep
  <1>6. CASE CaughtUp(c)
    <2> DEFINE at == After(sock[c].at)
    <2>1. /\ at \in {"status", "select", "emit"} /\ sock[c].next = sock[c].upto /\ Moves(c, at)
          /\ at = "emit" => sock[c].at = "rescanning"
      BY <1>6 DEF CaughtUp, After
    <2> HIDE DEF at
    <2>2. at = "emit" => Within(sock[c].batch, sock[c].next)
      BY <1>0, <2>1 DEF SockRowOK
    <2> QED
      BY <1>1, <1>2, <2>1, <2>2, PumpMoves DEF SockAts
  <1> QED
    BY <1>3, <1>4, <1>5, <1>6 DEF EventCatchUp, WriteDurable

LEMMA BatchStep ==
    ASSUME SocketsInv, NEW c \in Chats, TakesBatch(c) \/ WriteVolatile(c) PROVE SocketsInv'
  <1>0. /\ sock[c] \in SockRows /\ SockRowOK(sock[c], Len(logged)) /\ Len(logged) \in Nat
        /\ sock[c].batch \in Seq(Nat)
    BY DEF SocketsInv, SockType, SockRows
  <1>1. Connected(c) /\ leased' = leased /\ UNCHANGED restOfSocket
    BY DEF TakesBatch, WriteVolatile, Connected
  <1>2. login # "swept" /\ ~draining
    BY <1>1, StillOpen
  <1>3. CASE TakesBatch(c)
    <2> DEFINE v == [sock[c] EXCEPT !.batch = sock[c].queue, !.queue = <<>>, !.at = "rescan"]
    <2>1. sock' = [sock EXCEPT ![c] = v]
      BY <1>3 DEF TakesBatch
    <2>2. <<>> \in Seq(Nat) /\ Within(<<>>, Len(logged))
      BY DEF Within
    <2>3. v \in SockRows /\ v.at = "rescan" /\ SockRowOK(v, Len(logged))
      BY <1>0, <2>2 DEF SockRows, SockAts, SockRowOK
    <2> HIDE DEF v
    <2> QED
      BY <1>1, <1>2, <2>1, <2>3, SocketStep
  <1>4. CASE WriteVolatile(c)
    <2>1. CASE Closes(c)
      BY <1>1, <2>1, CloseStep
    <2>2. CASE Moves(c, "loop")
      BY <1>1, <1>2, <2>2, PumpMoves DEF SockAts
    <2>3. CASE sock[c].batch # <<>> /\ sock' = [sock EXCEPT ![c].batch = Tail(@)]
      <3> DEFINE b == Tail(sock[c].batch)
                 v == [sock[c] EXCEPT !.batch = b]
      <3>1. sock' = [sock EXCEPT ![c] = v]
        BY <2>3
      <3>2. b \in Seq(Nat) /\ \A n \in Nat : Within(sock[c].batch, n) => Within(b, n)
        BY <1>0, <2>3 DEF Within
      <3> HIDE DEF b
      <3>3. v \in SockRows /\ v.at = "emit" /\ sock[c].at = "emit" /\ SockRowOK(v, Len(logged))
        BY <1>0, <1>4, <3>2 DEF SockRows, SockRowOK, WriteVolatile
      <3> HIDE DEF v
      <3> QED
        BY <1>1, <1>2, <3>1, <3>3, SocketStep
    <2> QED
      BY <1>4, <2>1, <2>2, <2>3 DEF WriteVolatile
  <1> QED
    BY <1>3, <1>4

LEMMA TickSteps ==
    ASSUME SocketsInv, NEW c \in Chats,
           WriteStatus(c) \/ QueueExhausted(c) \/ PumpTicks(c) \/ ReadRefused(c) \/ PeerGone(c)
    PROVE  SocketsInv'
  <1>1. /\ Connected(c) /\ UNCHANGED restOfSocket /\ (leased' = leased \/ leased' = leased \ {c})
        /\ Closes(c) \/ Moves(c, "loop")
    BY DEF WriteStatus, QueueExhausted, PumpTicks, ReadRefused, PeerGone, Connected, ReadOpen
  <1>2. login # "swept" /\ ~draining
    BY <1>1, StillOpen
  <1>3. CASE Closes(c)
    BY <1>1, <1>3, CloseStep
  <1>4. CASE Moves(c, "loop")
    BY <1>1, <1>2, <1>4, PumpMoves DEF SockAts
  <1> QED
    BY <1>1, <1>3, <1>4

\* A command is appended and its acceptance owed: what the socket was told
\* does not answer it unless somebody had sent it before.
LEMMA AppendStep ==
    ASSUME SocketsInv, NEW c \in Chats, NEW k \in Cmds, AppendCommand(c, k) PROVE SocketsInv'
  <1>0. sock \in [Chats -> SockRows] /\ SockRowOK(sock[c], Len(logged)) /\ sock[c] \in SockRows
        /\ sentBy \in [Cmds -> Chats \cup {"nobody"}]
    BY DEF SocketsInv, SockType
  <1> DEFINE f == (sentBy[k] = "nobody")
             v == [sock[c] EXCEPT !.owing = k, !.fresh = f]
  <1>1. /\ ReadOpen(c) /\ authorizeBrowserOperation /\ leased' = leased \cup {c}
        /\ sentBy' = [sentBy EXCEPT ![k] = IF @ = "nobody" THEN c ELSE @]
        /\ sock' = [sock EXCEPT ![c] = v]
        /\ UNCHANGED <<logged, login, granted, typed, draining>>
    BY DEF AppendCommand
  <1>2. f \in BOOLEAN /\ (f => sentBy[k] = "nobody")
    OBVIOUS
  <1> HIDE DEF f
  <1>3. v \in SockRows /\ v.at = sock[c].at
    BY <1>0, <1>2 DEF SockRows
  <1>4. SockRowOK(v, Len(logged))
    BY <1>0, <1>2 DEF SockRowOK, SockRows
  <1> HIDE DEF v
  <1>5. /\ sentBy' \in [Cmds -> Chats \cup {"nobody"}]
        /\ \A j \in Cmds : sentBy[j] # "nobody" => sentBy'[j] # "nobody"
    BY <1>0, <1>1, SocketsAssumption
  <1>6. sock' \in [Chats -> SockRows] /\ \A d \in Chats : sock'[d] = IF d = c THEN v ELSE sock[d]
    BY <1>0, <1>1, <1>3
  <1>7. SockType'
    BY <1>1, <1>5, <1>6 DEF SocketsInv, SockType
  <1>8. ASSUME NEW d \in Chats PROVE SockRowOK(sock[d], Len(logged))'
    <2>1. PICK w \in SockRows : w = sock'[d] /\ SockRowOK(w, Len(logged))
      BY <1>3, <1>4, <1>6 DEF SocketsInv, SockType
    <2>2. \A j \in w.told : j \in Cmds
      BY DEF SockRows
    <2> QED
      BY <1>1, <1>5, <2>1, <2>2 DEF SockRowOK
  <1>9. ASSUME NEW d \in Chats PROVE (sock[d].at = "upgrading" => d \in leased)'
    BY <1>1, <1>3, <1>6 DEF SocketsInv, ReadOpen
  <1>10. SocketsEnd'
    <2>1. Connected(c)
      BY <1>1 DEF ReadOpen, Connected
    <2>2. login = "live" /\ granted /\ ~draining
      BY <1>1, <2>1, StillOpen DEF authorizeBrowserOperation
    <2> QED
      BY <1>1, <2>2 DEF SocketsInv, SocketsEnd
  <1>11. (\A i \in DOMAIN logged : logged[i] # 0 => sentBy[logged[i]] # "nobody")'
    BY <1>1, <1>5 DEF SocketsInv, SockType
  <1> QED
    BY <1>7, <1>8, <1>9, <1>10, <1>11 DEF SocketsInv

LEMMA AcceptedStep ==
    ASSUME SocketsInv, NEW c \in Chats, WriteAccepted(c) PROVE SocketsInv'
  <1>0. sock[c] \in SockRows /\ SockRowOK(sock[c], Len(logged))
    BY DEF SocketsInv, SockType
  <1> DEFINE v == [sock[c] EXCEPT !.owing = 0]
  <1>1. Connected(c) /\ sock' = [sock EXCEPT ![c] = v] /\ leased' = leased \ {c} /\ UNCHANGED restOfSocket
    BY DEF WriteAccepted
  <1>2. v \in SockRows /\ v.at = sock[c].at /\ SockRowOK(v, Len(logged))
    BY <1>0 DEF SockRows, SockRowOK
  <1> HIDE DEF v
  <1>3. login # "swept" /\ ~draining /\ v.at # "upgrading"
    BY <1>1, <1>2, StillOpen DEF Connected
  <1> QED
    BY <1>1, <1>2, <1>3, SocketStep

\* The log grows.
LEMMA EventStep ==
    ASSUME SocketsInv, NEW k \in Cmds \cup {0}, AppendProjectedEvent(k) PROVE SocketsInv'
  <1>0. logged \in Seq(Cmds \cup {0}) /\ Len(logged) \in Nat
    BY DEF SocketsInv, SockType
  <1>1. /\ k # 0 => sentBy[k] # "nobody"
        /\ logged' = Append(logged, k)
        /\ UNCHANGED <<login, granted, leased, sock, sentBy, typed, draining>>
    BY DEF AppendProjectedEvent
  <1>2. /\ logged' \in Seq(Cmds \cup {0}) /\ Len(logged') = Len(logged) + 1
        /\ DOMAIN logged' = 1..Len(logged)+1 /\ DOMAIN logged = 1..Len(logged)
        /\ \A i \in 1..Len(logged) : logged'[i] = logged[i]
        /\ logged'[Len(logged) + 1] = k
    BY <1>0, <1>1
  <1>3. SockType'
    BY <1>1, <1>2 DEF SocketsInv, SockType
  <1>4. (\A i \in DOMAIN logged : logged[i] # 0 => sentBy[logged[i]] # "nobody")'
    BY <1>0, <1>1, <1>2 DEF SocketsInv
  <1>5. ASSUME NEW c \in Chats PROVE SockRowOK(sock[c], Len(logged))'
    <2>1. PICK v \in SockRows : v = sock[c] /\ SockRowOK(v, Len(logged))
      BY DEF SocketsInv, SockType
    <2>2. ASSUME NEW q \in Seq(Nat), Within(q, Len(logged)) PROVE Within(q, Len(logged) + 1)
      BY <1>0, <2>2 DEF Within
    <2>3. v.queue \in Seq(Nat) /\ v.batch \in Seq(Nat) /\ v.upto \in Nat
      BY DEF SockRows
    <2> QED
      BY <1>0, <1>1, <1>2, <2>1, <2>2, <2>3 DEF SockRowOK
  <1>6. SocketsEnd'
    BY <1>1 DEF SocketsInv, SocketsEnd, Connected
  <1> QED
    BY <1>1, <1>3, <1>4, <1>5, <1>6 DEF SocketsInv

LEMMA QueuedRow ==
    ASSUME NEW s \in SockRows, NEW n \in Nat, SockRowOK(s, n), NEW merges \in BOOLEAN
    PROVE  /\ Queued(s, n, merges) \in SockRows /\ SockRowOK(Queued(s, n, merges), n)
           /\ Queued(s, n, merges).at = s.at
  <1>0. s.queue \in Seq(Nat) /\ Within(s.queue, n) /\ Len(s.queue) \in Nat
    BY DEF SockRows, SockRowOK
  <1>1. CASE ~s.subscribed
    BY <1>1 DEF Queued
  <1>2. CASE s.subscribed /\ merges /\ s.queue # <<>>
    <2> DEFINE q == [s.queue EXCEPT ![Len(s.queue)] = n]
               v == [s EXCEPT !.queue = q]
    <2>1. Queued(s, n, merges) = v
      BY <1>2 DEF Queued
    <2>2. q \in Seq(Nat) /\ Within(q, n)
      <3>1. /\ q \in Seq(Nat) /\ DOMAIN q = DOMAIN s.queue
            /\ \A i \in DOMAIN q : q[i] = IF i = Len(s.queue) THEN n ELSE s.queue[i]
        <4>1. s.queue \in [1..Len(s.queue) -> Nat] /\ DOMAIN s.queue = 1..Len(s.queue)
          BY <1>0
        <4>2. /\ q \in [1..Len(s.queue) -> Nat] /\ DOMAIN q = DOMAIN s.queue
              /\ \A i \in DOMAIN q : q[i] = IF i = Len(s.queue) THEN n ELSE s.queue[i]
          BY <4>1
        <4> QED
          BY <1>0, <4>2
      <3> QED
        BY <3>1, <1>0 DEF Within
    <2> HIDE DEF q
    <2>3. v \in SockRows /\ SockRowOK(v, n) /\ v.at = s.at
      BY <2>2 DEF SockRows, SockRowOK
    <2> QED
      BY <2>1, <2>3
  <1>3. CASE s.subscribed /\ ~(merges /\ s.queue # <<>>) /\ Len(s.queue) = QueueLimit
    <2> DEFINE v == [s EXCEPT !.subscribed = FALSE, !.queue = <<>>]
    <2>1. Queued(s, n, merges) = v
      BY <1>3 DEF Queued
    <2>2. <<>> \in Seq(Nat) /\ Within(<<>>, n)
      BY DEF Within
    <2>3. FALSE \in BOOLEAN
      OBVIOUS
    <2>4. v \in SockRows /\ SockRowOK(v, n) /\ v.at = s.at
      BY <2>2, <2>3 DEF SockRows, SockRowOK
    <2> QED
      BY <2>1, <2>4
  <1>4. CASE s.subscribed /\ ~(merges /\ s.queue # <<>>) /\ Len(s.queue) # QueueLimit
    <2> DEFINE q == Append(s.queue, n)
               v == [s EXCEPT !.queue = q]
    <2>1. Queued(s, n, merges) = v
      BY <1>4 DEF Queued
    <2>2. q \in Seq(Nat) /\ Within(q, n)
      <3>1. /\ q \in Seq(Nat) /\ DOMAIN q = 1..Len(s.queue)+1 /\ q[Len(s.queue) + 1] = n
            /\ \A i \in 1..Len(s.queue) : q[i] = s.queue[i]
        BY <1>0
      <3> QED
        BY <1>0, <3>1 DEF Within
    <2> HIDE DEF q
    <2>3. v \in SockRows /\ SockRowOK(v, n) /\ v.at = s.at
      BY <2>2 DEF SockRows, SockRowOK
    <2> QED
      BY <2>1, <2>3
  <1> QED
    BY <1>1, <1>2, <1>3, <1>4

\* A step of all sockets at once.
LEMMA AllSocketsStep ==
    ASSUME SocketsInv, UNCHANGED <<logged, sentBy, granted, typed>>,
           sock' \in [Chats -> SockRows],
           \A c \in Chats : SockRowOK(sock'[c], Len(logged)) /\ sock'[c].at \in {sock[c].at, "closed"},
           leased' \subseteq leased, \A c \in leased : c \in leased' \/ Connected(c),
           \/ UNCHANGED <<login, draining>>
           \/ (login = "ended" \/ UNCHANGED login) /\ \A c \in Chats : ~Opened(sock'[c])
    PROVE  SocketsInv'
  <1>1. SockType'
    BY DEF SocketsInv, SockType
  <1>2. (\A i \in DOMAIN logged : logged[i] # 0 => sentBy[logged[i]] # "nobody")'
    BY DEF SocketsInv
  <1>3. ASSUME NEW c \in Chats PROVE SockRowOK(sock[c], Len(logged))'
    BY DEF SockRowOK
  <1>4. ASSUME NEW c \in Chats PROVE (sock[c].at = "upgrading" => c \in leased)'
    BY DEF SocketsInv, Connected
  <1>5. SocketsEnd'
    <2>1. leased' # {} => login' = "live" /\ granted'
      BY DEF SocketsInv, SocketsEnd
    <2>2. ASSUME login' = "swept" \/ draining', NEW c \in Chats PROVE ~Connected(c)'
      BY <2>2 DEF SocketsInv, SocketsEnd, Connected, Opened
    <2> QED
      BY <2>1, <2>2 DEF SocketsInv, SocketsEnd
  <1> QED
    BY <1>1, <1>2, <1>3, <1>4, <1>5 DEF SocketsInv

LEMMA PublishLive ==
    ASSUME SocketsInv, NEW merges \in BOOLEAN, PublishVolatile(merges) PROVE SocketsInv'
  <1>0. Len(logged) \in Nat
    BY DEF SocketsInv, SockType
  <1>1. /\ sock' = [c \in Chats |-> Queued(sock[c], Len(logged), merges)]
        /\ UNCHANGED <<logged, login, granted, leased, sentBy, typed, draining>>
    BY DEF PublishVolatile
  <1>2. ASSUME NEW c \in Chats
        PROVE sock'[c] \in SockRows /\ SockRowOK(sock'[c], Len(logged)) /\ sock'[c].at = sock[c].at
    <2>1. sock'[c] = Queued(sock[c], Len(logged), merges) /\ sock[c] \in SockRows /\ SockRowOK(sock[c], Len(logged))
      BY <1>1 DEF SocketsInv, SockType
    <2> QED
      BY <1>0, <2>1, QueuedRow
  <1>3. sock' \in [Chats -> SockRows]
    <2>1. sock' = [c \in Chats |-> sock'[c]]
      BY <1>1
    <2> QED
      BY <1>2, <2>1
  <1> QED
    BY <1>1, <1>2, <1>3, AllSocketsStep

\* Logout and shutdown close what is connected.
LEMMA CloseSweeps ==
    ASSUME SocketsInv, CloseBrowserSession \/ ShutdownBrowserConnections PROVE SocketsInv'
  <1> DEFINE v == [NoSock EXCEPT !.at = "closed"]
  <1>0. Len(logged) \in Nat
    BY DEF SocketsInv, SockType
  <1>1. v \in SockRows /\ SockRowOK(v, Len(logged)) /\ v.at = "closed"
    BY <1>0, NoSockRow
  <1>2. /\ sock' = [c \in Chats |-> IF Connected(c) THEN v ELSE sock[c]]
        /\ leased' = {c \in leased : ~Connected(c)}
        /\ UNCHANGED <<logged, granted, sentBy, typed>>
        /\ login = "ended" \/ UNCHANGED login
    BY DEF CloseBrowserSession, ShutdownBrowserConnections
  <1> HIDE DEF v
  <1>3. ASSUME NEW c \in Chats
        PROVE /\ sock'[c] \in SockRows /\ SockRowOK(sock'[c], Len(logged))
              /\ sock'[c].at \in {sock[c].at, "closed"} /\ ~Opened(sock'[c])
    <2>1. sock'[c] = IF Connected(c) THEN v ELSE sock[c]
      BY <1>2
    <2> QED
      BY <1>1, <2>1 DEF SocketsInv, SockType, Opened, Connected
  <1>4. sock' \in [Chats -> SockRows]
    <2>1. sock' = [c \in Chats |-> sock'[c]]
      BY <1>2
    <2> QED
      BY <1>3, <2>1
  <1> QED
    BY <1>2, <1>3, <1>4, AllSocketsStep

\* Steps that leave the sockets, the log and the lease alone.
LEMMA SessionSteps ==
    ASSUME SocketsInv,
           \/ RevokeBrowserSession \/ AuthorityEnds
           \/ \E a \in Attaches : serveTerminalWS(a) \/ terminalWSInput(a) \/ TerminalRecheck(a) \/ TerminalPeerGone(a)
           \/ UNCHANGED sockVars
    PROVE  SocketsInv'
  <1>1. UNCHANGED <<logged, sock, sentBy, leased, draining>>
    BY DEF RevokeBrowserSession, AuthorityEnds, serveTerminalWS, terminalWSInput, TerminalRecheck,
           TerminalPeerGone, sockVars
  <1>2. /\ UNCHANGED <<login, granted>> \/ (leased = {} /\ (UNCHANGED login \/ login' = "ended"))
        /\ typed' = typed \/ typed' = "live"
    BY DEF RevokeBrowserSession, AuthorityEnds, serveTerminalWS, terminalWSInput, TerminalRecheck,
           TerminalPeerGone, sockVars, LeaseFree, authorizeBrowserOperation
  <1>3. SockType' /\ (\A i \in DOMAIN logged : logged[i] # 0 => sentBy[logged[i]] # "nobody")'
    BY <1>1 DEF SocketsInv, SockType
  <1>4. ASSUME NEW c \in Chats PROVE SockRowOK(sock[c], Len(logged))' /\ (sock[c].at = "upgrading" => c \in leased)'
    BY <1>1 DEF SocketsInv, SockRowOK
  <1>5. SocketsEnd'
    BY <1>1, <1>2 DEF SocketsInv, SocketsEnd, Connected
  <1> QED
    BY <1>3, <1>4, <1>5 DEF SocketsInv

\* The sockets of a session tell things in order and end with it, for any
\* number of sockets, events and commands: no live-only event before a durable
\* one it followed, no answer before the acceptance of its command, no socket
\* left or opened after the logout's sweep or a shutdown, no operation inside
\* the lease when the session ends, and no terminal input for an ended session
\* (browser_ws.go, browser_lifecycle.go, terminal_ws.go).
THEOREM SocketsStaySound == SockSpec => []SocketsSound
  <1>1. SockInit => SocketsInv
    BY SocketsInvInit
  <1>2. SocketsInv /\ [SockNext]_sockVars => SocketsInv'
    BY OpeningSteps, LogSteps, BatchStep, TickSteps, AppendStep, AcceptedStep, EventStep,
       PublishLive, CloseSweeps, SessionSteps DEF SockNext
  <1>3. SocketsInv => SocketsSound
    BY DEF SocketsInv, SocketsSound, SocketOrder, SockRowOK, Within
  <1> QED
    BY <1>1, <1>2, <1>3, PTL DEF SockSpec

(***************************************************************************)
(* A secretary's visit to a call.                                          *)
(***************************************************************************)
VisitRows == [status : CallLive \cup CallOver \cup {"none"}, epoch : Int, held : BOOLEAN, fresh : BOOLEAN]
SayingRows == [sess : Int, epoch : Int,
               status : Pending \cup {"none", "emitted", "interrupted", "expired", "failed", "unknown"}]
BridgeRows == [on : BOOLEAN, ticket : BOOLEAN, mouth : Says \cup {0}, heard : BOOLEAN]
CallTypes ==
    /\ visit \in [Visits -> VisitRows] /\ said \in [Says -> SayingRows] /\ spoken \in [Says -> Nat]
    /\ bridge \in [Generations -> BridgeRows]
    /\ inRoom \subseteq Generations /\ arrivals \subseteq Generations /\ sweeps \subseteq Visits
\* Where an utterance is that was not offered yet, or ended without a word.
Unspoken == {"none", "intended", "expired"}
\* An utterance is at one bridge's mouth at most, which took it from the queue;
\* it was heard once if that bridge says so.
MouthOK(br, ledger, heard) ==
    \A g \in Generations : br[g].mouth # 0 =>
        /\ ledger[br[g].mouth].status \notin Unspoken
        /\ heard[br[g].mouth] = IF br[g].heard THEN 1 ELSE 0
        /\ \A h \in Generations : br[h].mouth = br[g].mouth => h = g
LedgerOK(ledger, heard) ==
    \A u \in Says :
        /\ heard[u] <= 1
        /\ ledger[u].status \in Unspoken => heard[u] = 0
        /\ ledger[u].status = "emitted" => heard[u] = 1
SpeechInv == MouthOK(bridge, said, spoken) /\ LedgerOK(said, spoken)
\* One session is live, a claim is a live session's, and who is in the room
\* under another epoch has an arrival that is still to be handled.
VisitInv ==
    /\ \A s \in Visits, t \in Visits : visit[s].status \in CallLive /\ visit[t].status \in CallLive => s = t
    /\ \A s \in Visits : visit[s].held => visit[s].status \in CallLive
RoomInv ==
    \A s \in Visits : visit[s].held /\ s \notin sweeps =>
        \A g \in inRoom : g[2] = visit[s].epoch \/ g \in arrivals
CallInv == CallTypes /\ SpeechInv /\ VisitInv /\ RoomInv

\* What a step may do to the ledger without a word being spoken.
Settles(old, new) ==
    \A u \in Says :
        \/ new[u].status = old[u].status
        \/ old[u].status \in Unspoken /\ new[u].status \in Unspoken
        \/ new[u].status \notin Unspoken \cup {"emitted"}
LEMMA SettlesOK ==
    ASSUME CallTypes, SpeechInv, NEW new, Settles(said, new)
    PROVE  MouthOK(bridge, new, spoken) /\ LedgerOK(new, spoken)
  <1>1. \A u \in Says : said[u].status \notin Unspoken => new[u].status \notin Unspoken
    BY DEF Settles, Unspoken, Pending
  <1>2. ASSUME NEW g \in Generations, bridge[g].mouth # 0
        PROVE bridge[g].mouth \in Says
    BY <1>2 DEF CallTypes, BridgeRows
  <1>3. MouthOK(bridge, new, spoken)
    BY <1>1, <1>2 DEF SpeechInv, MouthOK
  <1>4. LedgerOK(new, spoken)
    BY DEF SpeechInv, LedgerOK, Settles, Unspoken, Pending
  <1> QED
    BY <1>3, <1>4

LEMMA SweptSettles ==
    ASSUME NEW utts \in [Says -> SayingRows], NEW S
    PROVE  UtterancesSwept(utts, S) \in [Says -> SayingRows] /\ Settles(utts, UtterancesSwept(utts, S))
  <1> DEFINE new == UtterancesSwept(utts, S)
  <1>1. ASSUME NEW u \in Says
        PROVE /\ new[u] \in SayingRows
              /\ \/ new[u].status = utts[u].status
                 \/ utts[u].status = "intended" /\ new[u].status = "expired"
                 \/ utts[u].status \in Pending /\ new[u].status = "unknown"
    <2>1. CASE utts[u].sess \in S /\ utts[u].status \in Pending
      <3> DEFINE st == IF utts[u].status = "intended" THEN "expired" ELSE "unknown"
      <3>1. new[u] = [utts[u] EXCEPT !.status = st]
        BY <2>1 DEF UtterancesSwept
      <3> QED
        BY <2>1, <3>1 DEF SayingRows
    <2>2. CASE ~(utts[u].sess \in S /\ utts[u].status \in Pending)
      BY <2>2 DEF UtterancesSwept
    <2> QED
      BY <2>1, <2>2
  <1>2. new = [u \in Says |-> new[u]]
    BY DEF UtterancesSwept
  <1> HIDE DEF new
  <1>3. new \in [Says -> SayingRows]
    BY <1>1, <1>2
  <1>4. Settles(utts, new)
    BY <1>1 DEF Settles, Unspoken
  <1> QED
    BY <1>3, <1>4 DEF new

LEMMA AdoptedSettles ==
    ASSUME NEW utts \in [Says -> SayingRows], NEW s, NEW e \in Int
    PROVE  /\ adoptOrSweepUtterances(utts, s, e) \in [Says -> SayingRows]
           /\ Settles(utts, adoptOrSweepUtterances(utts, s, e))
  <1> DEFINE new == adoptOrSweepUtterances(utts, s, e)
  <1>1. ASSUME NEW u \in Says
        PROVE /\ new[u] \in SayingRows
              /\ \/ new[u].status = utts[u].status
                 \/ utts[u].status = "intended" /\ new[u].status = "expired"
                 \/ utts[u].status \in Pending /\ new[u].status = "unknown"
    <2>0. utts[u] \in SayingRows
      OBVIOUS
    <2>1. CASE utts[u].sess # s \/ utts[u].status \notin Pending
      BY <2>0, <2>1 DEF adoptOrSweepUtterances
    <2>2. CASE utts[u].sess = s /\ utts[u].status \in Pending /\ utts[u].epoch = 0 /\ utts[u].status = "intended"
      <3>1. new[u] = [utts[u] EXCEPT !.epoch = e]
        BY <2>2 DEF adoptOrSweepUtterances
      <3> QED
        BY <2>0, <3>1 DEF SayingRows
    <2>3. CASE utts[u].sess = s /\ utts[u].status \in Pending /\ ~(utts[u].epoch = 0 /\ utts[u].status = "intended")
      <3> DEFINE st == IF utts[u].status = "intended" THEN "expired" ELSE "unknown"
      <3>1. new[u] = [utts[u] EXCEPT !.status = st]
        BY <2>3 DEF adoptOrSweepUtterances
      <3> QED
        BY <2>0, <2>3, <3>1 DEF SayingRows
    <2> QED
      BY <2>1, <2>2, <2>3
  <1>2. new = [u \in Says |-> new[u]]
    BY DEF adoptOrSweepUtterances
  <1> HIDE DEF new
  <1>3. new \in [Says -> SayingRows]
    BY <1>1, <1>2
  <1>4. Settles(utts, new)
    BY <1>1 DEF Settles, Unspoken
  <1> QED
    BY <1>3, <1>4 DEF new

LEMMA SettlesTwice ==
    ASSUME NEW a, NEW b, NEW d, Settles(a, b), Settles(b, d) PROVE Settles(a, d)
  BY DEF Settles, Unspoken, Pending

\* A session changes: it closes, or goes on under the same claim.
LEMMA VisitStep ==
    ASSUME CallInv, NEW s \in Visits, NEW v \in VisitRows, visit' = [visit EXCEPT ![s] = v],
           v.status \in CallLive => visit[s].status \in CallLive \/ LiveVisits = {},
           v.held => /\ v.status \in CallLive /\ visit[s].held /\ v.epoch = visit[s].epoch,
           said' \in [Says -> SayingRows], Settles(said, said'),
           UNCHANGED <<spoken, bridge, inRoom, arrivals, sweeps>>
    PROVE  CallInv'
  <1>1. visit' \in [Visits -> VisitRows] /\ \A t \in Visits : visit'[t] = IF t = s THEN v ELSE visit[t]
    BY DEF CallInv, CallTypes
  <1>2. CallTypes'
    BY <1>1 DEF CallInv, CallTypes
  <1>3. SpeechInv'
    BY SettlesOK DEF CallInv, SpeechInv, MouthOK, LedgerOK
  <1>4. VisitInv'
    BY <1>1 DEF CallInv, VisitInv, LiveVisits
  <1>5. RoomInv'
    BY <1>1 DEF CallInv, RoomInv
  <1> QED
    BY <1>2, <1>3, <1>4, <1>5 DEF CallInv

LEMMA ClosedRow ==
    ASSUME NEW v \in VisitRows, NEW st \in CallOver \cup {"interrupted"}
    PROVE  /\ Closed(v, st) \in VisitRows /\ Closed(v, st).status = st /\ ~Closed(v, st).held
           /\ Closed(v, st).epoch = v.epoch
  <1>1. FALSE \in BOOLEAN
    OBVIOUS
  <1> QED
    BY <1>1 DEF Closed, VisitRows, CallLive

LEMMA SameLedgerSettles == CallTypes /\ UNCHANGED said => said' \in [Says -> SayingRows] /\ Settles(said, said')
  BY DEF CallTypes, Settles

\* The secretary's acts, and time.
LEMMA SecretarySteps ==
    ASSUME CallInv, NEW s \in Visits,
           applyCallJoin(s) \/ applyCallLeave(s) \/ ClaimExpires(s) \/ \E u \in Says : applyCallSay(s, u)
    PROVE  CallInv'
  <1>0. CallTypes /\ visit[s] \in VisitRows /\ said \in [Says -> SayingRows]
    BY DEF CallInv, CallTypes
  <1>a. UNCHANGED <<spoken, bridge, inRoom, arrivals, sweeps>>
    BY DEF applyCallJoin, applyCallLeave, ClaimExpires, applyCallSay
  <1>1. CASE applyCallJoin(s)
    <2> DEFINE v == [visit[s] EXCEPT !.status = "requested"]
    <2>1. visit' = [visit EXCEPT ![s] = v] /\ LiveVisits = {} /\ UNCHANGED said /\ visit[s].status = "none"
      BY <1>1 DEF applyCallJoin
    <2>2. v \in VisitRows /\ v.held = visit[s].held
      BY <1>0 DEF VisitRows, CallLive
    <2>3. ~visit[s].held
      BY <2>1 DEF CallInv, VisitInv, CallLive
    <2> HIDE DEF v
    <2> QED
      BY <1>0, <1>a, <2>1, <2>2, <2>3, SameLedgerSettles, VisitStep
  <1>2. CASE applyCallLeave(s)
    <2>1. CASE visit' = [visit EXCEPT ![s] = Closed(visit[s], "ended")] /\ said' = UtterancesSwept(said, {s})
      <3>1. PICK v \in VisitRows : v = Closed(visit[s], "ended") /\ v.status = "ended" /\ ~v.held
        BY <1>0, ClosedRow DEF CallOver
      <3>2. said' \in [Says -> SayingRows] /\ Settles(said, said')
        BY <1>0, <2>1, SweptSettles
      <3>3. visit' = [visit EXCEPT ![s] = v]
        BY <2>1, <3>1
      <3> QED
        BY <1>a, <3>1, <3>2, <3>3, VisitStep DEF CallLive
    <2>2. CASE visit' = [visit EXCEPT ![s].status = "ending"] /\ UNCHANGED said /\ visit[s].status \in CallLive
      <3> DEFINE v == [visit[s] EXCEPT !.status = "ending"]
      <3>1. v \in VisitRows /\ v.held = visit[s].held /\ v.epoch = visit[s].epoch /\ v.status \in CallLive
        BY <1>0 DEF VisitRows, CallLive
      <3>2. visit' = [visit EXCEPT ![s] = v]
        BY <2>2
      <3> HIDE DEF v
      <3> QED
        BY <1>0, <1>a, <2>2, <3>1, <3>2, SameLedgerSettles, VisitStep
    <2> QED
      BY <1>2, <2>1, <2>2 DEF applyCallLeave, CallLive
  <1>3. CASE ClaimExpires(s)
    <2> DEFINE v == [visit[s] EXCEPT !.fresh = FALSE]
    <2>1. visit' = [visit EXCEPT ![s] = v] /\ UNCHANGED said
      BY <1>3 DEF ClaimExpires
    <2>2. FALSE \in BOOLEAN
      OBVIOUS
    <2>3. v \in VisitRows /\ v.held = visit[s].held /\ v.epoch = visit[s].epoch /\ v.status = visit[s].status
      BY <1>0, <2>2 DEF VisitRows
    <2>4. visit[s].held => visit[s].status \in CallLive
      BY DEF CallInv, VisitInv
    <2> HIDE DEF v
    <2> QED
      BY <1>0, <1>a, <2>1, <2>3, <2>4, SameLedgerSettles, VisitStep
  <1>4. ASSUME NEW u \in Says, applyCallSay(s, u) PROVE CallInv'
    <2> DEFINE r == [sess |-> s, epoch |-> visit[s].epoch, status |-> "intended"]
    <2>1. said[u].status = "none" /\ said' = [said EXCEPT ![u] = r] /\ UNCHANGED visit
      BY <1>4 DEF applyCallSay
    <2>2. r \in SayingRows /\ r.status = "intended"
      BY <1>0, CallSessionConstantsOK DEF VisitRows, SayingRows, Pending
    <2> HIDE DEF r
    <2>3. said' \in [Says -> SayingRows] /\ Settles(said, said')
      BY <1>0, <2>1, <2>2 DEF Settles, Unspoken
    <2>4. visit' = [visit EXCEPT ![s] = visit[s]]
      BY <1>0, <2>1 DEF CallTypes
    <2>5. visit[s].held => visit[s].status \in CallLive
      BY DEF CallInv, VisitInv
    <2> QED
      BY <1>0, <1>a, <2>3, <2>4, <2>5, VisitStep
  <1> QED
    BY <1>1, <1>2, <1>3, <1>4

\* Every live session ends at once.
LEMMA EndSteps ==
    ASSUME CallInv, NEW st \in CallOver,
           visit' = [s \in Visits |-> IF s \in LiveVisits THEN Closed(visit[s], st) ELSE visit[s]],
           said' = UtterancesSwept(said, LiveVisits), UNCHANGED <<spoken, bridge, arrivals, sweeps>>,
           inRoom' = inRoom \/ inRoom' = {}
    PROVE  CallInv'
  <1>0. CallTypes /\ visit \in [Visits -> VisitRows] /\ said \in [Says -> SayingRows]
    BY DEF CallInv, CallTypes
  <1>1. ASSUME NEW s \in Visits PROVE visit'[s] \in VisitRows /\ visit'[s].status \notin CallLive /\ ~visit'[s].held
    <2>1. CASE s \in LiveVisits
      <3>1. visit'[s] = Closed(visit[s], st)
        BY <2>1
      <3>2. st \notin CallLive
        BY DEF CallOver, CallLive
      <3> QED
        BY <1>0, <3>1, <3>2, ClosedRow
    <2>2. CASE s \notin LiveVisits
      BY <1>0, <2>2 DEF LiveVisits, CallInv, VisitInv
    <2> QED
      BY <2>1, <2>2
  <1>2. visit' \in [Visits -> VisitRows]
    BY <1>1
  <1>3. said' \in [Says -> SayingRows] /\ Settles(said, said')
    BY <1>0, SweptSettles
  <1>4. CallTypes'
    BY <1>0, <1>2, <1>3 DEF CallTypes
  <1>5. SpeechInv'
    BY <1>3, SettlesOK DEF CallInv, SpeechInv, MouthOK, LedgerOK
  <1>6. VisitInv' /\ RoomInv'
    BY <1>1 DEF VisitInv, RoomInv
  <1> QED
    BY <1>4, <1>5, <1>6 DEF CallInv

LEMMA ClaimStep ==
    ASSUME CallInv, ClaimCallSessions PROVE CallInv'
  <1> DEFINE lapsed == {s \in Visits : visit[s].status \in {"claimed", "active", "ending"} /\ ~visit[s].fresh}
             v1 == [s \in Visits |->
                      IF s \notin lapsed THEN visit[s]
                      ELSE Closed(visit[s], IF visit[s].status = "ending" THEN "ended" ELSE "interrupted")]
             u1 == UtterancesSwept(said, lapsed)
             picked == {s \in Visits : v1[s].status \in {"requested", "interrupted"} /\ v1[s].epoch < MaxClaims}
  <1>0. CallTypes /\ visit \in [Visits -> VisitRows] /\ said \in [Says -> SayingRows]
    BY DEF CallInv, CallTypes
  <1>1. /\ visit' = [s \in Visits |->
                        IF s \notin picked THEN v1[s]
                        ELSE [status |-> "claimed", epoch |-> v1[s].epoch + 1, held |-> TRUE, fresh |-> TRUE]]
        /\ \/ said' = u1
           \/ \E s \in picked : said' = adoptOrSweepUtterances(u1, s, v1[s].epoch + 1)
        /\ sweeps' = sweeps \cup picked
        /\ UNCHANGED <<spoken, bridge, inRoom, arrivals>>
    BY DEF ClaimCallSessions
  <1>2. ASSUME NEW s \in Visits
        PROVE /\ v1[s] \in VisitRows
              /\ v1[s].status \in CallLive => visit[s].status \in CallLive
              /\ v1[s].held => visit[s].held /\ v1[s] = visit[s]
    <2>1. CASE s \in lapsed
      <3>1. PICK st \in CallOver \cup {"interrupted"} : v1[s] = Closed(visit[s], st)
        BY <2>1 DEF CallOver
      <3> QED
        BY <1>0, <2>1, <3>1, ClosedRow DEF CallLive
    <2>2. CASE s \notin lapsed
      BY <1>0, <2>2
    <2> QED
      BY <2>1, <2>2
  <1>3. u1 \in [Says -> SayingRows] /\ Settles(said, u1)
    BY <1>0, SweptSettles
  <1>4. picked \subseteq Visits /\ \A s \in picked : v1[s].status \in CallLive
    BY DEF CallLive
  <1> HIDE DEF lapsed, v1, u1, picked
  <1>5. said' \in [Says -> SayingRows] /\ Settles(said, said')
    <2>1. CASE said' = u1
      BY <1>3, <2>1
    <2>2. ASSUME NEW s \in picked, said' = adoptOrSweepUtterances(u1, s, v1[s].epoch + 1)
          PROVE said' \in [Says -> SayingRows] /\ Settles(said, said')
      <3>1. v1[s].epoch + 1 \in Int
        BY <1>2, <1>4 DEF VisitRows
      <3> QED
        BY <1>3, <2>2, <3>1, AdoptedSettles, SettlesTwice
    <2> QED
      BY <1>1, <2>1, <2>2
  <1>6. ASSUME NEW s \in Visits
        PROVE /\ visit'[s] \in VisitRows
              /\ visit'[s].status \in CallLive => visit[s].status \in CallLive
              /\ visit'[s].held => visit'[s].status \in CallLive
              /\ visit'[s].held /\ s \notin sweeps' => visit[s].held /\ visit'[s].epoch = visit[s].epoch
    <2>1. CASE s \in picked
      <3> DEFINE r == [status |-> "claimed", epoch |-> v1[s].epoch + 1, held |-> TRUE, fresh |-> TRUE]
      <3>1. v1[s].epoch + 1 \in Int /\ TRUE \in BOOLEAN
        BY <1>2 DEF VisitRows
      <3>2. r \in VisitRows /\ visit'[s] = r /\ r.status \in CallLive
        BY <1>1, <2>1, <3>1 DEF VisitRows, CallLive
      <3> QED
        BY <1>1, <1>2, <1>4, <2>1, <3>2
    <2>2. CASE s \notin picked
      <3>1. visit'[s] = v1[s]
        BY <1>1, <2>2
      <3> QED
        BY <1>2, <3>1 DEF CallInv, VisitInv
    <2> QED
      BY <2>1, <2>2
  <1>7. visit' \in [Visits -> VisitRows]
    <2>1. visit' = [s \in Visits |-> visit'[s]]
      BY <1>1
    <2> QED
      BY <1>6, <2>1
  <1>8. CallTypes'
    BY <1>0, <1>1, <1>4, <1>5, <1>7 DEF CallTypes
  <1>9. SpeechInv'
    BY <1>0, <1>1, <1>5, SettlesOK DEF CallInv, SpeechInv, MouthOK, LedgerOK
  <1>10. VisitInv'
    BY <1>6 DEF CallInv, VisitInv
  <1>11. RoomInv'
    BY <1>1, <1>6 DEF CallInv, RoomInv
  <1> QED
    BY <1>8, <1>9, <1>10, <1>11 DEF CallInv

\* A bridge is let in, gets a ticket, or goes: what it says stays.
LEMMA BridgeKeeps ==
    ASSUME CallTypes, NEW g \in Generations, NEW on \in BOOLEAN, NEW ticket \in BOOLEAN,
           bridge' = [bridge EXCEPT ![g].on = on, ![g].ticket = ticket]
    PROVE  /\ bridge' \in [Generations -> BridgeRows]
           /\ \A h \in Generations : bridge'[h].mouth = bridge[h].mouth /\ bridge'[h].heard = bridge[h].heard
  <1> DEFINE b == [bridge[g] EXCEPT !.on = on, !.ticket = ticket]
  <1>0. bridge \in [Generations -> BridgeRows]
    BY DEF CallTypes
  <1>1. b \in BridgeRows /\ b.mouth = bridge[g].mouth /\ b.heard = bridge[g].heard
    BY <1>0 DEF BridgeRows
  <1>2. bridge' = [bridge EXCEPT ![g] = b]
    OBVIOUS
  <1> HIDE DEF b
  <1> QED
    BY <1>0, <1>1, <1>2

LEMMA RoomStep ==
    ASSUME CallInv, UNCHANGED <<visit, said, spoken>>,
           bridge' \in [Generations -> BridgeRows],
           \A h \in Generations : bridge'[h].mouth = bridge[h].mouth /\ bridge'[h].heard = bridge[h].heard,
           inRoom' \subseteq Generations, arrivals' \subseteq Generations, sweeps' \subseteq Visits,
           RoomInv'
    PROVE  CallInv'
  <1>1. CallTypes'
    BY DEF CallInv, CallTypes
  <1>2. SpeechInv'
    BY DEF CallInv, SpeechInv, MouthOK, LedgerOK
  <1>3. VisitInv'
    BY DEF CallInv, VisitInv
  <1> QED
    BY <1>1, <1>2, <1>3 DEF CallInv

LEMMA RoomSteps ==
    ASSUME CallInv,
           \/ \E s \in Visits : sweepPersonaCallParticipants(s)
           \/ \E g \in Generations : CallSessionTicket(g) \/ ConnectBridge(g) \/ LeaveRoom(g)
                                     \/ removeStaleEpochParticipant(g)
    PROVE  CallInv'
  <1>0. /\ CallTypes /\ bridge \in [Generations -> BridgeRows] /\ visit \in [Visits -> VisitRows]
        /\ inRoom \subseteq Generations /\ arrivals \subseteq Generations /\ sweeps \subseteq Visits
    BY DEF CallInv, CallTypes
  <1>a. TRUE \in BOOLEAN /\ FALSE \in BOOLEAN
    OBVIOUS
  <1>b. \A g \in Generations : bridge[g].on \in BOOLEAN /\ bridge[g].ticket \in BOOLEAN
    BY <1>0 DEF BridgeRows
  <1>1. ASSUME NEW s \in Visits, sweepPersonaCallParticipants(s) PROVE CallInv'
    <2>1. inRoom' = {} /\ sweeps' = sweeps \ {s} /\ UNCHANGED <<visit, said, spoken, arrivals>>
      BY <1>1 DEF sweepPersonaCallParticipants
    <2>2. RoomInv'
      BY <2>1 DEF RoomInv
    <2>3. CASE UNCHANGED bridge
      BY <1>0, <2>1, <2>2, <2>3, RoomStep
    <2>4. CASE visit[s].epoch > 0 /\ visit[s].held /\ bridge' = [bridge EXCEPT ![<<s, visit[s].epoch>>].on = TRUE]
      <3> DEFINE g == <<s, visit[s].epoch>>
      <3>1. CASE g \in Generations
        <4>1. bridge' = [bridge EXCEPT ![g].on = TRUE, ![g].ticket = bridge[g].ticket]
          BY <1>0, <2>4, <3>1 DEF BridgeRows
        <4> HIDE DEF g
        <4>2. /\ bridge' \in [Generations -> BridgeRows]
              /\ \A h \in Generations : bridge'[h].mouth = bridge[h].mouth /\ bridge'[h].heard = bridge[h].heard
          BY <1>0, <1>a, <1>b, <3>1, <4>1, BridgeKeeps
        <4> QED
          BY <1>0, <2>1, <2>2, <4>2, RoomStep
      <3>2. CASE g \notin Generations
        <4>1. bridge' = bridge
          BY <1>0, <2>4, <3>2
        <4> QED
          BY <1>0, <2>1, <2>2, <4>1, RoomStep
      <3> QED
        BY <3>1, <3>2
    <2> QED
      BY <1>1, <2>3, <2>4 DEF sweepPersonaCallParticipants
  <1>2. ASSUME NEW g \in Generations, CallSessionTicket(g) PROVE CallInv'
    <2>1. bridge' = [bridge EXCEPT ![g].ticket = TRUE] /\ UNCHANGED <<visit, said, spoken, inRoom, arrivals, sweeps>>
      BY <1>2 DEF CallSessionTicket
    <2>2. bridge' = [bridge EXCEPT ![g].on = bridge[g].on, ![g].ticket = TRUE]
      BY <1>0, <2>1 DEF BridgeRows
    <2>3. /\ bridge' \in [Generations -> BridgeRows]
          /\ \A h \in Generations : bridge'[h].mouth = bridge[h].mouth /\ bridge'[h].heard = bridge[h].heard
      BY <1>0, <1>a, <1>b, <2>2, BridgeKeeps
    <2>4. RoomInv'
      BY <2>1 DEF CallInv, RoomInv
    <2> QED
      BY <1>0, <2>1, <2>3, <2>4, RoomStep
  <1>3. ASSUME NEW g \in Generations, ConnectBridge(g) PROVE CallInv'
    <2>1. /\ bridge' = [bridge EXCEPT ![g].ticket = FALSE] /\ UNCHANGED <<visit, said, spoken, sweeps>>
          /\ inRoom' = {h \in inRoom : h[2] # g[2]} \cup {g} /\ arrivals' = arrivals \cup {g}
      BY <1>3 DEF ConnectBridge
    <2>2. bridge' = [bridge EXCEPT ![g].on = bridge[g].on, ![g].ticket = FALSE]
      BY <1>0, <2>1 DEF BridgeRows
    <2>3. /\ bridge' \in [Generations -> BridgeRows]
          /\ \A h \in Generations : bridge'[h].mouth = bridge[h].mouth /\ bridge'[h].heard = bridge[h].heard
      BY <1>0, <1>a, <1>b, <2>2, BridgeKeeps
    <2>4. RoomInv'
      BY <2>1 DEF CallInv, RoomInv
    <2> QED
      BY <1>0, <2>1, <2>3, <2>4, RoomStep
  <1>4. ASSUME NEW g \in Generations, LeaveRoom(g) PROVE CallInv'
    <2>1. /\ bridge' = [bridge EXCEPT ![g].on = FALSE, ![g].ticket = FALSE] /\ inRoom' = inRoom \ {g}
          /\ UNCHANGED <<visit, said, spoken, arrivals, sweeps>>
      BY <1>4 DEF LeaveRoom
    <2>2. /\ bridge' \in [Generations -> BridgeRows]
          /\ \A h \in Generations : bridge'[h].mouth = bridge[h].mouth /\ bridge'[h].heard = bridge[h].heard
      BY <1>0, <1>a, <2>1, BridgeKeeps
    <2>3. RoomInv'
      BY <2>1 DEF CallInv, RoomInv
    <2> QED
      BY <1>0, <2>1, <2>2, <2>3, RoomStep
  <1>5. ASSUME NEW g \in Generations, removeStaleEpochParticipant(g) PROVE CallInv'
    <2>1. /\ arrivals' = arrivals \ {g} /\ UNCHANGED <<visit, said, spoken, bridge, sweeps>>
          /\ inRoom' = IF Stale(g) THEN {h \in inRoom : h[2] # g[2]} ELSE inRoom
      BY <1>5 DEF removeStaleEpochParticipant
    <2>2. ASSUME NEW s \in Visits, visit[s].held, s \notin sweeps, NEW h \in inRoom'
          PROVE h[2] = visit[s].epoch \/ h \in arrivals'
      <3>1. h \in inRoom /\ (h[2] = visit[s].epoch \/ h \in arrivals)
        BY <2>1, <2>2 DEF CallInv, RoomInv
      <3>2. CASE h = g
        <4>1. ~Stale(g)
          BY <2>1, <3>2
        <4>2. PICK t \in LiveVisits : visit[t].epoch = g[2]
          BY <4>1 DEF Stale
        <4>3. t = s
          BY <2>2, <4>2 DEF CallInv, VisitInv, LiveVisits
        <4> QED
          BY <3>2, <4>2, <4>3
      <3> QED
        BY <2>1, <3>1, <3>2
    <2>3. RoomInv'
      BY <2>1, <2>2 DEF RoomInv
    <2> QED
      BY <1>0, <2>1, <2>3, RoomStep
  <1> QED
    BY <1>1, <1>2, <1>3, <1>4, <1>5

LEMMA ReportStep ==
    ASSUME CallInv, NEW g \in Generations, NEW st \in {"active", "ending", "ended", "failed"},
           ReportCallSessionStatus(g, st)
    PROVE  CallInv'
  <1> DEFINE s == g[1]
  <1>0. CallTypes /\ s \in Visits /\ visit[s] \in VisitRows /\ said \in [Says -> SayingRows]
    BY DEF CallInv, CallTypes, Generations
  <1>1. /\ visit[s].status \in CallLive /\ UNCHANGED <<spoken, bridge, inRoom, arrivals, sweeps>>
        /\ visit[s].held
    BY DEF ReportCallSessionStatus, HoldsBridge
  <1>2. CASE visit' = [visit EXCEPT ![s].status = st] /\ UNCHANGED said /\ st \in {"active", "ending"}
    <2> DEFINE v == [visit[s] EXCEPT !.status = st]
    <2>1. v \in VisitRows /\ v.status \in CallLive /\ v.held = visit[s].held /\ v.epoch = visit[s].epoch
      BY <1>0, <1>2 DEF VisitRows, CallLive
    <2>2. visit' = [visit EXCEPT ![s] = v]
      BY <1>2
    <2> HIDE DEF v, s
    <2> QED
      BY <1>0, <1>1, <1>2, <2>1, <2>2, SameLedgerSettles, VisitStep
  <1>3. CASE /\ visit' = [visit EXCEPT ![s] = Closed(visit[s], st)] /\ said' = UtterancesSwept(said, {s})
             /\ st \in {"ended", "failed"}
    <2>1. PICK v \in VisitRows : v = Closed(visit[s], st) /\ v.status = st /\ ~v.held
      BY <1>0, <1>3, ClosedRow DEF CallOver
    <2>2. said' \in [Says -> SayingRows] /\ Settles(said, said')
      BY <1>0, <1>3, SweptSettles
    <2>3. visit' = [visit EXCEPT ![s] = v]
      BY <1>3, <2>1
    <2> HIDE DEF s
    <2> QED
      BY <1>0, <1>1, <1>3, <2>1, <2>2, <2>3, VisitStep DEF CallLive
  <1> QED
    BY <1>2, <1>3 DEF ReportCallSessionStatus

\* A bridge takes an utterance, speaks it, and reports what became of it.
LEMMA MouthStep ==
    ASSUME CallInv, UNCHANGED <<visit, inRoom, arrivals, sweeps>>,
           said' \in [Says -> SayingRows], bridge' \in [Generations -> BridgeRows], spoken' \in [Says -> Nat],
           SpeechInv'
    PROVE  CallInv'
  BY DEF CallInv, CallTypes, VisitInv, RoomInv

LEMMA DequeueStep ==
    ASSUME CallInv, NEW g \in Generations, DequeueUtterance(g) PROVE CallInv'
  <1>0. /\ CallTypes /\ said \in [Says -> SayingRows] /\ bridge \in [Generations -> BridgeRows]
        /\ spoken \in [Says -> Nat] /\ MouthOK(bridge, said, spoken) /\ LedgerOK(said, spoken)
    BY DEF CallInv, CallTypes, SpeechInv
  <1>1. PICK u \in Says :
            /\ bridge[g].mouth = 0 /\ said[u].status = "intended"
            /\ said' = [said EXCEPT ![u].status = "dequeued"]
            /\ bridge' = [bridge EXCEPT ![g].mouth = u, ![g].heard = FALSE] \/ bridge' = bridge
            /\ UNCHANGED <<visit, spoken, inRoom, arrivals, sweeps>>
    BY DEF DequeueUtterance
  <1> DEFINE r == [said[u] EXCEPT !.status = "dequeued"]
             b == [bridge[g] EXCEPT !.mouth = u, !.heard = FALSE]
  <1>2. r \in SayingRows /\ r.status = "dequeued"
    BY <1>0 DEF SayingRows, Pending
  <1>3. FALSE \in BOOLEAN
    OBVIOUS
  <1>4. b \in BridgeRows /\ b.mouth = u /\ ~b.heard
    BY <1>0, <1>3 DEF BridgeRows
  <1>5. said' = [said EXCEPT ![u] = r] /\ (bridge' = [bridge EXCEPT ![g] = b] \/ bridge' = bridge)
    BY <1>1
  <1> HIDE DEF r, b
  <1>6. said' \in [Says -> SayingRows] /\ \A w \in Says : said'[w] = IF w = u THEN r ELSE said[w]
    BY <1>0, <1>2, <1>5
  <1>7. Settles(said, said')
    BY <1>1, <1>2, <1>6 DEF Settles, Unspoken, Pending
  <1>8. MouthOK(bridge, said', spoken) /\ LedgerOK(said', spoken)
    BY <1>0, <1>7, SettlesOK DEF SpeechInv
  <1>9. \A h \in Generations : bridge[h].mouth # u \/ u = 0
    <2> SUFFICES ASSUME NEW h \in Generations, bridge[h].mouth = u, u # 0 PROVE FALSE
      OBVIOUS
    <2>1. said[u].status \notin Unspoken
      BY <1>0 DEF MouthOK
    <2> QED
      BY <1>1, <2>1 DEF Unspoken
  <1>10. spoken[u] = 0 /\ said'[u].status \notin Unspoken
    BY <1>0, <1>1, <1>2, <1>6 DEF LedgerOK, Unspoken
  <1>11. bridge' \in [Generations -> BridgeRows] /\ MouthOK(bridge', said', spoken)
    <2>1. CASE bridge' = bridge
      BY <1>0, <1>8, <2>1
    <2>2. CASE bridge' = [bridge EXCEPT ![g] = b]
      <3>1. bridge' \in [Generations -> BridgeRows] /\ \A h \in Generations : bridge'[h] = IF h = g THEN b ELSE bridge[h]
        BY <1>0, <1>4, <2>2
      <3> QED
        BY <1>4, <1>8, <1>9, <1>10, <3>1 DEF MouthOK
    <2> QED
      BY <1>5, <2>1, <2>2
  <1>12. SpeechInv'
    BY <1>1, <1>8, <1>11 DEF SpeechInv, MouthOK, LedgerOK
  <1> QED
    BY <1>0, <1>1, <1>6, <1>11, <1>12, MouthStep

LEMMA SpeakStep ==
    ASSUME CallInv, NEW g \in Generations, Speak(g) PROVE CallInv'
  <1>0. /\ CallTypes /\ said \in [Says -> SayingRows] /\ bridge \in [Generations -> BridgeRows]
        /\ spoken \in [Says -> Nat] /\ MouthOK(bridge, said, spoken) /\ LedgerOK(said, spoken)
    BY DEF CallInv, CallTypes, SpeechInv
  <1> DEFINE u == bridge[g].mouth
             b == [bridge[g] EXCEPT !.heard = TRUE]
             r == [said[u] EXCEPT !.status = "emitting"]
  <1>1. /\ u # 0 /\ ~bridge[g].heard /\ UNCHANGED <<visit, inRoom, arrivals, sweeps>>
        /\ spoken' = [spoken EXCEPT ![u] = @ + 1] /\ bridge' = [bridge EXCEPT ![g] = b]
        /\ said' = said \/ (said' = [said EXCEPT ![u] = r] /\ said[u].status \in Pending)
    BY DEF Speak, Accepted
  <1>2. u \in Says /\ spoken[u] = 0 /\ said[u].status \notin Unspoken
    BY <1>0, <1>1 DEF BridgeRows, MouthOK
  <1>3. TRUE \in BOOLEAN
    OBVIOUS
  <1>4. b \in BridgeRows /\ b.mouth = u /\ b.heard
    BY <1>0, <1>3 DEF BridgeRows
  <1>5. r \in SayingRows /\ r.status = "emitting"
    BY <1>0, <1>2 DEF SayingRows, Pending
  <1>6. \A h \in Generations : bridge[h].mouth = u => h = g
    BY <1>0, <1>1 DEF MouthOK
  <1>a. u = bridge[g].mouth
    OBVIOUS
  <1> HIDE DEF u, b, r
  <1>7. bridge' \in [Generations -> BridgeRows] /\ \A h \in Generations : bridge'[h] = IF h = g THEN b ELSE bridge[h]
    BY <1>0, <1>1, <1>4
  <1>8. spoken' \in [Says -> Nat] /\ \A w \in Says : spoken'[w] = IF w = u THEN 1 ELSE spoken[w]
    BY <1>0, <1>1, <1>2
  <1>9. /\ said' \in [Says -> SayingRows] /\ \A w \in Says : w # u => said'[w] = said[w]
        /\ said'[u].status \notin Unspoken
        /\ said'[u].status = "emitted" => said[u].status = "emitted"
    <2>1. CASE said' = said
      BY <1>0, <1>2, <2>1
    <2>2. CASE said' = [said EXCEPT ![u] = r]
      BY <1>0, <1>2, <1>5, <2>2 DEF Unspoken
    <2> QED
      BY <1>1, <2>1, <2>2
  <1>10. LedgerOK(said', spoken')
    BY <1>0, <1>8, <1>9 DEF LedgerOK
  <1>11. MouthOK(bridge', said', spoken')
    <2> SUFFICES ASSUME NEW h \in Generations, bridge'[h].mouth # 0
                 PROVE /\ said'[bridge'[h].mouth].status \notin Unspoken
                       /\ spoken'[bridge'[h].mouth] = IF bridge'[h].heard THEN 1 ELSE 0
                       /\ \A i \in Generations : bridge'[i].mouth = bridge'[h].mouth => i = h
      BY DEF MouthOK
    <2>1. \A i \in Generations : bridge'[i].mouth = bridge[i].mouth
      BY <1>4, <1>7, <1>a
    <2>2. \A i \in Generations : bridge'[i].mouth = bridge'[h].mouth => i = h
      BY <1>0, <2>1 DEF MouthOK
    <2>3. CASE h = g
      BY <1>4, <1>7, <1>8, <1>9, <1>2, <2>2, <2>3
    <2>4. CASE h # g
      <3>1. bridge'[h] = bridge[h] /\ bridge[h].mouth # u /\ bridge[h].mouth \in Says
        BY <1>0, <1>6, <1>7, <2>4 DEF BridgeRows
      <3> QED
        BY <1>0, <1>8, <1>9, <2>2, <3>1 DEF MouthOK
    <2> QED
      BY <2>3, <2>4
  <1>12. SpeechInv'
    BY <1>10, <1>11 DEF SpeechInv, MouthOK, LedgerOK
  <1> QED
    BY <1>0, <1>1, <1>7, <1>8, <1>9, <1>12, MouthStep

LEMMA DispositionStep ==
    ASSUME CallInv, NEW g \in Generations, NEW st \in {"emitted", "interrupted", "failed", "unknown"},
           ReportUtteranceDisposition(g, st)
    PROVE  CallInv'
  <1>0. /\ CallTypes /\ said \in [Says -> SayingRows] /\ bridge \in [Generations -> BridgeRows]
        /\ spoken \in [Says -> Nat] /\ MouthOK(bridge, said, spoken) /\ LedgerOK(said, spoken)
    BY DEF CallInv, CallTypes, SpeechInv
  <1> DEFINE u == bridge[g].mouth
             b == [bridge[g] EXCEPT !.mouth = 0, !.heard = FALSE]
             r == [said[u] EXCEPT !.status = st]
  <1>1. /\ u # 0 /\ UNCHANGED <<visit, spoken, inRoom, arrivals, sweeps>>
        /\ st = "emitted" => bridge[g].heard
        /\ bridge' = [bridge EXCEPT ![g] = b]
        /\ said' = said \/ said' = [said EXCEPT ![u] = r]
    BY DEF ReportUtteranceDisposition
  <1>2. u \in Says /\ said[u].status \notin Unspoken /\ spoken[u] = IF bridge[g].heard THEN 1 ELSE 0
    BY <1>0, <1>1 DEF BridgeRows, MouthOK
  <1>3. FALSE \in BOOLEAN
    OBVIOUS
  <1>4. b \in BridgeRows /\ b.mouth = 0
    BY <1>0, <1>3 DEF BridgeRows
  <1>5. r \in SayingRows /\ r.status = st
    BY <1>0, <1>2 DEF SayingRows
  <1> HIDE DEF u, b, r
  <1>7. bridge' \in [Generations -> BridgeRows] /\ \A h \in Generations : bridge'[h] = IF h = g THEN b ELSE bridge[h]
    BY <1>0, <1>1, <1>4
  <1>9. /\ said' \in [Says -> SayingRows] /\ \A w \in Says : w # u => said'[w] = said[w]
        /\ said'[u].status \notin Unspoken
        /\ said'[u].status = "emitted" => spoken[u] = 1
    <2>1. CASE said' = said
      BY <1>0, <1>2, <2>1 DEF LedgerOK
    <2>2. CASE said' = [said EXCEPT ![u] = r]
      BY <1>0, <1>1, <1>2, <1>5, <2>2 DEF Unspoken
    <2> QED
      BY <1>1, <2>1, <2>2
  <1>10. LedgerOK(said', spoken)
    BY <1>0, <1>9 DEF LedgerOK
  <1>11. MouthOK(bridge', said', spoken)
    <2> SUFFICES ASSUME NEW h \in Generations, bridge'[h].mouth # 0
                 PROVE /\ said'[bridge'[h].mouth].status \notin Unspoken
                       /\ spoken[bridge'[h].mouth] = IF bridge'[h].heard THEN 1 ELSE 0
                       /\ \A i \in Generations : bridge'[i].mouth = bridge'[h].mouth => i = h
      BY DEF MouthOK
    <2>1. h # g /\ bridge'[h] = bridge[h] /\ bridge[h].mouth \in Says
      BY <1>0, <1>4, <1>7 DEF BridgeRows
    <2>2. said'[bridge[h].mouth].status \notin Unspoken
      BY <1>0, <1>9, <2>1 DEF MouthOK
    <2>3. \A i \in Generations : bridge'[i].mouth = bridge'[h].mouth => i = h
      BY <1>0, <1>4, <1>7, <2>1 DEF MouthOK
    <2> QED
      BY <1>0, <2>1, <2>2, <2>3 DEF MouthOK
  <1>12. SpeechInv'
    BY <1>1, <1>10, <1>11 DEF SpeechInv, MouthOK, LedgerOK
  <1> QED
    BY <1>0, <1>1, <1>7, <1>9, <1>12, MouthStep

LEMMA CallInvInit == CallInit => CallInv
  <1> SUFFICES ASSUME CallInit PROVE CallInv
    OBVIOUS
  <1>0. FALSE \in BOOLEAN
    OBVIOUS
  <1>1. NoVisit \in VisitRows /\ NoVisit.status = "none" /\ ~NoVisit.held
    BY <1>0 DEF NoVisit, VisitRows
  <1>2. NoSaying \in SayingRows /\ NoSaying.status = "none"
    BY DEF NoSaying, SayingRows
  <1>3. NoBridge \in BridgeRows /\ NoBridge.mouth = 0
    BY <1>0 DEF NoBridge, BridgeRows
  <1>4. CallTypes
    BY <1>1, <1>2, <1>3 DEF CallInit, CallTypes
  <1>5. \A s \in Visits : visit[s] = NoVisit
    BY DEF CallInit
  <1>6. SpeechInv
    BY <1>2, <1>3 DEF CallInit, SpeechInv, MouthOK, LedgerOK
  <1>7. VisitInv /\ RoomInv
    BY <1>1, <1>5 DEF VisitInv, RoomInv, CallLive
  <1> QED
    BY <1>4, <1>6, <1>7 DEF CallInv

\* A secretary's visit to a call, for any number of sessions, claims and
\* utterances: nothing it says is heard twice, an expired utterance was never
\* heard and an emitted one was; and once the claim's sweep and the arrivals
\* are done it is in the room under the epoch of its live claim only
\* (call_sessions.go, call_bridge.go).
THEOREM SpeechStaysTrue == CallSpec => [](SpeechLedgerTrue /\ RoomHoldsCurrentEpoch)
  <1>1. CallInit => CallInv
    BY CallInvInit
  <1>2. CallInv /\ [CallNext]_callVars => CallInv'
    <2> SUFFICES ASSUME CallInv, [CallNext]_callVars PROVE CallInv'
      OBVIOUS
    <2>1. CASE UNCHANGED callVars
      BY <2>1 DEF callVars, CallInv, CallTypes, SpeechInv, MouthOK, LedgerOK, VisitInv, RoomInv
    <2>2. CASE endCallSessionsForRoom
      BY <2>2, EndSteps DEF endCallSessionsForRoom, CallOver
    <2>3. ASSUME NEW why \in {"removed", "membership", "sealed"}, RevokePlaceCallSessions(why) PROVE CallInv'
      BY <2>3, EndSteps DEF RevokePlaceCallSessions, CallOver
    <2> QED
      BY <2>1, <2>2, <2>3, SecretarySteps, ClaimStep, RoomSteps, ReportStep, DequeueStep, SpeakStep,
         DispositionStep DEF CallNext
  <1>3. CallInv => SpeechLedgerTrue /\ RoomHoldsCurrentEpoch
    BY DEF CallInv, SpeechInv, LedgerOK, Unspoken, RoomInv, SpeechLedgerTrue, RoomHoldsCurrentEpoch
  <1> QED
    BY <1>1, <1>2, <1>3, PTL DEF CallSpec

-----------------------------------------------------------------------------
(* What the secretaries hear of *)

PostRows == [by : Secretaries \cup {Person}, to : Posts \cup {0}, names : SUBSET Secretaries, rev : Nat,
             gone : BOOLEAN, owed : SUBSET Secretaries]
RowEnds == {"pending", "admitted", "suppressed"}
RowWhys == {"none", "conflict", "unavailable", "no view", "transferred"}
RowRecs == [to : Secretaries, msg : Posts, rev : Nat, change : {"posted", "edited", "deleted"}, picked : BOOLEAN,
            answers : BOOLEAN, required : BOOLEAN, stay : Nat, end : RowEnds,
            why : RowWhys]
ToldRecs == [row : Nat, form : {"plain", "whole"}, lawful : BOOLEAN]
AttentionTypes ==
    /\ posted \in [Posts -> PostRows] /\ intents \in [Posts -> SUBSET Secretaries]
    /\ rows \in Seq(RowRecs) /\ told \in Seq(ToldRecs)
    /\ \A i \in DOMAIN told : told[i].row \in DOMAIN rows
    /\ stays \in [last : [Secretaries -> Nat], inside : SUBSET Secretaries]
    /\ prepared \subseteq DOMAIN rows

Kin(d, r) == rows[d].to = rows[r].to /\ rows[d].msg = rows[r].msg

\* A row is of a revision the message has had and a tenure its secretary has
\* had; rows of one secretary and message follow the revisions.
RowsSound ==
    /\ \A m \in Posts : posted[m].gone => posted[m].rev > 0
    /\ \A r \in DOMAIN rows :
          /\ rows[r].rev > 0 /\ rows[r].rev <= posted[rows[r].msg].rev
          /\ rows[r].stay <= stays.last[rows[r].to]
          /\ rows[r].required => rows[r].change = "posted"
          /\ rows[r].change = "deleted" => posted[rows[r].msg].gone
          /\ rows[r].change = "edited" /\ posted[rows[r].msg].gone => rows[r].rev < posted[rows[r].msg].rev
    /\ \A d, r \in DOMAIN rows : d < r /\ Kin(d, r) => rows[d].rev < rows[r].rev

\* A dropped correction was out of date, or its secretary had seen nothing and
\* no earlier row was left to show it anything.
DropsSound ==
    \A r \in DOMAIN rows : rows[r].change # "posted" /\ rows[r].end = "suppressed" =>
        \/ rows[r].why = "transferred" \/ ~SameTenure(rows[r]) \/ rows[r].rev < posted[rows[r].msg].rev
        \/ /\ ~WasShown(rows[r].to, rows[r].msg)
           /\ \A d \in DOMAIN rows : d < r /\ Kin(d, r) => rows[d].end # "pending"

\* What was told stays told.
ToldSound ==
    /\ \A i \in DOMAIN told :
          /\ told[i].lawful /\ rows[told[i].row].end # "suppressed"
          /\ told[i].form = "plain" => rows[told[i].row].end = "admitted"
          /\ NeedsView(rows[told[i].row]) => \E j \in DOMAIN told : j < i /\ Kin(told[j].row, told[i].row)
    /\ \A i, j \in DOMAIN told : told[j].row = told[i].row => j = i
    /\ \A r \in DOMAIN rows : rows[r].end = "admitted" => \E i \in DOMAIN told : told[i].row = r

OwedSound ==
    \A m \in Posts : \A a \in posted[m].owed :
        \E r \in DOMAIN rows : rows[r].to = a /\ rows[r].msg = m /\ rows[r].rev = posted[m].rev

AttentionInv == AttentionTypes /\ RowsSound /\ DropsSound /\ ToldSound /\ OwedSound

LEMMA AttentionInvInit == AttentionInit => AttentionInv
  <1> SUFFICES ASSUME AttentionInit PROVE AttentionInv
    OBVIOUS
  <1> USE DEF AttentionInit
  <1>1. rows = <<>> /\ told = <<>> /\ DOMAIN rows = {} /\ DOMAIN told = {}
    OBVIOUS
  <1>2. posted = [m \in Posts |-> Blank] /\ Blank \in PostRows
    BY DEF PostRows, Blank
  <1>3. AttentionTypes
    BY <1>1, <1>2 DEF AttentionTypes
  <1>4. RowsSound /\ OwedSound
    BY <1>1, <1>2 DEF RowsSound, OwedSound, Blank
  <1>5. DropsSound /\ ToldSound
    BY <1>1 DEF DropsSound, ToldSound
  <1> QED
    BY <1>3, <1>4, <1>5 DEF AttentionInv

\* The invariant says what the property says.
LEMMA InvMeansTrue == AttentionInv => AttentionTrue
  <1> SUFFICES ASSUME AttentionInv PROVE AttentionTrue
    OBVIOUS
  <1>1. CorrectionsReach
    <2>1. \A m \in Posts : \A a \in posted[m].owed : \E r \in RowsOf(a, m) : rows[r].rev = posted[m].rev
      BY DEF AttentionInv, OwedSound, RowsOf
    <2> QED
      BY <2>1 DEF AttentionInv, DropsSound, CorrectionsReach
  <1>2. InputsLawful
    <2>0. told \in Seq(ToldRecs) /\ DOMAIN told = 1 .. Len(told) /\ Len(told) \in Nat
      BY DEF AttentionInv, AttentionTypes
    <2>1. ASSUME NEW i \in DOMAIN told
          PROVE  NeedsView(rows[told[i].row]) => \E j \in 1..(i - 1) : rows[told[j].row].to = rows[told[i].row].to
                                                    /\ rows[told[j].row].msg = rows[told[i].row].msg
      <3> SUFFICES ASSUME NeedsView(rows[told[i].row])
                   PROVE \E j \in 1..(i - 1) : rows[told[j].row].to = rows[told[i].row].to
                                                    /\ rows[told[j].row].msg = rows[told[i].row].msg
        OBVIOUS
      <3>1. PICK j \in DOMAIN told : j < i /\ Kin(told[j].row, told[i].row)
        BY DEF AttentionInv, ToldSound
      <3>2. j \in 1..(i - 1)
        BY <2>0, <3>1
      <3> QED
        BY <3>1, <3>2 DEF Kin
    <2>2. \A r \in DOMAIN rows : rows[r].end = "admitted" => Stored(r) # {}
      BY DEF AttentionInv, ToldSound, Stored
    <2> QED
      BY <2>1, <2>2 DEF InputsLawful, AttentionInv, ToldSound
  <1> QED
    BY <1>1, <1>2 DEF AttentionTrue

-----------------------------------------------------------------------------
(* Writing rows *)

RowFor(a, m, rev, change, picked, answered, required) ==
    [to |-> a, msg |-> m, rev |-> rev, change |-> change, picked |-> a \in picked, answers |-> a \in answered,
     required |-> a \in required, stay |-> stays.last[a], end |-> "pending", why |-> "none"]

\* The order in which the secretaries' rows are written names each of them once.
OrderOf(whom) == CHOOSE t \in [1..Cardinality(whom) -> whom] : \A a \in whom : \E i \in DOMAIN t : t[i] = a

LEMMA OrderExists ==
    ASSUME NEW whom \in SUBSET Secretaries
    PROVE  /\ Cardinality(whom) \in Nat /\ OrderOf(whom) \in [1..Cardinality(whom) -> whom]
           /\ \A a \in whom : \E i \in DOMAIN OrderOf(whom) : OrderOf(whom)[i] = a
           /\ \A i, j \in 1..Cardinality(whom) : OrderOf(whom)[i] = OrderOf(whom)[j] => i = j
  <1> DEFINE n == Cardinality(whom)
             s == OrderOf(whom)
  <1>1. IsFiniteSet(whom)
    BY FS_Subset, AttentionAssumption
  <1>2. n \in Nat /\ ExistsBijection(1..n, whom)
    BY <1>1, FS_CardinalityType
  <1> HIDE DEF n
  <1>3. PICK b : b \in Bijection(1..n, whom)
    BY <1>2 DEF ExistsBijection
  <1>4. b \in [1..n -> whom] /\ \A a \in whom : \E i \in 1..n : b[i] = a
    BY <1>3 DEF Bijection, Surjection, Injection
  <1>5. \E t \in [1..n -> whom] : \A a \in whom : \E i \in DOMAIN t : t[i] = a
    BY <1>4
  <1>6. s \in [1..n -> whom] /\ \A a \in whom : \E i \in DOMAIN s : s[i] = a
    BY <1>5 DEF n, OrderOf
  <1> HIDE DEF s
  <1>7. s \in Surjection(1..n, whom)
    BY <1>6 DEF Surjection
  <1>8. IsFiniteSet(1..n) /\ Cardinality(1..n) = n
    BY <1>2, FS_Interval
  <1>9. s \in Injection(1..n, whom)
    BY <1>7, <1>8, FS_SurjSameCardinalityImpliesInj DEF n
  <1>10. \A i, j \in 1..n : s[i] = s[j] => i = j
    BY <1>9 DEF Injection, IsInjective
  <1> QED
    BY <1>2, <1>6, <1>10 DEF n, s

\* The rows that were there stay; each secretary concerned gets one more.
Writes(m, rev, change, whom, picked, answered, required) ==
    /\ rows' \in Seq(RowRecs)
    /\ \A r \in DOMAIN rows : r \in DOMAIN rows' /\ rows'[r] = rows[r]
    /\ \A r \in DOMAIN rows' \ DOMAIN rows :
          /\ \A d \in DOMAIN rows : d < r
          /\ \E a \in whom : rows'[r] = RowFor(a, m, rev, change, picked, answered, required)
    /\ \A a \in whom : \E r \in DOMAIN rows' :
          rows'[r] = RowFor(a, m, rev, change, picked, answered, required)
    /\ \A r, s \in DOMAIN rows' \ DOMAIN rows : rows'[r].to = rows'[s].to => r = s

LEMMA RowsAreWritten ==
    ASSUME AttentionTypes, NEW m \in Posts, NEW rev \in Nat, NEW change \in {"posted", "edited", "deleted"},
           NEW whom \in SUBSET Secretaries, NEW picked, NEW answered, NEW required,
           insertAgentAttention(m, rev, change, whom, picked, answered, required)
    PROVE  Writes(m, rev, change, whom, picked, answered, required)
  <1> DEFINE Row(a) == RowFor(a, m, rev, change, picked, answered, required)
             n == Cardinality(whom)
             s == OrderOf(whom)
             new == [i \in DOMAIN s |-> Row(s[i])]
  <1>1. rows' = rows \o new
    BY DEF insertAgentAttention, RowFor, OrderOf
  <1>2. /\ n \in Nat /\ s \in [1..n -> whom] /\ \A a \in whom : \E i \in DOMAIN s : s[i] = a
        /\ \A i, j \in 1..n : s[i] = s[j] => i = j
    BY OrderExists
  <1> HIDE DEF n, s
  <1>3. \A a \in whom : Row(a) \in RowRecs /\ Row(a).to = a
    <2>1. \A a \in whom : a \in Secretaries /\ stays.last[a] \in Nat
      BY DEF AttentionTypes
    <2> QED
      BY <2>1 DEF RowRecs, RowEnds, RowWhys, RowFor
  <1> HIDE DEF Row
  <1>4. new \in Seq(RowRecs) /\ Len(new) = n /\ \A i \in 1..n : new[i] = Row(s[i])
    <2>1. DOMAIN s = 1..n /\ \A i \in 1..n : s[i] \in whom
      BY <1>2
    <2>2. new \in [1..n -> RowRecs]
      BY <1>3, <2>1
    <2> QED
      BY <1>2, <2>1, <2>2
  <1> HIDE DEF new
  <1>5. rows \in Seq(RowRecs) /\ Len(rows) \in Nat /\ DOMAIN rows = 1..Len(rows)
    BY DEF AttentionTypes
  <1>6. /\ rows' \in Seq(RowRecs) /\ DOMAIN rows' = 1..Len(rows) + n
        /\ \A r \in 1..Len(rows) : rows'[r] = rows[r]
        /\ \A r \in Len(rows) + 1 .. Len(rows) + n : rows'[r] = new[r - Len(rows)]
    BY <1>1, <1>2, <1>4, <1>5
  <1>7. \A r \in DOMAIN rows' \ DOMAIN rows :
           r \in Len(rows) + 1 .. Len(rows) + n /\ r - Len(rows) \in 1..n
    BY <1>2, <1>5, <1>6
  <1>8. \A r \in DOMAIN rows : r \in DOMAIN rows' /\ rows'[r] = rows[r]
    BY <1>2, <1>5, <1>6
  <1>9. ASSUME NEW r \in DOMAIN rows' \ DOMAIN rows
        PROVE  rows'[r] = Row(s[r - Len(rows)]) /\ s[r - Len(rows)] \in whom
    BY <1>2, <1>4, <1>6, <1>7
  <1>10. \A r \in DOMAIN rows' \ DOMAIN rows :
            /\ \A d \in DOMAIN rows : d < r
            /\ \E a \in whom : rows'[r] = Row(a)
    <2>1. \A r \in DOMAIN rows' \ DOMAIN rows : \A d \in DOMAIN rows : d < r
      BY <1>5, <1>7
    <2> QED
      BY <1>9, <2>1
  <1>11. ASSUME NEW a \in whom PROVE \E r \in DOMAIN rows' : rows'[r] = Row(a)
    <2>1. PICK i \in 1..n : s[i] = a
      BY <1>2
    <2>2. /\ Len(rows) + i \in DOMAIN rows' /\ Len(rows) + i \in Len(rows) + 1 .. Len(rows) + n
          /\ (Len(rows) + i) - Len(rows) = i
      BY <1>2, <1>5, <1>6
    <2>3. rows'[Len(rows) + i] = Row(a)
      BY <1>4, <1>6, <2>1, <2>2
    <2> QED
      BY <2>2, <2>3
  <1>12. ASSUME NEW r \in DOMAIN rows' \ DOMAIN rows, NEW q \in DOMAIN rows' \ DOMAIN rows,
                rows'[r].to = rows'[q].to
         PROVE  r = q
    <2>1. s[r - Len(rows)] = s[q - Len(rows)]
      BY <1>3, <1>9, <1>12
    <2>2. r - Len(rows) = q - Len(rows)
      BY <1>2, <1>7, <2>1
    <2> QED
      BY <1>5, <1>7, <2>2
  <1> QED
    BY <1>6, <1>8, <1>10, <1>11, <1>12 DEF Writes, Row

LEMMA AttentionFacts ==
    ASSUME AttentionTypes
    PROVE  /\ DOMAIN rows = 1..Len(rows) /\ Len(rows) \in Nat
           /\ DOMAIN told = 1..Len(told) /\ Len(told) \in Nat
           /\ \A r \in DOMAIN rows : /\ rows[r] \in RowRecs /\ rows[r].to \in Secretaries /\ rows[r].msg \in Posts
                                     /\ rows[r].rev \in Nat /\ rows[r].stay \in Nat /\ r \in Nat
                                     /\ stays.last[rows[r].to] \in Nat
           /\ \A m \in Posts : posted[m] \in PostRows /\ posted[m].rev \in Nat
           /\ \A i \in DOMAIN told : told[i].row \in DOMAIN rows /\ told[i].form \in {"plain", "whole"} /\ i \in Nat
  <1>1. /\ DOMAIN rows = 1..Len(rows) /\ Len(rows) \in Nat /\ \A r \in DOMAIN rows : rows[r] \in RowRecs /\ r \in Nat
        /\ DOMAIN told = 1..Len(told) /\ Len(told) \in Nat /\ \A i \in DOMAIN told : told[i] \in ToldRecs /\ i \in Nat
    BY DEF AttentionTypes
  <1>2. \A x \in RowRecs : x.to \in Secretaries /\ x.msg \in Posts /\ x.rev \in Nat /\ x.stay \in Nat
    BY DEF RowRecs
  <1>3. \A m \in Posts : posted[m] \in PostRows /\ posted[m].rev \in Nat
    BY DEF AttentionTypes, PostRows
  <1>4. \A i \in DOMAIN told : told[i].row \in DOMAIN rows /\ told[i].form \in {"plain", "whole"}
    BY <1>1 DEF AttentionTypes, ToldRecs
  <1>5. \A a \in Secretaries : stays.last[a] \in Nat
    BY DEF AttentionTypes
  <1> QED
    BY <1>1, <1>2, <1>3, <1>4, <1>5

LEMMA WritesKeep ==
    ASSUME AttentionInv, NEW m \in Posts, NEW change \in {"posted", "edited", "deleted"},
           NEW whom \in SUBSET Secretaries, NEW picked, NEW answered, NEW required,
           Writes(m, posted[m].rev + 1, change, whom, picked, answered, required),
           posted' \in [Posts -> PostRows], intents' \in [Posts -> SUBSET Secretaries],
           UNCHANGED <<told, stays, prepared>>,
           posted'[m].rev = posted[m].rev + 1, \A p \in Posts : p # m => posted'[p] = posted[p],
           posted[m].rev > 0 => posted'[m].by = posted[m].by,
           ~posted[m].gone, posted'[m].gone <=> change = "deleted",
           change = "posted" \/ required = {}, posted'[m].owed \subseteq whom
    PROVE  AttentionInv'
  <1> DEFINE Row(a) == RowFor(a, m, posted[m].rev + 1, change, picked, answered, required)
             New == DOMAIN rows' \ DOMAIN rows
  <1>1. /\ rows' \in Seq(RowRecs)
        /\ \A r \in DOMAIN rows : r \in DOMAIN rows' /\ rows'[r] = rows[r]
        /\ \A r \in New : \A d \in DOMAIN rows : d < r
        /\ \A r \in New : \E a \in whom : rows'[r] = Row(a)
        /\ \A a \in whom : \E r \in DOMAIN rows' : rows'[r] = Row(a)
        /\ \A r, s \in New : rows'[r].to = rows'[s].to => r = s
    BY DEF Writes
  <1>2. \A a \in whom : /\ Row(a).to = a /\ Row(a).msg = m /\ Row(a).rev = posted[m].rev + 1 /\ Row(a).change = change
                        /\ Row(a).required = (a \in required) /\ Row(a).stay = stays.last[a] /\ Row(a).end = "pending"
    BY DEF RowFor
  <1> HIDE DEF Row
  <1>3. /\ AttentionTypes /\ RowsSound /\ DropsSound /\ ToldSound /\ OwedSound
    BY DEF AttentionInv
  <1>4. /\ \A r \in DOMAIN rows : /\ rows[r].to \in Secretaries /\ rows[r].msg \in Posts
                                  /\ rows[r].rev \in Nat /\ r \in Nat
        /\ \A p \in Posts : posted[p].rev \in Nat
        /\ \A i \in DOMAIN told : told[i].row \in DOMAIN rows
    BY <1>3, AttentionFacts
  <1>5. \A r \in New : /\ rows'[r].to \in whom /\ rows'[r].msg = m /\ rows'[r].rev = posted[m].rev + 1
                       /\ rows'[r].change = change /\ (rows'[r].required => change = "posted")
                       /\ rows'[r].stay = stays.last[rows'[r].to] /\ rows'[r].end = "pending"
    <2> SUFFICES ASSUME NEW r \in New
                 PROVE  /\ rows'[r].to \in whom /\ rows'[r].msg = m /\ rows'[r].rev = posted[m].rev + 1
                        /\ rows'[r].change = change /\ (rows'[r].required => change = "posted")
                        /\ rows'[r].stay = stays.last[rows'[r].to] /\ rows'[r].end = "pending"
      OBVIOUS
    <2>1. PICK a \in whom : rows'[r] = Row(a)
      BY <1>1
    <2>2. /\ Row(a).to = a /\ Row(a).msg = m /\ Row(a).rev = posted[m].rev + 1 /\ Row(a).change = change
          /\ Row(a).stay = stays.last[a] /\ Row(a).end = "pending"
      BY <1>2
    <2>3. Row(a).required => change = "posted"
      <3>1. Row(a).required = (a \in required)
        BY <1>2
      <3> QED
        BY <3>1
    <2> QED
      BY <2>1, <2>2, <2>3
  <1>6. \A r \in DOMAIN rows' : r \in DOMAIN rows \/ r \in New
    OBVIOUS
  <1> HIDE DEF New
  <1>7. AttentionTypes'
    BY <1>1, <1>3 DEF AttentionTypes
  <1>7a. \A r \in DOMAIN rows' : r \in Nat
    BY <1>1
  <1>8. \A p \in Posts : posted'[p].rev >= posted[p].rev
    BY <1>4
  <1>9. RowsSound'
    <2>1. \A p \in Posts : posted'[p].gone => posted'[p].rev > 0
      BY <1>3, <1>4 DEF RowsSound
    <2>2. ASSUME NEW r \in DOMAIN rows'
          PROVE  /\ rows'[r].rev > 0 /\ rows'[r].rev <= posted'[rows'[r].msg].rev
                 /\ rows'[r].stay <= stays'.last[rows'[r].to]
                 /\ rows'[r].required => rows'[r].change = "posted"
                 /\ rows'[r].change = "deleted" => posted'[rows'[r].msg].gone
                 /\ rows'[r].change = "edited" /\ posted'[rows'[r].msg].gone => rows'[r].rev < posted'[rows'[r].msg].rev
      <3>1. CASE r \in New
        <4>1. rows'[r].to \in Secretaries /\ stays.last[rows'[r].to] \in Nat
          BY <1>3, <1>5, <3>1 DEF AttentionTypes
        <4> QED
          BY <1>4, <1>5, <3>1, <4>1
      <3>2. CASE r \in DOMAIN rows /\ rows[r].msg = m
        BY <1>1, <1>3, <1>4, <3>2 DEF RowsSound
      <3>3. CASE r \in DOMAIN rows /\ rows[r].msg # m
        BY <1>1, <1>3, <1>4, <3>3 DEF RowsSound
      <3> QED
        BY <1>6, <3>1, <3>2, <3>3
    <2>3. ASSUME NEW d \in DOMAIN rows', NEW r \in DOMAIN rows', d < r, Kin(d, r)'
          PROVE  rows'[d].rev < rows'[r].rev
      <3>0. rows'[d].to = rows'[r].to /\ rows'[d].msg = rows'[r].msg
        BY <2>3 DEF Kin
      <3>1. CASE d \in DOMAIN rows /\ r \in DOMAIN rows
        BY <1>1, <1>3, <2>3, <3>0, <3>1 DEF RowsSound, Kin
      <3>2. CASE d \in DOMAIN rows /\ r \in New
        <4>1. rows[d].msg = m /\ rows[d].rev <= posted[m].rev
          BY <1>1, <1>3, <1>5, <3>0, <3>2 DEF RowsSound
        <4> QED
          BY <1>1, <1>4, <1>5, <3>2, <4>1
      <3>3. CASE d \in New /\ r \in New
        BY <1>1, <1>7a, <2>3, <3>0, <3>3
      <3>4. CASE d \in New /\ r \in DOMAIN rows
        BY <1>1, <1>7a, <2>3, <3>4
      <3> QED
        BY <1>6, <3>1, <3>2, <3>3, <3>4
    <2> QED
      BY <2>1, <2>2, <2>3 DEF RowsSound
  <1>10. \A a, p : WasShown(a, p)' <=> WasShown(a, p)
    BY <1>1, <1>4 DEF WasShown
  <1>11. DropsSound'
    <2> SUFFICES ASSUME NEW r \in DOMAIN rows', rows'[r].change # "posted", rows'[r].end = "suppressed"
                 PROVE  \/ rows'[r].why = "transferred" \/ ~SameTenure(rows[r])'
                        \/ rows'[r].rev < posted'[rows'[r].msg].rev
                        \/ /\ ~WasShown(rows[r].to, rows[r].msg)'
                           /\ \A d \in DOMAIN rows' : d < r /\ Kin(d, r)' => rows'[d].end # "pending"
      BY DEF DropsSound
    <2>1. r \in DOMAIN rows /\ rows'[r] = rows[r]
      BY <1>1, <1>5, <1>6
    <2>2. \A d \in DOMAIN rows' : d < r => d \in DOMAIN rows /\ rows'[d] = rows[d]
      BY <1>1, <1>6, <1>7a, <2>1
    <2>3. SameTenure(rows[r])' <=> SameTenure(rows[r])
      BY <2>1 DEF SameTenure
    <2>4. WasShown(rows[r].to, rows[r].msg)' <=> WasShown(rows[r].to, rows[r].msg)
      BY <1>10, <2>1
    <2>5. CASE rows[r].why = "transferred" \/ ~SameTenure(rows[r])
      BY <2>1, <2>3, <2>5
    <2>6. CASE rows[r].rev < posted[rows[r].msg].rev
      BY <1>4, <1>8, <2>1, <2>6, <1>7, AttentionFacts
    <2>7. CASE /\ ~WasShown(rows[r].to, rows[r].msg)
               /\ \A d \in DOMAIN rows : d < r /\ Kin(d, r) => rows[d].end # "pending"
      BY <2>1, <2>2, <2>4, <2>7 DEF Kin
    <2> QED
      BY <1>3, <2>1, <2>5, <2>6, <2>7 DEF DropsSound
  <1>12. ToldSound'
    <2>1. \A i \in DOMAIN told : rows'[told[i].row] = rows[told[i].row] /\ told[i].row \in DOMAIN rows
      BY <1>1, <1>4
    <2>2. \A i \in DOMAIN told : NeedsView(rows[told[i].row])' <=> NeedsView(rows[told[i].row])
      <3> SUFFICES ASSUME NEW i \in DOMAIN told
                   PROVE NeedsView(rows[told[i].row])' <=> NeedsView(rows[told[i].row])
        OBVIOUS
      <3>1. rows[told[i].row].msg \in Posts /\ posted[rows[told[i].row].msg].rev > 0
        BY <1>3, <1>4, <2>1 DEF RowsSound
      <3>2. posted'[rows[told[i].row].msg].by = posted[rows[told[i].row].msg].by
        BY <3>1
      <3> QED
        BY <2>1, <3>2 DEF NeedsView
    <2>3. \A i, j \in DOMAIN told : Kin(told[j].row, told[i].row)' <=> Kin(told[j].row, told[i].row)
      BY <2>1 DEF Kin
    <2>4. \A r \in DOMAIN rows' : rows'[r].end = "admitted" => r \in DOMAIN rows /\ rows[r].end = "admitted"
      BY <1>1, <1>5, <1>6
    <2> QED
      BY <1>3, <2>1, <2>2, <2>3, <2>4 DEF ToldSound
  <1>13. OwedSound'
    <2> SUFFICES ASSUME NEW p \in Posts, NEW a \in posted'[p].owed
                 PROVE  \E r \in DOMAIN rows' : rows'[r].to = a /\ rows'[r].msg = p /\ rows'[r].rev = posted'[p].rev
      BY DEF OwedSound
    <2>1. CASE p = m
      BY <1>1, <1>2, <2>1
    <2>2. CASE p # m
      BY <1>1, <1>3, <2>2 DEF OwedSound
    <2> QED
      BY <2>1, <2>2
  <1> QED
    BY <1>7, <1>9, <1>11, <1>12, <1>13 DEF AttentionInv
-----------------------------------------------------------------------------
(* Postings, edits and deletions *)

LEMMA AppendKeeps ==
    ASSUME AttentionInv, NEW m \in Posts, NEW by \in Secretaries \cup {Person}, NEW to \in Posts \cup {0},
           NEW names \in SUBSET Secretaries, appendScopedInTx(m, by, to, names)
    PROVE  AttentionInv'
  <1> DEFINE decided == notificationDecisionsForMembersScoped(by, names)
             answered == issueAgentReply(by, to)
             whom == answered \cup issueAgentMessage(decided, answered)
             post == [Blank EXCEPT !.by = by, !.to = to, !.names = names, !.rev = 1]
  <1>1. AttentionTypes /\ RowsSound
    BY DEF AttentionInv
  <1>2. decided \in SUBSET Secretaries /\ answered \in SUBSET Secretaries
    BY <1>1 DEF AttentionTypes, notificationDecisionsForMembersScoped, issueAgentReply, replyAddressee, activeMembersScoped
  <1> HIDE DEF decided, answered
  <1>3. whom \in SUBSET Secretaries
    BY <1>2 DEF issueAgentMessage
  <1>4. posted[m].rev = 0 /\ ~posted[m].gone
    <2>1. posted[m].rev \in Nat /\ ~(posted[m].rev > 0)
      BY <1>1, AttentionFacts DEF appendScopedInTx, messageByNonce
    <2> QED
      BY <1>1, <2>1 DEF RowsSound
  <1>5. insertAgentAttention(m, posted[m].rev + 1, "posted", whom, decided, answered, answered \ decided)
    BY <1>4 DEF appendScopedInTx, issueScopedNotificationIntents, decided, answered
  <1>5a. Blank \in PostRows /\ Blank.gone = FALSE /\ Blank.owed = {}
    BY DEF Blank, PostRows
  <1>6. post.rev = 1 /\ post.gone = Blank.gone /\ post.owed = Blank.owed
    BY <1>5a DEF PostRows
  <1>7. post \in PostRows
    BY <1>5a DEF PostRows
  <1>8. posted' = [posted EXCEPT ![m] = post] /\ posted \in [Posts -> PostRows]
    BY <1>1 DEF appendScopedInTx, AttentionTypes
  <1>9. posted' \in [Posts -> PostRows] /\ posted'[m] = post /\ \A p \in Posts : p # m => posted'[p] = posted[p]
    BY <1>7, <1>8
  <1>10. posted'[m].rev = posted[m].rev + 1 /\ ~posted'[m].gone /\ posted'[m].owed = {}
    BY <1>4, <1>5a, <1>6, <1>9
  <1>11. intents' \in [Posts -> SUBSET Secretaries]
    BY <1>1, <1>2 DEF appendScopedInTx, issueScopedNotificationIntents, AttentionTypes, decided
  <1>12. Writes(m, posted[m].rev + 1, "posted", whom, decided, answered, answered \ decided)
    <2>1. posted[m].rev + 1 \in Nat
      BY <1>4
    <2> HIDE DEF whom
    <2> QED
      BY <1>1, <1>3, <1>5, <2>1, RowsAreWritten
  <1>13. UNCHANGED <<told, stays, prepared>>
    BY DEF appendScopedInTx
  <1> HIDE DEF whom, post
  <1>14. /\ posted[m].rev > 0 => posted'[m].by = posted[m].by
         /\ posted'[m].gone <=> "posted" = "deleted"
         /\ posted'[m].owed \subseteq whom
    BY <1>4, <1>10
  <1>15. \A p \in Posts : p # m => posted'[p] = posted[p]
    BY <1>9
  <1> QED
    BY <1>3, <1>4, <1>9, <1>10, <1>11, <1>12, <1>13, <1>14, <1>15, WritesKeep

\* Whoever was shown the message and is inside is among those a change concerns.
LEMMA ChangeKeeps ==
    ASSUME AttentionInv, NEW m \in Posts, NEW actor, NEW change \in {"edited", "deleted"},
           NEW names \in SUBSET Secretaries, lockMessageScoped(m),
           issueAgentMessageChange(m, actor, change, names),
           posted' \in [Posts -> PostRows], intents' = intents, UNCHANGED <<told, stays, prepared>>,
           posted'[m].rev = posted[m].rev + 1, posted'[m].by = posted[m].by, posted'[m].owed = Owed(m, actor),
           posted'[m].gone <=> change = "deleted", \A p \in Posts : p # m => posted'[p] = posted[p]
    PROVE  AttentionInv'
  <1> DEFINE decided == notificationDecisionsForMembersScoped(posted[m].by, names)
             whom == (ReachedBy(m) \cup {posted[m].by} \cup (IF change = "edited" THEN decided ELSE {}))
                    \cap (stays.inside \ {actor})
             picked == IF change = "edited" THEN decided
                  ELSE {a \in whom : a \in intents[m] \/ LatestReason(a, m)}
             answered == replyAddressee(posted[m].by, posted[m].to, change = "edited")
  <1>1. AttentionTypes /\ ToldSound
    BY DEF AttentionInv
  <1>2. insertAgentAttention(m, posted[m].rev + 1, change, whom, picked, answered, {})
    BY DEF issueAgentMessageChange
  <1>3. whom \in SUBSET Secretaries
    BY <1>1 DEF AttentionTypes
  <1>4. Owed(m, actor) \subseteq whom
    <2> SUFFICES ASSUME NEW a \in stays.inside \ {actor}, WasShown(a, m) PROVE a \in ReachedBy(m)
      BY DEF Owed
    <2>1. PICK i \in DOMAIN told : rows[told[i].row].to = a /\ rows[told[i].row].msg = m
      BY DEF WasShown
    <2>2. told[i].row \in DOMAIN rows /\ rows[told[i].row].end # "suppressed" /\ a \in Secretaries
      BY <1>1, <2>1, AttentionFacts DEF ToldSound
    <2> QED
      BY <2>1, <2>2 DEF ReachedBy, RowsOf
  <1>5. posted[m].rev \in Nat /\ ~posted[m].gone
    BY <1>1, AttentionFacts DEF lockMessageScoped
  <1>6. Writes(m, posted[m].rev + 1, change, whom, picked, answered, {})
    <2> HIDE DEF whom, picked, answered
    <2> QED
      BY <1>1, <1>2, <1>3, <1>5, RowsAreWritten
  <1>7. intents' \in [Posts -> SUBSET Secretaries]
    BY <1>1 DEF AttentionTypes
  <1> HIDE DEF whom, picked, answered
  <1>8. /\ change \in {"posted", "edited", "deleted"} /\ posted'[m].owed \subseteq whom
        /\ posted[m].rev > 0 => posted'[m].by = posted[m].by
    BY <1>4
  <1> QED
    BY <1>3, <1>5, <1>6, <1>7, <1>8, WritesKeep

LEMMA EditKeeps ==
    ASSUME AttentionInv, NEW m \in Posts, NEW names \in SUBSET Secretaries, editMessage(m, names)
    PROVE  AttentionInv'
  <1> DEFINE post == [posted[m] EXCEPT !.names = names, !.rev = @ + 1, !.owed = Owed(m, posted[m].by)]
  <1>1. AttentionTypes
    BY DEF AttentionInv
  <1>2. posted[m] \in PostRows /\ posted \in [Posts -> PostRows]
    BY <1>1 DEF AttentionTypes
  <1>3. Owed(m, posted[m].by) \in SUBSET Secretaries
    BY <1>1 DEF AttentionTypes, Owed
  <1>4. post \in PostRows /\ post.rev = posted[m].rev + 1 /\ post.by = posted[m].by /\ post.owed = Owed(m, posted[m].by)
    <2> DEFINE theirs == Owed(m, posted[m].by)
    <2>1. theirs \in SUBSET Secretaries /\ posted[m].rev + 1 \in Nat
      BY <1>2, <1>3 DEF PostRows
    <2> HIDE DEF theirs
    <2>2. post.rev = posted[m].rev + 1 /\ post.by = posted[m].by /\ post.owed = theirs
      BY <1>2 DEF PostRows, theirs
    <2>3. post \in PostRows
      BY <1>2, <2>1 DEF PostRows, theirs
    <2> QED
      BY <2>2, <2>3 DEF theirs
  <1>4a. post.gone = posted[m].gone
    BY <1>2 DEF PostRows
  <1>5. posted' = [posted EXCEPT ![m] = post]
    BY <1>2 DEF editMessage, PostRows
  <1> HIDE DEF post
  <1>6. posted' \in [Posts -> PostRows] /\ posted'[m] = post /\ \A p \in Posts : p # m => posted'[p] = posted[p]
    BY <1>2, <1>4, <1>5
  <1>7. ~posted'[m].gone
    BY <1>4a, <1>6 DEF editMessage, lockMessageScoped
  <1>8. /\ lockMessageScoped(m) /\ issueAgentMessageChange(m, posted[m].by, "edited", names)
        /\ intents' = intents /\ UNCHANGED <<told, stays, prepared>>
    BY DEF editMessage
  <1> QED
    BY <1>4, <1>6, <1>7, <1>8, ChangeKeeps

LEMMA DeleteKeeps ==
    ASSUME AttentionInv, NEW m \in Posts, NEW actor, DeleteMessage(m, actor)
    PROVE  AttentionInv'
  <1> DEFINE post == [posted[m] EXCEPT !.names = {}, !.rev = @ + 1, !.gone = TRUE, !.owed = Owed(m, actor)]
  <1>1. AttentionTypes
    BY DEF AttentionInv
  <1>2. posted[m] \in PostRows /\ posted \in [Posts -> PostRows]
    BY <1>1 DEF AttentionTypes
  <1>3. Owed(m, actor) \in SUBSET Secretaries
    BY <1>1 DEF AttentionTypes, Owed
  <1>4. post \in PostRows /\ post.rev = posted[m].rev + 1 /\ post.by = posted[m].by /\ post.owed = Owed(m, actor)
    <2>1. posted[m].rev + 1 \in Nat /\ {} \in SUBSET Secretaries
      BY <1>2 DEF PostRows
    <2>2. post.rev = posted[m].rev + 1 /\ post.by = posted[m].by /\ post.owed = Owed(m, actor)
      BY <1>2 DEF PostRows
    <2>3. post \in PostRows
      BY <1>2, <1>3, <2>1 DEF PostRows
    <2> QED
      BY <2>2, <2>3
  <1>4a. post.gone
    BY <1>2 DEF PostRows
  <1>5. posted' = [posted EXCEPT ![m] = post]
    BY <1>2 DEF DeleteMessage, PostRows
  <1> HIDE DEF post
  <1>6. posted' \in [Posts -> PostRows] /\ posted'[m] = post /\ \A p \in Posts : p # m => posted'[p] = posted[p]
    BY <1>2, <1>4, <1>5
  <1>7. /\ lockMessageScoped(m) /\ issueAgentMessageChange(m, actor, "deleted", {})
        /\ intents' = intents /\ UNCHANGED <<told, stays, prepared>>
    BY DEF DeleteMessage
  <1>8. posted'[m].gone /\ {} \in SUBSET Secretaries
    BY <1>4a, <1>6
  <1> QED
    BY <1>4, <1>6, <1>7, <1>8, ChangeKeeps

-----------------------------------------------------------------------------
(* Tenures, levels and placements *)

LEMMA PlainKeeps ==
    ASSUME AttentionInv, UNCHANGED <<posted, intents, rows, told, stays>>,
           prepared' \subseteq DOMAIN rows
    PROVE  AttentionInv'
  <1>1. AttentionTypes'
    BY DEF AttentionInv, AttentionTypes
  <1>2. RowsSound' /\ OwedSound'
    BY DEF AttentionInv, RowsSound, OwedSound, Kin
  <1>3. DropsSound'
    BY DEF AttentionInv, DropsSound, Kin, SameTenure, WasShown
  <1>4. ToldSound'
    BY DEF AttentionInv, ToldSound, Kin, NeedsView
  <1> QED
    BY <1>1, <1>2, <1>3, <1>4 DEF AttentionInv

\* A tenure that ended never comes back: the next one has a later number.
LEMMA TenureKeeps ==
    ASSUME AttentionInv, UNCHANGED <<posted, intents, rows, told, prepared>>,
           NEW a \in Secretaries, endTenure(a) \/ admitTenure(a)
    PROVE  AttentionInv'
  <1>1. AttentionTypes /\ RowsSound
    BY DEF AttentionInv
  <1>2. /\ stays \in [last : [Secretaries -> Nat], inside : SUBSET Secretaries]
        /\ stays' \in [last : [Secretaries -> Nat], inside : SUBSET Secretaries]
    <2>0. stays \in [last : [Secretaries -> Nat], inside : SUBSET Secretaries]
      BY <1>1 DEF AttentionTypes
    <2>1. CASE endTenure(a)
      BY <2>0, <2>1 DEF endTenure
    <2>2. CASE admitTenure(a)
      <3>1. stays' = [last |-> [stays.last EXCEPT ![a] = @ + 1], inside |-> stays.inside \cup {a}]
        BY <2>0, <2>2 DEF admitTenure
      <3>2. [stays.last EXCEPT ![a] = @ + 1] \in [Secretaries -> Nat] /\ stays.inside \cup {a} \in SUBSET Secretaries
        BY <2>0
      <3> QED
        BY <2>0, <3>1, <3>2
    <2> QED
      BY <2>0, <2>1, <2>2
  <1>3. \A b \in Secretaries : stays'.last[b] >= stays.last[b]
                               /\ (b \in stays'.inside =>
                                      \/ b \in stays.inside /\ stays'.last[b] = stays.last[b]
                                      \/ stays'.last[b] > stays.last[b])
    <2>1. CASE endTenure(a)
      BY <1>2, <2>1 DEF endTenure
    <2>2. CASE admitTenure(a)
      BY <1>2, <2>2 DEF admitTenure
    <2> QED
      BY <2>1, <2>2
  <1>4. \A r \in DOMAIN rows : /\ rows[r].to \in Secretaries /\ rows[r].stay \in Nat
                               /\ rows[r].stay <= stays.last[rows[r].to]
    BY <1>1, AttentionFacts DEF RowsSound
  <1>5. AttentionTypes'
    BY <1>1, <1>2 DEF AttentionTypes
  <1>6. \A r \in DOMAIN rows : SameTenure(rows[r])' => SameTenure(rows[r])
    <2> SUFFICES ASSUME NEW r \in DOMAIN rows, SameTenure(rows[r])' PROVE SameTenure(rows[r])
      OBVIOUS
    <2>1. rows[r].to \in stays'.inside /\ rows[r].stay = stays'.last[rows[r].to]
      BY DEF SameTenure
    <2>2. stays.last[rows[r].to] \in Nat /\ stays'.last[rows[r].to] \in Nat
      BY <1>2, <1>4
    <2> QED
      BY <1>3, <1>4, <2>1, <2>2 DEF SameTenure
  <1>7. \A r \in DOMAIN rows : rows[r].stay <= stays'.last[rows[r].to]
    <2> SUFFICES ASSUME NEW r \in DOMAIN rows PROVE rows[r].stay <= stays'.last[rows[r].to]
      OBVIOUS
    <2>1. stays.last[rows[r].to] \in Nat /\ stays'.last[rows[r].to] \in Nat
      BY <1>2, <1>4
    <2> QED
      BY <1>3, <1>4, <2>1
  <1>8. RowsSound' /\ OwedSound'
    BY <1>7 DEF AttentionInv, RowsSound, OwedSound, Kin
  <1>9. DropsSound'
    <2>1. \A b, m : WasShown(b, m)' <=> WasShown(b, m)
      BY DEF WasShown
    <2> QED
      BY <1>6, <2>1 DEF AttentionInv, DropsSound, Kin
  <1>10. ToldSound'
    BY DEF AttentionInv, ToldSound, Kin, NeedsView
  <1> QED
    BY <1>5, <1>8, <1>9, <1>10 DEF AttentionInv
-----------------------------------------------------------------------------
(* Delivery *)

\* Row r keeps everything but what became of it, and the others stay.
OnlyRow(r) ==
    /\ rows' \in Seq(RowRecs) /\ DOMAIN rows' = DOMAIN rows
    /\ \A d \in DOMAIN rows : d # r => rows'[d] = rows[d]
    /\ rows'[r].to = rows[r].to /\ rows'[r].msg = rows[r].msg /\ rows'[r].rev = rows[r].rev
    /\ rows'[r].change = rows[r].change /\ rows'[r].picked = rows[r].picked
    /\ rows'[r].required = rows[r].required /\ rows'[r].stay = rows[r].stay

\* What may be dropped: an event that is no correction, one that is out of
\* date, or one whose secretary has seen nothing and will not.
MayDrop(r, why) ==
    rows[r].change # "posted" =>
        \/ why = "transferred" \/ ~SameTenure(rows[r]) \/ rows[r].rev < posted[rows[r].msg].rev
        \/ /\ ~WasShown(rows[r].to, rows[r].msg)
           /\ \A d \in DOMAIN rows : d < r /\ Kin(d, r) => rows[d].end # "pending"

\* The queue grows by at most one input, of row r, which had none.
OnlyTold(r) ==
    /\ told' \in Seq(ToldRecs)
    /\ \A i \in DOMAIN told : i \in DOMAIN told' /\ told'[i] = told[i]
    /\ \A i \in DOMAIN told' \ DOMAIN told :
          /\ told'[i].row = r /\ told'[i].lawful /\ (told'[i].form = "plain" => rows'[r].end = "admitted")
          /\ NeedsView(rows[r]) => \E j \in DOMAIN told : Kin(told[j].row, r)
          /\ \A j \in DOMAIN told : told[j].row # r /\ j < i
          /\ \A j \in DOMAIN told' \ DOMAIN told : j = i

LEMMA DeliveryKeeps ==
    ASSUME AttentionInv, NEW r \in DOMAIN rows, rows[r].end = "pending",
           OnlyRow(r), OnlyTold(r), UNCHANGED <<posted, intents, stays>>, prepared' \subseteq DOMAIN rows,
           rows'[r].end = "admitted" => \E i \in DOMAIN told' : told'[i].row = r,
           rows'[r].end = "suppressed" => told' = told /\ Stored(r) = {} /\ MayDrop(r, rows'[r].why)
    PROVE  AttentionInv'
  <1>1. /\ AttentionTypes /\ RowsSound /\ DropsSound /\ ToldSound /\ OwedSound
    BY DEF AttentionInv
  <1>2. /\ rows' \in Seq(RowRecs) /\ DOMAIN rows' = DOMAIN rows
        /\ \A d \in DOMAIN rows : d # r => rows'[d] = rows[d]
        /\ \A d \in DOMAIN rows :
              /\ rows'[d].to = rows[d].to /\ rows'[d].msg = rows[d].msg /\ rows'[d].rev = rows[d].rev
              /\ rows'[d].change = rows[d].change /\ rows'[d].stay = rows[d].stay
    BY DEF OnlyRow
  <1>2a. \A d \in DOMAIN rows : rows'[d].picked = rows[d].picked
    BY DEF OnlyRow
  <1>2b. \A d \in DOMAIN rows : rows'[d].required = rows[d].required
    BY DEF OnlyRow
  <1>3. /\ \A d \in DOMAIN rows : d \in Nat /\ rows[d].to \in Secretaries /\ rows[d].msg \in Posts /\ rows[d].rev \in Nat
        /\ \A i \in DOMAIN told : told[i].row \in DOMAIN rows
        /\ \A m \in Posts : posted[m].rev \in Nat
    BY <1>1, AttentionFacts
  <1>4. \A i \in DOMAIN told' : i \in DOMAIN told \/ i \in DOMAIN told' \ DOMAIN told
    OBVIOUS
  <1>5. /\ told' \in Seq(ToldRecs)
        /\ \A i \in DOMAIN told : i \in DOMAIN told' /\ told'[i] = told[i]
        /\ \A i \in DOMAIN told' \ DOMAIN told : told'[i].row = r
    BY DEF OnlyTold
  <1>6. \A i \in DOMAIN told' : told'[i].row \in DOMAIN rows
    BY <1>3, <1>4, <1>5
  <1>7. AttentionTypes'
    BY <1>1, <1>2, <1>5, <1>6 DEF AttentionTypes
  <1>8. \A d, e \in DOMAIN rows : Kin(d, e)' <=> Kin(d, e)
    BY <1>2 DEF Kin
  <1>9. RowsSound' /\ OwedSound'
    <2>1. OwedSound'
      BY <1>1, <1>2 DEF OwedSound
    <2>2. \A d, e \in DOMAIN rows : d < e /\ Kin(d, e)' => rows'[d].rev < rows'[e].rev
      BY <1>1, <1>2, <1>8 DEF RowsSound
    <2>3. ASSUME NEW d \in DOMAIN rows'
          PROVE  /\ rows'[d].rev > 0 /\ rows'[d].rev <= posted'[rows'[d].msg].rev
                 /\ rows'[d].stay <= stays'.last[rows'[d].to]
                 /\ rows'[d].required => rows'[d].change = "posted"
                 /\ rows'[d].change = "deleted" => posted'[rows'[d].msg].gone
                 /\ rows'[d].change = "edited" /\ posted'[rows'[d].msg].gone => rows'[d].rev < posted'[rows'[d].msg].rev
      BY <1>1, <1>2, <1>2b DEF RowsSound
    <2>4. \A m \in Posts : posted'[m].gone => posted'[m].rev > 0
      BY <1>1 DEF RowsSound
    <2> QED
      BY <1>2, <2>1, <2>2, <2>3, <2>4 DEF RowsSound
  <1>10. \A d \in DOMAIN rows : SameTenure(rows[d])' <=> SameTenure(rows[d])
    BY <1>2 DEF SameTenure
  <1>11. ASSUME told' = told, NEW d \in DOMAIN rows
         PROVE  WasShown(rows[d].to, rows[d].msg)' <=> WasShown(rows[d].to, rows[d].msg)
    BY <1>2, <1>3, <1>11 DEF WasShown
  <1>12. \A d \in DOMAIN rows : rows'[d].end = "pending" => rows[d].end = "pending"
    BY <1>2
  <1>13. DropsSound'
    <2> SUFFICES ASSUME NEW d \in DOMAIN rows, rows'[d].change # "posted", rows'[d].end = "suppressed"
                 PROVE  \/ rows'[d].why = "transferred" \/ ~SameTenure(rows[d])'
                        \/ rows'[d].rev < posted'[rows'[d].msg].rev
                        \/ /\ ~WasShown(rows[d].to, rows[d].msg)'
                           /\ \A e \in DOMAIN rows' : e < d /\ Kin(e, d)' => rows'[e].end # "pending"
      BY <1>2 DEF DropsSound
    <2>0. rows[d].change # "posted"
      BY <1>2
    <2>1. CASE d = r
      BY <1>2, <1>8, <1>10, <1>11, <1>12, <2>0, <2>1 DEF MayDrop
    <2>2. CASE d # r
      <3>1. rows'[d] = rows[d] /\ rows[d].end = "suppressed"
        BY <1>2, <2>2
      <3>2. CASE rows[d].why = "transferred" \/ ~SameTenure(rows[d]) \/ rows[d].rev < posted[rows[d].msg].rev
        BY <1>10, <3>1, <3>2
      <3>3. CASE /\ ~WasShown(rows[d].to, rows[d].msg)
                 /\ \A e \in DOMAIN rows : e < d /\ Kin(e, d) => rows[e].end # "pending"
        <4>1. \A e \in DOMAIN rows' : e < d /\ Kin(e, d)' => rows'[e].end # "pending"
          BY <1>2, <1>8, <1>12, <3>3
        <4>2. CASE Kin(r, d)
          <5>1. d < r /\ Kin(d, r)
            BY <1>3, <2>2, <3>3, <4>2 DEF Kin
          <5>2. rows[d].rev < rows[r].rev /\ rows[r].rev <= posted[rows[r].msg].rev
            BY <1>1, <5>1 DEF RowsSound
          <5> QED
            BY <1>3, <3>1, <5>1, <5>2 DEF Kin
        <4>3. CASE ~Kin(r, d)
          <5>1. ~WasShown(rows[d].to, rows[d].msg)'
            <6> SUFFICES ASSUME NEW i \in DOMAIN told', rows'[told'[i].row].to = rows'[d].to,
                                rows'[told'[i].row].msg = rows'[d].msg
                         PROVE  FALSE
              BY DEF WasShown
            <6>1. rows[told'[i].row].to = rows[d].to /\ rows[told'[i].row].msg = rows[d].msg
              BY <1>2, <1>6
            <6>2. CASE i \in DOMAIN told
              BY <1>5, <3>3, <6>1, <6>2 DEF WasShown
            <6>3. CASE i \in DOMAIN told' \ DOMAIN told
              BY <1>5, <4>3, <6>1, <6>3 DEF Kin
            <6> QED
              BY <6>2, <6>3
          <5> QED
            BY <4>1, <5>1
        <4> QED
          BY <4>2, <4>3
      <3> QED
        BY <1>1, <2>0, <3>1, <3>2, <3>3 DEF DropsSound
    <2> QED
      BY <2>1, <2>2
  <1>14. \A d \in DOMAIN rows : NeedsView(rows[d])' <=> NeedsView(rows[d])
    BY <1>2, <1>2a DEF NeedsView
  <1>15. ToldSound'
    <2>1. ASSUME NEW i \in DOMAIN told'
          PROVE  /\ told'[i].lawful /\ rows'[told'[i].row].end # "suppressed"
                 /\ told'[i].form = "plain" => rows'[told'[i].row].end = "admitted"
      <3>1. CASE i \in DOMAIN told
        <4>1. told'[i] = told[i] /\ told[i].row \in DOMAIN rows
          BY <1>3, <1>5, <3>1
        <4>2. told[i].row = r => rows'[r].end # "suppressed"
          BY <3>1 DEF Stored
        <4>3. told[i].row = r => told[i].form # "plain"
          BY <1>1, <3>1 DEF ToldSound
        <4>4. CASE told[i].row = r
          BY <1>1, <3>1, <4>1, <4>2, <4>3, <4>4 DEF ToldSound
        <4>5. CASE told[i].row # r
          BY <1>1, <1>2, <3>1, <4>1, <4>5 DEF ToldSound
        <4> QED
          BY <4>4, <4>5
      <3>2. CASE i \in DOMAIN told' \ DOMAIN told
        <4>1. rows'[r].end # "suppressed"
          BY <3>2
        <4> QED
          BY <3>2, <4>1 DEF OnlyTold
      <3> QED
        BY <3>1, <3>2
    <2>2. ASSUME NEW i \in DOMAIN told', NeedsView(rows[told[i].row])'
          PROVE  \E j \in DOMAIN told' : j < i /\ Kin(told[j].row, told[i].row)'
      <3>0. told'[i].row \in DOMAIN rows /\ NeedsView(rows[told'[i].row])
        BY <1>2, <1>2a, <1>6, <2>2 DEF NeedsView
      <3>1. CASE i \in DOMAIN told
        <4>1. PICK j \in DOMAIN told : j < i /\ Kin(told[j].row, told[i].row)
          BY <1>1, <1>5, <3>0, <3>1 DEF ToldSound
        <4>2. j \in DOMAIN told' /\ told'[j] = told[j] /\ told'[i] = told[i]
          BY <1>5, <3>1
        <4>3. Kin(told[j].row, told[i].row)'
          BY <1>2, <1>3, <3>1, <4>1, <4>2 DEF Kin
        <4> QED
          BY <4>1, <4>2, <4>3
      <3>2. CASE i \in DOMAIN told' \ DOMAIN told
        <4>1. told'[i].row = r /\ \E j \in DOMAIN told : Kin(told[j].row, r)
          BY <3>0, <3>2 DEF OnlyTold
        <4>2. PICK j \in DOMAIN told : Kin(told[j].row, r)
          BY <4>1
        <4>3. j < i /\ j \in DOMAIN told' /\ told'[j] = told[j]
          BY <1>5, <3>2 DEF OnlyTold
        <4>4. Kin(told[j].row, told[i].row)'
          BY <1>2, <1>3, <4>1, <4>2, <4>3 DEF Kin
        <4> QED
          BY <4>3, <4>4
      <3> QED
        BY <3>1, <3>2
    <2>3. ASSUME NEW i \in DOMAIN told', NEW j \in DOMAIN told', told'[j].row = told'[i].row
          PROVE  j = i
      <3>1. CASE i \in DOMAIN told /\ j \in DOMAIN told
        BY <1>1, <1>5, <2>3, <3>1 DEF ToldSound
      <3>2. CASE i \in DOMAIN told' \ DOMAIN told /\ j \in DOMAIN told' \ DOMAIN told
        BY <3>2 DEF OnlyTold
      <3>3. CASE i \in DOMAIN told' \ DOMAIN told /\ j \in DOMAIN told
        BY <1>5, <2>3, <3>3 DEF OnlyTold
      <3>4. CASE i \in DOMAIN told /\ j \in DOMAIN told' \ DOMAIN told
        BY <1>5, <2>3, <3>4 DEF OnlyTold
      <3> QED
        BY <3>1, <3>2, <3>3, <3>4
    <2>4. ASSUME NEW d \in DOMAIN rows', rows'[d].end = "admitted"
          PROVE  \E i \in DOMAIN told' : told'[i].row = d
      <3>1. CASE d = r
        BY <2>4, <3>1
      <3>2. CASE d # r
        BY <1>1, <1>2, <1>5, <2>4, <3>2 DEF ToldSound
      <3> QED
        BY <3>1, <3>2
    <2> QED
      BY <2>1, <2>2, <2>3, <2>4 DEF ToldSound
  <1> QED
    BY <1>7, <1>9, <1>13, <1>15 DEF AttentionInv

LEMMA EndsOnlyRow ==
    ASSUME AttentionTypes, NEW r \in DOMAIN rows, NEW end \in RowEnds,
           NEW why \in RowWhys, EndsRow(r, end, why)
    PROVE  OnlyRow(r) /\ rows'[r].end = end /\ rows'[r].why = why
  <1> DEFINE row == [rows[r] EXCEPT !.end = end, !.why = why]
  <1>0. rows \in Seq(RowRecs) /\ DOMAIN rows = 1..Len(rows) /\ Len(rows) \in Nat
    BY DEF AttentionTypes
  <1>1. rows[r] \in RowRecs
    BY AttentionFacts
  <1>2. rows' = [rows EXCEPT ![r] = row]
    BY <1>0, <1>1 DEF EndsRow, RowRecs
  <1>3. row \in RowRecs
    BY <1>1 DEF RowRecs
  <1>4. /\ row.to = rows[r].to /\ row.msg = rows[r].msg /\ row.rev = rows[r].rev /\ row.change = rows[r].change
        /\ row.stay = rows[r].stay /\ row.end = end /\ row.why = why
    BY <1>1 DEF RowRecs
  <1>5. row.picked = rows[r].picked
    BY <1>1 DEF RowRecs
  <1>6. row.required = rows[r].required
    BY <1>1 DEF RowRecs
  <1> HIDE DEF row
  <1>7. /\ rows' \in Seq(RowRecs) /\ DOMAIN rows' = DOMAIN rows /\ rows'[r] = row
        /\ \A d \in DOMAIN rows : d # r => rows'[d] = rows[d]
    BY <1>0, <1>2, <1>3
  <1> QED
    BY <1>4, <1>5, <1>6, <1>7 DEF OnlyRow
LEMMA SettledKeeps ==
    ASSUME AttentionInv, NEW r \in DOMAIN rows, rows[r].end = "pending",
           NEW verdict, verdict = authorizeAttentionSource(r),
           settleFound(r, verdict) \/ settleUnavailable(r, verdict),
           UNCHANGED <<posted, intents, stays, told>>, prepared' \subseteq DOMAIN rows
    PROVE  AttentionInv'
  <1>1. AttentionTypes /\ RowsSound /\ ToldSound
    BY DEF AttentionInv
  <1>2. OnlyTold(r)
    BY <1>1 DEF OnlyTold, AttentionTypes
  <1>3. CASE settleFound(r, verdict)
    <2> DEFINE i == CHOOSE j \in Stored(r) : TRUE
    <2>1. i \in Stored(r)
      BY <1>3 DEF settleFound
    <2> HIDE DEF i
    <2>2. i \in DOMAIN told /\ told[i].row = r
      BY <2>1 DEF Stored
    <2>3. told[i].form # "plain" /\ told[i].form \in {"plain", "whole"}
      BY <1>1, <2>2, AttentionFacts DEF ToldSound
    <2>4. Lookup(r, verdict) = "found"
      BY <2>3 DEF Lookup, i
    <2>5. EndsRow(r, "admitted", "none")
      BY <1>3, <2>4 DEF settleFound
    <2>6. OnlyRow(r) /\ rows'[r].end = "admitted"
      BY <1>1, <2>5, EndsOnlyRow DEF RowEnds, RowWhys
    <2> QED
      BY <1>2, <2>2, <2>6, DeliveryKeeps
  <1>4. CASE settleUnavailable(r, verdict)
    <2>1. Stored(r) = {} /\ verdict \in {"unavailable", "no view"} /\ EndsRow(r, "suppressed", verdict)
      BY <1>4 DEF settleUnavailable
    <2>2. OnlyRow(r) /\ rows'[r].end = "suppressed" /\ rows'[r].why = verdict
      BY <1>1, <2>1, EndsOnlyRow DEF RowEnds, RowWhys
    <2>3. rows[r].change \in {"posted", "edited", "deleted"} /\ rows[r].msg \in Posts
      BY <1>1, AttentionFacts DEF RowRecs
    <2>4. MayDrop(r, verdict)
      <3> SUFFICES ASSUME rows[r].change # "posted", SameTenure(rows[r]),
                          ~(rows[r].rev < posted[rows[r].msg].rev)
                   PROVE  /\ ~WasShown(rows[r].to, rows[r].msg)
                          /\ \A d \in DOMAIN rows : d < r /\ Kin(d, r) => rows[d].end # "pending"
        BY DEF MayDrop
      <3>1. rows[r].change = "deleted" <=> posted[rows[r].msg].gone
        BY <1>1, <2>3 DEF RowsSound
      <3>2. SourceStands(rows[r])
        BY <3>1 DEF SourceStands
      <3>3. ~rows[r].required
        BY <1>1 DEF RowsSound
      <3>4. NeedsView(rows[r]) /\ ~Established(r) /\ ~PriorPending(r)
        BY <2>1, <2>3, <3>2, <3>3 DEF authorizeAttentionSource
      <3>5. ASSUME NEW d \in DOMAIN rows, d < r, Kin(d, r) PROVE rows[d].end # "pending"
        BY <3>4, <3>5 DEF PriorPending, RowsOf, Kin
      <3>6. ASSUME WasShown(rows[r].to, rows[r].msg) PROVE FALSE
        <4>1. PICK i \in DOMAIN told : rows[told[i].row].to = rows[r].to /\ rows[told[i].row].msg = rows[r].msg
          BY <3>6 DEF WasShown
        <4>2. told[i].row \in DOMAIN rows /\ i \in Stored(told[i].row)
          BY <1>1, AttentionFacts DEF Stored
        <4>3. told[i].row # r
          BY <2>1, <4>2
        <4> QED
          BY <3>4, <4>1, <4>2, <4>3 DEF Established, RowsOf
      <3> QED
        BY <3>5, <3>6
    <2> QED
      BY <1>2, <2>1, <2>2, <2>4, DeliveryKeeps
  <1> QED
    BY <1>3, <1>4

\* An input that is admitted is lawful, and a correction without a reason of
\* its own follows something the secretary was told.
LEMMA AdmittedLawfully ==
    ASSUME AttentionInv, NEW r \in DOMAIN rows, NEW verdict, verdict = authorizeAttentionSource(r),
           verdict \in {"stands", "downgraded"}, Stored(r) = {}
    PROVE  Lawful(rows[r]) /\ (NeedsView(rows[r]) => \E j \in DOMAIN told : Kin(told[j].row, r))
  <1>1. AttentionTypes /\ RowsSound /\ ToldSound
    BY DEF AttentionInv
  <1>2. SourceStands(rows[r]) /\ (NeedsView(rows[r]) => Established(r))
    BY DEF authorizeAttentionSource
  <1>3. rows[r].required => ParentStands(rows[r])
    <2> SUFFICES ASSUME rows[r].required, ~ParentStands(rows[r]) PROVE FALSE
      OBVIOUS
    <2>1. rows[r].change = "posted"
      BY <1>1 DEF RowsSound
    <2> QED
      BY <1>2, <2>1 DEF authorizeAttentionSource
  <1>4. ASSUME Established(r) PROVE \E j \in DOMAIN told : Kin(told[j].row, r)
    <2>1. PICK d \in RowsOf(rows[r].to, rows[r].msg) \ {r} : rows[d].end = "admitted" \/ Stored(d) # {}
      BY <1>4 DEF Established
    <2>2. d \in DOMAIN rows /\ Kin(d, r)
      BY <2>1 DEF RowsOf, Kin
    <2>3. PICK j \in DOMAIN told : told[j].row = d
      BY <1>1, <2>1, <2>2 DEF ToldSound, Stored
    <2> QED
      BY <2>2, <2>3
  <1> QED
    BY <1>2, <1>3, <1>4 DEF Lawful, SourceStands

LEMMA AttemptKeeps ==
    ASSUME AttentionInv, NEW r \in DOMAIN rows, attemptAgentAttention(r)
    PROVE  AttentionInv'
  <1> DEFINE verdict == authorizeAttentionSource(r)
  <1>1. AttentionTypes /\ prepared \subseteq DOMAIN rows
    BY DEF AttentionInv, AttentionTypes
  <1>2. rows[r].end = "pending" /\ UNCHANGED <<posted, intents, stays, told>>
    BY DEF attemptAgentAttention, DeliverAgentAttention, restOfAttention
  <1>3. CASE (settleFound(r, verdict) \/ settleUnavailable(r, verdict)) /\ UNCHANGED prepared
    <2> HIDE DEF verdict
    <2> QED
      BY <1>1, <1>2, <1>3, SettledKeeps DEF verdict
  <1>4. CASE prepared' = prepared \cup {r} /\ UNCHANGED rows
    BY <1>1, <1>2, <1>4, PlainKeeps
  <1> QED
    BY <1>3, <1>4 DEF attemptAgentAttention

LEMMA DeliverKeeps ==
    ASSUME "forked" \notin AttentionPerils, AttentionInv, NEW r \in DOMAIN rows, deliverAgentAttention(r)
    PROVE  AttentionInv'
  <1> DEFINE verdict == authorizeAttentionSource(r)
  <1>1. AttentionTypes /\ prepared \subseteq DOMAIN rows /\ told \in Seq(ToldRecs) /\ rows \in Seq(RowRecs)
    BY DEF AttentionInv, AttentionTypes
  <1>2. UNCHANGED <<posted, intents, stays>> /\ prepared' \subseteq DOMAIN rows
    BY <1>1 DEF deliverAgentAttention, restOfAttention
  <1>3. CASE UNCHANGED <<rows, told>>
    BY <1>2, <1>3, PlainKeeps
  <1>4. CASE /\ rows[r].end = "pending" /\ (settleFound(r, verdict) \/ settleUnavailable(r, verdict))
             /\ UNCHANGED told
    <2> HIDE DEF verdict
    <2> QED
      BY <1>2, <1>4, SettledKeeps DEF verdict
  <1>5. ASSUME rows[r].end = "pending", Stored(r) = {}, verdict \in {"stands", "downgraded"},
               EndsRow(r, "suppressed", "transferred"), UNCHANGED told
        PROVE  AttentionInv'
    <2>1. OnlyRow(r) /\ rows'[r].end = "suppressed" /\ rows'[r].why = "transferred"
      BY <1>1, <1>5, EndsOnlyRow DEF RowEnds, RowWhys
    <2>2. OnlyTold(r) /\ MayDrop(r, "transferred")
      BY <1>1, <1>5 DEF OnlyTold, MayDrop
    <2> QED
      BY <1>2, <1>5, <2>1, <2>2, DeliveryKeeps
  <1>6. ASSUME rows[r].end = "pending", Stored(r) = {}, verdict \in {"stands", "downgraded"}, Admit(r, verdict),
               \/ EndsRow(r, "admitted", "none")
               \/ rows' = rows /\ verdict # "downgraded"
        PROVE  AttentionInv'
    <2> DEFINE form == coreInputFromEvent(r, verdict = "downgraded").form
               input == [row |-> r, form |-> form, lawful |-> Lawful(rows[r])]
    <2>1. Lawful(rows[r]) /\ (NeedsView(rows[r]) => \E j \in DOMAIN told : Kin(told[j].row, r))
      <3> HIDE DEF verdict
      <3> QED
        BY <1>6, AdmittedLawfully DEF verdict
    <2>2. form \in {"plain", "whole"} /\ (form = "plain" => verdict = "downgraded")
      BY DEF coreInputFromEvent
    <2>3. r \in Nat
      BY <1>1, AttentionFacts
    <2>4. told' = Append(told, input)
      BY <1>6 DEF Admit
    <2> HIDE DEF form, verdict
    <2>5. input \in ToldRecs /\ input.row = r /\ input.form = form
      BY <2>1, <2>2, <2>3 DEF ToldRecs
    <2>6. input.lawful
      BY <2>1
    <2> HIDE DEF input
    <2>7. /\ told' \in Seq(ToldRecs) /\ Len(told) \in Nat /\ DOMAIN told = 1..Len(told)
          /\ DOMAIN told' = 1..Len(told) + 1 /\ told'[Len(told) + 1] = input
          /\ \A i \in 1..Len(told) : told'[i] = told[i]
      BY <1>1, <2>4, <2>5
    <2>8. /\ \A i \in DOMAIN told : i \in DOMAIN told' /\ told'[i] = told[i]
          /\ \A i \in DOMAIN told' \ DOMAIN told : i = Len(told) + 1
          /\ \A j \in DOMAIN told : j < Len(told) + 1
      BY <2>7
    <2>9. OnlyRow(r) /\ (rows'[r].end = "admitted" \/ (rows'[r].end = "pending" /\ verdict # "downgraded"))
      <3>1. CASE EndsRow(r, "admitted", "none")
        BY <1>1, <3>1, EndsOnlyRow DEF RowEnds, RowWhys
      <3>2. CASE rows' = rows /\ verdict # "downgraded"
        BY <1>1, <1>6, <3>2 DEF OnlyRow
      <3> QED
        BY <1>6, <3>1, <3>2
    <2>10. \A j \in DOMAIN told : told[j].row # r
      BY <1>6 DEF Stored
    <2>11. OnlyTold(r)
      <3> SUFFICES ASSUME NEW i \in DOMAIN told' \ DOMAIN told
                   PROVE  /\ told'[i].row = r /\ told'[i].lawful /\ (told'[i].form = "plain" => rows'[r].end = "admitted")
                          /\ NeedsView(rows[r]) => \E j \in DOMAIN told : Kin(told[j].row, r)
                          /\ \A j \in DOMAIN told : told[j].row # r /\ j < i
                          /\ \A j \in DOMAIN told' \ DOMAIN told : j = i
        BY <2>7, <2>8 DEF OnlyTold
      <3>1. i = Len(told) + 1 /\ told'[i] = input
        BY <2>7, <2>8
      <3>2. told'[i].form = "plain" => rows'[r].end = "admitted"
        BY <2>2, <2>5, <2>9, <3>1
      <3> QED
        BY <2>1, <2>5, <2>6, <2>8, <2>10, <3>1, <3>2
    <2>12. \E i \in DOMAIN told' : told'[i].row = r
      <3>1. Len(told) + 1 \in DOMAIN told'
        BY <2>7
      <3> QED
        BY <2>5, <2>7, <3>1
    <2>13. rows'[r].end # "suppressed"
      BY <2>9
    <2> QED
      BY <1>2, <1>6, <2>9, <2>11, <2>12, <2>13, DeliveryKeeps
  <1> QED
    BY <1>3, <1>4, <1>5, <1>6 DEF deliverAgentAttention

\* Every step keeps the invariant.
LEMMA AttentionStep ==
    ASSUME "forked" \notin AttentionPerils, AttentionInv, [AttentionNext]_attentionVars
    PROVE  AttentionInv'
  <1>0. prepared \subseteq DOMAIN rows
    BY DEF AttentionInv, AttentionTypes
  <1>1. ASSUME NEW m \in Posts, NEW by \in Secretaries \cup {Person}, NEW to \in Posts \cup {0},
               NEW names \in SUBSET Secretaries, appendScopedInTx(m, by, to, names)
        PROVE  AttentionInv'
    BY <1>1, AppendKeeps
  <1>2. ASSUME NEW m \in Posts, NEW names \in SUBSET Secretaries, editMessage(m, names) PROVE AttentionInv'
    BY <1>2, EditKeeps
  <1>3. ASSUME NEW m \in Posts, NEW actor \in Secretaries \cup {Person}, DeleteMessage(m, actor) PROVE AttentionInv'
    BY <1>3, DeleteKeeps
  <1>4. ASSUME NEW a \in Secretaries, NEW to, SetNotificationSetting(a, to) PROVE AttentionInv'
    BY <1>0, <1>4, PlainKeeps DEF SetNotificationSetting
  <1>5. ASSUME NEW a \in Secretaries, endTenure(a) \/ admitTenure(a) PROVE AttentionInv'
    <2>1. UNCHANGED <<posted, intents, rows, told, prepared>>
      BY <1>5 DEF endTenure, admitTenure
    <2> QED
      BY <1>5, <2>1, TenureKeeps
  <1>6. ASSUME NEW a \in Secretaries, setAuthority(a) PROVE AttentionInv'
    BY <1>0, <1>6, PlainKeeps DEF setAuthority
  <1>7. ASSUME NEW r \in DOMAIN rows, attemptAgentAttention(r) PROVE AttentionInv'
    BY <1>7, AttemptKeeps
  <1>8. ASSUME NEW r \in DOMAIN rows, deliverAgentAttention(r) PROVE AttentionInv'
    BY <1>8, DeliverKeeps
  <1>9. CASE drainDies
    BY <1>9, PlainKeeps DEF drainDies, restOfAttention
  <1>10. CASE UNCHANGED attentionVars
    BY <1>0, <1>10, PlainKeeps DEF attentionVars
  <1> QED
    BY <1>1, <1>2, <1>3, <1>4, <1>5, <1>6, <1>7, <1>8, <1>9, <1>10 DEF AttentionNext

\* A secretary that was shown a message is told of every later change while it
\* has access, unless its state left or a later revision replaced the news; and
\* its queue holds only inputs that were lawful when they were put there, each
\* once (AttentionTrue), for every set of secretaries and messages and every
\* bound on edits, tenures and lost receipts.  The one hazard left out is the
\* loss of the receipt of a downgraded edit: see AttentionPerils.
THEOREM AttentionStaysTrue ==
    ASSUME "forked" \notin AttentionPerils
    PROVE  AttentionSpec => []AttentionTrue
  <1>1. AttentionInit => AttentionInv
    BY AttentionInvInit
  <1>2. AttentionInv /\ [AttentionNext]_attentionVars => AttentionInv'
    BY AttentionStep
  <1>3. AttentionInv => AttentionTrue
    BY InvMeansTrue
  <1> QED
    BY <1>1, <1>2, <1>3, PTL DEF AttentionSpec
=============================================================================
