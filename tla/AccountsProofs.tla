--------------------------- MODULE AccountsProofs ---------------------------
(* Theorems about the accounts' components for every value of their        *)
(* constants.                                                              *)
EXTENDS EmailSignIn, ProviderLogins, PushDelivery, UsageBudget, WorkspaceMembers,
        FiniteSetTheorems, TLAPS

-----------------------------------------------------------------------------
(* Web push *)

PushType ==
    /\ devices \in Nat /\ cookie \in [Machines -> 0 .. MaxDevices]
    /\ device \in [DeviceIds -> [owner : Owners \cup {NoOne},
                                 state : {"none", "live", "expired"}]]
    /\ subscription \in [Machines -> [human : Owners \cup {NoOne},
                                      device : 0 .. MaxDevices, gen : Nat]]
    /\ job \in [Sends -> [at : {"none", "decided", "read", "leased", "done"},
                          human : Owners \cup {NoOne}, term : Int,
                          browser : Machines \cup {NoOne},
                          device : 0 .. MaxDevices, gen : Nat]]
    /\ term \in [Owners -> Int] /\ user \in [Machines -> Owners \cup {NoOne}]
    /\ \A j \in Sends : /\ job[j].at # "none" => job[j].human \in Owners
                        /\ job[j].at \in {"read", "leased"} => job[j].browser \in Machines

\* Device rows are made in order: none exists beyond the last.
DevicesInOrder == \A d \in DeviceIds : d > devices => device[d].state = "none"

\* What a lease rests on: the row it read is still the endpoint's row, to the
\* generation, its device and its membership stand, and no other lease holds
\* the same endpoint.
LeaseHolds(j) ==
    job[j].at = "leased" =>
        /\ StillThere(j) /\ job[j].device # 0
        /\ device[job[j].device].owner = job[j].human
        /\ device[job[j].device].state # "none"
        /\ term[job[j].human] = job[j].term /\ Member(job[j].human)
        /\ \A k \in Leased : job[k].browser = job[j].browser => k = j

PushInv == PushType /\ DevicesInOrder /\ \A j \in Sends : LeaseHolds(j)

LEMMA PushInvInit == PushInit => PushInv
  <1> SUFFICES ASSUME PushInit PROVE PushInv
    OBVIOUS
  <1>1. PushType
    BY PushAssumption DEF PushInit, PushType, NoRow, NoJob, DeviceIds
  <1>2. DevicesInOrder /\ \A j \in Sends : LeaseHolds(j)
    BY DEF PushInit, DevicesInOrder, LeaseHolds, NoJob
  <1> QED
    BY <1>1, <1>2 DEF PushInv

\* Steps that start, end or gain no lease and touch nothing a lease rests on.
LEMMA LeaseFrame ==
    ASSUME PushInv, NEW j \in Sends, job'[j] = job[j], Leased' \subseteq Leased,
           \A k \in Leased : job'[k].at = "leased" => job'[k] = job[k],
           job[j].at = "leased" =>
              /\ subscription'[job[j].browser] = subscription[job[j].browser]
              /\ device'[job[j].device].owner = device[job[j].device].owner
              /\ device'[job[j].device].state # "none"
              /\ term'[job[j].human] = term[job[j].human]
    PROVE  LeaseHolds(j)'
  <1> SUFFICES ASSUME job[j].at = "leased" PROVE LeaseHolds(j)'
    BY DEF LeaseHolds
  <1>1. LeaseHolds(j)
    BY DEF PushInv
  <1>2. ASSUME NEW k \in Leased', job'[k].browser = job'[j].browser PROVE k = j
    <2>1. k \in Leased /\ job'[k] = job[k]
      BY <1>2 DEF Leased
    <2> QED
      BY <1>1, <1>2, <2>1 DEF LeaseHolds
  <1> QED
    BY <1>1, <1>2 DEF LeaseHolds, StillThere, Member

\* Deleting devices no lease is on takes no leased endpoint with them.
LEMMA WithoutSpares ==
    ASSUME PushInv, NEW ds \in SUBSET DeviceIds, \A d \in ds : DeviceFree(d), Without(ds),
           NEW j \in Sends, job[j].at = "leased"
    PROVE  /\ subscription'[job[j].browser] = subscription[job[j].browser]
           /\ device'[job[j].device] = device[job[j].device]
  <1>1. job[j].browser \in Machines /\ job[j].device \in DeviceIds
    BY DEF PushInv, PushType, LeaseHolds, DeviceIds
  <1>2. job[j].device \notin ds
    BY DEF DeviceFree, Leased
  <1>3. subscription[job[j].browser].device = job[j].device
    <2>1. StillThere(j)
      BY DEF PushInv, LeaseHolds
    <2> QED
      BY <2>1 DEF StillThere
  <1> QED
    BY <1>1, <1>2, <1>3 DEF Without

LEMMA WithoutType ==
    ASSUME PushType, NEW ds \in SUBSET DeviceIds, Without(ds)
    PROVE  /\ device' \in [DeviceIds -> [owner : Owners \cup {NoOne},
                                         state : {"none", "live", "expired"}]]
           /\ subscription' \in [Machines -> [human : Owners \cup {NoOne},
                                              device : 0 .. MaxDevices, gen : Nat]]
           /\ \A d \in DeviceIds : device'[d].state = "none" \/ device'[d] = device[d]
  BY PushAssumption DEF PushType, Without, NoRow

LEMMA PushDevices ==
    ASSUME PushInv,
           \/ \E b \in Machines, h \in Owners : RefreshBrowserPushDevice(b, h)
           \/ \E h \in Owners : purgeExpiredPushDevices(h)
           \/ \E b \in Machines : RevokeBrowserPushDevice(b) \/ SessionExpires(b)
           \/ \E d \in DeviceIds : DeviceExpires(d)
    PROVE  PushInv'
  <1>0. PushType /\ DevicesInOrder /\ \A j \in Sends : LeaseHolds(j)
    BY DEF PushInv
  <1>j. ASSUME NEW j \in Sends, job[j].at = "leased"
        PROVE  job[j].browser \in Machines /\ job[j].device \in DeviceIds
    BY <1>0, <1>j DEF PushType, LeaseHolds, DeviceIds
  <1>f. ASSUME UNCHANGED <<term, job>>, PushType', DevicesInOrder',
               \A j \in Sends : job[j].at = "leased" =>
                  /\ subscription'[job[j].browser] = subscription[job[j].browser]
                  /\ device'[job[j].device].owner = device[job[j].device].owner
                  /\ device'[job[j].device].state # "none"
        PROVE  PushInv'
    <2>1. ASSUME NEW j \in Sends PROVE LeaseHolds(j)'
      BY <1>f, LeaseFrame DEF Leased
    <2> QED
      BY <1>f, <2>1 DEF PushInv
  <1>1. ASSUME NEW b \in Machines, NEW h \in Owners, RefreshBrowserPushDevice(b, h)
        PROVE  PushInv'
    <2>1. CASE lockPushDevice(cookie[b], h)
      <3>1. UNCHANGED <<cookie, device, devices, subscription, term, job>>
        BY <1>1, <2>1 DEF RefreshBrowserPushDevice
      <3>2. user' \in [Machines -> Owners \cup {NoOne}]
        BY <1>0, <1>1 DEF RefreshBrowserPushDevice, PushType
      <3>3. PushType' /\ DevicesInOrder'
        BY <1>0, <3>1, <3>2 DEF PushType, DevicesInOrder
      <3> QED
        BY <1>0, <1>f, <3>1, <3>3 DEF LeaseHolds
    <2>2. CASE ~lockPushDevice(cookie[b], h)
      <3>1. /\ devices < MaxDevices /\ devices' = devices + 1
            /\ cookie[b] # 0 => DeviceFree(cookie[b])
            /\ cookie' = [cookie EXCEPT ![b] = devices + 1]
            /\ device' = [d \in DeviceIds |->
                   IF d = devices + 1 THEN [owner |-> h, state |-> "live"]
                   ELSE IF d = cookie[b] THEN [owner |-> NoOne, state |-> "none"] ELSE device[d]]
            /\ subscription' = [c \in Machines |->
                   IF cookie[b] # 0 /\ subscription[c].device = cookie[b] THEN NoRow ELSE subscription[c]]
            /\ user' = [user EXCEPT ![b] = h] /\ UNCHANGED <<term, job>>
        BY <1>1, <2>2 DEF RefreshBrowserPushDevice
      <3>2. PushType'
        <4>1. devices' \in Nat /\ cookie' \in [Machines -> 0 .. MaxDevices]
          BY <1>0, <3>1, PushAssumption DEF PushType
        <4>2. device' \in [DeviceIds -> [owner : Owners \cup {NoOne},
                                        state : {"none", "live", "expired"}]]
          BY <1>0, <3>1 DEF PushType
        <4>3. subscription' \in [Machines -> [human : Owners \cup {NoOne},
                                             device : 0 .. MaxDevices, gen : Nat]]
          BY <1>0, <3>1, PushAssumption DEF PushType, NoRow
        <4>4. user' \in [Machines -> Owners \cup {NoOne}]
          BY <1>0, <3>1 DEF PushType
        <4> QED
          BY <1>0, <3>1, <4>1, <4>2, <4>3, <4>4 DEF PushType
      <3>3. DevicesInOrder'
        BY <1>0, <3>1, PushAssumption DEF DevicesInOrder, PushType, DeviceIds
      <3>4. ASSUME NEW j \in Sends, job[j].at = "leased"
            PROVE  /\ subscription'[job[j].browser] = subscription[job[j].browser]
                   /\ device'[job[j].device] = device[job[j].device]
        <4>1. job[j].device # cookie[b] \/ cookie[b] = 0
          BY <3>1, <3>4 DEF DeviceFree, Leased
        <4>2. job[j].device # devices + 1
          BY <1>0, <1>j, <3>4 DEF LeaseHolds, DevicesInOrder, PushType, DeviceIds
        <4>3. subscription[job[j].browser].device = job[j].device
          <5>1. StillThere(j)
            BY <1>0, <3>4 DEF LeaseHolds
          <5> QED
            BY <5>1 DEF StillThere
        <4>4. job[j].browser \in Machines /\ job[j].device \in DeviceIds /\ job[j].device # 0
          BY <1>0, <1>j, <3>4 DEF LeaseHolds
        <4> QED
          BY <3>1, <4>1, <4>2, <4>3, <4>4
      <3> QED
        BY <1>0, <1>f, <3>1, <3>2, <3>3, <3>4 DEF LeaseHolds
    <2> QED
      BY <2>1, <2>2
  <1>2. ASSUME NEW ds \in SUBSET DeviceIds, \A d \in ds : DeviceFree(d), Without(ds),
               UNCHANGED <<devices, term, job>>,
               cookie' \in [Machines -> 0 .. MaxDevices],
               user' \in [Machines -> Owners \cup {NoOne}]
        PROVE  PushInv'
    <2>1. PushType' /\ DevicesInOrder'
      BY <1>0, <1>2, WithoutType DEF PushType, DevicesInOrder
    <2>2. ASSUME NEW j \in Sends, job[j].at = "leased"
          PROVE  /\ subscription'[job[j].browser] = subscription[job[j].browser]
                 /\ device'[job[j].device] = device[job[j].device]
      BY <1>2, <2>2, WithoutSpares
    <2> QED
      BY <1>0, <1>2, <1>f, <2>1, <2>2 DEF LeaseHolds
  <1>3. ASSUME NEW h \in Owners, purgeExpiredPushDevices(h) PROVE PushInv'
    <2>1. ExpiredOf(h) \subseteq DeviceIds /\ \A d \in ExpiredOf(h) : DeviceFree(d)
      BY DEF ExpiredOf
    <2> QED
      BY <1>0, <1>2, <1>3, <2>1 DEF purgeExpiredPushDevices, PushType
  <1>4. ASSUME NEW b \in Machines, RevokeBrowserPushDevice(b) PROVE PushInv'
    <2>1. cookie[b] \in DeviceIds
      BY <1>0, <1>4 DEF RevokeBrowserPushDevice, PushType, DeviceIds
    <2>2. /\ cookie' \in [Machines -> 0 .. MaxDevices]
          /\ user' \in [Machines -> Owners \cup {NoOne}]
      BY <1>0, <1>4, PushAssumption DEF RevokeBrowserPushDevice, PushType
    <2> QED
      BY <1>2, <1>4, <2>1, <2>2 DEF RevokeBrowserPushDevice
  <1>5. ASSUME NEW b \in Machines, SessionExpires(b) PROVE PushInv'
    <2>1. user' \in [Machines -> Owners \cup {NoOne}]
      BY <1>0, <1>5 DEF SessionExpires, PushType
    <2>2. PushType' /\ DevicesInOrder'
      BY <1>0, <1>5, <2>1 DEF SessionExpires, PushType, DevicesInOrder
    <2> QED
      BY <1>0, <1>5, <1>f, <2>2 DEF SessionExpires, LeaseHolds
  <1>6. ASSUME NEW d \in DeviceIds, DeviceExpires(d) PROVE PushInv'
    <2>1. device' \in [DeviceIds -> [owner : Owners \cup {NoOne},
                                    state : {"none", "live", "expired"}]]
      BY <1>0, <1>6 DEF DeviceExpires, PushType
    <2>2. ASSUME NEW e \in DeviceIds
          PROVE  /\ device'[e].owner = device[e].owner
                 /\ device'[e].state = "none" <=> device[e].state = "none"
      BY <1>0, <1>6 DEF DeviceExpires, PushType
    <2>3. PushType' /\ DevicesInOrder'
      BY <1>0, <1>6, <2>1, <2>2 DEF DeviceExpires, PushType, DevicesInOrder
    <2> QED
      BY <1>0, <1>6, <1>f, <1>j, <2>2, <2>3 DEF DeviceExpires, LeaseHolds
  <1> QED
    BY <1>1, <1>3, <1>4, <1>5, <1>6

LEMMA PushSubscriptions ==
    ASSUME PushInv,
           NEW b \in Machines, SavePushSubscription(b) \/ DeletePushSubscription(b)
    PROVE  PushInv'
  <1>0. PushType /\ DevicesInOrder /\ \A j \in Sends : LeaseHolds(j)
    BY DEF PushInv
  <1>u. UNCHANGED <<user, cookie, device, devices, term, job>>
    BY DEF SavePushSubscription, DeletePushSubscription
  <1>1. subscription' \in [Machines -> [human : Owners \cup {NoOne},
                                       device : 0 .. MaxDevices, gen : Nat]]
    <2>1. CASE DeletePushSubscription(b)
      BY <1>0, <2>1, PushAssumption DEF DeletePushSubscription, PushType, NoRow
    <2>2. CASE SavePushSubscription(b)
      <3> DEFINE kept == lockAndPurgeExpiredPushSubscriptions(user[b], b)
                 row == [human |-> user[b], device |-> cookie[b],
                         gen |-> IF kept[b] = NoRow THEN 1
                                 ELSE IF kept[b].human = user[b] /\ kept[b].device = cookie[b]
                                      THEN kept[b].gen ELSE kept[b].gen + 1]
      <3>1. kept \in [Machines -> [human : Owners \cup {NoOne},
                                   device : 0 .. MaxDevices, gen : Nat]]
        BY <1>0, PushAssumption DEF PushType, NoRow, lockAndPurgeExpiredPushSubscriptions
      <3>2. subscription' = [kept EXCEPT ![b] = row]
        BY <2>2 DEF SavePushSubscription
      <3>3. kept[b].gen \in Nat
        BY <3>1
      <3>4. row \in [human : Owners \cup {NoOne}, device : 0 .. MaxDevices, gen : Nat]
        BY <1>0, <3>3 DEF PushType
      <3> HIDE DEF kept, row
      <3> QED
        BY <3>1, <3>2, <3>4
    <2> QED
      BY <2>1, <2>2
  <1>2. PushType' /\ DevicesInOrder'
    BY <1>0, <1>1, <1>u DEF PushType, DevicesInOrder
  <1>3. ASSUME NEW j \in Sends, job[j].at = "leased"
        PROVE  subscription'[job[j].browser] = subscription[job[j].browser]
    <2>1. ~EndpointFree(job[j].browser) /\ job[j].browser \in Machines
      BY <1>0, <1>3 DEF EndpointFree, Leased, PushType
    <2>2. CASE DeletePushSubscription(b)
      BY <1>0, <2>1, <2>2 DEF DeletePushSubscription, PushType
    <2>3. CASE SavePushSubscription(b)
      <3> DEFINE kept == lockAndPurgeExpiredPushSubscriptions(user[b], b)
      <3>1. kept[job[j].browser] = subscription[job[j].browser] /\ job[j].browser # b
        BY <2>1, <2>3 DEF SavePushSubscription
      <3>2. \A c \in Machines : c # b => subscription'[c] = kept[c]
        BY <2>3 DEF SavePushSubscription, lockAndPurgeExpiredPushSubscriptions
      <3> HIDE DEF kept
      <3> QED
        BY <2>1, <3>1, <3>2
    <2> QED
      BY <2>2, <2>3
  <1>4. ASSUME NEW j \in Sends PROVE LeaseHolds(j)'
    BY <1>0, <1>3, <1>u, LeaseFrame DEF Leased, LeaseHolds
  <1> QED
    BY <1>2, <1>4 DEF PushInv

\* Nobody leaves or joins while a lease is out.
LEMMA PushTerms ==
    ASSUME PushInv, NEW h \in Owners, ChangeTerm(h)
    PROVE  PushInv'
  <1>1. PushType' /\ DevicesInOrder'
    BY DEF PushInv, ChangeTerm, PushType, DevicesInOrder
  <1>2. \A j \in Sends : job'[j].at # "leased"
    BY DEF ChangeTerm, WorkspaceFree, Leased
  <1> QED
    BY <1>1, <1>2 DEF PushInv, LeaseHolds

\* A send that neither had a lease nor takes one.
LEMMA PushQuietSends ==
    ASSUME PushInv, NEW j \in Sends,
           (\E h \in Owners : deliverPush(j, h)) \/ deliverJob(j)
    PROVE  PushInv'
  <1>0. PushType /\ DevicesInOrder /\ \A k \in Sends : LeaseHolds(k)
    BY DEF PushInv
  <1>u. UNCHANGED <<user, cookie, device, devices, subscription, term>>
    BY DEF deliverPush, deliverJob
  <1> DEFINE Job == [at : {"none", "decided", "read", "leased", "done"},
                     human : Owners \cup {NoOne}, term : Int,
                     browser : Machines \cup {NoOne}, device : 0 .. MaxDevices, gen : Nat]
  <1>1. /\ job' \in [Sends -> Job] /\ job'[j].human \in Owners
        /\ job'[j].at # "leased" /\ (job'[j].at = "read" => job'[j].browser \in Machines)
        /\ \A k \in Sends : k # j => job'[k] = job[k]
    <2>1. ASSUME NEW h \in Owners, deliverPush(j, h) PROVE <1>1
      <3>1. NoJob \in Job /\ term[h] \in Int
        BY <1>0, PushAssumption DEF PushType, NoJob
      <3>2. job' = [job EXCEPT ![j] = [NoJob EXCEPT !.at = "decided", !.human = h, !.term = term[h]]]
        BY <2>1 DEF deliverPush
      <3> QED
        BY <1>0, <3>1, <3>2 DEF PushType
    <2>2. ASSUME deliverJob(j), ~Member(job[j].human), job' = [job EXCEPT ![j].at = "done"]
          PROVE  <1>1
      BY <1>0, <2>2 DEF deliverJob, PushType
    <2>3. ASSUME deliverJob(j), NEW b \in Machines,
                 job' = [job EXCEPT ![j].at = "read", ![j].browser = b,
                                    ![j].device = subscription[b].device, ![j].gen = subscription[b].gen]
          PROVE  <1>1
      <3>1. /\ subscription[b].device \in 0 .. MaxDevices /\ subscription[b].gen \in Nat
            /\ job[j].human \in Owners /\ job \in [Sends -> Job]
        BY <1>0, <2>3 DEF deliverJob, PushType
      <3> DEFINE j1 == [job EXCEPT ![j].at = "read"]
                 j2 == [j1 EXCEPT ![j].browser = b]
                 j3 == [j2 EXCEPT ![j].device = subscription[b].device]
                 j4 == [j3 EXCEPT ![j].gen = subscription[b].gen]
      <3>2. /\ j1 \in [Sends -> Job] /\ j1[j].at = "read" /\ j1[j].human = job[j].human
            /\ \A k \in Sends : k # j => j1[k] = job[k]
        BY <3>1
      <3> HIDE DEF j1
      <3>3. /\ j2 \in [Sends -> Job] /\ j2[j].at = "read" /\ j2[j].human = job[j].human
            /\ j2[j].browser = b /\ \A k \in Sends : k # j => j2[k] = job[k]
        BY <3>2
      <3> HIDE DEF j2
      <3>4. /\ j3 \in [Sends -> Job] /\ j3[j].at = "read" /\ j3[j].human = job[j].human
            /\ j3[j].browser = b /\ \A k \in Sends : k # j => j3[k] = job[k]
        BY <3>1, <3>3
      <3> HIDE DEF j3
      <3>5. /\ j4 \in [Sends -> Job] /\ j4[j].at = "read" /\ j4[j].human = job[j].human
            /\ j4[j].browser = b /\ \A k \in Sends : k # j => j4[k] = job[k]
        BY <3>1, <3>4
      <3>6. job' = j4
        BY <2>3 DEF j1, j2, j3
      <3> HIDE DEF j4
      <3> QED
        BY <3>1, <3>5, <3>6
    <2> QED
      BY <2>1, <2>2, <2>3 DEF deliverJob, pushSubscriptionsForWith
  <1>2. PushType'
    BY <1>0, <1>1, <1>u DEF PushType
  <1>3. DevicesInOrder'
    BY <1>0, <1>u DEF DevicesInOrder
  <1>5. ASSUME NEW k \in Sends PROVE LeaseHolds(k)'
    <2>1. CASE k = j
      BY <1>1, <2>1 DEF LeaseHolds
    <2>2. CASE k # j
      BY <1>0, <1>1, <1>u, <2>2, LeaseFrame DEF Leased, LeaseHolds
    <2> QED
      BY <2>1, <2>2
  <1> QED
    BY <1>2, <1>3, <1>5 DEF PushInv

\* The lease is taken only after everything it rests on was read again under
\* its locks, and the endpoint's lock keeps a second lease off.
LEMMA PushAcquire ==
    ASSUME PushInv, NEW j \in Sends, acquirePushSendLease(j)
    PROVE  PushInv'
  <1>0. PushType /\ DevicesInOrder /\ \A k \in Sends : LeaseHolds(k)
    BY DEF PushInv
  <1>u. UNCHANGED <<user, cookie, device, devices, subscription, term>>
    BY DEF acquirePushSendLease
  <1>g. job[j].at = "read" /\ EndpointFree(job[j].browser)
    BY DEF acquirePushSendLease
  <1>1. PICK a \in {"leased", "done"} :
           /\ job' = [job EXCEPT ![j].at = a]
           /\ a = "leased" => /\ lockExactPushAudience(j) /\ StillThere(j)
                              /\ lockPushDevice(job[j].device, job[j].human)
    BY DEF acquirePushSendLease
  <1>2. /\ job'[j] = [job[j] EXCEPT !.at = a]
        /\ job'[j].at = a /\ job'[j].human = job[j].human /\ job'[j].term = job[j].term
        /\ job'[j].browser = job[j].browser /\ job'[j].device = job[j].device
        /\ job'[j].gen = job[j].gen
        /\ \A k \in Sends : k # j => job'[k] = job[k]
    BY <1>0, <1>1 DEF PushType
  <1>3. PushType'
    <2>1. job' \in [Sends -> [at : {"none", "decided", "read", "leased", "done"},
                          human : Owners \cup {NoOne}, term : Int,
                          browser : Machines \cup {NoOne},
                          device : 0 .. MaxDevices, gen : Nat]]
      <3> DEFINE Row == [at : {"none", "decided", "read", "leased", "done"},
                         human : Owners \cup {NoOne}, term : Int,
                         browser : Machines \cup {NoOne},
                         device : 0 .. MaxDevices, gen : Nat]
      <3>1. job \in [Sends -> Row] /\ job[j] \in Row
        BY <1>0 DEF PushType
      <3>2. [job[j] EXCEPT !.at = a] \in Row
        BY <3>1
      <3>3. job' = [job EXCEPT ![j] = [job[j] EXCEPT !.at = a]]
        BY <1>1
      <3> HIDE DEF Row
      <3>4. job' \in [Sends -> Row]
        BY <3>1, <3>2, <3>3
      <3> QED
        BY <3>4 DEF Row
    <2> QED
      BY <1>0, <1>2, <1>g, <1>u, <2>1 DEF PushType
  <1>4. DevicesInOrder'
    BY <1>0, <1>u DEF DevicesInOrder
  <1>5. ASSUME NEW k \in Sends PROVE LeaseHolds(k)'
    <2>1. CASE k = j
      <3> SUFFICES ASSUME a = "leased" PROVE LeaseHolds(j)'
        BY <1>2, <2>1 DEF LeaseHolds
      <3>1. StillThere(j)'
        BY <1>1, <1>2, <1>u DEF StillThere
      <3>2. /\ job[j].device # 0 /\ device[job[j].device].owner = job[j].human
            /\ device[job[j].device].state # "none"
            /\ term[job[j].human] = job[j].term /\ Member(job[j].human)
        BY <1>1 DEF lockPushDevice, lockExactPushAudience
      <3>3. ASSUME NEW i \in Leased', job'[i].browser = job'[j].browser PROVE i = j
        BY <1>2, <1>g, <3>3 DEF Leased, EndpointFree
      <3> QED
        BY <1>2, <1>u, <3>1, <3>2, <3>3 DEF LeaseHolds, Member
    <2>2. CASE k # j
      <3> SUFFICES ASSUME job[k].at = "leased" PROVE LeaseHolds(k)'
        BY <1>2, <2>2 DEF LeaseHolds
      <3>1. LeaseHolds(k) /\ k \in Leased /\ job'[k] = job[k]
        BY <1>0, <1>2, <2>2 DEF Leased
      <3>2. ASSUME NEW i \in Leased', job'[i].browser = job'[k].browser PROVE i = k
        <4>1. i # j
          <5>1. job[k].browser # job[j].browser
            BY <1>g, <3>1 DEF EndpointFree
          <5> QED
            BY <1>2, <3>1, <3>2, <5>1
        <4>2. i \in Leased /\ job'[i] = job[i]
          BY <1>2, <3>2, <4>1 DEF Leased
        <4> QED
          BY <3>1, <3>2, <4>2 DEF LeaseHolds
      <3>3. StillThere(k)'
        BY <1>u, <3>1 DEF LeaseHolds, StillThere
      <3> QED
        BY <1>u, <3>1, <3>2, <3>3 DEF LeaseHolds, Member
    <2> QED
      BY <2>1, <2>2
  <1> QED
    BY <1>3, <1>4, <1>5 DEF PushInv

\* A send that ends may delete its endpoint's row: no other lease is on it.
LEMMA PushSend ==
    ASSUME PushInv, NEW j \in Sends, send(j)
    PROVE  PushInv'
  <1>0. PushType /\ DevicesInOrder /\ \A k \in Sends : LeaseHolds(k)
    BY DEF PushInv
  <1>u. /\ UNCHANGED <<user, cookie, device, devices, term>>
        /\ job[j].at = "leased" /\ job' = [job EXCEPT ![j].at = "done"]
    BY DEF send
  <1>1. /\ \A b \in Machines : b # job[j].browser => subscription'[b] = subscription[b]
        /\ subscription' \in [Machines -> [human : Owners \cup {NoOne},
                                           device : 0 .. MaxDevices, gen : Nat]]
    <2>1. CASE UNCHANGED subscription
      BY <1>0, <2>1 DEF PushType
    <2>2. CASE subscription' = [subscription EXCEPT ![job[j].browser] = IF StillThere(j) THEN NoRow ELSE @]
      <3>1. 0 \in 0 .. MaxDevices
        BY PushAssumption
      <3>2. CASE StillThere(j)
        BY <1>0, <2>2, <3>1, <3>2 DEF PushType, NoRow
      <3>3. CASE ~StillThere(j)
        BY <1>0, <2>2, <3>3 DEF PushType
      <3> QED
        BY <3>2, <3>3
    <2> QED
      BY <2>1, <2>2 DEF send
  <1>2. /\ job'[j].at = "done" /\ \A k \in Sends : k # j => job'[k] = job[k]
        /\ job'[j].human = job[j].human /\ job'[j].browser = job[j].browser
    BY <1>0, <1>u DEF PushType
  <1>3. PushType'
    <2>1. job' \in [Sends -> [at : {"none", "decided", "read", "leased", "done"},
                          human : Owners \cup {NoOne}, term : Int,
                          browser : Machines \cup {NoOne},
                          device : 0 .. MaxDevices, gen : Nat]]
      BY <1>0, <1>u DEF PushType
    <2> QED
      BY <1>0, <1>1, <1>2, <1>u, <2>1 DEF PushType
  <1>4. DevicesInOrder'
    BY <1>0, <1>u DEF DevicesInOrder
  <1>5. ASSUME NEW k \in Sends PROVE LeaseHolds(k)'
    <2>1. CASE k = j
      BY <1>2, <2>1 DEF LeaseHolds
    <2>2. CASE k # j
      <3>1. ASSUME job[k].at = "leased"
            PROVE  subscription'[job[k].browser] = subscription[job[k].browser]
        <4>1. job[k].browser \in Machines /\ job[k].browser # job[j].browser
          BY <1>0, <1>u, <2>2, <3>1 DEF PushType, LeaseHolds, Leased
        <4> QED
          BY <1>1, <4>1
      <3>2. Leased' \subseteq Leased /\ \A i \in Leased : job'[i].at = "leased" => job'[i] = job[i]
        BY <1>2, <1>u DEF Leased
      <3> QED
        BY <1>0, <1>2, <1>u, <2>2, <3>1, <3>2, LeaseFrame DEF LeaseHolds
    <2> QED
      BY <2>1, <2>2
  <1> QED
    BY <1>3, <1>4, <1>5 DEF PushInv

\* A push goes out only to the endpoint, device and membership it was decided
\* for: acquirePushSendLease reads them again and holds their rows locked
\* until the push service has answered, so that no logout, takeover or
\* departure that commits in between can redirect the request.
THEOREM PushesStayWithTheirHuman == PushSpec => []PushStaysWithItsHuman
  <1>1. PushInv /\ [PushNext]_pushVars => PushInv'
    <2> SUFFICES ASSUME PushInv, [PushNext]_pushVars PROVE PushInv'
      OBVIOUS
    <2>1. CASE PushNext
      BY <2>1, PushDevices, PushSubscriptions, PushTerms, PushQuietSends, PushAcquire, PushSend
         DEF PushNext
    <2>2. CASE UNCHANGED pushVars
      BY <2>2 DEF pushVars, PushInv, PushType, DevicesInOrder, LeaseHolds, StillThere, Leased, Member
    <2> QED
      BY <2>1, <2>2
  <1>2. PushInv => PushStaysWithItsHuman
    <2> SUFFICES ASSUME PushInv, NEW j \in Sends, job[j].at = "leased"
                 PROVE  /\ subscription[job[j].browser].human = job[j].human
                        /\ subscription[job[j].browser].device = job[j].device
                        /\ device[job[j].device].owner = job[j].human
                        /\ device[job[j].device].state # "none"
                        /\ term[job[j].human] = job[j].term /\ Member(job[j].human)
      BY DEF PushStaysWithItsHuman
    <2>1. LeaseHolds(j)
      BY DEF PushInv
    <2>2. StillThere(j)
      BY <2>1 DEF LeaseHolds
    <2>3. /\ subscription[job[j].browser].human = job[j].human
          /\ subscription[job[j].browser].device = job[j].device
      BY <2>2 DEF StillThere
    <2> QED
      BY <2>1, <2>3 DEF LeaseHolds
  <1> QED
    BY <1>1, <1>2, PushInvInit, PTL DEF PushSpec

-----------------------------------------------------------------------------
(* What calls cost *)

CallPhases == {"none", "asking", "denied", "sending", "over"}
HoldStates == {"none", "held", "settled", "released"}
FactStates == {"none", "reported", "unknown", "unrecorded", "not_sent"}
CallRows == [at : CallPhases, gen : Int, turn : Int, src : Sources \cup {"none"},
             est : Estimates \cup {NoEstimate}, sent : BOOLEAN, use : Uses \cup {NoUse}]
HoldRows == [st : HoldStates, src : Sources \cup {"none"}, minor : Int,
             card : Cards \cup {NoCard}, gen : Int, turn : Int]
FactRows == [st : FactStates, use : Uses \cup {NoUse}, cost : Int, cur : Currencies \cup {"none"}]
InputRows == [st : {"queued", "claimed", "waiting"}, gen : Int, turn : Int]
ReportRows == [c : CallIds, st : {"reported", "unknown", "not_sent"}, use : Uses \cup {NoUse}]

UsageType ==
    /\ budget \in [Sources -> Cards \cup {NoCard}] /\ selected \in Sources
    /\ writer \in [Spenders -> Int] /\ input \in [Spenders -> InputRows]
    /\ call \in [CallIds -> CallRows] /\ hold \in [CallIds -> HoldRows]
    /\ fact \in [CallIds -> FactRows] /\ report \in SUBSET ReportRows

\* Where a call is in the core says what the store may know of it.
CallKnown(c) ==
    /\ call[c].at = "none" => hold[c].st = "none"
    /\ call[c].at # "none" => call[c].src \in Sources
    /\ hold[c].st # "none" => hold[c].src = call[c].src
    /\ call[c].at = "sending" => hold[c].st # "none"
    /\ call[c].sent => call[c].at = "over"
    /\ fact[c].st \in {"reported", "unknown", "not_sent"} => call[c].at = "over"
ReportTrue(m) ==
    /\ call[m.c].at = "over" /\ hold[m.c].st # "none"
    /\ m.st = "reported" => call[m.c].sent /\ m.use = call[m.c].use
    /\ m.st = "not_sent" => ~call[m.c].sent
Counted(c) ==
    LET h == hold[c]  f == fact[c]
    IN /\ h.st \in {"none", "held"} <=> f.st = "none"
       /\ h.st = "released" <=> f.st = "not_sent"
       /\ call[c].sent => h.st \in {"held", "settled"} /\ h.src = call[c].src
       /\ f.st \in {"unknown", "unrecorded"} => f.cost = h.minor /\ f.cur = h.card.cur
       /\ f.st = "reported" => call[c].sent
       /\ f.st = "reported" /\ h.card # NoCard =>
              f.cost = priceReported(call[c].use, h.card) /\ f.cur = h.card.cur
CallOK(c) == CallKnown(c) /\ Counted(c)
UsageInv ==
    /\ UsageType
    /\ \A c \in CallIds : CallOK(c)
    /\ \A m \in report : ReportTrue(m)

LEMMA TokenPrices ==
    ASSUME NEW t \in Nat, NEW r \in Nat PROVE priceTokens(t, r) \in Int
  <1>1. t * r \in Nat
    OBVIOUS
  <1>2. (t * r + PerMTok - 1) \in Int /\ PerMTok \in Int /\ PerMTok > 0
    BY <1>1, UsageAssumption
  <1> QED
    BY <1>2 DEF priceTokens

LEMMA EstimatePrices ==
    ASSUME NEW e \in Estimates \cup {NoEstimate}, NEW k \in Cards \cup {NoCard}
    PROVE  priceEstimate(e, k) \in Int
  <1>1. e.in \in Nat /\ e.out \in Nat \cup {-1} /\ k.in \in Nat /\ k.out \in Nat
    BY UsageAssumption DEF NoEstimate, NoCard
  <1>2. priceTokens(e.in, k.in) \in Int
    BY <1>1, TokenPrices
  <1>3. e.out # -1 => priceTokens(e.out, k.out) \in Int
    BY <1>1, TokenPrices
  <1> QED
    BY <1>2, <1>3 DEF priceEstimate

LEMMA UsePrices ==
    ASSUME NEW u \in Uses \cup {NoUse}, NEW k \in Cards \cup {NoCard}
    PROVE  priceReported(u, k) \in Int
  <1> DEFINE r == IF k.cached = -1 THEN k.in ELSE k.cached
  <1>1. /\ u.in \in Nat /\ u.out \in Nat /\ u.cached \in Nat
        /\ k.in \in Nat /\ k.out \in Nat /\ r \in Nat
    BY UsageAssumption DEF NoUse, NoCard
  <1> HIDE DEF r
  <1>2. priceTokens(u.in, k.in) \in Int /\ priceTokens(u.out, k.out) \in Int
    BY <1>1, TokenPrices
  <1>3. priceTokens(u.cached, r) \in Int
    BY <1>1, TokenPrices
  <1> QED
    BY <1>2, <1>3 DEF priceReported, r

LEMMA CardTypes ==
    ASSUME NEW k \in Cards \cup {NoCard} PROVE k.cur \in Currencies \cup {"none"}
  <1>1. CASE k = NoCard
    BY <1>1 DEF NoCard
  <1>2. CASE k \in Cards
    BY <1>2 DEF Currencies
  <1> QED
    BY <1>1, <1>2

LEMMA TurnNumbers ==
    ASSUME NEW p \in Spenders PROVE Cardinality(CallsOf(p)) + 1 \in Int
  <1>1. IsFiniteSet({p}) /\ IsFiniteSet(1 .. MaxFacts)
    <2>1. 1 \in Int /\ MaxFacts \in Int
      BY UsageAssumption
    <2>2. IsFiniteSet(1 .. MaxFacts)
      BY <2>1, FS_Interval
    <2>3. IsFiniteSet({p})
      BY FS_Singleton
    <2> QED
      BY <2>2, <2>3
  <1>2. IsFiniteSet({p} \X (1 .. MaxFacts))
    BY <1>1, FS_Product
  <1>3. CallsOf(p) \subseteq {p} \X (1 .. MaxFacts)
    BY DEF CallsOf, CallIds
  <1>4. Cardinality(CallsOf(p)) \in Nat
    BY <1>2, <1>3, FS_Subset, FS_CardinalityType
  <1> QED
    BY <1>4

LEMMA UsageInvInit == UsageInit => UsageInv
  <1> SUFFICES ASSUME UsageInit PROVE UsageInv
    OBVIOUS
  <1>1. /\ NoCall \in CallRows /\ NoHold \in HoldRows /\ NoFact \in FactRows
        /\ [st |-> "queued", gen |-> 0, turn |-> 0] \in InputRows
    <2>1. NoCall \in CallRows
      BY DEF NoCall, CallRows, CallPhases
    <2>2. NoHold \in HoldRows
      BY DEF NoHold, HoldRows, HoldStates
    <2>3. NoFact \in FactRows
      BY DEF NoFact, FactRows, FactStates
    <2> QED
      BY <2>1, <2>2, <2>3 DEF InputRows
  <1>2. UsageType
    BY <1>1 DEF UsageInit, UsageType
  <1>3. ASSUME NEW c \in CallIds PROVE CallOK(c)
    BY DEF UsageInit, CallOK, CallKnown, Counted, NoCall, NoHold, NoFact
  <1> QED
    BY <1>2, <1>3 DEF UsageInv, UsageInit

\* Steps that leave calls, holds, facts and reports alone.
LEMMA UsageFrame ==
    ASSUME UsageInv, UNCHANGED <<call, hold, fact, report>>, UsageType'
    PROVE  UsageInv'
  BY DEF UsageInv, CallOK, CallKnown, Counted, ReportTrue

\* Steps about one call: what holds of the others does not change.
LEMMA OneCallChanges ==
    ASSUME UsageInv, UsageType', NEW c \in CallIds,
           \A x \in CallIds \ {c} : call'[x] = call[x] /\ hold'[x] = hold[x] /\ fact'[x] = fact[x],
           CallOK(c)',
           \A m \in report' : ReportTrue(m)' \/ (m \in report /\ m.c # c)
    PROVE  UsageInv'
  <1>1. ASSUME NEW x \in CallIds PROVE CallOK(x)'
    <2>1. CASE x # c
      BY <2>1 DEF UsageInv, CallOK, CallKnown, Counted
    <2> QED
      BY <2>1
  <1>2. ASSUME NEW m \in report' PROVE ReportTrue(m)'
    <2>1. CASE m \in report /\ m.c # c
      <3>1. m.c \in CallIds \ {c}
        BY <2>1 DEF UsageInv, UsageType, ReportRows
      <3> QED
        BY <2>1, <3>1 DEF UsageInv, ReportTrue
    <2> QED
      BY <2>1
  <1> QED
    BY <1>1, <1>2 DEF UsageInv

LEMMA ResumeTypes ==
    ASSUME UsageType, NEW ps \in SUBSET Spenders, Resumes(ps)
    PROVE  input' \in [Spenders -> InputRows]
  <1>1. Queued \in InputRows
    BY DEF Queued, InputRows
  <1> QED
    BY <1>1 DEF UsageType, Resumes

LEMMA SettingSteps ==
    ASSUME UsageInv,
           \/ \E p \in Spenders : LoadTurn(p) \/ AcquireWriter(p)
           \/ \E s \in Sources : \/ \E card \in Cards : SetBudget(s, card)
                                 \/ ClearBudget(s) \/ SelectSource(s) \/ ResumeWaitsForFunding(s)
           \/ ResumeWaitsForHuman
           \/ UNCHANGED usageVars
    PROVE  UsageInv'
  <1> USE DEF UsageInv
  <1>1. ASSUME NEW p \in Spenders, LoadTurn(p) PROVE UsageInv'
    <2>1. [st |-> "claimed", gen |-> writer[p], turn |-> Cardinality(CallsOf(p)) + 1] \in InputRows
      BY TurnNumbers DEF UsageType, InputRows
    <2>2. UsageType' /\ UNCHANGED <<call, hold, fact, report>>
      BY <1>1, <2>1 DEF LoadTurn, UsageType
    <2> QED
      BY <2>2, UsageFrame
  <1>2. ASSUME NEW p \in Spenders, AcquireWriter(p) PROVE UsageInv'
    <2>1. UsageType' /\ UNCHANGED <<call, hold, fact, report>>
      BY <1>2 DEF AcquireWriter, UsageType
    <2> QED
      BY <2>1, UsageFrame
  <1>3. ASSUME NEW s \in Sources, NEW card \in Cards, SetBudget(s, card) PROVE UsageInv'
    <2>1. UsageType' /\ UNCHANGED <<call, hold, fact, report>>
      BY <1>3 DEF SetBudget, UsageType
    <2> QED
      BY <2>1, UsageFrame
  <1>4. ASSUME NEW s \in Sources, ClearBudget(s) \/ SelectSource(s) PROVE UsageInv'
    <2>1. UsageType' /\ UNCHANGED <<call, hold, fact, report>>
      BY <1>4 DEF ClearBudget, SelectSource, UsageType
    <2> QED
      BY <2>1, UsageFrame
  <1>5. ASSUME NEW s \in Sources, ResumeWaitsForFunding(s) PROVE UsageInv'
    <2>1. input' \in [Spenders -> InputRows]
      BY <1>5, ResumeTypes DEF ResumeWaitsForFunding, resumeFundingWaitsTx
    <2>2. UsageType' /\ UNCHANGED <<call, hold, fact, report>>
      BY <1>5, <2>1 DEF ResumeWaitsForFunding, UsageType
    <2> QED
      BY <2>2, UsageFrame
  <1>6. ASSUME ResumeWaitsForHuman PROVE UsageInv'
    <2>1. input' \in [Spenders -> InputRows]
      BY <1>6, ResumeTypes DEF ResumeWaitsForHuman
    <2>2. UsageType' /\ UNCHANGED <<call, hold, fact, report>>
      BY <1>6, <2>1 DEF ResumeWaitsForHuman, UsageType
    <2> QED
      BY <2>2, UsageFrame
  <1>7. ASSUME UNCHANGED usageVars PROVE UsageInv'
    <2>1. UsageType' /\ UNCHANGED <<call, hold, fact, report>>
      BY <1>7 DEF usageVars, UsageType
    <2> QED
      BY <2>1, UsageFrame
  <1> QED
    BY <1>1, <1>2, <1>3, <1>4, <1>5, <1>6, <1>7

LEMMA CoreSteps ==
    ASSUME UsageInv,
           \/ \E p \in Spenders, n \in 1 .. MaxFacts, est \in Estimates : StartCall(p, n, est)
           \/ \E c \in CallIds : \/ AdmissionFails(c) \/ NotStreamed(c) \/ CompleteReport(c)
                                 \/ \E use \in Uses : Streamed(c, use)
    PROVE  UsageInv'
  <1>0. UsageType /\ (\A c \in CallIds : CallOK(c)) /\ \A m \in report : ReportTrue(m)
    BY DEF UsageInv
  <1>1. ASSUME NEW p \in Spenders, NEW n \in 1 .. MaxFacts, NEW est \in Estimates, StartCall(p, n, est)
        PROVE  UsageInv'
    <2> DEFINE c == <<p, n>>
               row == [NoCall EXCEPT !.at = "asking", !.gen = writer[p],
                         !.turn = input[p].turn, !.src = selected, !.est = est]
    <2>1. c \in CallIds
      BY DEF CallIds
    <2>2. /\ call[c].at = "none" /\ call' = [call EXCEPT ![c] = row]
          /\ UNCHANGED <<budget, selected, writer, input, hold, fact, report>>
      BY <1>1 DEF StartCall
    <2>3. row \in CallRows /\ row.at = "asking" /\ ~row.sent /\ row.src \in Sources
      BY <1>0 DEF NoCall, CallRows, UsageType, InputRows, CallPhases
    <2> HIDE DEF row, c
    <2>4. UsageType'
      BY <1>0, <2>1, <2>2, <2>3 DEF UsageType
    <2>5. call'[c] = row /\ \A x \in CallIds \ {c} : call'[x] = call[x]
      BY <1>0, <2>1, <2>2 DEF UsageType
    <2>6. CallOK(c)'
      BY <1>0, <2>1, <2>2, <2>3, <2>5 DEF CallOK, CallKnown, Counted
    <2>7. \A m \in report : m.c # c
      BY <1>0, <2>2 DEF ReportTrue
    <2> QED
      BY <2>1, <2>2, <2>4, <2>5, <2>6, <2>7, OneCallChanges
  <1>2. ASSUME NEW c \in CallIds, AdmissionFails(c) PROVE UsageInv'
    <2> DEFINE row == [call[c] EXCEPT !.at = "over"]
    <2>1. /\ call[c].at = "asking" /\ call' = [call EXCEPT ![c] = row]
          /\ UNCHANGED <<budget, selected, writer, input, hold, fact, report>>
      BY <1>2 DEF AdmissionFails
    <2>2. row \in CallRows /\ row.at = "over" /\ row.sent = call[c].sent /\ row.src = call[c].src /\ row.use = call[c].use
      BY <1>0 DEF CallRows, UsageType, CallPhases
    <2> HIDE DEF row
    <2>3. UsageType'
      BY <1>0, <2>1, <2>2 DEF UsageType
    <2>4. call'[c] = row /\ \A x \in CallIds \ {c} : call'[x] = call[x]
      BY <1>0, <2>1 DEF UsageType
    <2>5. CallOK(c)'
      BY <1>0, <2>1, <2>2, <2>4 DEF CallOK, CallKnown, Counted
    <2>6. \A m \in report : m.c # c
      BY <1>0, <2>1 DEF ReportTrue
    <2> QED
      BY <2>1, <2>3, <2>4, <2>5, <2>6, OneCallChanges
  <1>3. ASSUME NEW c \in CallIds, NotStreamed(c) PROVE UsageInv'
    <2> DEFINE row == [call[c] EXCEPT !.at = "over"]
    <2>1. PICK st \in {"not_sent", "unknown"} :
            /\ call[c].at = "sending" /\ call' = [call EXCEPT ![c] = row]
            /\ report' = report \cup {Report(c, st, NoUse)}
            /\ UNCHANGED <<budget, selected, writer, input, hold, fact>>
      BY <1>3 DEF NotStreamed
    <2>2. row \in CallRows /\ row.at = "over" /\ row.sent = call[c].sent /\ row.src = call[c].src /\ row.use = call[c].use
      BY <1>0 DEF CallRows, UsageType, CallPhases
    <2>r. Report(c, st, NoUse) \in ReportRows /\ Report(c, st, NoUse).c = c /\ Report(c, st, NoUse).st = st
      BY DEF Report, ReportRows
    <2> HIDE DEF row
    <2>3. UsageType'
      BY <1>0, <2>1, <2>2, <2>r DEF UsageType
    <2>4. call'[c] = row /\ \A x \in CallIds \ {c} : call'[x] = call[x]
      BY <1>0, <2>1 DEF UsageType
    <2>5. CallOK(c)'
      BY <1>0, <2>1, <2>2, <2>4 DEF CallOK, CallKnown, Counted
    <2>6. \A m \in report : m.c # c
      BY <1>0, <2>1 DEF ReportTrue
    <2>7. ReportTrue(Report(c, st, NoUse))'
      BY <1>0, <2>1, <2>2, <2>4, <2>r DEF ReportTrue, CallOK, CallKnown
    <2> QED
      BY <2>1, <2>3, <2>4, <2>5, <2>6, <2>7, OneCallChanges
  <1>4. ASSUME NEW c \in CallIds, NEW use \in Uses, Streamed(c, use) PROVE UsageInv'
    <2> DEFINE row == [call[c] EXCEPT !.at = "over", !.sent = TRUE, !.use = use]
    <2>1. PICK r \in {Report(c, "reported", use), Report(c, "unknown", NoUse)} :
            /\ call[c].at = "sending" /\ call' = [call EXCEPT ![c] = row]
            /\ report' = report \cup {r}
            /\ UNCHANGED <<budget, selected, writer, input, hold, fact>>
      BY <1>4 DEF Streamed
    <2>2. row \in CallRows /\ row.at = "over" /\ row.sent /\ row.src = call[c].src /\ row.use = use
      BY <1>0 DEF CallRows, UsageType, CallPhases
    <2>r. r \in ReportRows /\ r.c = c /\ r.st \in {"reported", "unknown"} /\ (r.st = "reported" => r.use = use)
      BY DEF Report, ReportRows
    <2> HIDE DEF row
    <2>3. UsageType'
      BY <1>0, <2>1, <2>2, <2>r DEF UsageType
    <2>4. call'[c] = row /\ \A x \in CallIds \ {c} : call'[x] = call[x]
      BY <1>0, <2>1 DEF UsageType
    <2>5. CallOK(c)'
      <3>1. hold[c].st \in HoldStates /\ fact[c].st \in FactStates
        BY <1>0 DEF UsageType, HoldRows, FactRows
      <3> QED
        BY <1>0, <2>1, <2>2, <2>4, <3>1 DEF CallOK, CallKnown, Counted, HoldStates, FactStates
    <2>6. \A m \in report : m.c # c
      BY <1>0, <2>1 DEF ReportTrue
    <2>7. ReportTrue(r)'
      BY <1>0, <2>1, <2>2, <2>4, <2>r DEF ReportTrue, CallOK, CallKnown
    <2> QED
      BY <2>1, <2>3, <2>4, <2>5, <2>6, <2>7, OneCallChanges
  <1>5. ASSUME NEW c \in CallIds, CompleteReport(c) PROVE UsageInv'
    <2> DEFINE r == Report(c, "reported", call[c].use)
    <2>1. /\ call[c].at = "over" /\ call[c].sent /\ report' = report \cup {r}
          /\ UNCHANGED <<budget, selected, writer, input, call, hold, fact>>
      BY <1>5 DEF CompleteReport
    <2>2. r \in ReportRows /\ r.c = c /\ r.st = "reported" /\ r.use = call[c].use
      BY <1>0 DEF Report, ReportRows, UsageType, CallRows
    <2> HIDE DEF r
    <2>3. UsageType'
      BY <1>0, <2>1, <2>2 DEF UsageType
    <2>4. CallOK(c)'
      BY <1>0, <2>1 DEF CallOK, CallKnown, Counted
    <2>5. ASSUME NEW m \in report' PROVE ReportTrue(m)'
      BY <1>0, <2>1, <2>2 DEF ReportTrue, CallOK, Counted
    <2> QED
      BY <2>1, <2>3, <2>4, <2>5, OneCallChanges
  <1> QED
    BY <1>1, <1>2, <1>3, <1>4, <1>5

LEMMA AdmitSteps ==
    ASSUME UsageInv, NEW c \in CallIds, AdmitUsage(c)
    PROVE  UsageInv'
  <1>0. UsageType /\ (\A x \in CallIds : CallOK(x)) /\ \A m \in report : ReportTrue(m)
    BY DEF UsageInv
  <1>1. /\ call[c].at = "asking"
        /\ UNCHANGED <<budget, selected, writer, input, fact, report>>
    BY DEF AdmitUsage
  <1>2. \A m \in report : m.c # c
    BY <1>0, <1>1 DEF ReportTrue
  <1>3. ASSUME NEW at \in {"over", "sending", "denied", "asking"}, call' = [call EXCEPT ![c].at = at],
               NEW r \in HoldRows, hold' = [hold EXCEPT ![c] = r],
               r = hold[c] \/ (hold[c].st = "none" /\ r.st = "held" /\ r.src = call[c].src),
               at = "sending" => r.st # "none"
        PROVE  UsageInv'
    <2>1. /\ call'[c] = [call[c] EXCEPT !.at = at]
          /\ \A x \in CallIds \ {c} : call'[x] = call[x] /\ hold'[x] = hold[x]
          /\ hold'[c] = r
      BY <1>0, <1>3 DEF UsageType
    <2>2. call'[c] \in CallRows /\ call'[c].at = at /\ call'[c].sent = call[c].sent
            /\ call'[c].src = call[c].src /\ call'[c].use = call[c].use
      BY <1>0, <2>1 DEF UsageType, CallRows, CallPhases
    <2>3. call' \in [CallIds -> CallRows] /\ hold' \in [CallIds -> HoldRows]
      <3>1. call' = [call EXCEPT ![c] = call'[c]]
        BY <1>3, <2>1
      <3> QED
        BY <1>0, <1>3, <2>2, <3>1 DEF UsageType
    <2>4. UsageType'
      BY <1>0, <1>1, <2>3 DEF UsageType
    <2>5. CallOK(c)'
      BY <1>0, <1>1, <1>3, <2>1, <2>2 DEF CallOK, CallKnown, Counted
    <2> QED
      BY <1>1, <1>2, <2>1, <2>4, <2>5, OneCallChanges
  <1>4. hold[c] \in HoldRows /\ hold = [hold EXCEPT ![c] = hold[c]]
    BY <1>0 DEF UsageType
  <1>5. CASE AdmissionRefused(c) /\ call' = [call EXCEPT ![c].at = "over"] /\ UNCHANGED hold
    BY <1>3, <1>4, <1>5
  <1>6. CASE hold[c].st = "held" /\ call' = [call EXCEPT ![c].at = "sending"] /\ UNCHANGED hold
    BY <1>3, <1>4, <1>6
  <1>7. CASE call' = [call EXCEPT ![c].at = "denied"] /\ UNCHANGED hold
    BY <1>3, <1>4, <1>7
  <1>8. ASSUME hold[c].st = "none", hold' = [hold EXCEPT ![c] = Reservation(c)],
               NEW at \in {"sending", "asking"}, call' = [call EXCEPT ![c].at = at]
        PROVE  UsageInv'
    <2> DEFINE s == call[c].src
               minor == IF budget[s] = NoCard THEN 0 ELSE priceEstimate(call[c].est, budget[s])
    <2>1. s \in Sources
      BY <1>0, <1>1 DEF CallOK, CallKnown
    <2>2. budget[s] \in Cards \cup {NoCard} /\ call[c].est \in Estimates \cup {NoEstimate}
      BY <1>0, <2>1 DEF UsageType, CallRows
    <2>3. minor \in Int
      BY <2>2, EstimatePrices
    <2> HIDE DEF minor
    <2>4. Reservation(c) = [st |-> "held", src |-> s, card |-> budget[s], gen |-> call[c].gen,
                            turn |-> call[c].turn, minor |-> minor]
      BY DEF Reservation, minor
    <2>5. call[c].gen \in Int /\ call[c].turn \in Int
      BY <1>0 DEF UsageType, CallRows
    <2>6. Reservation(c) \in HoldRows /\ Reservation(c).st = "held" /\ Reservation(c).src = call[c].src
      BY <2>1, <2>2, <2>3, <2>4, <2>5 DEF HoldRows, HoldStates
    <2> QED
      BY <1>3, <1>8, <2>6
  <1> QED
    BY <1>5, <1>6, <1>7, <1>8 DEF AdmitUsage

\* A hold that is reconciled becomes a charge of its estimate.
LEMMA ReconcileKeeps ==
    ASSUME UsageInv, NEW which, Reconciled(which),
           UNCHANGED <<budget, selected, report>>,
           writer' \in [Spenders -> Int], input' \in [Spenders -> InputRows],
           call' \in [CallIds -> CallRows],
           \A c \in CallIds : \/ call'[c] = call[c]
                              \/ call[c].at = "denied" /\ call'[c] = [call[c] EXCEPT !.at = "over"]
    PROVE  UsageInv'
  <1>0. UsageType /\ (\A c \in CallIds : CallOK(c)) /\ \A m \in report : ReportTrue(m)
    BY DEF UsageInv
  <1>1. ASSUME NEW c \in CallIds
        PROVE  /\ hold'[c] \in HoldRows /\ fact'[c] \in FactRows /\ CallOK(c)'
               /\ hold[c].st # "none" => hold'[c].st # "none"
    <2> DEFINE ghost == [st |-> "unrecorded", use |-> NoUse, cost |-> hold[c].minor,
                         cur |-> hold[c].card.cur]
               row == [hold[c] EXCEPT !.st = "settled"]
    <2>1. hold[c] \in HoldRows /\ fact[c] \in FactRows /\ call[c] \in CallRows
      BY <1>0 DEF UsageType
    <2>2. hold[c].minor \in Int /\ hold[c].card.cur \in Currencies \cup {"none"}
      BY <2>1, CardTypes DEF HoldRows
    <2>3. ghost \in FactRows /\ ghost.st = "unrecorded" /\ ghost.cost = hold[c].minor
          /\ ghost.cur = hold[c].card.cur
      BY <2>2 DEF FactRows, FactStates
    <2>4. row \in HoldRows /\ row.st = "settled" /\ row.src = hold[c].src
          /\ row.minor = hold[c].minor /\ row.card = hold[c].card
      BY <2>1 DEF HoldRows, HoldStates
    <2>5. \/ hold'[c] = hold[c] /\ fact'[c] = fact[c]
          \/ hold[c].st = "held" /\ hold'[c] = row /\ fact'[c] = ghost
      BY <1>0 DEF Reconciled, Ghosts, CallOK, Counted
    <2> HIDE DEF ghost, row
    <2>6. call'[c].sent = call[c].sent /\ call'[c].src = call[c].src /\ call'[c].use = call[c].use
          /\ (call'[c].at = call[c].at \/ (call[c].at = "denied" /\ call'[c].at = "over"))
      BY <2>1 DEF CallRows
    <2>7. CallOK(c)'
      <3>1. CASE hold'[c] = hold[c] /\ fact'[c] = fact[c]
        BY <1>0, <2>6, <3>1 DEF CallOK, CallKnown, Counted
      <3>2. CASE hold[c].st = "held" /\ hold'[c] = row /\ fact'[c] = ghost
        BY <1>0, <2>3, <2>4, <2>6, <3>2 DEF CallOK, CallKnown, Counted
      <3> QED
        BY <2>5, <3>1, <3>2
    <2> QED
      BY <2>1, <2>3, <2>4, <2>5, <2>7
  <1>2. UsageType'
    <2>1. hold' \in [CallIds -> HoldRows] /\ fact' \in [CallIds -> FactRows]
      BY <1>1 DEF Reconciled
    <2> QED
      BY <1>0, <2>1 DEF UsageType
  <1>3. ASSUME NEW m \in report' PROVE ReportTrue(m)'
    <2>1. m \in report /\ m.c \in CallIds
      BY <1>0 DEF UsageType, ReportRows
    <2>2. call'[m.c] = call[m.c]
      BY <1>0, <2>1 DEF ReportTrue
    <2> QED
      BY <1>0, <1>1, <2>1, <2>2 DEF ReportTrue
  <1> QED
    BY <1>1, <1>2, <1>3 DEF UsageInv

LEMMA ReconcilingSteps ==
    ASSUME UsageInv,
           \/ \E p \in Spenders : CommitTurn(p) \/ Recover(p) \/ Seal(p)
           \/ \E c \in CallIds : CommitAwait(c[1], c)
    PROVE  UsageInv'
  <1>0. UsageType
    BY DEF UsageInv
  <1>1. Queued \in InputRows /\ [Queued EXCEPT !.st = "waiting"] \in InputRows
    BY DEF Queued, InputRows
  <1>2. ASSUME NEW p \in Spenders, CommitTurn(p) PROVE UsageInv'
    <2>1. /\ Reconciled(HoldsOfTurn(p)) /\ input' = [input EXCEPT ![p] = Queued]
          /\ UNCHANGED <<budget, selected, writer, call, report>>
      BY <1>2 DEF CommitTurn, reconcileHeldReservations
    <2>2. input' \in [Spenders -> InputRows] /\ writer' \in [Spenders -> Int]
          /\ call' \in [CallIds -> CallRows]
      BY <1>0, <1>1, <2>1 DEF UsageType
    <2> QED
      BY <2>1, <2>2, ReconcileKeeps
  <1>3. ASSUME NEW p \in Spenders, Recover(p) PROVE UsageInv'
    <2> DEFINE which == {c \in CallIds : c[1] = p /\ hold[c].gen < writer[p]}
    <2>1. /\ Reconciled(which)
          /\ input' = [input EXCEPT ![p] = IF @.st = "claimed" /\ @.gen # writer[p] THEN Queued ELSE @]
          /\ UNCHANGED <<budget, selected, writer, call, report>>
      BY <1>3 DEF Recover, reconcileHeldReservations
    <2> HIDE DEF which
    <2>2. input' \in [Spenders -> InputRows] /\ writer' \in [Spenders -> Int]
          /\ call' \in [CallIds -> CallRows]
      BY <1>0, <1>1, <2>1 DEF UsageType
    <2> QED
      BY <2>1, <2>2, ReconcileKeeps
  <1>4. ASSUME NEW p \in Spenders, Seal(p) PROVE UsageInv'
    <2> DEFINE which == {c \in CallIds : c[1] = p}
    <2>1. /\ Reconciled(which) /\ Resumes({p}) /\ writer' = [writer EXCEPT ![p] = 0]
          /\ UNCHANGED <<budget, selected, call, report>>
      BY <1>4 DEF Seal, ReconcileRetiredReservations, reconcileHeldReservations
    <2> HIDE DEF which
    <2>2. input' \in [Spenders -> InputRows]
      BY <1>0, <2>1, ResumeTypes
    <2>3. writer' \in [Spenders -> Int] /\ call' \in [CallIds -> CallRows]
      BY <1>0, <2>1 DEF UsageType
    <2> QED
      BY <2>1, <2>2, <2>3, ReconcileKeeps
  <1>5. ASSUME NEW c \in CallIds, CommitAwait(c[1], c) PROVE UsageInv'
    <2> DEFINE p == c[1]
               row == [call[c] EXCEPT !.at = "over"]
    <2>1. p \in Spenders
      BY DEF CallIds
    <2>2. /\ Reconciled(HoldsOfTurn(p)) /\ call[c].at = "denied"
          /\ call' = [call EXCEPT ![c] = row]
          /\ UNCHANGED <<budget, selected, writer, report>>
      BY <1>5 DEF CommitAwait, reconcileHeldReservations
    <2>3. \/ input' = [input EXCEPT ![p] = Queued]
          \/ input' = [input EXCEPT ![p] = [Queued EXCEPT !.st = "waiting"]]
      BY <1>5 DEF CommitAwait
    <2> HIDE DEF p
    <2>4. row \in CallRows
      BY <1>0 DEF UsageType, CallRows, CallPhases
    <2>5. /\ input' \in [Spenders -> InputRows] /\ writer' \in [Spenders -> Int]
          /\ call' \in [CallIds -> CallRows] /\ call'[c] = row
          /\ \A x \in CallIds \ {c} : call'[x] = call[x]
      <3> HIDE DEF row
      <3> QED
        BY <1>0, <1>1, <2>1, <2>2, <2>3, <2>4 DEF UsageType
    <2> QED
      BY <2>2, <2>5, ReconcileKeeps
  <1> QED
    BY <1>2, <1>3, <1>4, <1>5

\* What a report is recorded as.
LEMMA PricedTypes ==
    ASSUME UsageInv, NEW m \in report
    PROVE  /\ m \in ReportRows /\ m.c \in CallIds /\ hold[m.c].src \in Sources
           /\ Card(m.c) \in Cards \cup {NoCard} /\ Priced(m) \in FactRows /\ Priced(m).st = m.st
           /\ m.st = "unknown" => Priced(m).cost = hold[m.c].minor /\ Priced(m).cur = hold[m.c].card.cur
           /\ m.st = "reported" /\ hold[m.c].card # NoCard =>
                 /\ Priced(m).cost = priceReported(m.use, hold[m.c].card)
                 /\ Priced(m).cur = hold[m.c].card.cur
  <1>0. UsageType /\ (\A c \in CallIds : CallOK(c)) /\ ReportTrue(m)
    BY DEF UsageInv
  <1>1. m \in ReportRows /\ m.c \in CallIds /\ m.use \in Uses \cup {NoUse}
        /\ m.st \in {"reported", "unknown", "not_sent"}
    BY <1>0 DEF UsageType, ReportRows
  <1>2. hold[m.c] \in HoldRows /\ hold[m.c].src \in Sources
    <2>1. hold[m.c] \in HoldRows
      BY <1>0, <1>1 DEF UsageType
    <2> QED
      BY <1>0, <1>1, <2>1 DEF ReportTrue, CallOK, CallKnown
  <1>3. hold[m.c].card \in Cards \cup {NoCard} /\ hold[m.c].minor \in Int
        /\ budget[hold[m.c].src] \in Cards \cup {NoCard}
    BY <1>0, <1>2 DEF UsageType, HoldRows
  <1>4. Card(m.c) \in Cards \cup {NoCard}
    BY <1>3 DEF Card, CardNow
  <1>5. /\ priceReported(m.use, Card(m.c)) \in Int /\ Card(m.c).cur \in Currencies \cup {"none"}
        /\ hold[m.c].card.cur \in Currencies \cup {"none"}
    BY <1>1, <1>3, <1>4, UsePrices, CardTypes
  <1>6. /\ priceRecord(m).cost \in Int /\ priceRecord(m).cur \in Currencies \cup {"none"}
        /\ m.st = "unknown" => priceRecord(m).cost = hold[m.c].minor
                               /\ priceRecord(m).cur = hold[m.c].card.cur
        /\ m.st = "reported" /\ Card(m.c) # NoCard =>
              priceRecord(m).cost = priceReported(m.use, Card(m.c)) /\ priceRecord(m).cur = Card(m.c).cur
    <2>1. CASE m.st = "reported" /\ Card(m.c) # NoCard
      BY <2>1, <1>5 DEF priceRecord
    <2>2. CASE m.st = "reported" /\ Card(m.c) = NoCard
      BY <2>2 DEF priceRecord
    <2>3. CASE m.st = "unknown"
      BY <2>3, <1>3, <1>5 DEF priceRecord
    <2>4. CASE m.st = "not_sent"
      BY <2>4 DEF priceRecord
    <2> QED
      BY <1>1, <2>1, <2>2, <2>3, <2>4
  <1>7. hold[m.c].card # NoCard => Card(m.c) = hold[m.c].card
    BY DEF Card
  <1>8. /\ Priced(m).st = m.st /\ Priced(m).cost = priceRecord(m).cost
        /\ Priced(m).cur = priceRecord(m).cur
    BY DEF Priced
  <1>9. Priced(m) \in FactRows
    BY <1>1, <1>6 DEF Priced, FactRows, FactStates
  <1> QED
    BY <1>1, <1>2, <1>4, <1>6, <1>7, <1>8, <1>9

\* A report is written, and its hold is what the report says of it.
LEMMA RecordKeeps ==
    ASSUME UsageInv, NEW m \in report, fact' = Recorded(m), NEW st \in HoldStates,
           hold' = [hold EXCEPT ![m.c].st = st],
           fact[m.c].st \in {"none", "unrecorded"} \/ (fact[m.c].st = "unknown" /\ m.st = "reported"),
           st = (IF m.st = "not_sent" THEN "released" ELSE "settled"),
           NEW s, resumeFundingWaitsTx(s, hold', fact'),
           UNCHANGED <<budget, selected, writer, call, report>>
    PROVE  UsageInv'
  <1>0. UsageType /\ (\A c \in CallIds : CallOK(c)) /\ \A x \in report : ReportTrue(x)
    BY DEF UsageInv
  <1>1. input' \in [Spenders -> InputRows]
    BY <1>0, ResumeTypes DEF resumeFundingWaitsTx
  <1> DEFINE c == m.c
             row == [hold[c] EXCEPT !.st = st]
  <1>2. m \in ReportRows /\ c \in CallIds /\ Priced(m) \in FactRows
    BY PricedTypes
  <1>3. row \in HoldRows /\ row.st = st /\ row.src = hold[c].src
        /\ row.minor = hold[c].minor /\ row.card = hold[c].card
    BY <1>0, <1>2 DEF UsageType, HoldRows
  <1>4. hold' = [hold EXCEPT ![c] = row] /\ fact' = [fact EXCEPT ![c] = Priced(m)]
    BY DEF Recorded
  <1>5. Priced(m).st = m.st
        /\ (m.st = "unknown" => Priced(m).cost = hold[c].minor /\ Priced(m).cur = hold[c].card.cur)
        /\ (m.st = "reported" /\ hold[c].card # NoCard =>
                 /\ Priced(m).cost = priceReported(m.use, hold[c].card)
                 /\ Priced(m).cur = hold[c].card.cur)
    BY PricedTypes
  <1>6. m.st \in {"reported", "unknown", "not_sent"} /\ ReportTrue(m)
    BY <1>0, <1>2 DEF ReportRows
  <1> HIDE DEF row, c
  <1>7. hold'[c] = row /\ fact'[c] = Priced(m)
        /\ \A x \in CallIds \ {c} : hold'[x] = hold[x] /\ fact'[x] = fact[x]
    BY <1>0, <1>2, <1>4 DEF UsageType
  <1>8. UsageType'
    <2>1. hold' \in [CallIds -> HoldRows] /\ fact' \in [CallIds -> FactRows]
      BY <1>0, <1>2, <1>3, <1>4 DEF UsageType
    <2> QED
      BY <1>0, <1>1, <2>1 DEF UsageType
  <1>9. CallOK(c)'
    <2>1. /\ call[c].at = "over" /\ hold[c].st # "none"
          /\ m.st = "reported" => call[c].sent /\ m.use = call[c].use
          /\ m.st = "not_sent" => ~call[c].sent
      BY <1>6 DEF ReportTrue, c
    <2>2. CallKnown(c) /\ Counted(c)
      BY <1>0, <1>2 DEF CallOK
    <2>3. CallKnown(c)'
      BY <1>3, <1>7, <2>1, <2>2 DEF CallKnown, HoldStates
    <2>4. Counted(c)'
      <3>1. CASE m.st = "reported"
        BY <1>3, <1>5, <1>7, <2>1, <2>2, <3>1 DEF Counted, CallKnown
      <3>2. CASE m.st = "unknown"
        BY <1>3, <1>5, <1>7, <2>1, <2>2, <3>2 DEF Counted, CallKnown
      <3>3. CASE m.st = "not_sent"
        BY <1>3, <1>5, <1>7, <2>1, <2>2, <3>3 DEF Counted, CallKnown
      <3> QED
        BY <1>6, <3>1, <3>2, <3>3
    <2> QED
      BY <2>3, <2>4 DEF CallOK
  <1>10. ASSUME NEW x \in report' PROVE ReportTrue(x)' \/ (x \in report /\ x.c # c)
    <2>1. CASE x.c = c
      BY <1>0, <1>3, <1>7, <2>1 DEF ReportTrue
    <2> QED
      BY <2>1
  <1> QED
    BY <1>2, <1>7, <1>8, <1>9, <1>10, OneCallChanges

LEMMA RecordSteps ==
    ASSUME UsageInv, NEW m \in report,
           RecordUsageInserts(m) \/ RecordUsageUpgrades(m) \/ RecordUsageReplays(m)
    PROVE  UsageInv'
  <1>0. UsageType /\ (\A c \in CallIds : CallOK(c)) /\ ReportTrue(m)
    BY DEF UsageInv
  <1>1. m.c \in CallIds /\ m.st \in {"reported", "unknown", "not_sent"}
    BY <1>0 DEF UsageType, ReportRows
  <1>2. hold[m.c].st \in HoldStates /\ hold[m.c].st # "none" /\ CallOK(m.c)
    BY <1>0, <1>1 DEF UsageType, HoldRows, ReportTrue
  <1>3. CASE RecordUsageInserts(m)
    <2>1. hold[m.c].st = "held"
      BY <1>2, <1>3 DEF RecordUsageInserts, CallOK, Counted, HoldStates
    <2>2. hold' = [hold EXCEPT ![m.c].st = Settles(m)]
      BY <1>3, <2>1 DEF RecordUsageInserts
    <2>3. Settles(m) \in HoldStates
      BY DEF Settles, HoldStates
    <2> QED
      BY <1>3, <2>2, <2>3, RecordKeeps DEF RecordUsageInserts, Settles
  <1>4. CASE RecordUsageUpgrades(m)
    <2>1. fact[m.c].st = "unrecorded" \/ (fact[m.c].st = "unknown" /\ m.st = "reported")
      BY <1>4 DEF RecordUsageUpgrades, Supersedes
    <2>2. hold[m.c].st = "settled"
      BY <1>2, <2>1 DEF CallOK, Counted, HoldStates
    <2>3. hold' = [hold EXCEPT ![m.c].st = Settles(m)]
      BY <1>4, <2>2 DEF RecordUsageUpgrades, Settles
    <2>4. Settles(m) \in HoldStates
      BY DEF Settles, HoldStates
    <2> QED
      BY <1>4, <2>1, <2>3, <2>4, RecordKeeps DEF RecordUsageUpgrades, Settles
  <1>5. CASE RecordUsageReplays(m)
    BY <1>5, SettingSteps DEF RecordUsageReplays
  <1> QED
    BY <1>3, <1>4, <1>5

(***************************************************************************)
(* Whatever is lost, late or repeated, and whichever budgets, cards, rates *)
(* and numbers of secretaries: every call is counted once, as a hold or as *)
(* a fact, at the price of the card that admitted it (AdmitUsage,          *)
(* RecordUsage, reconcileHeldReservations).                                *)
(***************************************************************************)
THEOREM SpendIsCounted == UsageSpec => []SpendCounted
  <1>1. UsageInit => UsageInv
    BY UsageInvInit
  <1>2. UsageInv /\ [UsageNext]_usageVars => UsageInv'
    <2> SUFFICES ASSUME UsageInv, [UsageNext]_usageVars PROVE UsageInv'
      OBVIOUS
    <2> QED
      BY SettingSteps, CoreSteps, AdmitSteps, ReconcilingSteps, RecordSteps DEF UsageNext
  <1>3. UsageInv => SpendCounted
    BY DEF UsageInv, CallOK, Counted, SpendCounted
  <1> QED
    BY <1>1, <1>2, <1>3, PTL DEF UsageSpec

-----------------------------------------------------------------------------
(* Workspace members *)

Members == People \cup Agents
TenureRows == [who : Members, open : BOOLEAN, roles : SUBSET RoleIds, ends : Nat]
InviteRows ==
    [by : Nat, kind : {"share", "bundle", "agent"}, target : Members \cup {"anyone"},
     revoked : BOOLEAN, expired : BOOLEAN, got : Nat, taker : Members \cup {"nobody"},
     enrol : {"none", "open", "consumed", "revoked"}, kept : Members \cup {"nobody"}, made : Nat]
MemberType ==
    /\ tenure \in Seq(TenureRows) /\ owner \in DOMAIN tenure
    /\ role \in [RoleIds -> (SUBSET Capabilities) \cup {Absent}] /\ retired \subseteq Capabilities
    /\ wsInvite \in Seq(InviteRows) /\ known \subseteq People
    /\ seat \subseteq [place : SUBSET Members, of : Nat]

Closed == {t \in Tenures : ~Open(t)}
\* Nobody holds a role that does not exist.
RolesExist == \A t \in Tenures : \A r \in tenure[t].roles : Exists(r)
\* A membership that ended is one of those counted so far.
EndsCounted == \A t \in Tenures : tenure[t].ends <= Cardinality(Closed)
\* The earlier memberships of p in T are over, and ended before the invitation was made.
GoneBefore(T, p, made) ==
    \A t \in T : tenure[t].who = p => ~Open(t) /\ made >= tenure[t].ends
InviteOK(v) ==
    /\ v.kind # "bundle" => v.enrol = "none"
    /\ v.kind = "agent" => v.target \in Members
    /\ v.enrol = "consumed" => v.kept \in Newcomers
    /\ v.got # 0 /\ v.enrol = "consumed" => v.taker = v.kept
    /\ v.kind = "agent" /\ v.got # 0 =>
           v.got <= Len(tenure) /\ GoneBefore(1 .. (v.got - 1), v.taker, v.made)
    /\ v.kind = "agent" /\ ~v.revoked /\ v.got = 0 => GoneBefore(Tenures, v.target, v.made)
SeatsOpen == \A s \in seat : s.of \in Tenures /\ Open(s.of)

MemberInv ==
    /\ MemberType /\ RolesExist /\ EndsCounted /\ SeatsOpen /\ NoEscalation
    /\ \A i \in DOMAIN wsInvite : InviteOK(wsInvite[i])

LEMMA FunctionIsSequence ==
    ASSUME NEW S, NEW n \in Nat, NEW f \in [1 .. n -> S]
    PROVE  f \in Seq(S) /\ Len(f) = n
  OBVIOUS

LEMMA TenureFacts ==
    ASSUME MemberType
    PROVE  /\ Len(tenure) \in Nat /\ Tenures = 1 .. Len(tenure)
           /\ \A t \in Tenures : tenure[t] \in TenureRows
           /\ IsFiniteSet(Closed) /\ Cardinality(Closed) \in Nat
  <1>1. Len(tenure) \in Nat /\ Tenures = 1 .. Len(tenure) /\ \A t \in Tenures : tenure[t] \in TenureRows
    BY DEF MemberType, Tenures
  <1>2. IsFiniteSet(1 .. Len(tenure))
    BY <1>1, FS_Interval
  <1>3. IsFiniteSet(Closed)
    <2>1. Closed \subseteq 1 .. Len(tenure)
      BY <1>1 DEF Closed
    <2> QED
      BY <1>2, <2>1, FS_Subset
  <1> QED
    BY <1>1, <1>3, FS_CardinalityType

LEMMA InviteFacts ==
    ASSUME MemberType
    PROVE  /\ Len(wsInvite) \in Nat /\ DOMAIN wsInvite = 1 .. Len(wsInvite)
           /\ \A i \in DOMAIN wsInvite : wsInvite[i] \in InviteRows
  BY DEF MemberType

LEMMA MemberInvInit == MemberInit => MemberInv
  <1> SUFFICES ASSUME MemberInit PROVE MemberInv
    OBVIOUS
  <1>1. Joined(Founder) \in TenureRows /\ Joined(Founder).open /\ Joined(Founder).ends = 0
        /\ Joined(Founder).roles = {}
    BY DEF Joined, TenureRows, Members, People
  <1>2. tenure = <<Joined(Founder)>> /\ owner = 1 /\ wsInvite = <<>> /\ seat = {}
    BY DEF MemberInit
  <1>3. tenure \in Seq(TenureRows) /\ Len(tenure) = 1 /\ DOMAIN tenure = {1} /\ tenure[1] = Joined(Founder)
    BY <1>1, <1>2
  <1>4. MemberType
    BY <1>2, <1>3 DEF MemberInit, MemberType, People
  <1>5. Cardinality(Closed) \in Nat
    BY <1>4, TenureFacts
  <1> QED
    BY <1>1, <1>2, <1>3, <1>4, <1>5 DEF MemberInv, RolesExist, EndsCounted, SeatsOpen, NoEscalation, Tenures

\* Steps that change neither invitations nor who is a member.
LEMMA SameMembers ==
    ASSUME MemberInv, MemberType', UNCHANGED <<wsInvite, seat>>, Tenures' = Tenures,
           \A t \in Tenures : /\ tenure'[t].who = tenure[t].who /\ tenure'[t].open = tenure[t].open
                              /\ tenure'[t].ends = tenure[t].ends
    PROVE  EndsCounted' /\ SeatsOpen' /\ \A i \in DOMAIN wsInvite' : InviteOK(wsInvite[i])'
  <1>1. Closed' = Closed
    BY DEF Closed, Open
  <1>2. EndsCounted' /\ SeatsOpen'
    BY <1>1 DEF MemberInv, EndsCounted, SeatsOpen, Open
  <1>3. Len(tenure') = Len(tenure)
    BY DEF MemberInv, MemberType, Tenures
  <1>4. Tenures = 1 .. Len(tenure) /\ Len(tenure) \in Nat
    BY TenureFacts DEF MemberInv
  <1>5. ASSUME NEW i \in DOMAIN wsInvite PROVE InviteOK(wsInvite[i])'
    <2>1. InviteOK(wsInvite[i]) /\ wsInvite[i].got \in Nat
      BY InviteFacts DEF MemberInv, InviteRows
    <2> QED
      BY <1>3, <1>4, <2>1 DEF InviteOK, GoneBefore, Open
  <1> QED
    BY <1>2, <1>5

\* What a member holds by roles, whoever owns the Workspace.
Holdings(t) == UNION {EffectiveCapabilities(r) : r \in tenure[t].roles}

LEMMA HoldingsHanded ==
    ASSUME MemberInv, NEW t \in Tenures, Open(t), t # owner
    PROVE  permissionsForMembership(t) = Holdings(t) /\ Holdings(t) \subseteq handed
  BY DEF MemberInv, NoEscalation, permissionsForMembership, Holdings

\* The capabilities of every open membership after an owner's step are handed out.
LEMMA OwnerHands ==
    ASSUME MemberInv, HandsOut(owner), retired' = retired
    PROVE  NoEscalation'
  <1> SUFFICES ASSUME NEW t \in Tenures', Open(t)', t # owner'
               PROVE  permissionsForMembership(t)' \subseteq handed'
    BY DEF NoEscalation
  <1>1. permissionsForMembership(t)' = UNION {role'[r] \ retired : r \in tenure'[t].roles}
    BY DEF permissionsForMembership, EffectiveCapabilities
  <1>2. t \in {y \in DOMAIN tenure' : tenure'[y].open}
    BY DEF Tenures, Open
  <1>3. HeldBy(t) \subseteq UNION {HeldBy(x) : x \in {y \in DOMAIN tenure' : tenure'[y].open}}
    BY <1>2
  <1> QED
    BY <1>1, <1>3 DEF HandsOut, HeldBy

LEMMA RoleSteps ==
    ASSUME MemberInv,
           \/ \E t \in Tenures, r \in RoleIds, caps \in SUBSET Capabilities :
                  CreateRoleWithPosition(t, r, caps) \/ UpdateRoleWithPosition(t, r, caps)
           \/ \E t \in Tenures, r \in RoleIds : DeleteRole(t, r)
           \/ \E t, m \in Tenures : \/ \E rs \in SUBSET RoleIds : SetMembershipRoles(t, m, rs)
                                    \/ TransferOwnership(t, m)
           \/ \E k \in Knacks : RetireCapability(k)
    PROVE  MemberInv'
  <1>0. MemberType /\ RolesExist /\ NoEscalation
    BY DEF MemberInv
  <1>1. ASSUME NEW t \in Tenures, NEW r \in RoleIds, NEW caps \in SUBSET Capabilities,
               CreateRoleWithPosition(t, r, caps)
        PROVE  MemberInv'
    <2>1. /\ ~Exists(r) /\ role' = [role EXCEPT ![r] = caps]
          /\ UNCHANGED <<tenure, owner, retired, wsInvite, known, seat, handed>>
      BY <1>1 DEF CreateRoleWithPosition
    <2>2. MemberType'
      BY <1>0, <2>1 DEF MemberType
    <2>3. \A x \in Tenures : r \notin tenure[x].roles /\ tenure[x].roles \subseteq RoleIds
      BY <1>0, <2>1, TenureFacts DEF RolesExist, TenureRows
    <2>4. \A q \in RoleIds : q # r => role'[q] = role[q]
      BY <1>0, <2>1 DEF MemberType
    <2>5. RolesExist'
      BY <1>0, <2>1, <2>3, <2>4 DEF RolesExist, Exists, Tenures
    <2>6. NoEscalation'
      <3> SUFFICES ASSUME NEW x \in Tenures', Open(x)', x # owner' PROVE permissionsForMembership(x)' \subseteq handed'
        BY DEF NoEscalation
      <3>1. x \in Tenures /\ Open(x) /\ x # owner
        BY <2>1 DEF Tenures, Open
      <3>2. \A q \in tenure[x].roles : role'[q] = role[q]
        BY <2>3, <2>4, <3>1
      <3>3. permissionsForMembership(x)' = Holdings(x)
        BY <2>1, <3>1, <3>2 DEF permissionsForMembership, Holdings, EffectiveCapabilities
      <3> QED
        BY <2>1, <3>1, <3>3, HoldingsHanded
    <2> QED
      BY <2>1, <2>2, <2>5, <2>6, SameMembers DEF MemberInv, Tenures
  <1>2. ASSUME NEW t \in Tenures, NEW r \in RoleIds, NEW caps \in SUBSET Capabilities,
               UpdateRoleWithPosition(t, r, caps)
        PROVE  MemberInv'
    <2>1. /\ Open(t) /\ MayRewrite(t, r, caps) /\ role' = [role EXCEPT ![r] = caps] /\ HandsOut(t)
          /\ UNCHANGED <<tenure, owner, retired, wsInvite, known, seat>>
      BY <1>2 DEF UpdateRoleWithPosition
    <2>2. MemberType'
      BY <1>0, <2>1 DEF MemberType
    <2>3. \A x \in Tenures : tenure[x].roles \subseteq RoleIds
      BY <1>0, TenureFacts DEF TenureRows
    <2>4. role'[r] = caps /\ \A q \in RoleIds : q # r => role'[q] = role[q]
      BY <1>0, <2>1 DEF MemberType
    <2>5. caps # Absent
      BY MemberAssumption DEF Absent, Capabilities, Platform
    <2>6. RolesExist'
      BY <1>0, <2>1, <2>3, <2>4, <2>5 DEF RolesExist, Exists, Tenures
    <2>7. NoEscalation'
      <3>1. CASE t = owner
        BY <2>1, <3>1, OwnerHands
      <3>2. CASE t # owner
        <4>1. caps \ retired \subseteq handed /\ handed' = handed
          BY <2>1, <3>2, HoldingsHanded DEF MayRewrite, permissionsWithin, HandsOut
        <4> SUFFICES ASSUME NEW x \in Tenures', Open(x)', x # owner'
                     PROVE  permissionsForMembership(x)' \subseteq handed'
          BY DEF NoEscalation
        <4>2. x \in Tenures /\ Open(x) /\ x # owner
          BY <2>1 DEF Tenures, Open
        <4>3. ASSUME NEW q \in tenure[x].roles PROVE role'[q] \ retired \subseteq handed
          <5>1. CASE q = r
            BY <2>4, <4>1, <5>1
          <5>2. CASE q # r
            <6>1. role'[q] = role[q]
              BY <2>3, <2>4, <4>2, <5>2
            <6> QED
              BY <4>2, <6>1, HoldingsHanded DEF Holdings, EffectiveCapabilities
          <5> QED
            BY <5>1, <5>2
        <4>4. permissionsForMembership(x)' = UNION {role'[q] \ retired : q \in tenure[x].roles}
          BY <2>1, <4>2 DEF permissionsForMembership, EffectiveCapabilities
        <4> QED
          BY <4>1, <4>3, <4>4
      <3> QED
        BY <3>1, <3>2
    <2> QED
      BY <2>1, <2>2, <2>6, <2>7, SameMembers DEF MemberInv, Tenures
  <1>3. ASSUME NEW t \in Tenures, NEW r \in RoleIds, DeleteRole(t, r) PROVE MemberInv'
    <2>1. /\ role' = [role EXCEPT ![r] = Absent]
          /\ tenure' = [x \in Tenures |-> [tenure[x] EXCEPT !.roles = @ \ {r}]]
          /\ UNCHANGED <<owner, retired, wsInvite, known, seat, handed>>
      BY <1>3 DEF DeleteRole
    <2>2. ASSUME NEW x \in Tenures
          PROVE  /\ tenure'[x] \in TenureRows /\ tenure'[x].roles = tenure[x].roles \ {r}
                 /\ tenure'[x].who = tenure[x].who /\ tenure'[x].open = tenure[x].open
                 /\ tenure'[x].ends = tenure[x].ends
      <3>1. tenure[x] \in TenureRows
        BY <1>0, TenureFacts
      <3> QED
        BY <2>1, <3>1 DEF TenureRows
    <2>3. tenure' \in Seq(TenureRows) /\ DOMAIN tenure' = Tenures
      <3>1. Len(tenure) \in Nat /\ Tenures = 1 .. Len(tenure)
        BY <1>0, TenureFacts
      <3>2. tenure' \in [1 .. Len(tenure) -> TenureRows]
        BY <2>1, <2>2, <3>1
      <3> QED
        BY <2>1, <3>1, <3>2, FunctionIsSequence
    <2>4. MemberType'
      BY <1>0, <2>1, <2>3 DEF MemberType, Tenures
    <2>5. \A q \in RoleIds : q # r => role'[q] = role[q]
      BY <1>0, <2>1 DEF MemberType
    <2>6. \A x \in Tenures : tenure[x].roles \subseteq RoleIds
      BY <1>0, TenureFacts DEF TenureRows
    <2>7. RolesExist'
      BY <1>0, <2>2, <2>3, <2>5, <2>6 DEF RolesExist, Exists, Tenures
    <2>8. NoEscalation'
      <3> SUFFICES ASSUME NEW x \in Tenures', Open(x)', x # owner' PROVE permissionsForMembership(x)' \subseteq handed'
        BY DEF NoEscalation
      <3>1. x \in Tenures /\ Open(x) /\ x # owner
        BY <2>1, <2>2, <2>3 DEF Tenures, Open
      <3>2. permissionsForMembership(x)' = UNION {role'[q] \ retired : q \in tenure'[x].roles}
        BY <2>1, <3>1 DEF permissionsForMembership, EffectiveCapabilities
      <3>3. \A q \in tenure'[x].roles : q \in tenure[x].roles /\ role'[q] = role[q]
        BY <2>2, <2>5, <2>6, <3>1
      <3> QED
        BY <2>1, <3>1, <3>2, <3>3, HoldingsHanded DEF Holdings, EffectiveCapabilities
    <2> QED
      BY <2>1, <2>2, <2>3, <2>4, <2>7, <2>8, SameMembers DEF MemberInv, Tenures
  <1>4. ASSUME NEW t \in Tenures, NEW m \in Tenures, NEW rs \in SUBSET RoleIds, SetMembershipRoles(t, m, rs)
        PROVE  MemberInv'
    <2> DEFINE row == [tenure[m] EXCEPT !.roles = rs]
    <2>1. /\ Open(t) /\ Open(m) /\ \A r \in rs : Exists(r)
          /\ \A r \in RolesChanged(m, rs) : permissionsWithin(t, EffectiveCapabilities(r))
          /\ tenure' = [tenure EXCEPT ![m] = row] /\ HandsOut(t)
          /\ UNCHANGED <<role, owner, retired, wsInvite, known, seat>>
      BY <1>4 DEF SetMembershipRoles
    <2>2. tenure[m] \in TenureRows /\ m \in DOMAIN tenure /\ tenure \in Seq(TenureRows)
      BY <1>0, TenureFacts DEF Tenures, MemberType
    <2>3. row \in TenureRows /\ row.roles = rs /\ row.who = tenure[m].who /\ row.open = tenure[m].open
          /\ row.ends = tenure[m].ends
      BY <2>2 DEF TenureRows
    <2> HIDE DEF row
    <2>4. tenure' \in Seq(TenureRows) /\ DOMAIN tenure' = DOMAIN tenure /\ tenure'[m] = row
          /\ \A x \in Tenures : x # m => tenure'[x] = tenure[x]
      BY <2>1, <2>2, <2>3 DEF Tenures
    <2>5. MemberType'
      BY <1>0, <2>1, <2>4 DEF MemberType
    <2>6. RolesExist'
      BY <1>0, <2>1, <2>3, <2>4 DEF RolesExist, Exists, Tenures
    <2>7. NoEscalation'
      <3>1. CASE t = owner
        BY <2>1, <3>1, OwnerHands
      <3>2. CASE t # owner
        <4> SUFFICES ASSUME NEW x \in Tenures', Open(x)', x # owner'
                     PROVE  permissionsForMembership(x)' \subseteq handed'
          BY DEF NoEscalation
        <4>1. x \in Tenures /\ Open(x) /\ x # owner /\ handed' = handed
          BY <2>1, <2>3, <2>4, <3>2 DEF Tenures, Open, HandsOut
        <4>2. permissionsForMembership(x)' = UNION {EffectiveCapabilities(q) : q \in tenure'[x].roles}
          BY <2>1, <4>1 DEF permissionsForMembership, EffectiveCapabilities
        <4>3. ASSUME NEW q \in tenure'[x].roles PROVE EffectiveCapabilities(q) \subseteq handed
          <5>1. CASE q \in tenure[x].roles
            BY <4>1, <5>1, HoldingsHanded DEF Holdings
          <5>2. CASE q \notin tenure[x].roles
            <6>1. x = m /\ q \in RolesChanged(m, rs)
              BY <2>3, <2>4, <4>1, <5>2 DEF RolesChanged, rolesForMembership
            <6>2. EffectiveCapabilities(q) \subseteq permissionsForMembership(t)
              BY <2>1, <3>2, <6>1 DEF permissionsWithin
            <6> QED
              BY <2>1, <3>2, <6>2, HoldingsHanded
          <5> QED
            BY <5>1, <5>2
        <4> QED
          BY <4>1, <4>2, <4>3
      <3> QED
        BY <3>1, <3>2
    <2>8. \A x \in Tenures : /\ tenure'[x].who = tenure[x].who /\ tenure'[x].open = tenure[x].open
                             /\ tenure'[x].ends = tenure[x].ends
      BY <2>3, <2>4
    <2> QED
      BY <2>1, <2>4, <2>5, <2>6, <2>7, <2>8, SameMembers DEF MemberInv, Tenures
  <1>5. ASSUME NEW t \in Tenures, NEW m \in Tenures, TransferOwnership(t, m) PROVE MemberInv'
    <2>1. /\ t = owner /\ owner' = m /\ HandsOut(t)
          /\ UNCHANGED <<tenure, role, retired, wsInvite, known, seat>>
      BY <1>5 DEF TransferOwnership
    <2>2. MemberType' /\ RolesExist'
      BY <1>0, <2>1 DEF MemberType, RolesExist, Exists, Tenures
    <2>3. NoEscalation'
      BY <2>1, OwnerHands
    <2> QED
      BY <2>1, <2>2, <2>3, SameMembers DEF MemberInv, Tenures
  <1>6. ASSUME NEW k \in Knacks, RetireCapability(k) PROVE MemberInv'
    <2>1. retired' = retired \cup {k} /\ UNCHANGED <<tenure, owner, role, wsInvite, known, seat, handed>>
      BY <1>6 DEF RetireCapability
    <2>2. MemberType' /\ RolesExist'
      BY <1>0, <2>1 DEF MemberType, RolesExist, Exists, Tenures, Capabilities
    <2>3. NoEscalation'
      <3> SUFFICES ASSUME NEW x \in Tenures', Open(x)', x # owner' PROVE permissionsForMembership(x)' \subseteq handed'
        BY DEF NoEscalation
      <3>1. x \in Tenures /\ Open(x) /\ x # owner
        BY <2>1 DEF Tenures, Open
      <3>2. permissionsForMembership(x)' = UNION {role[q] \ retired' : q \in tenure[x].roles}
        BY <2>1, <3>1 DEF permissionsForMembership, EffectiveCapabilities
      <3> QED
        BY <2>1, <3>1, <3>2, HoldingsHanded DEF Holdings, EffectiveCapabilities
    <2> QED
      BY <2>1, <2>2, <2>3, SameMembers DEF MemberInv, Tenures
  <1> QED
    BY <1>1, <1>2, <1>3, <1>4, <1>5, <1>6

\* Steps that change one invitation and nobody's membership.
LEMMA OneInvite ==
    ASSUME MemberInv, NEW i \in DOMAIN wsInvite, NEW row \in InviteRows,
           wsInvite' = [wsInvite EXCEPT ![i] = row], InviteOK(row),
           UNCHANGED <<tenure, owner, role, retired, seat, handed>>, known' \subseteq People
    PROVE  MemberInv'
  <1>0. MemberType /\ \A x \in DOMAIN wsInvite : InviteOK(wsInvite[x])
    BY DEF MemberInv
  <1>1. wsInvite' \in Seq(InviteRows) /\ DOMAIN wsInvite' = DOMAIN wsInvite /\ wsInvite'[i] = row
        /\ \A x \in DOMAIN wsInvite : x # i => wsInvite'[x] = wsInvite[x]
    BY <1>0 DEF MemberType
  <1>2. MemberType'
    BY <1>0, <1>1 DEF MemberType
  <1>3. ASSUME NEW x \in DOMAIN wsInvite' PROVE InviteOK(wsInvite[x])'
    <2>1. InviteOK(wsInvite'[x])
      BY <1>0, <1>1
    <2> QED
      BY <2>1 DEF InviteOK, GoneBefore, Tenures, Open
  <1>4. RolesExist' /\ EndsCounted' /\ SeatsOpen' /\ NoEscalation'
    BY DEF MemberInv, RolesExist, Exists, EndsCounted, SeatsOpen, NoEscalation, Closed, Tenures, Open,
           permissionsForMembership, EffectiveCapabilities
  <1> QED
    BY <1>2, <1>3, <1>4 DEF MemberInv

LEMMA InviteSteps ==
    ASSUME MemberInv, NEW i \in DOMAIN wsInvite,
           \/ InviteExpires(i) \/ RevokeBundledEnrollment(i)
           \/ \E t \in Tenures : RevokeInvite(t, i)
           \/ \E p \in Newcomers : consumeEnrollmentInvite(p, i)
    PROVE  MemberInv'
  <1>0. /\ wsInvite[i] \in InviteRows /\ InviteOK(wsInvite[i]) /\ known \subseteq People
        /\ DOMAIN wsInvite = 1 .. Len(wsInvite)
    BY InviteFacts DEF MemberInv, MemberType
  <1>1. RevokedEnrol(i) \in {"none", "consumed", "revoked"}
        /\ (wsInvite[i].enrol = "none" => RevokedEnrol(i) = "none")
        /\ (RevokedEnrol(i) = "consumed" => wsInvite[i].enrol = "consumed")
    BY <1>0 DEF RevokedEnrol, InviteRows
  <1>2. CASE InviteExpires(i)
    <2> DEFINE row == [wsInvite[i] EXCEPT !.expired = TRUE]
    <2>1. wsInvite' = [wsInvite EXCEPT ![i] = row]
          /\ UNCHANGED <<tenure, owner, role, retired, known, seat, handed>>
      BY <1>2 DEF InviteExpires
    <2>2. row \in InviteRows /\ InviteOK(row)
      BY <1>0 DEF InviteRows, InviteOK
    <2> QED
      BY <1>0, <2>1, <2>2, OneInvite
  <1>3. ASSUME NEW t \in Tenures, RevokeInvite(t, i) PROVE MemberInv'
    <2> DEFINE row == [wsInvite[i] EXCEPT !.revoked = TRUE, !.enrol = RevokedEnrol(i)]
    <2>1. wsInvite' = [wsInvite EXCEPT ![i] = row]
          /\ UNCHANGED <<tenure, owner, role, retired, known, seat, handed>>
      BY <1>0, <1>3 DEF RevokeInvite
    <2>2. row \in InviteRows /\ InviteOK(row)
      BY <1>0, <1>1 DEF InviteRows, InviteOK
    <2> QED
      BY <1>0, <2>1, <2>2, OneInvite
  <1>4. CASE RevokeBundledEnrollment(i)
    <2> DEFINE row == [wsInvite[i] EXCEPT !.enrol = RevokedEnrol(i), !.revoked = @ \/ wsInvite[i].got = 0]
    <2>1. wsInvite' = [wsInvite EXCEPT ![i] = row] /\ wsInvite[i].kind = "bundle"
          /\ UNCHANGED <<tenure, owner, role, retired, known, seat, handed>>
      BY <1>0, <1>4 DEF RevokeBundledEnrollment
    <2>2. row \in InviteRows /\ InviteOK(row)
      BY <1>0, <1>1, <2>1 DEF InviteRows, InviteOK
    <2> QED
      BY <1>0, <2>1, <2>2, OneInvite
  <1>5. ASSUME NEW p \in Newcomers, consumeEnrollmentInvite(p, i) PROVE MemberInv'
    <2> DEFINE row == [wsInvite[i] EXCEPT !.enrol = "consumed", !.kept = p]
    <2>1. /\ wsInvite' = [wsInvite EXCEPT ![i] = row] /\ wsInvite[i].kind = "bundle" /\ wsInvite[i].got = 0
          /\ known' = known \cup {p} /\ UNCHANGED <<tenure, owner, role, retired, seat, handed>>
      BY <1>0, <1>5 DEF consumeEnrollmentInvite, ValidateEnrollmentWorkspaceInvite, InvitePending
    <2>2. row \in InviteRows /\ InviteOK(row)
      BY <1>0, <2>1 DEF InviteRows, InviteOK, Members, People
    <2>3. known' \subseteq People
      BY <1>0, <2>1 DEF People
    <2> QED
      BY <2>1, <2>2, <2>3, OneInvite
  <1> QED
    BY <1>2, <1>3, <1>4, <1>5

\* A new invitation is made after every membership that is over ended.
LEMMA IssueStep ==
    ASSUME MemberInv, NEW t \in Tenures, NEW kind \in {"share", "bundle", "agent"},
           NEW target \in Members \cup {"anyone"}, NEW closed, IssuesTo(t, kind, target, closed),
           kind = "agent" => target \in Members /\ ActiveOf(target) = {}
    PROVE  MemberInv'
  <1>0. MemberType /\ (\A x \in DOMAIN wsInvite : InviteOK(wsInvite[x])) /\ EndsCounted
    BY DEF MemberInv
  <1> DEFINE f == [i \in DOMAIN wsInvite |-> IF i \in closed THEN [wsInvite[i] EXCEPT !.revoked = TRUE]
                                             ELSE wsInvite[i]]
             new == NewInvite(t, kind, target)
  <1>1. wsInvite' = Append(f, new) /\ UNCHANGED <<tenure, owner, role, retired, known, seat, handed>>
    BY DEF IssuesTo
  <1>2. t \in Nat /\ Cardinality(Closed) \in Nat /\ Closed = {x \in Tenures : ~Open(x)}
    BY <1>0, TenureFacts DEF Closed
  <1>3. new \in InviteRows /\ new.kind = kind /\ new.target = target /\ ~new.revoked /\ new.got = 0
        /\ new.made = Cardinality(Closed) /\ new.enrol # "consumed"
        /\ (kind # "bundle" => new.enrol = "none")
    BY <1>2 DEF NewInvite, InviteRows
  <1>4. InviteOK(new)
    <2>1. ASSUME kind = "agent", NEW x \in Tenures, tenure[x].who = target
          PROVE  ~Open(x) /\ Cardinality(Closed) >= tenure[x].ends
      <3>1. ~Open(x)
        BY <2>1 DEF ActiveOf
      <3>2. tenure[x].ends \in Nat
        BY <1>0, TenureFacts DEF TenureRows
      <3> QED
        BY <1>0, <1>2, <3>1, <3>2 DEF EndsCounted
    <2> HIDE DEF new
    <2> QED
      BY <1>3, <2>1 DEF InviteOK, GoneBefore
  <1>5. ASSUME NEW x \in DOMAIN wsInvite PROVE f[x] \in InviteRows /\ InviteOK(f[x])
    <2>1. wsInvite[x] \in InviteRows /\ InviteOK(wsInvite[x])
      BY <1>0, InviteFacts
    <2>2. f[x] = wsInvite[x] \/ f[x] = [wsInvite[x] EXCEPT !.revoked = TRUE]
      OBVIOUS
    <2> HIDE DEF f
    <2> QED
      BY <2>1, <2>2 DEF InviteRows, InviteOK
  <1>6. f \in Seq(InviteRows) /\ Len(f) = Len(wsInvite) /\ DOMAIN f = DOMAIN wsInvite
    <2>1. Len(wsInvite) \in Nat /\ DOMAIN wsInvite = 1 .. Len(wsInvite)
      BY <1>0, InviteFacts
    <2>2. DOMAIN f = DOMAIN wsInvite /\ f \in [1 .. Len(wsInvite) -> InviteRows]
      BY <1>5, <2>1
    <2> QED
      BY <2>1, <2>2, FunctionIsSequence
  <1> HIDE DEF f, new
  <1>7. wsInvite' \in Seq(InviteRows)
    BY <1>1, <1>3, <1>6
  <1>8. MemberType'
    BY <1>0, <1>1, <1>7 DEF MemberType
  <1>9. ASSUME NEW x \in DOMAIN wsInvite' PROVE InviteOK(wsInvite[x])'
    <2>1. wsInvite'[x] = new \/ (x \in DOMAIN wsInvite /\ wsInvite'[x] = f[x])
      BY <1>1, <1>3, <1>6
    <2>2. InviteOK(wsInvite'[x])
      BY <1>4, <1>5, <2>1
    <2> QED
      BY <1>1, <2>2 DEF InviteOK, GoneBefore, Tenures, Open
  <1>10. RolesExist' /\ EndsCounted' /\ SeatsOpen' /\ NoEscalation'
    BY <1>1 DEF MemberInv, RolesExist, Exists, EndsCounted, SeatsOpen, NoEscalation, Closed, Tenures, Open,
           permissionsForMembership, EffectiveCapabilities
  <1> QED
    BY <1>8, <1>9, <1>10 DEF MemberInv

LEMMA IssueSteps ==
    ASSUME MemberInv,
           \/ \E t \in Tenures : CreateInvite(t)
           \/ \E t \in Tenures, p \in Newcomers \cup {"anyone"} : CreateEnrollmentBundle(t, p)
           \/ \E t \in Tenures, g \in Agents : CreateCurrentAgentInvite(t, g)
    PROVE  MemberInv'
  <1>1. ASSUME NEW t \in Tenures, CreateInvite(t) PROVE MemberInv'
    BY <1>1, IssueStep DEF CreateInvite
  <1>2. ASSUME NEW t \in Tenures, NEW p \in Newcomers \cup {"anyone"}, CreateEnrollmentBundle(t, p)
        PROVE  MemberInv'
    BY <1>2, IssueStep DEF CreateEnrollmentBundle, Members, People
  <1>3. ASSUME NEW t \in Tenures, NEW g \in Agents, CreateCurrentAgentInvite(t, g) PROVE MemberInv'
    BY <1>3, IssueStep DEF CreateCurrentAgentInvite, Members
  <1> QED
    BY <1>1, <1>2, <1>3

TakenRow(i, p, t) ==
    [wsInvite[i] EXCEPT !.got = t, !.taker = p, !.enrol = RevokedEnrol(i),
                        !.kept = IF wsInvite[i].kind = "bundle" THEN p ELSE @]

\* An invitation that is taken: a consumed enrolment admits its own person.
LEMMA TakenFacts ==
    ASSUME MemberInv, NEW i \in DOMAIN wsInvite, NEW p \in Members, NEW t \in Nat,
           wsInvite[i].kind = "agent" \/ requireBundleRecipient(p, i)
    PROVE  LET row == TakenRow(i, p, t)
           IN /\ row \in InviteRows /\ row.kind = wsInvite[i].kind /\ row.got = t /\ row.taker = p
              /\ row.made = wsInvite[i].made /\ row.target = wsInvite[i].target
              /\ row.kind # "bundle" => row.enrol = "none"
              /\ row.enrol = "consumed" => row.kept \in Newcomers /\ row.taker = row.kept
  <1>1. wsInvite[i] \in InviteRows /\ InviteOK(wsInvite[i])
    BY InviteFacts DEF MemberInv
  <1>2. RevokedEnrol(i) \in {"none", "consumed", "revoked"}
        /\ (wsInvite[i].enrol = "none" => RevokedEnrol(i) = "none")
        /\ (RevokedEnrol(i) = "consumed" => wsInvite[i].enrol = "consumed")
    BY <1>1 DEF RevokedEnrol, InviteRows
  <1>3. wsInvite[i].enrol = "consumed" => wsInvite[i].kind = "bundle" /\ p \in Newcomers
    BY <1>1 DEF InviteOK, requireBundleRecipient
  <1>4. TakenRow(i, p, t) \in InviteRows
    BY <1>1, <1>2 DEF TakenRow, InviteRows
  <1> QED
    BY <1>1, <1>2, <1>3, <1>4 DEF TakenRow, InviteRows, InviteOK

\* A membership begins: the participant's other invitations end with it.
LEMMA EnterStep ==
    ASSUME MemberInv, NEW i \in DOMAIN wsInvite, NEW p \in Members,
           wsInvite[i].kind = "agent" \/ requireBundleRecipient(p, i),
           wsInvite[i].kind = "agent" => wsInvite[i].target = p /\ InvitePending(i),
           Enters(p, i)
    PROVE  MemberInv'
  <1>0. MemberType /\ (\A x \in DOMAIN wsInvite : InviteOK(wsInvite[x])) /\ EndsCounted
        /\ RolesExist /\ NoEscalation /\ SeatsOpen
    BY DEF MemberInv
  <1> DEFINE n == Len(tenure) + 1
             f == closePendingTargetedInvitesForParticipant(p, i)
             row == TakenRow(i, p, n)
  <1>1. /\ tenure' = Append(tenure, Joined(p)) /\ wsInvite' = Taken(f, i, p, n)
        /\ UNCHANGED <<owner, role, retired, known, seat, handed>>
    BY DEF Enters
  <1>2. Len(tenure) \in Nat /\ Tenures = 1 .. Len(tenure) /\ n \in Nat /\ n # 0
    BY <1>0, TenureFacts
  <1>3. Joined(p) \in TenureRows /\ Joined(p).open /\ Joined(p).who = p /\ Joined(p).ends = 0
        /\ Joined(p).roles = {}
    BY DEF Joined, TenureRows
  <1>4. /\ tenure' \in Seq(TenureRows) /\ Len(tenure') = n /\ Tenures' = 1 .. n /\ tenure'[n] = Joined(p)
        /\ \A t \in Tenures : tenure'[t] = tenure[t]
    BY <1>0, <1>1, <1>2, <1>3 DEF MemberType, Tenures
  <1>5. DOMAIN f = DOMAIN wsInvite /\ f[i] = wsInvite[i]
        /\ \A x \in DOMAIN wsInvite :
              f[x] = IF x \in PendingFor(p) \ {i} THEN [wsInvite[x] EXCEPT !.revoked = TRUE] ELSE wsInvite[x]
    BY DEF closePendingTargetedInvitesForParticipant
  <1>6. wsInvite' = [f EXCEPT ![i] = row]
    <2> HIDE DEF f
    <2> QED
      BY <1>1, <1>5 DEF Taken, TakenRow
  <1>7. /\ row \in InviteRows /\ row.kind = wsInvite[i].kind /\ row.got = n /\ row.taker = p
        /\ row.made = wsInvite[i].made /\ row.target = wsInvite[i].target
        /\ row.kind # "bundle" => row.enrol = "none"
        /\ row.enrol = "consumed" => row.kept \in Newcomers /\ row.taker = row.kept
    BY <1>2, TakenFacts
  <1> HIDE DEF f, row, n
  <1>8. \A x \in DOMAIN wsInvite : wsInvite'[x] = IF x = i THEN row ELSE f[x]
    BY <1>5, <1>6
  <1>9. DOMAIN wsInvite' = DOMAIN wsInvite
    BY <1>5, <1>6
  <1>10. ASSUME NEW x \in DOMAIN wsInvite
         PROVE  wsInvite'[x] \in InviteRows /\ InviteOK(wsInvite[x])'
    <2>0. wsInvite[x] \in InviteRows /\ InviteOK(wsInvite[x])
      BY <1>0, InviteFacts
    <2>1. CASE x = i
      <3>1. PICK v : v = row
        OBVIOUS
      <3>2. v.kind = "agent" => GoneBefore(Tenures, p, v.made) /\ v.target \in Members
        BY <1>0, <1>7, <3>1 DEF InviteOK, InvitePending
      <3>3. n - 1 = Len(tenure)
        BY <1>2 DEF n
      <3>4. v.got = n /\ v.taker = p
        BY <1>7, <3>1
      <3>5. v.kind = "agent" => GoneBefore(1 .. (v.got - 1), p, v.made)'
        BY <1>2, <1>4, <3>2, <3>3, <3>4 DEF GoneBefore, Open
      <3>6. wsInvite'[x] = v
        BY <1>8, <2>1, <3>1
      <3>7. InviteOK(v)'
        BY <1>2, <1>4, <1>7, <3>1, <3>2, <3>4, <3>5 DEF InviteOK
      <3> QED
        BY <1>7, <3>1, <3>6, <3>7
    <2>2. CASE x # i /\ x \in PendingFor(p)
      <3>1. wsInvite'[x] = [wsInvite[x] EXCEPT !.revoked = TRUE]
        BY <1>5, <1>8, <2>2
      <3>2. /\ wsInvite'[x] \in InviteRows /\ wsInvite'[x].revoked /\ wsInvite'[x].got = 0
            /\ wsInvite'[x].kind = wsInvite[x].kind /\ wsInvite'[x].enrol = wsInvite[x].enrol
            /\ wsInvite'[x].kept = wsInvite[x].kept /\ wsInvite'[x].target = wsInvite[x].target
        BY <2>0, <2>2, <3>1 DEF InviteRows, PendingFor, InvitePending
      <3> QED
        BY <2>0, <3>2 DEF InviteOK
    <2>3. CASE x # i /\ x \notin PendingFor(p)
      <3>1. wsInvite'[x] = wsInvite[x]
        BY <1>5, <1>8, <2>3
      <3>2. wsInvite[x].kind = "agent" /\ ~wsInvite[x].revoked /\ wsInvite[x].got = 0 => wsInvite[x].target # p
        BY <2>3 DEF PendingFor, InvitePending
      <3>3. wsInvite[x].got \in Nat
        BY <2>0 DEF InviteRows
      <3>4. \A t \in Tenures' : (t \in Tenures /\ tenure'[t] = tenure[t]) \/ tenure'[t].who = p
        BY <1>2, <1>3, <1>4 DEF n
      <3>5. wsInvite[x].kind = "agent" /\ ~wsInvite[x].revoked /\ wsInvite[x].got = 0 =>
                GoneBefore(Tenures, wsInvite[x].target, wsInvite[x].made)'
        BY <2>0, <3>1, <3>2, <3>4 DEF InviteOK, GoneBefore, Open
      <3>6. wsInvite[x].kind = "agent" /\ wsInvite[x].got # 0 =>
                /\ wsInvite[x].got <= Len(tenure')
                /\ GoneBefore(1 .. (wsInvite[x].got - 1), wsInvite[x].taker, wsInvite[x].made)'
        <4> SUFFICES ASSUME wsInvite[x].kind = "agent", wsInvite[x].got # 0
                     PROVE  /\ wsInvite[x].got <= Len(tenure')
                            /\ GoneBefore(1 .. (wsInvite[x].got - 1), wsInvite[x].taker, wsInvite[x].made)'
          OBVIOUS
        <4>1. wsInvite[x].got <= Len(tenure)
              /\ GoneBefore(1 .. (wsInvite[x].got - 1), wsInvite[x].taker, wsInvite[x].made)
          BY <2>0 DEF InviteOK
        <4>2. wsInvite[x].got <= Len(tenure') /\ \A t \in 1 .. (wsInvite[x].got - 1) : tenure'[t] = tenure[t]
          BY <1>2, <1>4, <3>3, <4>1 DEF n
        <4> QED
          BY <3>1, <4>1, <4>2 DEF GoneBefore, Open
      <3> QED
        BY <2>0, <3>1, <3>5, <3>6 DEF InviteOK
    <2> QED
      BY <2>1, <2>2, <2>3
  <1>11. wsInvite' \in Seq(InviteRows)
    <2>1. Len(wsInvite) \in Nat /\ DOMAIN wsInvite = 1 .. Len(wsInvite)
      BY <1>0, InviteFacts
    <2>2. wsInvite' \in [1 .. Len(wsInvite) -> InviteRows]
      BY <1>5, <1>6, <1>9, <1>10, <2>1
    <2> QED
      BY <2>1, <2>2, FunctionIsSequence
  <1>12. MemberType'
    BY <1>0, <1>1, <1>2, <1>4, <1>11 DEF MemberType, Tenures, n
  <1>13. Closed' = Closed
    BY <1>2, <1>3, <1>4 DEF Closed, Open, n
  <1>14. EndsCounted'
    <2>1. Cardinality(Closed) \in Nat
      BY <1>0, TenureFacts
    <2> QED
      BY <1>0, <1>2, <1>3, <1>4, <1>13, <2>1 DEF EndsCounted, n
  <1>15. RolesExist' /\ SeatsOpen'
    BY <1>0, <1>1, <1>2, <1>3, <1>4 DEF RolesExist, Exists, SeatsOpen, Open, n
  <1>16. NoEscalation'
    <2> SUFFICES ASSUME NEW x \in Tenures', Open(x)', x # owner' PROVE permissionsForMembership(x)' \subseteq handed'
      BY DEF NoEscalation
    <2>1. CASE x = n
      BY <1>1, <1>3, <1>4, <2>1 DEF permissionsForMembership
    <2>2. CASE x # n
      <3>1. x \in Tenures /\ tenure'[x] = tenure[x] /\ Open(x) /\ x # owner
        BY <1>1, <1>2, <1>4, <2>2 DEF n, Open
      <3>2. permissionsForMembership(x)' = Holdings(x)
        BY <1>1, <3>1 DEF permissionsForMembership, Holdings, EffectiveCapabilities
      <3> QED
        BY <1>1, <3>1, <3>2, HoldingsHanded
    <2> QED
      BY <2>1, <2>2
  <1> QED
    BY <1>9, <1>10, <1>12, <1>14, <1>15, <1>16 DEF MemberInv

LEMMA ComingIn ==
    ASSUME MemberInv, NEW i \in DOMAIN wsInvite,
           \/ AcceptTargetedInvitationInTx(i)
           \/ \E p \in People \cup Agents : RedeemInviteWithEnrollmentProof(p, i)
    PROVE  MemberInv'
  <1>0. wsInvite[i] \in InviteRows /\ MemberType
    BY InviteFacts DEF MemberInv
  <1>1. CASE AcceptTargetedInvitationInTx(i)
    <2>1. wsInvite[i].kind = "agent" /\ InvitePending(i) /\ Enters(wsInvite[i].target, i)
      BY <1>1 DEF AcceptTargetedInvitationInTx, InviteUsable
    <2>2. wsInvite[i].target \in Members
      BY <2>1 DEF MemberInv, InviteOK
    <2> QED
      BY <2>1, <2>2, EnterStep
  <1>2. ASSUME NEW p \in People \cup Agents, RedeemInviteWithEnrollmentProof(p, i) PROVE MemberInv'
    <2>1. p \in Members /\ wsInvite[i].kind \in {"share", "bundle"} /\ requireBundleRecipient(p, i)
      BY <1>2 DEF RedeemInviteWithEnrollmentProof, Members
    <2>2. CASE Enters(p, i)
      BY <2>1, <2>2, EnterStep
    <2>3. CASE /\ ActiveOf(p) # {} /\ wsInvite[i].kind = "bundle"
               /\ wsInvite' = Taken(wsInvite, i, p, CHOOSE t \in ActiveOf(p) : TRUE)
               /\ UNCHANGED <<tenure, owner, role, retired, known, seat, handed, acts>>
      <3> DEFINE t0 == CHOOSE t \in ActiveOf(p) : TRUE
                 row == TakenRow(i, p, t0)
      <3>1. t0 \in ActiveOf(p)
        BY <2>3
      <3>2. t0 \in Nat
        BY <1>0, <3>1, TenureFacts DEF ActiveOf
      <3>3. wsInvite' = [wsInvite EXCEPT ![i] = row]
        <4> HIDE DEF t0
        <4> QED
          BY <1>0, <2>3 DEF Taken, TakenRow, t0
      <3> HIDE DEF t0
      <3>4. row \in InviteRows /\ InviteOK(row)
        <4>1. /\ row \in InviteRows /\ row.kind = "bundle"
              /\ row.enrol = "consumed" => row.kept \in Newcomers /\ row.taker = row.kept
          BY <2>1, <2>3, <3>2, TakenFacts
        <4> HIDE DEF row
        <4> QED
          BY <4>1 DEF InviteOK
      <3> HIDE DEF row
      <3>5. known' \subseteq People
        BY <1>0, <2>3 DEF MemberType
      <3> QED
        BY <2>3, <3>3, <3>4, <3>5, OneInvite
    <2> QED
      BY <1>2, <2>2, <2>3 DEF RedeemInviteWithEnrollmentProof
  <1> QED
    BY <1>1, <1>2

\* A membership that ends is counted last, and takes its seats with it.
LEMMA CloseStep ==
    ASSUME MemberInv, NEW m \in Tenures, Open(m), m # owner, TenureCloses(m)
    PROVE  MemberInv'
  <1>0. MemberType /\ (\A x \in DOMAIN wsInvite : InviteOK(wsInvite[x])) /\ EndsCounted
        /\ RolesExist /\ NoEscalation /\ SeatsOpen
    BY DEF MemberInv
  <1> DEFINE row == [tenure[m] EXCEPT !.open = FALSE, !.ends = Cardinality(Closed) + 1]
  <1>1. /\ tenure' = [tenure EXCEPT ![m] = row] /\ seat' = {s \in seat : s.of # m}
        /\ UNCHANGED <<owner, role, retired, wsInvite, known, handed>>
    BY DEF TenureCloses, closeBoundPlaceTenures, Closed
  <1>2. Len(tenure) \in Nat /\ Tenures = 1 .. Len(tenure) /\ tenure[m] \in TenureRows
        /\ IsFiniteSet(Closed) /\ Cardinality(Closed) \in Nat
    BY <1>0, TenureFacts
  <1>3. row \in TenureRows /\ ~row.open /\ row.ends = Cardinality(Closed) + 1 /\ row.who = tenure[m].who
        /\ row.roles = tenure[m].roles
    <2> DEFINE last == Cardinality(Closed) + 1
    <2>1. last \in Nat /\ tenure[m] \in TenureRows
      BY <1>2
    <2> HIDE DEF last
    <2>2. LET r == [tenure[m] EXCEPT !.open = FALSE, !.ends = last]
          IN r \in TenureRows /\ ~r.open /\ r.ends = last /\ r.who = tenure[m].who /\ r.roles = tenure[m].roles
      BY <2>1 DEF TenureRows
    <2> QED
      BY <2>2 DEF last
  <1> HIDE DEF row
  <1>4. tenure' \in Seq(TenureRows) /\ Len(tenure') = Len(tenure) /\ Tenures' = Tenures /\ tenure'[m] = row
        /\ \A x \in Tenures : x # m => tenure'[x] = tenure[x]
    <2>1. m \in DOMAIN tenure /\ tenure \in Seq(TenureRows)
      BY <1>0 DEF MemberType, Tenures
    <2> QED
      BY <1>1, <1>3, <2>1 DEF Tenures
  <1>5. Closed' = Closed \cup {m} /\ m \notin Closed
    BY <1>3, <1>4 DEF Closed, Open
  <1>6. Cardinality(Closed') = Cardinality(Closed) + 1
    BY <1>2, <1>5, FS_AddElement
  <1>7. MemberType'
    BY <1>0, <1>1, <1>4 DEF MemberType, Tenures
  <1>8. EndsCounted'
    <2> SUFFICES ASSUME NEW x \in Tenures PROVE tenure'[x].ends <= Cardinality(Closed) + 1
      BY <1>4, <1>6 DEF EndsCounted
    <2>1. tenure[x].ends \in Nat /\ tenure[x].ends <= Cardinality(Closed)
      BY <1>0, TenureFacts DEF EndsCounted, TenureRows
    <2> QED
      BY <1>2, <1>3, <1>4, <2>1
  <1>9. RolesExist'
    BY <1>0, <1>1, <1>3, <1>4 DEF RolesExist, Exists
  <1>10. SeatsOpen'
    BY <1>0, <1>1, <1>4 DEF SeatsOpen, Open
  <1>11. NoEscalation'
    <2> SUFFICES ASSUME NEW x \in Tenures', Open(x)', x # owner' PROVE permissionsForMembership(x)' \subseteq handed'
      BY DEF NoEscalation
    <2>1. x \in Tenures /\ tenure'[x] = tenure[x] /\ Open(x) /\ x # owner
      BY <1>1, <1>3, <1>4 DEF Open
    <2>2. permissionsForMembership(x)' = Holdings(x)
      BY <1>1, <2>1 DEF permissionsForMembership, Holdings, EffectiveCapabilities
    <2> QED
      BY <1>1, <2>1, <2>2, HoldingsHanded
  <1>12. ASSUME NEW x \in DOMAIN wsInvite' PROVE InviteOK(wsInvite[x])'
    <2>1. InviteOK(wsInvite[x]) /\ wsInvite'[x] = wsInvite[x] /\ wsInvite[x].got \in Nat
      BY <1>0, <1>1, InviteFacts DEF InviteRows
    <2>2. \A T, p, made : T \subseteq Tenures /\ GoneBefore(T, p, made) => GoneBefore(T, p, made)'
      BY <1>3, <1>4 DEF GoneBefore, Open
    <2>3. wsInvite[x].got <= Len(tenure) => 1 .. (wsInvite[x].got - 1) \subseteq Tenures
      BY <1>2, <2>1
    <2> QED
      BY <1>1, <1>4, <2>1, <2>2, <2>3 DEF InviteOK
  <1> QED
    BY <1>7, <1>8, <1>9, <1>10, <1>11, <1>12 DEF MemberInv

LEMMA PlaceSteps ==
    ASSUME MemberInv,
           \/ \E t, m \in Tenures : removeMember(t, m) \/ EnsureDM(t, m)
           \/ \E t \in Tenures : Leave(t)
           \/ UNCHANGED memberVars
    PROVE  MemberInv'
  <1>1. ASSUME NEW t \in Tenures, NEW m \in Tenures, removeMember(t, m) PROVE MemberInv'
    BY <1>1, CloseStep DEF removeMember
  <1>2. ASSUME NEW t \in Tenures, Leave(t) PROVE MemberInv'
    BY <1>2, CloseStep DEF Leave
  <1>3. ASSUME NEW a \in Tenures, NEW b \in Tenures, EnsureDM(a, b) PROVE MemberInv'
    <2>0. MemberType /\ (\A x \in DOMAIN wsInvite : InviteOK(wsInvite[x])) /\ EndsCounted
          /\ RolesExist /\ NoEscalation /\ SeatsOpen
      BY DEF MemberInv
    <2>1. /\ Open(a) /\ Open(b) /\ seat' = seat \cup {[place |-> Dm(a, b), of |-> t] : t \in {a, b}}
          /\ UNCHANGED <<tenure, owner, role, retired, wsInvite, known, handed>>
      BY <1>3 DEF EnsureDM
    <2>2. Dm(a, b) \in SUBSET Members /\ a \in Nat /\ b \in Nat
      BY <2>0, TenureFacts DEF Dm, TenureRows
    <2>3. \A s \in seat' : s \in seat \/ (s \in [place : SUBSET Members, of : Nat] /\ s.of \in {a, b})
      BY <2>1, <2>2
    <2>4. MemberType'
      BY <2>0, <2>1, <2>3 DEF MemberType
    <2>5. SeatsOpen'
      BY <2>0, <2>1, <2>3 DEF SeatsOpen, Open, Tenures
    <2>6. RolesExist' /\ EndsCounted' /\ NoEscalation' /\ \A x \in DOMAIN wsInvite' : InviteOK(wsInvite[x])'
      BY <2>0, <2>1 DEF RolesExist, Exists, EndsCounted, NoEscalation, Closed, Tenures, Open,
             permissionsForMembership, EffectiveCapabilities, InviteOK, GoneBefore
    <2> QED
      BY <2>4, <2>5, <2>6 DEF MemberInv
  <1>4. ASSUME UNCHANGED memberVars PROVE MemberInv'
    BY <1>4 DEF memberVars, MemberInv, MemberType, SeatsOpen, RolesExist, Exists, EndsCounted, NoEscalation,
            Closed, Tenures, Open, permissionsForMembership, EffectiveCapabilities, InviteOK, GoneBefore
  <1> QED
    BY <1>1, <1>2, <1>3, <1>4

(***************************************************************************)
(* In a Workspace of any size, whatever its members do: those who do not   *)
(* own it never hold, together, what no owner handed out; and nobody who   *)
(* is gone comes back uninvited, nor keeps a seat (CreateRole, UpdateRole, *)
(* SetMembershipRoles, AcceptTargetedInvitation, RedeemInvite,             *)
(* closePendingTargetedInvitesForParticipant, removeMember).               *)
(***************************************************************************)
THEOREM MembersStaySound == MemberSpec => []MembersSound
  <1>1. MemberInit => MemberInv
    BY MemberInvInit
  <1>2. MemberInv /\ [MemberNext]_memberVars => MemberInv'
    <2> SUFFICES ASSUME MemberInv, [MemberNext]_memberVars PROVE MemberInv'
      OBVIOUS
    <2> QED
      BY RoleSteps, InviteSteps, IssueSteps, ComingIn, PlaceSteps DEF MemberNext
  <1>3. MemberInv => MembersSound
    <2> SUFFICES ASSUME MemberInv PROVE ComesBackInvited
      BY DEF MemberInv, MembersSound
    <2>1. ASSUME NEW i \in DOMAIN wsInvite, wsInvite[i].got # 0
          PROVE  /\ wsInvite[i].kind = "agent" =>
                      \A t \in 1..(wsInvite[i].got - 1) :
                          tenure[t].who = wsInvite[i].taker => wsInvite[i].made >= tenure[t].ends
                 /\ wsInvite[i].enrol = "consumed" =>
                      wsInvite[i].taker = wsInvite[i].kept /\ wsInvite[i].taker \in Newcomers
      BY <2>1 DEF MemberInv, InviteOK, GoneBefore
    <2> QED
      BY <2>1 DEF ComesBackInvited, MemberInv, SeatsOpen
  <1> QED
    BY <1>1, <1>2, <1>3, PTL DEF MemberSpec

-----------------------------------------------------------------------------
(* Login providers *)

SagaPhases == {"begun", "reading", "deleting", "checking", "finishing", "failing"}
SettlePhases == {"settling", "settledeleting", "settlechecking", "settled"}
OtherPhases == {"idle", "healing", "disabling"}
ReqRows == [phase : SagaPhases \cup SettlePhases \cup OtherPhases, op : Nat, hub : Hubs \cup {"none"}, sub : Nat,
            removed : BOOLEAN, why : {"none", "late", "graced"}]
OpRows == [kind : {"link", "unlink"}, hub : Hubs, st : {"pending", "completed", "failed"},
           age : {"new", "late", "graced"}]
LinkRows == [sub : Nat, since : Nat]
HubType ==
    /\ remote \in [Hubs -> Nat] /\ cred \in [Hubs -> Nat] /\ mail \in BOOLEAN /\ op \in Seq(OpRows)
    /\ req \in [Requests -> ReqRows] /\ flying \subseteq DOMAIN op /\ rowLock \subseteq Hubs
    /\ linkedAs \in [Hubs -> LinkRows]

Unlinking(o) == PendingOp(o) /\ op[o].kind = "unlink"
\* The account can be entered, and can be without p.
Way == mail \/ \E x \in Hubs : remote[x] # 0
OtherWay(p) == mail \/ \E x \in Hubs \ {p} : remote[x] # 0
UnlinkSince(p) == \E o \in DOMAIN op : o > linkedAs[p].since /\ op[o].kind = "unlink" /\ op[o].hub = p

\* A request of the saga or of its settlement holds the pending unlink; what it
\* read still bears out what it is about to do.
SagaOK(r) ==
    /\ r.op \in DOMAIN op /\ Unlinking(r.op) /\ r.hub = op[r.op].hub /\ r.hub \in Hubs
    /\ r.phase \in SagaPhases => op[r.op].age = "new" /\ r.op \notin flying
    /\ r.phase \in SettlePhases => op[r.op].age # "new" /\ (r.why = "graced" => op[r.op].age = "graced")
    /\ r.phase = "reading" => cred[r.hub] \in {0, remote[r.hub], r.sub}
    /\ r.phase = "deleting" => remote[r.hub] # 0 /\ cred[r.hub] \in {0, remote[r.hub]}
    /\ r.phase \in {"deleting", "settledeleting"} => OtherWay(r.hub)
    /\ r.phase \in {"settledeleting", "settlechecking"} => r.why = "graced"
    /\ r.op \in flying /\ r.phase = "settling" => r.sub \in {0, remote[r.hub]}
    /\ r.op \in flying /\ r.phase = "settled" => ~r.removed
RowOK(r) ==
    /\ r.phase \in SagaPhases \cup SettlePhases => SagaOK(r)
    /\ r.phase \in OtherPhases => r.op = 0
    /\ r.phase \in {"healing", "disabling"} => r.hub \in Hubs /\ r.sub # 0
    /\ r.phase = "disabling" => r.hub \in rowLock /\ UnlinkSince(r.hub)
\* A delete that may still land is the pending unlink's, and the account does
\* not hang on what it would delete.
FlyOK(o) ==
    /\ Unlinking(o) /\ op[o].age # "graced"
    /\ remote[op[o].hub] # 0 /\ cred[op[o].hub] \in {0, remote[op[o].hub]} /\ OtherWay(op[o].hub)
\* What was linked is as it was linked, or an unlink is to blame.
KeptOK(p) ==
    /\ cred[p] \in {0, linkedAs[p].sub} /\ linkedAs[p].since <= Len(op)
    /\ linkedAs[p].sub # 0 => \/ remote[p] = linkedAs[p].sub /\ cred[p] = linkedAs[p].sub
                              \/ UnlinkSince(p)
    /\ \A o \in DOMAIN op : Unlinking(o) => linkedAs[p].since < o
Alone ==
    /\ \A x, y \in DOMAIN op : Unlinking(x) /\ Unlinking(y) => x = y
    /\ \A x, y \in Requests : x # y => /\ req[x].op = req[y].op => req[x].op = 0
                                       /\ ~(req[x].phase = "disabling" /\ req[y].phase = "disabling"
                                            /\ req[x].hub = req[y].hub)
HubInv ==
    /\ HubType /\ Way /\ Alone
    /\ \A q \in Requests : RowOK(req[q])
    /\ \A o \in flying : FlyOK(o)
    /\ \A p \in Hubs : KeptOK(p)

\* An operation as a row of the log.
LEMMA OpFacts ==
    ASSUME HubType, NEW o \in DOMAIN op
    PROVE  /\ op[o] \in OpRows /\ op[o].hub \in Hubs /\ op[o].kind \in {"link", "unlink"}
           /\ op[o].age \in {"new", "late", "graced"} /\ o \in Nat /\ o > 0 /\ o <= Len(op)
  <1>1. op[o] \in OpRows /\ o \in 1 .. Len(op) /\ Len(op) \in Nat
    BY DEF HubType
  <1> QED
    BY <1>1 DEF OpRows

\* Finishing an operation changes its status and nothing else.
LEMMA FinishFacts ==
    ASSUME HubType, NEW o \in DOMAIN op, PendingOp(o), NEW st \in {"completed", "failed"}
    PROVE  /\ Finished(o, st) \in Seq(OpRows) /\ DOMAIN Finished(o, st) = DOMAIN op
           /\ Len(Finished(o, st)) = Len(op)
           /\ \A x \in DOMAIN op : /\ Finished(o, st)[x].kind = op[x].kind
                                   /\ Finished(o, st)[x].hub = op[x].hub
                                   /\ Finished(o, st)[x].age = op[x].age
                                   /\ x # o => Finished(o, st)[x] = op[x]
           /\ Finished(o, st)[o].st # "pending"
  <1> DEFINE row == [op[o] EXCEPT !.st = st]
  <1>1. op \in Seq(OpRows) /\ op[o] \in OpRows
    BY OpFacts DEF HubType
  <1>2. Finished(o, st) = [op EXCEPT ![o] = row]
    BY DEF Finished
  <1>3. /\ row \in OpRows /\ row.kind = op[o].kind /\ row.hub = op[o].hub /\ row.age = op[o].age
        /\ row.st = st
    BY <1>1 DEF OpRows
  <1> HIDE DEF row
  <1> QED
    BY <1>1, <1>2, <1>3

\* The account's ways in, counted and named.
LEMMA WaysCounted ==
    ASSUME HubType
    PROVE  /\ usableMethods \in Nat
           /\ usableMethods >= 1 <=> Way
           /\ usableMethods > 1 => \A p \in Hubs : OtherWay(p)
  <1> DEFINE c == Cardinality(Usable)
  <1>1. IsFiniteSet(Usable)
    <2>1. Usable \subseteq Hubs
      BY DEF Usable
    <2> QED
      BY <2>1, HubAssumption, FS_Subset
  <1>2. c \in Nat /\ (c = 0 <=> Usable = {})
    BY <1>1, FS_CardinalityType, FS_EmptySet
  <1>3. ASSUME NEW p \in Hubs, \A x \in Hubs \ {p} : remote[x] = 0 PROVE c <= 1
    <2>1. Usable \subseteq {p}
      BY <1>3 DEF Usable
    <2>2. IsFiniteSet({p}) /\ Cardinality({p}) = 1
      BY FS_Singleton
    <2> QED
      BY <2>1, <2>2, FS_Subset
  <1>4. usableMethods = c + (IF mail THEN 1 ELSE 0)
    BY DEF usableMethods
  <1>5. Usable = {} <=> ~ \E x \in Hubs : remote[x] # 0
    BY DEF Usable
  <1> HIDE DEF c
  <1>6. usableMethods \in Nat /\ (usableMethods >= 1 <=> mail \/ c # 0)
    BY <1>2, <1>4
  <1>7. usableMethods > 1 /\ ~mail => c > 1
    BY <1>2, <1>4
  <1>8. ASSUME usableMethods > 1, NEW p \in Hubs PROVE OtherWay(p)
    <2>1. CASE mail
      BY <2>1 DEF OtherWay
    <2>2. CASE ~mail
      <3>1. ~(c <= 1)
        BY <1>2, <1>7, <1>8, <2>2
      <3> QED
        BY <1>3, <3>1 DEF OtherWay
    <2> QED
      BY <2>1, <2>2
  <1> QED
    BY <1>2, <1>5, <1>6, <1>8 DEF Way

\* A request at rest.
LEMMA AtRest == Resting \in ReqRows /\ Resting.op = 0 /\ Resting.phase = "idle" /\ RowOK(Resting)
  <1>1. Resting \in ReqRows /\ Resting.op = 0 /\ Resting.phase = "idle"
    BY DEF Resting, ReqRows, SagaPhases, SettlePhases, OtherPhases
  <1> QED
    BY <1>1 DEF RowOK, SagaPhases, SettlePhases, OtherPhases

LEMMA HubInvInit == HubInit => HubInv
  <1> SUFFICES ASSUME HubInit PROVE HubInv
    OBVIOUS
  <1>1. /\ op = <<>> /\ flying = {} /\ rowLock = {} /\ cred = remote /\ remote \in [Hubs -> Nat]
        /\ linkedAs = [p \in Hubs |-> [sub |-> remote[p], since |-> 0]]
        /\ req = [q \in Requests |-> Resting] /\ mail \in BOOLEAN /\ usableMethods >= 1
    BY DEF HubInit
  <1>2. linkedAs \in [Hubs -> LinkRows] /\ \A p \in Hubs : linkedAs[p].sub = remote[p] /\ linkedAs[p].since = 0
    BY <1>1 DEF LinkRows
  <1>3. op \in Seq(OpRows) /\ DOMAIN op = {} /\ Len(op) = 0
    BY <1>1
  <1>4. HubType
    BY <1>1, <1>2, <1>3, AtRest DEF HubType
  <1>5. Way
    BY <1>1, <1>4, WaysCounted
  <1>6. \A q \in Requests : req[q] = Resting
    BY <1>1
  <1>7. \A p \in Hubs : KeptOK(p)
    BY <1>1, <1>2, <1>3 DEF KeptOK
  <1>8. Alone
    BY <1>3, <1>6, AtRest DEF Alone
  <1> QED
    BY <1>1, <1>4, <1>5, <1>6, <1>7, <1>8, AtRest DEF HubInv

\* A request's step that changes only its own row.
LEMMA RowStep ==
    ASSUME HubInv, NEW q \in Requests, NEW r \in ReqRows, RowOK(r), r.phase # "disabling",
           req' = [req EXCEPT ![q] = r],
           r.op = 0 \/ \A x \in Requests \ {q} : req[x].op # r.op,
           UNCHANGED <<remote, cred, mail, op, flying, rowLock, linkedAs>>
    PROVE  HubInv'
  <1>1. HubType'
    BY DEF HubInv, HubType
  <1>2. Way' /\ \A p \in Hubs : OtherWay(p)' <=> OtherWay(p)
    BY DEF HubInv, Way, OtherWay
  <1>3. req'[q] = r /\ \A x \in Requests \ {q} : req'[x] = req[x]
    BY DEF HubInv, HubType
  <1>4. Alone'
    BY <1>3 DEF HubInv, Alone, Unlinking, PendingOp
  <1>5. ASSUME NEW x \in Requests PROVE RowOK(req[x])'
    <2>1. PICK y : y = req'[x] /\ RowOK(y)
      BY <1>3 DEF HubInv
    <2>2. RowOK(y)'
      BY <2>1, <1>2 DEF RowOK, SagaOK, OtherWay, UnlinkSince, Unlinking, PendingOp
    <2> QED
      BY <2>1, <2>2
  <1>6. \A o \in flying' : FlyOK(o)'
    BY DEF HubInv, FlyOK, OtherWay, Unlinking, PendingOp
  <1>7. \A p \in Hubs : KeptOK(p)'
    BY DEF HubInv, KeptOK, UnlinkSince, Unlinking, PendingOp
  <1> QED
    BY <1>1, <1>2, <1>4, <1>5, <1>6, <1>7 DEF HubInv

\* While a request holds the unlink no other does, and no delete but its own
\* is out.
LEMMA OneSaga ==
    ASSUME HubInv, NEW q \in Requests, req[q].phase \in SagaPhases \cup SettlePhases
    PROVE  /\ SagaOK(req[q]) /\ req[q].op # 0 /\ flying \subseteq {req[q].op}
           /\ \A x \in Requests \ {q} : req[x].phase \in OtherPhases /\ req[x].op = 0
           /\ req[q].phase \in SagaPhases \cup {"settledeleting", "settlechecking"} => flying = {}
  <1>1. SagaOK(req[q])
    BY DEF HubInv, RowOK
  <1>2. req[q].op \in DOMAIN op /\ Unlinking(req[q].op) /\ req[q].op # 0
    <2>1. req[q].op \in DOMAIN op /\ Unlinking(req[q].op)
      BY <1>1 DEF SagaOK
    <2> QED
      BY <2>1, OpFacts DEF HubInv
  <1>3. flying \subseteq {req[q].op}
    BY <1>2 DEF HubInv, HubType, FlyOK, Alone
  <1>4. ASSUME NEW x \in Requests \ {q} PROVE req[x].phase \in OtherPhases /\ req[x].op = 0
    <2>1. req[x].phase \in SagaPhases \cup SettlePhases \cup OtherPhases
      BY DEF HubInv, HubType, ReqRows
    <2>2. CASE req[x].phase \in SagaPhases \cup SettlePhases
      <3>1. req[x].op \in DOMAIN op /\ Unlinking(req[x].op)
        BY <2>2 DEF HubInv, RowOK, SagaOK
      <3>2. req[x].op = req[q].op
        BY <1>2, <3>1 DEF HubInv, Alone
      <3> QED
        BY <1>2, <3>2 DEF HubInv, Alone
    <2> QED
      BY <2>1, <2>2 DEF HubInv, RowOK
  <1>5. req[q].phase \in SagaPhases \cup {"settledeleting", "settlechecking"} => req[q].op \notin flying
    <2>1. req[q].phase \in SagaPhases => req[q].op \notin flying
      BY <1>1 DEF SagaOK
    <2>2. req[q].phase \in {"settledeleting", "settlechecking"} => op[req[q].op].age = "graced"
      BY <1>1 DEF SagaOK, SettlePhases
    <2> QED
      BY <2>1, <2>2 DEF HubInv, FlyOK
  <1> QED
    BY <1>1, <1>2, <1>3, <1>4, <1>5

\* Rows that hold no operation depend on the locks and the log only.
LEMMA OtherRows ==
    ASSUME NEW r, RowOK(r), r.phase \in OtherPhases,
           r.phase = "disabling" => r.hub \in rowLock' /\ UnlinkSince(r.hub)'
    PROVE  RowOK(r)'
  BY DEF RowOK, SagaPhases, SettlePhases, OtherPhases

\* An unlink of p that was pending when p was last linked, or came after.
LEMMA ToBlame ==
    ASSUME HubInv, NEW o \in DOMAIN op, Unlinking(o)
    PROVE  UnlinkSince(op[o].hub) /\ op[o].hub \in Hubs
  <1>1. op[o].hub \in Hubs /\ o \in Nat /\ linkedAs[op[o].hub].since \in Nat
    BY OpFacts DEF HubInv, HubType, LinkRows
  <1>2. linkedAs[op[o].hub].since < o
    BY <1>1 DEF HubInv, KeptOK
  <1> QED
    BY <1>1, <1>2 DEF UnlinkSince, Unlinking

\* A request ends its unlink: it rests, and the credential may be retired.
LEMMA FinishStep ==
    ASSUME HubInv, NEW q \in Requests, req[q].phase \in SagaPhases \cup SettlePhases,
           req[q].op \notin flying, NEW st \in {"completed", "failed"},
           op' = Finished(req[q].op, st), req' = [req EXCEPT ![q] = Resting],
           cred' = cred \/ cred' = [cred EXCEPT ![req[q].hub] = 0],
           UNCHANGED <<remote, mail, flying, rowLock, linkedAs>>
    PROVE  HubInv'
  <1> DEFINE o == req[q].op
             p == req[q].hub
  <1>0. HubType
    BY DEF HubInv
  <1>1. o \in DOMAIN op /\ Unlinking(o) /\ PendingOp(o) /\ p = op[o].hub /\ p \in Hubs
    BY OneSaga DEF SagaOK, Unlinking
  <1>2. /\ op' \in Seq(OpRows) /\ DOMAIN op' = DOMAIN op /\ Len(op') = Len(op)
        /\ \A x \in DOMAIN op : op'[x].kind = op[x].kind /\ op'[x].hub = op[x].hub /\ op'[x].age = op[x].age
                                /\ (x # o => op'[x] = op[x])
        /\ op'[o].st # "pending"
    BY <1>0, <1>1, FinishFacts
  <1>3. flying = {} /\ \A x \in Requests \ {q} : req[x].phase \in OtherPhases /\ req[x].op = 0
    BY OneSaga
  <1>4. \A x \in DOMAIN op : ~Unlinking(x)'
    BY <1>1, <1>2 DEF Unlinking, PendingOp, HubInv, Alone
  <1>5. UnlinkSince(p) /\ \A x \in Hubs : UnlinkSince(x)' <=> UnlinkSince(x)
    <2>1. UnlinkSince(p)
      BY <1>1, ToBlame
    <2> QED
      BY <1>2, <2>1 DEF UnlinkSince
  <1>6. HubType'
    BY <1>0, <1>1, <1>2, <1>3, AtRest DEF HubType
  <1>7. req'[q] = Resting /\ \A x \in Requests \ {q} : req'[x] = req[x]
    BY <1>0 DEF HubType
  <1>8. Alone'
    BY <1>2, <1>3, <1>4, <1>7, AtRest DEF Alone, HubInv
  <1>9. ASSUME NEW x \in Requests PROVE RowOK(req[x])'
    <2>1. PICK r : r = req'[x]
      OBVIOUS
    <2>2. RowOK(r) /\ r.phase \in OtherPhases
      BY <1>3, <1>7, <2>1, AtRest DEF HubInv, OtherPhases
    <2>3. r.phase = "disabling" => r.hub \in rowLock' /\ UnlinkSince(r.hub)'
      BY <1>5, <2>2 DEF RowOK
    <2> QED
      BY <2>1, <2>2, <2>3, OtherRows
  <1>10. ASSUME NEW x \in Hubs PROVE KeptOK(x)'
    <2>1. KeptOK(x)
      BY DEF HubInv
    <2>2. cred'[x] = cred[x] \/ (cred'[x] = 0 /\ x = p)
      BY <1>0, <1>1 DEF HubType
    <2> QED
      BY <1>2, <1>4, <1>5, <2>1, <2>2 DEF KeptOK
  <1>11. Way'
    BY DEF HubInv, Way
  <1> QED
    BY <1>3, <1>6, <1>8, <1>9, <1>10, <1>11 DEF HubInv

\* A step of links leaves the unlinks of the log alone.
OpsAlike ==
    /\ op' \in Seq(OpRows) /\ DOMAIN op' = DOMAIN op /\ Len(op') = Len(op)
    /\ \A x \in DOMAIN op : /\ op'[x].kind = op[x].kind /\ op'[x].hub = op[x].hub
                            /\ Unlinking(x) => op'[x] = op[x]
                            /\ Unlinking(x)' <=> Unlinking(x)

LEMMA AlikeRows ==
    ASSUME HubInv, OpsAlike, UNCHANGED <<remote, mail, flying, rowLock>>,
           NEW p \in Hubs,
           \/ UNCHANGED <<cred, linkedAs>>
           \/ p \notin rowLock /\ cred' = [cred EXCEPT ![p] = remote[p]]
              /\ \E w : linkedAs' = [linkedAs EXCEPT ![p] = w],
           NEW r, RowOK(r)
    PROVE  RowOK(r)'
  <1>0. HubType
    BY DEF HubInv
  <1>1. \A x \in Hubs : OtherWay(x)' <=> OtherWay(x)
    BY DEF OtherWay
  <1>2. \A x \in Hubs : cred'[x] \in {cred[x], remote[x]}
    BY <1>0 DEF HubType
  <1>3. \A x \in rowLock : linkedAs'[x] = linkedAs[x]
    BY <1>0 DEF HubType
  <1>4. \A x \in rowLock : UnlinkSince(x) => UnlinkSince(x)'
    BY <1>3 DEF UnlinkSince, OpsAlike
  <1>5. ASSUME SagaOK(r) PROVE SagaOK(r)'
    <2>1. r.op \in DOMAIN op /\ Unlinking(r.op) /\ r.hub \in Hubs /\ op'[r.op] = op[r.op] /\ Unlinking(r.op)'
      BY <1>5 DEF SagaOK, OpsAlike
    <2>2. cred'[r.hub] \in {cred[r.hub], remote[r.hub]} /\ (OtherWay(r.hub)' <=> OtherWay(r.hub))
      BY <1>1, <1>2, <2>1
    <2> QED
      BY <1>5, <2>1, <2>2 DEF SagaOK, OpsAlike
  <1> QED
    BY <1>4, <1>5 DEF RowOK

\* A completed link or sign-in is dated before every pending unlink.
LEMMA EndedFacts ==
    ASSUME HubType
    PROVE  /\ Ended \in Nat /\ Ended <= Len(op)
           /\ \A o \in DOMAIN op : Unlinking(o) => Ended < o
  <1> DEFINE S == {o \in DOMAIN op : \A x \in 1..o : ~(PendingOp(x) /\ op[x].kind = "unlink")}
  <1>1. DOMAIN op = 1 .. Len(op) /\ Len(op) \in Nat
    BY DEF HubType
  <1>2. \A n \in Nat : IsFiniteSet(1 .. n) /\ Cardinality(1 .. n) = n
    BY FS_Interval
  <1>3. \A n \in Nat : S \subseteq 1 .. n => Cardinality(S) \in Nat /\ Cardinality(S) <= n
    BY <1>2, FS_Subset, FS_CardinalityType
  <1>4. Ended = Cardinality(S)
    BY DEF Ended
  <1>5. ASSUME NEW o \in DOMAIN op, Unlinking(o) PROVE S \subseteq 1 .. (o - 1) /\ o - 1 \in Nat /\ o \in Nat
    BY <1>1, <1>5 DEF Unlinking
  <1>6. S \subseteq 1 .. Len(op)
    BY <1>1
  <1> HIDE DEF S
  <1>7. Ended \in Nat /\ Ended <= Len(op)
    BY <1>1, <1>3, <1>4, <1>6
  <1>8. ASSUME NEW o \in DOMAIN op, Unlinking(o) PROVE Ended < o
    BY <1>3, <1>4, <1>5, <1>7, <1>8
  <1> QED
    BY <1>7, <1>8

\* A link or a sign-in: the log's links, perhaps a credential and its date.
LEMMA LinkStep ==
    ASSUME HubInv, OpsAlike, UNCHANGED <<remote, mail, flying, rowLock, req>>,
           NEW p \in Hubs,
           \/ UNCHANGED <<cred, linkedAs>>
           \/ p \notin rowLock /\ cred' = [cred EXCEPT ![p] = remote[p]]
              /\ linkedAs' = [linkedAs EXCEPT ![p] = [sub |-> remote[p], since |-> Ended]]
    PROVE  HubInv'
  <1> DEFINE w == [sub |-> remote[p], since |-> Ended]
  <1>0. HubType /\ remote[p] \in Nat
    BY DEF HubInv, HubType
  <1>1. /\ Ended \in Nat /\ Ended <= Len(op)
        /\ \A o \in DOMAIN op : Unlinking(o) => Ended < o
    BY <1>0, EndedFacts
  <1>2. w \in LinkRows /\ w.sub = remote[p] /\ w.since = Ended
    BY <1>0, <1>1 DEF LinkRows
  <1>3. UNCHANGED <<cred, linkedAs>> \/ (p \notin rowLock /\ cred' = [cred EXCEPT ![p] = remote[p]]
              /\ linkedAs' = [linkedAs EXCEPT ![p] = w])
    OBVIOUS
  <1> HIDE DEF w
  <1>4. HubType'
    BY <1>0, <1>2, <1>3 DEF HubType, OpsAlike
  <1>5. \A x \in Requests : RowOK(req[x])'
    <2>1. ASSUME NEW x \in Requests PROVE RowOK(req[x])'
      <3>1. PICK r : r = req[x] /\ r = req'[x] /\ RowOK(r)
        BY DEF HubInv
      <3> QED
        BY <1>3, <3>1, AlikeRows
    <2> QED
      BY <2>1
  <1>6. Alone'
    BY DEF HubInv, Alone, OpsAlike
  <1>7. ASSUME NEW o \in flying' PROVE FlyOK(o)'
    <2>1. o \in DOMAIN op /\ FlyOK(o) /\ Unlinking(o) /\ op'[o] = op[o] /\ Unlinking(o)' /\ op[o].hub \in Hubs
      BY <1>0, OpFacts DEF HubInv, HubType, FlyOK, OpsAlike
    <2>2. cred'[op[o].hub] \in {cred[op[o].hub], remote[op[o].hub]}
      BY <1>0, <1>3, <2>1 DEF HubType
    <2> QED
      BY <2>1, <2>2 DEF FlyOK, OtherWay
  <1>8. ASSUME NEW x \in Hubs PROVE KeptOK(x)'
    <2>0. KeptOK(x)
      BY DEF HubInv
    <2>1. CASE x = p /\ linkedAs' = [linkedAs EXCEPT ![p] = w] /\ cred' = [cred EXCEPT ![p] = remote[p]]
      <3>1. linkedAs'[x] = w /\ cred'[x] = remote[x] /\ remote'[x] = remote[x]
        BY <1>0, <2>1 DEF HubType
      <3> QED
        BY <1>1, <1>2, <2>1, <3>1 DEF KeptOK, OpsAlike
    <2>2. CASE linkedAs'[x] = linkedAs[x] /\ cred'[x] = cred[x]
      <3>1. UnlinkSince(x) => UnlinkSince(x)'
        BY <2>2 DEF UnlinkSince, OpsAlike
      <3> QED
        BY <2>0, <2>2, <3>1 DEF KeptOK, OpsAlike
    <2> QED
      BY <1>0, <1>3, <2>1, <2>2 DEF HubType
  <1>9. Way'
    BY DEF HubInv, Way
  <1> QED
    BY <1>4, <1>5, <1>6, <1>7, <1>8, <1>9 DEF HubInv

LEMMA LinkSteps ==
    ASSUME HubInv,
           \/ \E p \in Hubs : syncVerifiedProviderTx(p)
           \/ \E o \in DOMAIN op : CompleteProviderLink(o) \/ FailLink(o)
    PROVE  HubInv'
  <1>0. HubType
    BY DEF HubInv
  <1>1. ASSUME NEW p \in Hubs, syncVerifiedProviderTx(p) PROVE HubInv'
    <2>1. OpsAlike
      BY <1>0, <1>1 DEF syncVerifiedProviderTx, OpsAlike, HubType, Unlinking, PendingOp
    <2> QED
      BY <1>1, <2>1, LinkStep DEF syncVerifiedProviderTx
  <1>2. ASSUME NEW o \in DOMAIN op, PendingOp(o), op[o].kind = "link", NEW st \in {"completed", "failed"},
               op' = Finished(o, st)
        PROVE  OpsAlike /\ op[o].hub \in Hubs
    <2>1. /\ op' \in Seq(OpRows) /\ DOMAIN op' = DOMAIN op /\ Len(op') = Len(op)
          /\ \A x \in DOMAIN op : op'[x].kind = op[x].kind /\ op'[x].hub = op[x].hub
                                  /\ (x # o => op'[x] = op[x])
      BY <1>0, <1>2, FinishFacts
    <2> QED
      BY <1>0, <1>2, <2>1, OpFacts DEF OpsAlike, Unlinking, PendingOp
  <1>3. ASSUME NEW o \in DOMAIN op, CompleteProviderLink(o) PROVE HubInv'
    <2>1. OpsAlike /\ op[o].hub \in Hubs
      BY <1>2, <1>3 DEF CompleteProviderLink
    <2> QED
      BY <1>3, <2>1, LinkStep DEF CompleteProviderLink
  <1>4. ASSUME NEW o \in DOMAIN op, FailLink(o) PROVE HubInv'
    <2>1. OpsAlike /\ op[o].hub \in Hubs
      BY <1>2, <1>4 DEF FailLink
    <2> QED
      BY <1>4, <2>1, LinkStep DEF FailLink, accountVars
  <1> QED
    BY <1>1, <1>3, <1>4

\* Without a pending unlink nothing is under way.
LEMMA NoSaga ==
    ASSUME HubInv, \A o \in DOMAIN op : ~Unlinking(o)
    PROVE  flying = {} /\ \A x \in Requests : req[x].phase \in OtherPhases /\ req[x].op = 0
  <1>1. flying = {}
    BY DEF HubInv, HubType, FlyOK
  <1>2. ASSUME NEW x \in Requests PROVE req[x].phase \in OtherPhases /\ req[x].op = 0
    <2>1. req[x].phase \in SagaPhases \cup SettlePhases \cup OtherPhases
      BY DEF HubInv, HubType, ReqRows
    <2>2. req[x].phase \notin SagaPhases \cup SettlePhases
      BY DEF HubInv, RowOK, SagaOK
    <2> QED
      BY <2>1, <2>2 DEF HubInv, RowOK
  <1> QED
    BY <1>1, <1>2

LEMMA BeginStep ==
    ASSUME HubInv,
           \/ \E p \in Hubs : StartLink(p)
           \/ \E q \in Requests, p \in Hubs : StartUnlink(q, p)
    PROVE  HubInv'
  <1>0. HubType /\ Len(op) \in Nat /\ DOMAIN op = 1 .. Len(op)
    BY DEF HubInv, HubType
  <1>1. ASSUME NEW kind \in {"link", "unlink"}, NEW p \in Hubs, BeginProviderOperation(kind, p)
        PROVE  /\ flying = {} /\ (\A x \in Requests : req[x].phase \in OtherPhases /\ req[x].op = 0)
               /\ op' \in Seq(OpRows) /\ DOMAIN op' = 1 .. (Len(op) + 1) /\ Len(op') = Len(op) + 1
               /\ (\A x \in DOMAIN op : op'[x] = op[x] /\ ~Unlinking(x))
               /\ op'[Len(op) + 1].kind = kind /\ op'[Len(op) + 1].hub = p
               /\ op'[Len(op) + 1].st = "pending" /\ op'[Len(op) + 1].age = "new"
    <2> DEFINE row == [kind |-> kind, hub |-> p, st |-> "pending", age |-> "new"]
    <2>1. \A o \in DOMAIN op : ~Unlinking(o)
      BY <1>1 DEF BeginProviderOperation, Fenced, Unlinking
    <2>2. op' = Append(op, row) /\ row \in OpRows
      BY <1>1 DEF BeginProviderOperation, OpRows
    <2>3. row.kind = kind /\ row.hub = p /\ row.st = "pending" /\ row.age = "new"
      OBVIOUS
    <2> HIDE DEF row
    <2>4. /\ op' \in Seq(OpRows) /\ DOMAIN op' = 1 .. (Len(op) + 1) /\ Len(op') = Len(op) + 1
          /\ (\A x \in DOMAIN op : op'[x] = op[x]) /\ op'[Len(op) + 1] = row
      BY <1>0, <2>2 DEF HubType
    <2> QED
      BY <2>1, <2>3, <2>4, NoSaga
  <1>2. ASSUME NEW kind \in {"link", "unlink"}, NEW p \in Hubs, BeginProviderOperation(kind, p),
               UNCHANGED <<remote, cred, mail, flying, rowLock, linkedAs>>
        PROVE  /\ Way' /\ (\A x \in flying' : FlyOK(x)') /\ (\A x \in Hubs : KeptOK(x)')
               /\ (\A x, y \in DOMAIN op' : Unlinking(x)' /\ Unlinking(y)' => x = y)
               /\ (\A x \in Hubs : UnlinkSince(x) => UnlinkSince(x)')
               /\ (kind = "unlink" => \A m : m = Len(op) + 1 => Unlinking(m)')
    <2>0. PICK n : n = Len(op) + 1
      OBVIOUS
    <2>1. n \in Nat /\ n > Len(op)
      BY <1>0, <2>0
    <2>2. /\ flying = {} /\ op' \in Seq(OpRows) /\ DOMAIN op' = 1 .. n /\ Len(op') = n
          /\ (\A x \in DOMAIN op : op'[x] = op[x] /\ ~Unlinking(x))
          /\ op'[n].kind = kind /\ op'[n].st = "pending"
      BY <1>1, <1>2, <2>0
    <2>3. \A x \in DOMAIN op' : x \in DOMAIN op \/ x = n
      BY <1>0, <2>0, <2>1, <2>2
    <2>4. \A x \in DOMAIN op' : Unlinking(x)' => x = n
      BY <2>2, <2>3 DEF Unlinking, PendingOp
    <2>5. ASSUME NEW x \in Hubs PROVE UnlinkSince(x) => UnlinkSince(x)'
      <3>1. DOMAIN op \subseteq DOMAIN op'
        BY <1>0, <2>1, <2>2
      <3> QED
        BY <1>2, <2>2, <3>1 DEF UnlinkSince
    <2>6. ASSUME NEW x \in Hubs PROVE KeptOK(x)'
      <3>1. KeptOK(x) /\ linkedAs[x].since \in Nat
        BY <1>0 DEF HubInv, HubType, LinkRows
      <3>2. linkedAs[x].since < n /\ linkedAs[x].since <= n
        BY <1>0, <2>1, <3>1 DEF KeptOK
      <3> QED
        BY <1>2, <2>2, <2>4, <2>5, <3>1, <3>2 DEF KeptOK
    <2>7. Way'
      BY <1>2 DEF HubInv, Way
    <2>8. kind = "unlink" => Unlinking(n)'
      BY <2>2 DEF Unlinking, PendingOp
    <2>9. flying' = {}
      BY <1>2, <2>2
    <2> QED
      BY <2>0, <2>4, <2>5, <2>6, <2>7, <2>8, <2>9
  <1>3. ASSUME NEW x \in Requests, req[x].phase \in OtherPhases, UNCHANGED rowLock,
               \A y \in Hubs : UnlinkSince(y) => UnlinkSince(y)'
        PROVE  \A r : r = req[x] => RowOK(r)'
    <2> SUFFICES ASSUME NEW r, r = req[x] PROVE RowOK(r)'
      OBVIOUS
    <2>1. RowOK(r) /\ r.phase \in OtherPhases
      BY <1>3 DEF HubInv
    <2>2. r.phase = "disabling" => r.hub \in rowLock' /\ UnlinkSince(r.hub)'
      BY <1>3, <2>1 DEF RowOK
    <2> QED
      BY <2>1, <2>2, OtherRows
  <1>4. ASSUME NEW p \in Hubs, StartLink(p) PROVE HubInv'
    <2>1. BeginProviderOperation("link", p) /\ UNCHANGED <<remote, cred, mail, req, flying, rowLock, linkedAs>>
      BY <1>4 DEF StartLink, accountVars
    <2>2. HubType'
      BY <1>0, <1>1, <2>1 DEF HubType
    <2>3. \A x \in Requests : RowOK(req[x])'
      <3>1. ASSUME NEW x \in Requests PROVE RowOK(req[x])'
        <4>1. PICK r : r = req[x] /\ r = req'[x]
          BY <2>1
        <4> QED
          BY <1>1, <1>2, <1>3, <2>1, <4>1
      <3> QED
        BY <3>1
    <2>4. Alone'
      BY <1>2, <2>1 DEF HubInv, Alone
    <2> QED
      BY <1>2, <2>1, <2>2, <2>3, <2>4 DEF HubInv
  <1>5. ASSUME NEW q \in Requests, NEW p \in Hubs, StartUnlink(q, p) PROVE HubInv'
    <2>0. PICK n : n = Len(op) + 1
      OBVIOUS
    <2> DEFINE row == [Resting EXCEPT !.phase = "begun", !.op = n, !.hub = p]
    <2>1. BeginProviderOperation("unlink", p) /\ UNCHANGED <<remote, cred, mail, flying, rowLock, linkedAs>>
      BY <1>5 DEF StartUnlink, accountVars
    <2>2. /\ flying = {} /\ (\A x \in Requests : req[x].phase \in OtherPhases /\ req[x].op = 0)
          /\ op' \in Seq(OpRows) /\ DOMAIN op' = 1 .. n /\ Len(op') = n
          /\ op'[n].kind = "unlink" /\ op'[n].hub = p /\ op'[n].st = "pending" /\ op'[n].age = "new"
      BY <1>1, <2>0, <2>1
    <2>3. req' = [req EXCEPT ![q] = row]
      BY <1>5, <2>2 DEF StartUnlink
    <2>4. n \in Nat /\ n # 0 /\ n \in 1 .. n
      BY <1>0, <2>0
    <2>5. Unlinking(n)'
      BY <1>2, <2>0, <2>1
    <2>6. row \in ReqRows /\ row.phase = "begun" /\ row.op = n /\ row.hub = p
      BY <2>4 DEF Resting, ReqRows, SagaPhases
    <2> HIDE DEF row
    <2>7. req'[q] = row /\ \A x \in Requests \ {q} : req'[x] = req[x]
      BY <1>0, <2>3 DEF HubType
    <2>8. HubType'
      BY <1>0, <2>1, <2>2, <2>3, <2>6 DEF HubType
    <2>9. Alone'
      BY <1>2, <2>1, <2>2, <2>4, <2>6, <2>7 DEF HubInv, Alone, OtherPhases
    <2>10. ASSUME NEW x \in Requests PROVE RowOK(req[x])'
      <3>1. CASE x # q
        <4>1. PICK r : r = req[x] /\ r = req'[x]
          BY <2>7, <3>1
        <4> QED
          BY <1>2, <1>3, <2>1, <2>2, <4>1
      <3>2. CASE x = q
        <4>1. PICK r : r = row /\ r = req'[x]
          BY <2>7, <3>2
        <4>2. r.phase = "begun" /\ r.op = n /\ r.hub = p
          BY <2>6, <4>1
        <4>3. SagaOK(r)'
          BY <2>1, <2>2, <2>4, <2>5, <4>2 DEF SagaOK, SettlePhases
        <4> QED
          BY <4>1, <4>2, <4>3 DEF RowOK, OtherPhases
      <3> QED
        BY <3>1, <3>2
    <2> QED
      BY <1>2, <2>1, <2>8, <2>9, <2>10 DEF HubInv
  <1> QED
    BY <1>4, <1>5

\* Time passes for an operation.
LEMMA AgeStep ==
    ASSUME HubInv, HubPerils = {}, NEW o \in DOMAIN op, Age(o)
    PROVE  HubInv'
  <1>0. HubType /\ PendingOp(o) /\ op[o] \in OpRows
    BY OpFacts DEF HubInv, Age
  <1>1. PICK a \in {"late", "graced"} :
           /\ op' = [op EXCEPT ![o].age = a]
           /\ a = "late" => op[o].age = "new" /\ \A q \in Requests : req[q].op # o
           /\ a = "graced" => op[o].age = "late" /\ o \notin flying
    BY DEF Age
  <1>2. UNCHANGED <<remote, mail, linkedAs, cred, req, flying, rowLock>>
    BY DEF Age, accountVars
  <1> DEFINE row == [op[o] EXCEPT !.age = a]
  <1>3. /\ row \in OpRows /\ row.kind = op[o].kind /\ row.hub = op[o].hub /\ row.st = op[o].st
        /\ row.age = a
    BY <1>0 DEF OpRows
  <1>4. op' = [op EXCEPT ![o] = row]
    BY <1>1
  <1> HIDE DEF row
  <1>5. /\ op' \in Seq(OpRows) /\ DOMAIN op' = DOMAIN op /\ Len(op') = Len(op) /\ op'[o] = row
        /\ \A x \in DOMAIN op \ {o} : op'[x] = op[x]
    BY <1>0, <1>3, <1>4 DEF HubType
  <1>6. \A x \in DOMAIN op : /\ op'[x].kind = op[x].kind /\ op'[x].hub = op[x].hub
                             /\ op'[x].st = op[x].st /\ (Unlinking(x)' <=> Unlinking(x))
    BY <1>3, <1>5 DEF Unlinking, PendingOp
  <1>7. HubType' /\ Way'
    BY <1>0, <1>2, <1>5 DEF HubType, HubInv, Way
  <1>8. Alone'
    BY <1>2, <1>5, <1>6 DEF HubInv, Alone
  <1>9. \A x \in Hubs : (UnlinkSince(x)' <=> UnlinkSince(x)) /\ (OtherWay(x)' <=> OtherWay(x))
    BY <1>2, <1>5, <1>6 DEF UnlinkSince, OtherWay
  <1>10. \A x \in Hubs : KeptOK(x)'
    BY <1>2, <1>5, <1>6, <1>9 DEF HubInv, KeptOK
  <1>11. ASSUME NEW x \in flying' PROVE FlyOK(x)'
    <2>1. x \in flying /\ x \in DOMAIN op /\ FlyOK(x) /\ op[x].hub \in Hubs
      BY <1>0, <1>2, OpFacts DEF HubInv, HubType
    <2>2. x = o => a = "late"
      BY <1>1, <2>1
    <2>3. op'[x].age # "graced"
      BY <1>3, <1>5, <2>1, <2>2 DEF FlyOK
    <2> QED
      BY <1>2, <1>6, <1>9, <2>1, <2>3 DEF FlyOK
  <1>12. ASSUME NEW x \in Requests PROVE RowOK(req[x])'
    <2>1. PICK r : r = req[x] /\ r = req'[x]
      BY <1>2
    <2>2. RowOK(r)
      BY <2>1 DEF HubInv
    <2>3. ASSUME SagaOK(r), r.phase \in SagaPhases \cup SettlePhases PROVE SagaOK(r)'
      <3>1. r.op \in DOMAIN op /\ Unlinking(r.op) /\ r.hub \in Hubs
        BY <2>3 DEF SagaOK
      <3>2. r.op = o => /\ a = "graced" /\ op[o].age = "late" /\ op'[o].age = "graced"
                        /\ r.phase \notin SagaPhases
        BY <1>1, <1>3, <1>5, <2>1, <2>3 DEF SagaOK
      <3>3. r.op # o => op'[r.op] = op[r.op]
        BY <1>5, <3>1
      <3>4. /\ r.phase \in SagaPhases => op'[r.op].age = "new"
            /\ r.phase \in SettlePhases => op'[r.op].age # "new" /\ (r.why = "graced" => op'[r.op].age = "graced")
        BY <2>3, <3>2, <3>3 DEF SagaOK
      <3>5. op'[r.op].hub = op[r.op].hub /\ Unlinking(r.op)' /\ (OtherWay(r.hub)' <=> OtherWay(r.hub))
        BY <1>6, <1>9, <3>1
      <3> QED
        BY <1>2, <1>5, <2>3, <3>1, <3>4, <3>5 DEF SagaOK
    <2>4. r.phase \in {"disabling"} => UnlinkSince(r.hub)'
      BY <1>9, <2>2 DEF RowOK
    <2> QED
      BY <1>2, <2>1, <2>2, <2>3, <2>4 DEF RowOK
  <1> QED
    BY <1>7, <1>8, <1>10, <1>11, <1>12 DEF HubInv

\* The browser links a provider the account does not hold.
LEMMA RemoteLinks ==
    ASSUME HubInv, NEW o \in DOMAIN op, NEW s \in Subjects, LinkWithCredential(o, s)
    PROVE  HubInv'
  <1>0. HubType /\ s \in Nat /\ s # 0
    BY HubAssumption DEF HubInv
  <1>1. PICK p \in Hubs : p = op[o].hub
    BY <1>0, OpFacts
  <1>2. remote[p] = 0 /\ remote' = [remote EXCEPT ![p] = s]
        /\ UNCHANGED <<cred, mail, op, req, flying, rowLock, linkedAs>>
    BY <1>1 DEF LinkWithCredential
  <1>3. remote'[p] = s /\ \A x \in Hubs \ {p} : remote'[x] = remote[x]
    BY <1>0, <1>2 DEF HubType
  <1>4. HubType'
    BY <1>0, <1>2 DEF HubType
  <1>5. Way' /\ \A x \in Hubs : OtherWay(x) => OtherWay(x)'
    BY <1>0, <1>2, <1>3 DEF Way, OtherWay
  <1>6. (\A x : UnlinkSince(x)' <=> UnlinkSince(x)) /\ (\A x \in DOMAIN op : Unlinking(x)' <=> Unlinking(x))
    BY <1>2 DEF UnlinkSince, Unlinking, PendingOp
  <1>7. Alone'
    BY <1>2, <1>6 DEF HubInv, Alone
  <1>8. ASSUME NEW x \in Hubs PROVE KeptOK(x)'
    <2>1. KeptOK(x)
      BY DEF HubInv
    <2>2. linkedAs[x].sub # 0 /\ x = p => UnlinkSince(x)
      BY <1>2, <2>1 DEF KeptOK
    <2> QED
      BY <1>2, <1>3, <1>6, <2>1, <2>2 DEF KeptOK
  <1>9. ASSUME NEW x \in flying' PROVE FlyOK(x)'
    <2>1. x \in DOMAIN op /\ FlyOK(x) /\ op[x].hub \in Hubs
      BY <1>0, <1>2, OpFacts DEF HubInv, HubType
    <2>2. op[x].hub # p
      BY <1>2, <2>1 DEF FlyOK
    <2> QED
      BY <1>2, <1>3, <1>5, <1>6, <2>1, <2>2 DEF FlyOK
  <1>10. ASSUME NEW x \in Requests PROVE RowOK(req[x])'
    <2>1. PICK r : r = req[x] /\ r = req'[x]
      BY <1>2
    <2>2. RowOK(r)
      BY <2>1 DEF HubInv
    <2>3. ASSUME SagaOK(r) PROVE SagaOK(r)'
      <3>1. r.op \in DOMAIN op /\ Unlinking(r.op) /\ r.hub \in Hubs /\ r.hub = op[r.op].hub
        BY <2>3 DEF SagaOK
      <3>2. r.op \in flying => r.hub # p
        BY <1>2, <3>1 DEF HubInv, FlyOK
      <3>3. r.hub # p => remote'[r.hub] = remote[r.hub]
        BY <1>3, <3>1
      <3>4. r.hub = p => remote[r.hub] = 0
        BY <1>2
      <3> QED
        BY <1>2, <1>5, <1>6, <2>3, <3>1, <3>2, <3>3, <3>4 DEF SagaOK
    <2> QED
      BY <1>2, <1>6, <2>1, <2>2, <2>3 DEF RowOK
  <1> QED
    BY <1>4, <1>5, <1>7, <1>8, <1>9, <1>10 DEF HubInv

\* A provider is deleted: the unlink that asked is to blame, and the account
\* keeps its other way.
LEMMA RemoteGoes ==
    ASSUME HubInv, NEW p \in Hubs, OtherWay(p), UnlinkSince(p), remote' = [remote EXCEPT ![p] = 0],
           UNCHANGED <<cred, mail, op, rowLock, linkedAs>>, flying' = {}, HubType', Alone',
           \A x \in Requests : \/ req'[x] = req[x] /\ req[x].phase \in OtherPhases \cup {"settling", "settled"}
                               \/ req'[x].phase \in {"checking", "settlechecking"} /\ SagaOK(req[x])
                                  /\ req'[x].op = req[x].op /\ req'[x].hub = req[x].hub
                                  /\ req'[x].why = req[x].why
                                  /\ (req'[x].phase = "checking" => req[x].phase \in SagaPhases)
                                  /\ (req'[x].phase = "settlechecking" => req[x].phase = "settledeleting")
    PROVE  HubInv'
  <1>0. HubType
    BY DEF HubInv
  <1>1. remote'[p] = 0 /\ \A x \in Hubs \ {p} : remote'[x] = remote[x]
    BY <1>0 DEF HubType
  <1>2. Way'
    BY <1>1 DEF OtherWay, Way
  <1>3. (\A x : UnlinkSince(x)' <=> UnlinkSince(x)) /\ (\A x \in DOMAIN op : Unlinking(x)' <=> Unlinking(x))
    BY DEF UnlinkSince, Unlinking, PendingOp
  <1>4. ASSUME NEW x \in Hubs PROVE KeptOK(x)'
    <2>1. KeptOK(x)
      BY DEF HubInv
    <2> QED
      BY <1>1, <1>3, <2>1 DEF KeptOK
  <1>5. ASSUME NEW x \in Requests PROVE RowOK(req[x])'
    <2>1. PICK r : r = req'[x]
      OBVIOUS
    <2>2. CASE r = req[x] /\ r.phase \in OtherPhases \cup {"settling", "settled"}
      <3>1. RowOK(r)
        BY <2>2 DEF HubInv
      <3>2. ASSUME SagaOK(r), r.phase \in {"settling", "settled"} PROVE SagaOK(r)'
        <4>1. r.op \in DOMAIN op /\ r.phase \notin SagaPhases
          BY <3>2 DEF SagaOK, SagaPhases
        <4> QED
          BY <1>3, <3>2, <4>1 DEF SagaOK
      <3>3. r.phase \in OtherPhases => r.phase \notin SagaPhases \cup SettlePhases
        BY DEF SagaPhases, SettlePhases, OtherPhases
      <3> QED
        BY <1>3, <2>1, <2>2, <3>1, <3>2, <3>3 DEF RowOK, SettlePhases
    <2>3. CASE /\ r.phase \in {"checking", "settlechecking"} /\ SagaOK(req[x])
               /\ r.op = req[x].op /\ r.hub = req[x].hub /\ r.why = req[x].why
               /\ (r.phase = "checking" => req[x].phase \in SagaPhases)
               /\ (r.phase = "settlechecking" => req[x].phase = "settledeleting")
      <3>1. r.op \in DOMAIN op /\ r.hub = op[r.op].hub /\ r.hub \in Hubs /\ Unlinking(r.op)'
        BY <1>3, <2>3 DEF SagaOK
      <3>2. r.phase = "checking" => op[r.op].age = "new"
        BY <2>3 DEF SagaOK
      <3>3. r.phase = "settlechecking" => /\ op[r.op].age # "new" /\ r.why = "graced"
                                          /\ (r.why = "graced" => op[r.op].age = "graced")
        BY <2>3 DEF SagaOK, SettlePhases
      <3>4. SagaOK(r)'
        BY <2>3, <3>1, <3>2, <3>3 DEF SagaOK, SagaPhases, SettlePhases
      <3> QED
        BY <2>1, <2>3, <3>4 DEF RowOK, OtherPhases
    <2> QED
      BY <2>1, <2>2, <2>3
  <1> QED
    BY <1>2, <1>4, <1>5 DEF HubInv

\* The request that holds the unlink goes on with it.
LEMMA SagaMoves ==
    ASSUME HubInv, NEW q \in Requests, req[q].phase \in SagaPhases \cup SettlePhases,
           NEW r \in ReqRows, r.op = req[q].op, r.phase \in SagaPhases \cup SettlePhases, SagaOK(r),
           req' = [req EXCEPT ![q] = r],
           UNCHANGED <<remote, cred, mail, op, flying, rowLock, linkedAs>>
    PROVE  HubInv'
  <1>1. \A x \in Requests \ {q} : req[x].op # r.op
    BY OneSaga
  <1>2. RowOK(r) /\ r.phase # "disabling"
    BY DEF RowOK, SagaPhases, SettlePhases, OtherPhases
  <1> QED
    BY <1>1, <1>2, RowStep

\* A request ends and changes nothing else.
LEMMA JustEnds ==
    ASSUME HubInv, NEW q \in Requests, Ends(q),
           UNCHANGED <<remote, cred, mail, op, flying, rowLock, linkedAs>>
    PROVE  HubInv'
  BY AtRest, RowStep DEF Ends

\* A request takes an unlink up, or a credential to heal.
LEMMA TakeSteps ==
    ASSUME HubInv, HubPerils = {}, NEW q \in Requests,
           \/ \E p \in Hubs : ProviderMethods(q, p)
           \/ \E o \in DOMAIN op : RetryUnlink(q, o) \/ SettlingProviderUnlink(q, o)
    PROVE  HubInv'
  <1>0. HubType
    BY DEF HubInv
  <1>1. ASSUME NEW p \in Hubs, ProviderMethods(q, p) PROVE HubInv'
    <2> DEFINE c == cred[p]
               r == [Resting EXCEPT !.phase = "healing", !.hub = p, !.sub = c]
    <2>1. c \in Nat /\ c # 0
      BY <1>0, <1>1 DEF ProviderMethods, HubType
    <2>2. req' = [req EXCEPT ![q] = r] /\ UNCHANGED <<remote, cred, mail, op, flying, rowLock, linkedAs>>
      BY <1>1 DEF ProviderMethods, accountVars
    <2> HIDE DEF c
    <2>3. r \in ReqRows /\ r.phase = "healing" /\ r.op = 0 /\ r.hub = p /\ r.sub = c
      BY <2>1 DEF Resting, ReqRows, OtherPhases
    <2> HIDE DEF r
    <2>4. RowOK(r)
      BY <2>1, <2>3 DEF RowOK, SagaPhases, SettlePhases, OtherPhases
    <2> QED
      BY <2>2, <2>3, <2>4, RowStep
  <1>2. ASSUME NEW o \in DOMAIN op, RetryUnlink(q, o) PROVE HubInv'
    <2> DEFINE h == op[o].hub
               r == [Resting EXCEPT !.phase = "begun", !.op = o, !.hub = h]
    <2>1. /\ Unlinking(o) /\ op[o].age = "new" /\ o \notin flying /\ \A x \in Requests : req[x].op # o
      BY <1>2 DEF RetryUnlink, OneAtATime, Unlinking
    <2>2. req' = [req EXCEPT ![q] = r] /\ UNCHANGED <<remote, cred, mail, op, flying, rowLock, linkedAs>>
      BY <1>2 DEF RetryUnlink, accountVars
    <2>3. h \in Hubs /\ o \in Nat /\ h = op[o].hub
      BY <1>0, OpFacts
    <2> HIDE DEF h
    <2>4. r \in ReqRows /\ r.phase = "begun" /\ r.op = o /\ r.hub = h
      BY <2>3 DEF Resting, ReqRows, SagaPhases
    <2> HIDE DEF r
    <2>5. SagaOK(r)
      BY <2>1, <2>3, <2>4 DEF SagaOK, SettlePhases
    <2>6. RowOK(r)
      BY <2>4, <2>5 DEF RowOK, OtherPhases
    <2> QED
      BY <2>1, <2>2, <2>4, <2>6, RowStep
  <1>3. ASSUME NEW o \in DOMAIN op, SettlingProviderUnlink(q, o) PROVE HubInv'
    <2> DEFINE h == op[o].hub
               a == op[o].age
               c == cred[h]
               r == [Resting EXCEPT !.phase = "settling", !.op = o, !.hub = h, !.sub = c, !.why = a]
    <2>1. /\ Unlinking(o) /\ op[o].age # "new" /\ \A x \in Requests : req[x].op # o
      BY <1>3 DEF SettlingProviderUnlink, OneAtATime, Unlinking
    <2>2. req' = [req EXCEPT ![q] = r] /\ UNCHANGED <<remote, cred, mail, op, flying, rowLock, linkedAs>>
      BY <1>3 DEF SettlingProviderUnlink, accountVars
    <2>3. h \in Hubs /\ o \in Nat /\ h = op[o].hub /\ a = op[o].age /\ a \in {"late", "graced"}
      BY <1>0, <2>1, OpFacts
    <2>4. c \in Nat /\ (o \in flying => c \in {0, remote[h]})
      BY <1>0, <2>3 DEF HubType, HubInv, FlyOK
    <2> HIDE DEF h, a, c
    <2>5. r \in ReqRows /\ r.phase = "settling" /\ r.op = o /\ r.hub = h /\ r.sub = c /\ r.why = a
      BY <2>3, <2>4 DEF Resting, ReqRows, SettlePhases
    <2> HIDE DEF r
    <2>6. SagaOK(r)
      BY <2>1, <2>3, <2>4, <2>5 DEF SagaOK, SagaPhases
    <2>7. RowOK(r)
      BY <2>5, <2>6 DEF RowOK, OtherPhases
    <2> QED
      BY <2>1, <2>2, <2>5, <2>7, RowStep
  <1> QED
    BY <1>1, <1>2, <1>3

\* The saga's readings.
LEMMA ReadSteps ==
    ASSUME HubInv, NEW q \in Requests,
           ActiveProviderSubject(q) \/ ReadAccount(q) \/ Postcheck(q) \/ SettleRead(q) \/ SettleCheck(q)
    PROVE  HubInv'
  <1> DEFINE o == req[q].op
             p == req[q].hub
  <1>0. HubType /\ req[q] \in ReqRows /\ req[q].phase \in SagaPhases \cup SettlePhases
    BY DEF HubInv, HubType, ActiveProviderSubject, ReadAccount, Postcheck, SettleRead, SettleCheck,
           SagaPhases, SettlePhases
  <1>1. SagaOK(req[q])
    BY <1>0, OneSaga
  <1>2. o \in DOMAIN op /\ Unlinking(o) /\ p = op[o].hub /\ p \in Hubs
    BY <1>1 DEF SagaOK
  <1>3. ASSUME NEW ph \in SagaPhases, req[q].phase \in SagaPhases, Goes(q, ph),
               ph = "deleting" => remote[p] # 0 /\ cred[p] \in {0, remote[p]} /\ OtherWay(p),
               ph # "reading",
               UNCHANGED <<remote, cred, mail, op, flying, rowLock, linkedAs>>
        PROVE  HubInv'
    <2> DEFINE r == [req[q] EXCEPT !.phase = ph]
    <2>1. req' = [req EXCEPT ![q] = r]
      BY <1>3 DEF Goes
    <2>2. r \in ReqRows /\ r.phase = ph /\ r.op = o /\ r.hub = p
      BY <1>0 DEF ReqRows
    <2> HIDE DEF r
    <2>3. SagaOK(r)
      BY <1>1, <1>2, <1>3, <2>2 DEF SagaOK, SagaPhases, SettlePhases
    <2> QED
      BY <1>0, <1>3, <2>1, <2>2, <2>3, SagaMoves
  <1>4. CASE ActiveProviderSubject(q)
    <2>0. req[q].phase = "begun" /\ UNCHANGED <<remote, cred, mail, op, flying, rowLock, linkedAs>>
      BY <1>4 DEF ActiveProviderSubject, accountVars
    <2>1. CASE cred[p] = 0
      <3>1. Goes(q, "failing")
        BY <1>4, <2>1 DEF ActiveProviderSubject, Goes
      <3> QED
        BY <1>3, <2>0, <3>1 DEF SagaPhases
    <2>2. CASE cred[p] # 0
      <3> DEFINE c == cred[p]
                 r == [req[q] EXCEPT !.phase = "reading", !.sub = c]
      <3>1. req' = [req EXCEPT ![q] = r]
        BY <1>4, <2>2 DEF ActiveProviderSubject
      <3>2. c \in Nat /\ c = cred[p]
        BY <1>0, <1>2 DEF HubType
      <3> HIDE DEF c
      <3>3. r \in ReqRows /\ r.phase = "reading" /\ r.op = o /\ r.hub = p /\ r.sub = c
        BY <1>0, <3>2 DEF ReqRows, SagaPhases
      <3> HIDE DEF r
      <3>4. SagaOK(r)
        BY <1>1, <1>2, <2>0, <3>2, <3>3 DEF SagaOK, SagaPhases, SettlePhases
      <3> QED
        BY <1>0, <2>0, <3>1, <3>3, <3>4, SagaMoves DEF SagaPhases
    <2> QED
      BY <2>1, <2>2
  <1>5. CASE ReadAccount(q)
    <2>1. /\ req[q].phase = "reading" /\ Goes(q, Verdict(q))
          /\ UNCHANGED <<remote, cred, mail, op, flying, rowLock, linkedAs>>
      BY <1>5 DEF ReadAccount, accountVars
    <2>2. cred[p] \in {0, remote[p], req[q].sub}
      BY <1>1, <2>1 DEF SagaOK
    <2>3. /\ usableMethods \in Nat /\ (usableMethods > 1 => OtherWay(p))
          /\ usableMethods <= 1 \/ usableMethods > 1
      BY <1>0, <1>2, WaysCounted
    <2>4. \/ Verdict(q) = "finishing" \/ Verdict(q) = "failing"
          \/ Verdict(q) = "deleting" /\ remote[p] # 0 /\ remote[p] = req[q].sub /\ usableMethods > 1
      BY <2>3 DEF Verdict
    <2> QED
      BY <1>3, <2>1, <2>2, <2>3, <2>4 DEF SagaPhases
  <1>6. CASE Postcheck(q)
    <2>1. /\ req[q].phase = "checking" /\ (Goes(q, "finishing") \/ Goes(q, "failing"))
          /\ UNCHANGED <<remote, cred, mail, op, flying, rowLock, linkedAs>>
      BY <1>6 DEF Postcheck, accountVars
    <2> QED
      BY <1>3, <2>1 DEF SagaPhases
  <1>7. ASSUME NEW ph \in {"settledeleting", "settled"}, NEW b \in BOOLEAN, req[q].phase \in SettlePhases,
               req' = [req EXCEPT ![q].phase = ph, ![q].removed = b],
               ph = "settledeleting" => req[q].why = "graced" /\ OtherWay(p),
               ph = "settled" /\ o \in flying => ~b,
               UNCHANGED <<remote, cred, mail, op, flying, rowLock, linkedAs>>
        PROVE  HubInv'
    <2> DEFINE r == [req[q] EXCEPT !.phase = ph, !.removed = b]
    <2>1. req' = [req EXCEPT ![q] = r]
      BY <1>7
    <2>2. r \in ReqRows /\ r.phase = ph /\ r.op = o /\ r.hub = p /\ r.removed = b /\ r.why = req[q].why
      BY <1>0, <1>7 DEF ReqRows, SettlePhases
    <2> HIDE DEF r
    <2>3. SagaOK(r)
      BY <1>1, <1>2, <1>7, <2>2 DEF SagaOK, SagaPhases, SettlePhases
    <2> QED
      BY <1>0, <1>7, <2>1, <2>2, <2>3, SagaMoves DEF SettlePhases
  <1>8. CASE SettleRead(q)
    <2> DEFINE gone == remote[p] = 0 \/ (req[q].sub # 0 /\ remote[p] # req[q].sub)
               drive == ~gone /\ req[q].why = "graced" /\ remote[p] = req[q].sub /\ usableMethods > 1
    <2>1. /\ req[q].phase = "settling"
          /\ req' = [req EXCEPT ![q].phase = IF drive THEN "settledeleting" ELSE "settled", ![q].removed = gone]
          /\ UNCHANGED <<remote, cred, mail, op, flying, rowLock, linkedAs>>
      BY <1>8 DEF SettleRead, accountVars
    <2>2. o \in flying => ~gone
      <3>1. o \in flying => req[q].sub \in {0, remote[p]}
        BY <1>1, <2>1 DEF SagaOK
      <3>2. o \in flying => remote[p] # 0
        BY <1>2 DEF HubInv, FlyOK
      <3> QED
        BY <3>1, <3>2
    <2>3. drive => req[q].why = "graced" /\ OtherWay(p)
      BY <1>0, <1>2, WaysCounted
    <2>4. gone \in BOOLEAN
      OBVIOUS
    <2>5. PICK ph \in {"settledeleting", "settled"} : ph = IF drive THEN "settledeleting" ELSE "settled"
      OBVIOUS
    <2>6. PICK b \in BOOLEAN : b = gone
      BY <2>4
    <2>7. req' = [req EXCEPT ![q].phase = ph, ![q].removed = b]
      BY <2>1, <2>5, <2>6
    <2>8. (ph = "settledeleting" => drive) /\ (o \in flying => ~b)
      BY <2>2, <2>5, <2>6
    <2> HIDE DEF gone, drive
    <2> QED
      BY <1>7, <2>1, <2>3, <2>7, <2>8 DEF SettlePhases
  <1>9. CASE SettleCheck(q)
    <2>1. /\ req[q].phase = "settlechecking"
          /\ req' = [req EXCEPT ![q].phase = "settled", ![q].removed = (remote[p] = 0)]
          /\ UNCHANGED <<remote, cred, mail, op, flying, rowLock, linkedAs>>
      BY <1>9 DEF SettleCheck, accountVars
    <2>2. o \notin flying
      BY <1>0, <2>1, OneSaga
    <2>3. PICK b \in BOOLEAN : b = (remote[p] = 0)
      OBVIOUS
    <2>4. req' = [req EXCEPT ![q].phase = "settled", ![q].removed = b]
      BY <2>1, <2>3
    <2> QED
      BY <1>7, <2>1, <2>2, <2>4 DEF SettlePhases
  <1> QED
    BY <1>4, <1>5, <1>6, <1>8, <1>9

\* A delete lands, fails or is left unanswered.
LEMMA DeleteSteps ==
    ASSUME HubInv, HubPerils = {}, NEW q \in Requests, DeleteProvider(q)
    PROVE  HubInv'
  <1> DEFINE o == req[q].op
             p == req[q].hub
             next == IF req[q].phase = "deleting" THEN "checking" ELSE "settlechecking"
             r == [req[q] EXCEPT !.phase = next]
  <1>0. /\ HubType /\ req[q] \in ReqRows /\ req[q].phase \in {"deleting", "settledeleting"}
        /\ req[q].phase \in SagaPhases \cup SettlePhases /\ UNCHANGED <<mail, linkedAs, cred, op, rowLock>>
    BY DEF HubInv, HubType, DeleteProvider, SagaPhases, SettlePhases
  <1>1. /\ SagaOK(req[q]) /\ o # 0 /\ flying = {}
        /\ \A x \in Requests \ {q} : req[x].phase \in OtherPhases /\ req[x].op = 0
    BY <1>0, OneSaga DEF SagaPhases
  <1>2. o \in DOMAIN op /\ Unlinking(o) /\ p = op[o].hub /\ p \in Hubs /\ OtherWay(p)
    BY <1>0, <1>1 DEF SagaOK
  <1>3. UnlinkSince(p)
    BY <1>2, ToBlame
  <1>4. /\ r \in ReqRows /\ r.phase = next /\ r.op = o /\ r.hub = p /\ r.why = req[q].why
        /\ next \in {"checking", "settlechecking"}
    BY <1>0 DEF ReqRows, SagaPhases, SettlePhases
  <1>5. \/ remote' = [remote EXCEPT ![p] = 0] /\ req' = [req EXCEPT ![q] = r] /\ UNCHANGED flying
        \/ UNCHANGED <<remote, flying>> /\ req' = [req EXCEPT ![q] = r]
        \/ /\ req[q].phase = "deleting" /\ flying' = flying \cup {o} /\ UNCHANGED remote
           /\ req' = [req EXCEPT ![q] = Resting]
    BY DEF DeleteProvider, Goes, Ends
  <1> HIDE DEF r
  <1>6. CASE remote' = [remote EXCEPT ![p] = 0] /\ req' = [req EXCEPT ![q] = r] /\ UNCHANGED flying
    <2>1. HubType'
      BY <1>0, <1>4, <1>6 DEF HubType
    <2>2. req'[q] = r /\ \A x \in Requests \ {q} : req'[x] = req[x]
      BY <1>0, <1>6 DEF HubType
    <2>3. Alone'
      BY <1>0, <1>1, <1>4, <2>2 DEF HubInv, Alone, Unlinking, PendingOp, OtherPhases
    <2>4. ASSUME NEW x \in Requests
          PROVE  \/ req'[x] = req[x] /\ req[x].phase \in OtherPhases \cup {"settling", "settled"}
                 \/ req'[x].phase \in {"checking", "settlechecking"} /\ SagaOK(req[x])
                    /\ req'[x].op = req[x].op /\ req'[x].hub = req[x].hub /\ req'[x].why = req[x].why
                    /\ (req'[x].phase = "checking" => req[x].phase \in SagaPhases)
                    /\ (req'[x].phase = "settlechecking" => req[x].phase = "settledeleting")
      BY <1>0, <1>1, <1>4, <2>2 DEF SagaPhases
    <2> QED
      BY <1>0, <1>1, <1>2, <1>3, <1>6, <2>1, <2>3, <2>4, RemoteGoes
  <1>7. CASE UNCHANGED <<remote, flying>> /\ req' = [req EXCEPT ![q] = r]
    <2>1. SagaOK(r)
      BY <1>0, <1>1, <1>2, <1>4 DEF SagaOK, SagaPhases, SettlePhases
    <2>2. r.phase \in SagaPhases \cup SettlePhases
      BY <1>4 DEF SagaPhases, SettlePhases
    <2> QED
      BY <1>0, <1>4, <1>7, <2>1, <2>2, SagaMoves
  <1>8. CASE /\ req[q].phase = "deleting" /\ flying' = flying \cup {o} /\ UNCHANGED remote
             /\ req' = [req EXCEPT ![q] = Resting]
    <2>1. HubType' /\ Way'
      BY <1>0, <1>2, <1>8, AtRest DEF HubType, Way, HubInv
    <2>2. req'[q] = Resting /\ \A x \in Requests \ {q} : req'[x] = req[x]
      BY <1>0, <1>8 DEF HubType
    <2>3. Alone'
      BY <1>0, <1>1, <2>2, AtRest DEF HubInv, Alone, Unlinking, PendingOp
    <2>4. FlyOK(o)
      BY <1>1, <1>2, <1>8 DEF SagaOK, FlyOK, SagaPhases
    <2>5. ASSUME NEW x \in flying' PROVE FlyOK(x)'
      <3>1. x = o
        BY <1>1, <1>8
      <3>2. FlyOK(x)
        BY <2>4, <3>1
      <3> QED
        BY <1>0, <1>8, <3>2 DEF FlyOK, OtherWay, Unlinking, PendingOp
    <2>6. \A x : UnlinkSince(x)' <=> UnlinkSince(x)
      BY <1>0 DEF UnlinkSince
    <2>7. ASSUME NEW x \in Requests PROVE RowOK(req[x])'
      <3>1. PICK y : y = req'[x] /\ RowOK(y) /\ y.phase \in OtherPhases
        BY <1>1, <2>2, AtRest DEF HubInv, OtherPhases
      <3>2. y.phase = "disabling" => y.hub \in rowLock' /\ UnlinkSince(y.hub)'
        BY <1>0, <2>6, <3>1 DEF RowOK
      <3> QED
        BY <3>1, <3>2, OtherRows
    <2>8. \A x \in Hubs : KeptOK(x)'
      BY <1>0, <1>8, <2>6 DEF HubInv, KeptOK, Unlinking, PendingOp
    <2> QED
      BY <2>1, <2>3, <2>5, <2>7, <2>8 DEF HubInv
  <1> QED
    BY <1>5, <1>6, <1>7, <1>8

\* A delete nobody waited for lands, or is dropped.
LEMMA LandStep ==
    ASSUME HubInv, NEW o \in DOMAIN op, DeleteLands(o)
    PROVE  HubInv'
  <1>0. HubType /\ FlyOK(o) /\ Unlinking(o) /\ UNCHANGED <<mail, linkedAs, cred, op, req, rowLock>>
    BY DEF HubInv, DeleteLands, FlyOK
  <1>1. PICK p \in Hubs : p = op[o].hub
    BY <1>0, OpFacts
  <1>2. o \in flying /\ flying' = flying \ {o}
        /\ (UNCHANGED remote \/ remote' = [remote EXCEPT ![p] = 0])
    <2>1. PICK r \in {0, remote[op[o].hub]} : remote' = [remote EXCEPT ![op[o].hub] = r]
      BY DEF DeleteLands
    <2> QED
      BY <1>0, <1>1, <2>1 DEF DeleteLands, HubType
  <1>3. flying' = {}
    BY <1>0, <1>2 DEF HubInv, HubType, FlyOK, Alone
  <1>4. UnlinkSince(p) /\ OtherWay(p)
    BY <1>0, <1>1, ToBlame DEF FlyOK
  <1>5. HubType'
    BY <1>0, <1>1, <1>2, <1>3 DEF HubType
  <1>6. Alone'
    BY <1>0 DEF HubInv, Alone, Unlinking, PendingOp
  <1>7. ASSUME NEW x \in Requests PROVE req[x].phase \in OtherPhases \cup {"settling", "settled"}
    <2>1. req[x].phase \in SagaPhases \cup SettlePhases \cup OtherPhases
      BY <1>0 DEF HubType, ReqRows
    <2>2. CASE req[x].phase \in SagaPhases \cup {"settledeleting", "settlechecking"}
      <3>1. flying = {}
        BY <2>2, OneSaga DEF SettlePhases
      <3> QED
        BY <1>2, <3>1
    <2> QED
      BY <2>1, <2>2 DEF SettlePhases
  <1>8. CASE remote' = [remote EXCEPT ![p] = 0]
    BY <1>0, <1>3, <1>4, <1>5, <1>6, <1>7, <1>8, RemoteGoes
  <1>9. CASE UNCHANGED remote
    <2>1. Way' /\ \A x \in Hubs : KeptOK(x)'
      BY <1>0, <1>9 DEF HubInv, Way, KeptOK, UnlinkSince, Unlinking, PendingOp
    <2>2. ASSUME NEW x \in Requests PROVE RowOK(req[x])'
      <3>1. PICK r : r = req[x] /\ r = req'[x] /\ RowOK(r)
        BY <1>0 DEF HubInv
      <3>2. RowOK(r)'
        BY <1>0, <1>3, <1>9, <3>1 DEF RowOK, SagaOK, OtherWay, UnlinkSince, Unlinking, PendingOp
      <3> QED
        BY <3>1, <3>2
    <2> QED
      BY <1>3, <1>5, <1>6, <2>1, <2>2 DEF HubInv
  <1> QED
    BY <1>2, <1>8, <1>9

\* The ends of the saga and of a settlement.
LEMMA EndSteps ==
    ASSUME HubInv, NEW q \in Requests,
           FailProviderOperation(q) \/ CompleteProviderUnlink(q) \/ SettleProviderUnlink(q)
    PROVE  HubInv'
  <1> DEFINE o == req[q].op
             p == req[q].hub
  <1>0. /\ HubType /\ req[q].phase \in {"failing", "finishing", "settled"}
        /\ req[q].phase \in SagaPhases \cup SettlePhases /\ req' = [req EXCEPT ![q] = Resting] /\ Ends(q)
        /\ UNCHANGED <<remote, mail, linkedAs, flying, rowLock>>
    BY DEF HubInv, FailProviderOperation, CompleteProviderUnlink, SettleProviderUnlink, SagaPhases, SettlePhases,
           Ends, accountVars
  <1>1. SagaOK(req[q]) /\ (req[q].phase \in SagaPhases => flying = {})
    BY <1>0, OneSaga
  <1>2. o \in DOMAIN op /\ Unlinking(o) /\ p \in Hubs
    BY <1>1 DEF SagaOK
  <1>3. CASE FailProviderOperation(q)
    BY <1>0, <1>1, <1>3, FinishStep DEF FailProviderOperation, SagaPhases
  <1>4. CASE CompleteProviderUnlink(q)
    <2>1. \/ UNCHANGED <<cred, op>>
          \/ op' = Finished(o, "completed") /\ cred' = [cred EXCEPT ![p] = 0]
      BY <1>4 DEF CompleteProviderUnlink
    <2>2. o \notin flying
      BY <1>1, <1>4 DEF CompleteProviderUnlink, SagaPhases
    <2> QED
      BY <1>0, <2>1, <2>2, FinishStep, JustEnds
  <1>5. CASE SettleProviderUnlink(q)
    <2>1. req[q].phase = "settled"
      BY <1>5 DEF SettleProviderUnlink
    <2>2. \/ /\ req[q].removed /\ op' = Finished(o, "completed")
             /\ cred' = [cred EXCEPT ![p] = IF @ = req[q].sub THEN 0 ELSE @]
          \/ op[o].age = "graced" /\ op' = Finished(o, "failed") /\ UNCHANGED cred
          \/ UNCHANGED <<cred, op>>
      BY <1>5 DEF SettleProviderUnlink
    <2>3. CASE /\ req[q].removed /\ op' = Finished(o, "completed")
               /\ cred' = [cred EXCEPT ![p] = IF @ = req[q].sub THEN 0 ELSE @]
      <3>1. o \notin flying
        BY <1>1, <2>1, <2>3 DEF SagaOK
      <3>2. cred' = cred \/ cred' = [cred EXCEPT ![p] = 0]
        BY <1>0, <1>2, <2>3 DEF HubType
      <3> QED
        BY <1>0, <2>3, <3>1, <3>2, FinishStep
    <2>4. CASE op[o].age = "graced" /\ op' = Finished(o, "failed") /\ UNCHANGED cred
      <3>1. o \notin flying
        BY <2>4 DEF HubInv, FlyOK
      <3> QED
        BY <1>0, <2>4, <3>1, FinishStep
    <2>5. CASE UNCHANGED <<cred, op>>
      BY <1>0, <2>5, JustEnds
    <2> QED
      BY <2>2, <2>3, <2>4, <2>5
  <1> QED
    BY <1>3, <1>4, <1>5

\* The heal: the row lock, the credential's end, and a request that is lost.
LEMMA HealSteps ==
    ASSUME HubInv, NEW q \in Requests,
           LockAndRecheck(q) \/ DisableStaleProviderCredential(q) \/ RequestLost(q)
    PROVE  HubInv'
  <1> DEFINE p == req[q].hub
  <1>0. HubType /\ req[q] \in ReqRows /\ RowOK(req[q]) /\ UNCHANGED <<remote, mail, linkedAs, op, flying>>
    BY DEF HubInv, HubType, LockAndRecheck, DisableStaleProviderCredential, RequestLost, accountVars
  <1>1. /\ \A x : (UnlinkSince(x)' <=> UnlinkSince(x)) /\ (OtherWay(x)' <=> OtherWay(x))
        /\ \A x : Unlinking(x)' <=> Unlinking(x)
    BY <1>0 DEF UnlinkSince, Unlinking, PendingOp, OtherWay
  <1>2. Way'
    BY <1>0 DEF HubInv, Way
  <1>3. ASSUME NEW r, RowOK(r), \A x \in Hubs : cred'[x] \in {0, cred[x]},
               r.phase = "disabling" => r.hub \in rowLock'
        PROVE  RowOK(r)'
    <2>1. ASSUME SagaOK(r) PROVE SagaOK(r)'
      <3>1. r.hub \in Hubs /\ cred'[r.hub] \in {0, cred[r.hub]}
        BY <1>3, <2>1 DEF SagaOK
      <3> QED
        BY <1>0, <1>1, <2>1, <3>1 DEF SagaOK
    <2> QED
      BY <1>1, <1>3, <2>1 DEF RowOK
  <1>4. ASSUME \A x \in Hubs : cred'[x] \in {0, cred[x]} PROVE \A x \in flying' : FlyOK(x)'
    <2>1. ASSUME NEW x \in flying PROVE FlyOK(x)'
      <3>1. FlyOK(x) /\ op[x].hub \in Hubs
        BY <1>0, OpFacts DEF HubInv, HubType
      <3> QED
        BY <1>0, <1>1, <1>4, <3>1 DEF FlyOK
    <2> QED
      BY <1>0, <2>1
  <1>5. ASSUME UNCHANGED cred PROVE \A x \in Hubs : KeptOK(x)'
    BY <1>0, <1>1, <1>5 DEF HubInv, KeptOK
  <1>6. CASE LockAndRecheck(q) /\ Ends(q) /\ UNCHANGED rowLock
    BY <1>0, <1>6, JustEnds DEF LockAndRecheck
  <1>7. CASE LockAndRecheck(q) /\ ~(Ends(q) /\ UNCHANGED rowLock)
    <2> DEFINE r == [req[q] EXCEPT !.phase = "disabling"]
    <2>1. /\ req[q].phase = "healing" /\ p \notin rowLock /\ cred[p] = req[q].sub /\ remote[p] # req[q].sub
          /\ req' = [req EXCEPT ![q] = r] /\ rowLock' = rowLock \cup {p} /\ UNCHANGED cred
      BY <1>7 DEF LockAndRecheck, StillGone, Goes
    <2>2. p \in Hubs /\ req[q].sub # 0 /\ req[q].op = 0
      BY <1>0, <2>1 DEF RowOK, OtherPhases
    <2>3. UnlinkSince(p)
      BY <2>1, <2>2 DEF HubInv, KeptOK
    <2>4. r \in ReqRows /\ r.phase = "disabling" /\ r.hub = p /\ r.sub = req[q].sub /\ r.op = 0
      BY <1>0, <2>2 DEF ReqRows, OtherPhases
    <2> HIDE DEF r
    <2>5. req'[q] = r /\ \A x \in Requests \ {q} : req'[x] = req[x]
      BY <1>0, <2>1 DEF HubType
    <2>6. HubType'
      BY <1>0, <2>1, <2>2, <2>4 DEF HubType
    <2>7. \A x \in Requests \ {q} : req[x].phase = "disabling" => req[x].hub # p
      BY <2>1 DEF HubInv, RowOK
    <2>8. Alone'
      BY <1>0, <1>1, <2>2, <2>4, <2>5, <2>7 DEF HubInv, Alone
    <2>9. ASSUME NEW x \in Requests PROVE RowOK(req[x])'
      <3>1. CASE x = q
        <4>1. PICK y : y = r /\ y = req'[x]
          BY <2>5, <3>1
        <4>2. RowOK(y)'
          BY <1>1, <2>1, <2>2, <2>3, <2>4, <4>1 DEF RowOK, SagaPhases, SettlePhases
        <4> QED
          BY <4>1, <4>2
      <3>2. CASE x # q
        <4>1. PICK y : y = req[x] /\ y = req'[x] /\ RowOK(y)
          BY <2>5, <3>2 DEF HubInv
        <4>2. y.phase = "disabling" => y.hub \in rowLock'
          BY <2>1, <4>1 DEF RowOK
        <4> QED
          BY <1>3, <2>1, <4>1, <4>2
      <3> QED
        BY <3>1, <3>2
    <2> QED
      BY <1>2, <1>4, <1>5, <2>1, <2>6, <2>8, <2>9 DEF HubInv
  <1>8. ASSUME req[q].phase = "disabling", req' = [req EXCEPT ![q] = Resting],
               rowLock' = rowLock \ {p}, UNCHANGED cred \/ cred' = [cred EXCEPT ![p] = 0]
        PROVE  HubInv'
    <2>1. p \in Hubs /\ UnlinkSince(p)
      BY <1>0, <1>8 DEF RowOK
    <2>2. cred' \in [Hubs -> Nat] /\ \A x \in Hubs : cred'[x] = cred[x] \/ (x = p /\ cred'[x] = 0)
      <3>1. cred \in [Hubs -> Nat]
        BY <1>0 DEF HubType
      <3>2. CASE UNCHANGED cred
        BY <3>1, <3>2
      <3>3. CASE cred' = [cred EXCEPT ![p] = 0]
        BY <3>1, <3>3
      <3> QED
        BY <1>8, <3>2, <3>3
    <2>3. HubType'
      BY <1>0, <1>8, <2>2, AtRest DEF HubType
    <2>4. req'[q] = Resting /\ \A x \in Requests \ {q} : req'[x] = req[x]
      BY <1>0, <1>8 DEF HubType
    <2>5. Alone'
      BY <1>0, <1>1, <2>4, AtRest DEF HubInv, Alone
    <2>6. ASSUME NEW x \in Requests PROVE RowOK(req[x])'
      <3>1. PICK y : y = req'[x] /\ RowOK(y)
        BY <2>4, AtRest DEF HubInv
      <3>2. y.phase = "disabling" => y.hub \in rowLock'
        <4>1. ASSUME y.phase = "disabling" PROVE y.hub \in rowLock'
          <5>1. x # q /\ y = req[x]
            BY <2>4, <3>1, <4>1, AtRest
          <5>2. y.hub # p
            BY <1>8, <4>1, <5>1 DEF HubInv, Alone
          <5> QED
            BY <1>8, <3>1, <4>1, <5>2 DEF RowOK
        <4> QED
          BY <4>1
      <3> QED
        BY <1>3, <2>2, <3>1, <3>2
    <2>7. ASSUME NEW x \in Hubs PROVE KeptOK(x)'
      <3>1. KeptOK(x)
        BY DEF HubInv
      <3> QED
        BY <1>0, <1>1, <2>1, <2>2, <3>1 DEF KeptOK
    <2> QED
      BY <1>2, <1>4, <2>2, <2>3, <2>5, <2>6, <2>7 DEF HubInv
  <1>9. CASE DisableStaleProviderCredential(q)
    BY <1>8, <1>9 DEF DisableStaleProviderCredential, Ends
  <1>10. CASE RequestLost(q)
    <2>1. Ends(q) /\ UNCHANGED cred
      BY <1>10 DEF RequestLost
    <2>2. CASE req[q].phase = "disabling"
      BY <1>8, <1>10, <2>1, <2>2 DEF RequestLost, Ends
    <2>3. CASE req[q].phase # "disabling"
      <3>1. UNCHANGED rowLock
        BY <1>10, <2>3 DEF RequestLost
      <3> QED
        BY <1>0, <2>1, <3>1, JustEnds
    <2> QED
      BY <2>2, <2>3
  <1> QED
    BY <1>6, <1>7, <1>9, <1>10

(***************************************************************************)
(* Where no two requests meet on one unlink and a delete lands before its  *)
(* grace is over: however links, unlinks, retries, settlements and heals   *)
(* interleave, and however many providers there are, the account keeps a   *)
(* way in and no provider it linked loses its credential but by an unlink  *)
(* (runProviderUnlink, settleProviderUnlink, ProviderMethods).             *)
(***************************************************************************)
THEOREM LoginsStaySound == ASSUME HubPerils = {} PROVE HubSpec => []LoginsSound
  <1>1. HubInv /\ [HubNext]_hubVars => HubInv'
    <2> SUFFICES ASSUME HubInv, [HubNext]_hubVars PROVE HubInv'
      OBVIOUS
    <2>1. CASE UNCHANGED hubVars
      <3>1. UNCHANGED <<remote, cred, mail, op, req, flying, rowLock, linkedAs>>
        BY <2>1 DEF hubVars
      <3>2. HubType' /\ Way' /\ Alone'
        BY <3>1 DEF HubInv, HubType, Way, Alone, Unlinking, PendingOp
      <3>3. (\A o \in flying' : FlyOK(o)') /\ (\A p \in Hubs : KeptOK(p)')
        BY <3>1 DEF HubInv, FlyOK, KeptOK, OtherWay, UnlinkSince, Unlinking, PendingOp
      <3>4. ASSUME NEW x \in Requests PROVE RowOK(req[x])'
        <4>1. PICK r : r = req[x] /\ r = req'[x] /\ RowOK(r)
          BY <3>1 DEF HubInv
        <4>2. RowOK(r)'
          BY <3>1, <4>1 DEF RowOK, SagaOK, OtherWay, UnlinkSince, Unlinking, PendingOp
        <4> QED
          BY <4>1, <4>2
      <3> QED
        BY <3>2, <3>3, <3>4 DEF HubInv
    <2>2. CASE \E p \in Hubs : StartLink(p) \/ syncVerifiedProviderTx(p)
      BY <2>2, BeginStep, LinkSteps
    <2>3. CASE \E q \in Requests, p \in Hubs : StartUnlink(q, p) \/ ProviderMethods(q, p)
      BY <2>3, BeginStep, TakeSteps
    <2>4. CASE \E o \in DOMAIN op : CompleteProviderLink(o) \/ FailLink(o) \/ DeleteLands(o) \/ Age(o)
      BY <2>4, LinkSteps, LandStep, AgeStep
    <2>5. CASE \E o \in DOMAIN op, s \in Subjects : LinkWithCredential(o, s)
      BY <2>5, RemoteLinks
    <2>6. CASE \E q \in Requests, o \in DOMAIN op : RetryUnlink(q, o) \/ SettlingProviderUnlink(q, o)
      BY <2>6, TakeSteps
    <2>7. CASE \E q \in Requests :
                 \/ ActiveProviderSubject(q) \/ ReadAccount(q) \/ DeleteProvider(q) \/ Postcheck(q)
                 \/ FailProviderOperation(q) \/ CompleteProviderUnlink(q)
                 \/ SettleRead(q) \/ SettleCheck(q) \/ SettleProviderUnlink(q)
                 \/ LockAndRecheck(q) \/ DisableStaleProviderCredential(q) \/ RequestLost(q)
      BY <2>7, ReadSteps, DeleteSteps, EndSteps, HealSteps
    <2> QED
      BY <2>1, <2>2, <2>3, <2>4, <2>5, <2>6, <2>7 DEF HubNext
  <1>2. HubInv => LoginsSound
    <2> SUFFICES ASSUME HubInv PROVE LoginsSound
      OBVIOUS
    <2>1. NeverStranded
      BY WaysCounted DEF HubInv, NeverStranded
    <2>2. LinkKept
      <3> SUFFICES ASSUME NEW p \in Hubs, remote[p] # 0, linkedAs[p].sub = remote[p], ~(cred[p] = remote[p])
                   PROVE  UnlinkSince(p)
        BY DEF LinkKept, UnlinkSince
      <3> QED
        BY DEF HubInv, KeptOK
    <2> QED
      BY <2>1, <2>2 DEF LoginsSound
  <1> QED
    BY <1>1, <1>2, HubInvInit, PTL DEF HubSpec

-----------------------------------------------------------------------------
(* Signing in by mail *)

DoorRow == [st : {"none", "absent", "pending", "confirm", "completed"}, intent : {"in", "up"},
            late : BOOLEAN, holder : Browsers \cup {Stranger}, adopted : BOOLEAN, proved : BOOLEAN,
            proofUid : Uids \cup {Stranger}, uid : Uids \cup {Stranger}, verified : BOOLEAN,
            action : {"none", "create", "signin"}, human : Nat]
ErrandRow == [phase : {"idle", "proved", "creating", "unverified", "binding", "token", "resolving"},
              flow : Doors \cup {Stranger}, uid : Uids \cup {Stranger}, verified : BOOLEAN]

ChallengeRow == [flow : MailFlows, st : {"live", "superseded", "consumed"}, late : BOOLEAN, wrong : Nat]
DeliveryRow(C) == [of : C, st : {"pending", "sending", "sent", "failed", "cancelled"},
                   attempts : Nat, lapsed : BOOLEAN]

DoorType ==
    /\ door \in [Doors -> DoorRow] /\ errand \in [Browsers -> ErrandRow]
    /\ principal \in [Uids -> {"none", "unverified", "verified", "deleted"}]
    /\ bound \in [Uids -> Nat] /\ signedIn \in [Browsers -> Nat]
    /\ invite \in [st : {"open", "consumed", "revoked"}, named : BOOLEAN]

\* A mail is of a challenge, and a challenge of a flow of the mail channel.
QueueInv ==
    /\ challenge \in Seq(ChallengeRow)
    /\ delivery \in Seq(DeliveryRow(DOMAIN challenge))
    /\ \A p \in posts : p[1] \in DOMAIN delivery
    /\ inbox \subseteq DOMAIN challenge

Stands(u) == principal[u] \in {"unverified", "verified"}

\* A flow: who proved the mailbox reads it and proves a verified principal; a
\* completed one signs in the Human bound to its principal, one that waits for
\* a confirmation in time has a principal that stands.
DoorOK(f, row) ==
    /\ f \in MailFlows =>
          /\ row.proved => row.holder \in Readers
          /\ row.proofUid # Stranger => row.proved /\ principal[row.proofUid] = "verified"
          /\ row.uid # Stranger => row.proved /\ principal[row.uid] = "verified"
    /\ row.st \in {"confirm", "completed"} => row.uid \in Uids
    /\ row.st = "completed" => bound[row.uid] # 0 /\ row.human = bound[row.uid]
    /\ row.st = "confirm" /\ ~row.late => Stands(row.uid)

\* A request under way in browser b: one that rests on a proof is a reader's,
\* and the principal it works for is as far as its phase says.
ErrandOK(b, e) ==
    /\ e.phase # "idle" => e.flow \in Doors /\ (e.flow \in MailFlows => b \in Readers)
    /\ e.phase \in {"proved", "creating", "unverified", "binding"} => e.flow \in MailFlows
    /\ e.phase \in {"unverified", "binding", "token", "resolving"} =>
          e.uid \in Uids /\ principal[e.uid] # "none"
    /\ e.phase = "binding" \/ (e.phase \in {"token", "resolving"} /\ e.flow \in MailFlows) =>
          principal[e.uid] = "verified"
    /\ e.phase = "resolving" => Stands(e.uid)
    /\ e.phase = "unverified" /\ principal[e.uid] = "verified" => bound[e.uid] # 0

\* Humans are numbered in the order of their admission, one per principal.
HumanCount == Cardinality({u \in Uids : bound[u] # 0})
BoundInv ==
    /\ \A u \in Uids : bound[u] <= HumanCount /\ (bound[u] # 0 => Stands(u))
    /\ \A u, v \in Uids : bound[u] # 0 /\ bound[u] = bound[v] => u = v
    /\ \A b \in Browsers : signedIn[b] <= HumanCount

\* Browser b has come to principal u by the hub, or is signed in as its Human.
ByErrand(b, u) == errand[b].flow \in HubFlows /\ errand[b].uid = u
ByDoor(b, u) == \E f \in HubFlows : door[f].uid = u /\ door[f].holder = b
BySession(b, u) == bound[u] # 0 /\ signedIn[b] = bound[u]
Near(b, u) == ByErrand(b, u) \/ ByDoor(b, u) \/ BySession(b, u)

\* The browsers near a principal are all the reader's or none is, and all are
\* the reader's once it is verified.
Suits(b, u) ==
    /\ principal[u] # "none"
    /\ principal[u] = "verified" => b \in Readers
    /\ \A c \in Browsers : Near(c, u) => (b \in Readers <=> c \in Readers)
NearInv == \A u \in Uids, b \in Browsers : Near(b, u) => Suits(b, u)

SignInInv ==
    /\ DoorType
    /\ \A f \in Doors : DoorOK(f, door[f])
    /\ \A b \in Browsers : ErrandOK(b, errand[b])
    /\ BoundInv /\ NearInv

\* A flow that has just begun: nothing is proved.
Unproved(row) ==
    /\ row \in DoorRow /\ row.st \in {"none", "absent", "pending"} /\ ~row.proved
    /\ row.proofUid = Stranger /\ row.uid = Stranger

LEMMA RepeatedSeq == ASSUME NEW S, NEW x \in S, NEW n \in Nat PROVE [d \in 1..n |-> x] \in Seq(S)
  OBVIOUS

LEMMA SeqWithin == ASSUME NEW S, NEW T, S \subseteq T, NEW s \in Seq(S) PROVE s \in Seq(T)
  OBVIOUS

LEMMA NewDoors ==
    /\ Unproved(NoDoor) /\ Unproved(NoHub)
    /\ \A b \in Browsers, i \in {"in", "up"} : Unproved(NewDoor(b, i)) /\ NewDoor(b, i).holder = b
  BY DEF Unproved, NoDoor, NoHub, NewDoor, DoorRow

LEMMA SignInInitially == MailInit => QueueInv /\ SignInInv
  <1> SUFFICES ASSUME MailInit PROVE QueueInv /\ SignInInv
    OBVIOUS
  <1>1. QueueInv
    <2>1. CASE challenge = <<>> /\ delivery = <<>> /\ inbox = {}
      BY <2>1 DEF QueueInv, MailInit
    <2>2. ASSUME NEW f \in MailFlows, challenge = <<NewChallenge(f)>>, inbox = {1},
                 delivery = [d \in 1..MaxMails |-> [NewDelivery(1) EXCEPT !.st = "sent", !.attempts = 1]]
          PROVE  QueueInv
      <3> DEFINE row == [NewDelivery(1) EXCEPT !.st = "sent", !.attempts = 1]
      <3>1. NewChallenge(f) \in ChallengeRow
        BY DEF NewChallenge, ChallengeRow
      <3>2. 1 \in DOMAIN challenge
        BY <2>2
      <3>3. row \in DeliveryRow(DOMAIN challenge)
        BY <3>2 DEF NewDelivery, DeliveryRow
      <3> HIDE DEF row
      <3>4. delivery = [d \in 1..MaxMails |-> row]
        BY <2>2 DEF row
      <3>5. posts = {}
        BY DEF MailInit
      <3>6. delivery \in Seq(DeliveryRow(DOMAIN challenge))
        BY <3>3, <3>4, SignInAssumption, RepeatedSeq
      <3> QED
        BY <2>2, <3>1, <3>2, <3>5, <3>6 DEF QueueInv
    <2> QED
      BY <2>1, <2>2 DEF MailInit
  <1>2. \A f \in Doors : Unproved(door[f])
    <2>1. CASE door = [f \in Doors |-> IF f \in MailFlows THEN NoDoor ELSE NoHub]
      BY <2>1, NewDoors
    <2>2. ASSUME NEW b \in Browsers, NEW f \in MailFlows, NEW i \in {"in", "up"},
                 door = [g \in Doors |-> IF g = f THEN NewDoor(b, i) ELSE NoDoor]
          PROVE  \A g \in Doors : Unproved(door[g])
      BY <2>2, NewDoors
    <2> QED
      BY <2>1, <2>2 DEF MailInit
  <1>3. door \in [Doors -> DoorRow] /\ \A f \in Doors : DoorOK(f, door[f])
    <2>1. door = [f \in Doors |-> door[f]]
      BY DEF MailInit
    <2> QED
      BY <1>2, <2>1 DEF Unproved, DoorOK
  <1>4. \A b \in Browsers : ErrandOK(b, errand[b]) /\ errand[b].flow = Stranger
    BY DEF ErrandOK, Idle, MailInit
  <1>5. DoorType
    <2>1. Idle \in ErrandRow
      BY DEF Idle, ErrandRow
    <2> QED
      BY <1>3, <2>1 DEF DoorType, MailInit
  <1>6. BoundInv
    <2>0. bound = [u \in Uids |-> 0] /\ signedIn = [b \in Browsers |-> 0]
      BY DEF MailInit
    <2>1. {u \in Uids : bound[u] # 0} = {}
      BY <2>0
    <2>2. HumanCount = 0
      BY <2>1, FS_EmptySet DEF HumanCount
    <2> QED
      BY <2>0, <2>2 DEF BoundInv
  <1>7. NearInv
    <2>1. bound = [u \in Uids |-> 0]
      BY DEF MailInit
    <2> QED
      BY <1>2, <1>4, <2>1, SignInAssumption DEF NearInv, Near, ByErrand, ByDoor, BySession, Doors, Unproved
  <1> QED
    BY <1>1, <1>3, <1>4, <1>5, <1>6, <1>7 DEF SignInInv

-----------------------------------------------------------------------------
(* The mail queue *)

LEMMA QueueStays == ASSUME QueueInv, UNCHANGED <<challenge, delivery, posts, inbox>> PROVE QueueInv'
  BY DEF QueueInv

LEMMA RowUpdates ==
    /\ \A f \in MailFlows : NewChallenge(f) \in ChallengeRow
    /\ \A row \in ChallengeRow :
          /\ row.flow \in MailFlows
          /\ [row EXCEPT !.st = "superseded"] \in ChallengeRow /\ [row EXCEPT !.st = "consumed"] \in ChallengeRow
          /\ [row EXCEPT !.late = TRUE] \in ChallengeRow /\ [row EXCEPT !.wrong = row.wrong + 1] \in ChallengeRow
    /\ \A C : \A c \in C : NewDelivery(c) \in DeliveryRow(C)
    /\ \A C : \A row \in DeliveryRow(C) :
          /\ row.of \in C
          /\ [row EXCEPT !.st = "cancelled"] \in DeliveryRow(C) /\ [row EXCEPT !.st = "failed"] \in DeliveryRow(C)
          /\ [row EXCEPT !.lapsed = TRUE] \in DeliveryRow(C)
          /\ [row EXCEPT !.st = "sending", !.attempts = row.attempts + 1, !.lapsed = FALSE] \in DeliveryRow(C)
          /\ \A to \in {"sent", "failed", "pending"} : [row EXCEPT !.st = to, !.lapsed = FALSE] \in DeliveryRow(C)
    /\ \A C, D : C \subseteq D => DeliveryRow(C) \subseteq DeliveryRow(D)
  <1>1. \A f \in MailFlows : NewChallenge(f) \in ChallengeRow
    BY DEF NewChallenge, ChallengeRow
  <1>2. ASSUME NEW row \in ChallengeRow
        PROVE  /\ row.flow \in MailFlows
               /\ [row EXCEPT !.st = "superseded"] \in ChallengeRow /\ [row EXCEPT !.st = "consumed"] \in ChallengeRow
               /\ [row EXCEPT !.late = TRUE] \in ChallengeRow /\ [row EXCEPT !.wrong = row.wrong + 1] \in ChallengeRow
    <2>1. row.flow \in MailFlows
      BY DEF ChallengeRow
    <2>2. [row EXCEPT !.st = "superseded"] \in ChallengeRow
      BY DEF ChallengeRow
    <2>3. [row EXCEPT !.st = "consumed"] \in ChallengeRow
      BY DEF ChallengeRow
    <2>4. [row EXCEPT !.late = TRUE] \in ChallengeRow
      BY DEF ChallengeRow
    <2>5. [row EXCEPT !.wrong = row.wrong + 1] \in ChallengeRow
      BY DEF ChallengeRow
    <2> QED
      BY <2>1, <2>2, <2>3, <2>4, <2>5, Zenon
  <1>3. \A C : \A c \in C : NewDelivery(c) \in DeliveryRow(C)
    BY DEF NewDelivery, DeliveryRow
  <1>4. ASSUME NEW C, NEW row \in DeliveryRow(C)
        PROVE  /\ row.of \in C
               /\ [row EXCEPT !.st = "cancelled"] \in DeliveryRow(C) /\ [row EXCEPT !.st = "failed"] \in DeliveryRow(C)
               /\ [row EXCEPT !.lapsed = TRUE] \in DeliveryRow(C)
               /\ [row EXCEPT !.st = "sending", !.attempts = row.attempts + 1, !.lapsed = FALSE] \in DeliveryRow(C)
               /\ \A to \in {"sent", "failed", "pending"} : [row EXCEPT !.st = to, !.lapsed = FALSE] \in DeliveryRow(C)
    <2>1. row.of \in C
      BY DEF DeliveryRow
    <2>2. [row EXCEPT !.st = "cancelled"] \in DeliveryRow(C)
      BY DEF DeliveryRow
    <2>3. [row EXCEPT !.st = "failed"] \in DeliveryRow(C)
      BY DEF DeliveryRow
    <2>4. [row EXCEPT !.lapsed = TRUE] \in DeliveryRow(C)
      BY DEF DeliveryRow
    <2>5. [row EXCEPT !.st = "sending", !.attempts = row.attempts + 1, !.lapsed = FALSE] \in DeliveryRow(C)
      <3>1. \A n \in Nat : [row EXCEPT !.st = "sending", !.attempts = n, !.lapsed = FALSE] \in DeliveryRow(C)
        BY DEF DeliveryRow
      <3>2. row.attempts + 1 \in Nat
        BY DEF DeliveryRow
      <3> QED
        BY <3>1, <3>2, Zenon
    <2>6. ASSUME NEW to \in {"sent", "failed", "pending"}
          PROVE  [row EXCEPT !.st = to, !.lapsed = FALSE] \in DeliveryRow(C)
      BY DEF DeliveryRow
    <2> QED
      BY <2>1, <2>2, <2>3, <2>4, <2>5, <2>6, Zenon
  <1>5. \A C, D : C \subseteq D => DeliveryRow(C) \subseteq DeliveryRow(D)
    BY DEF DeliveryRow
  <1> QED
    BY <1>1, <1>2, <1>3, <1>4, <1>5, Zenon

LEMMA QueueGrows ==
    ASSUME QueueInv, NEW f \in MailFlows, NEW C, NEW D, UNCHANGED <<posts, inbox>>,
           C \in Seq(ChallengeRow), DOMAIN C = DOMAIN challenge,
           D \in Seq(DeliveryRow(DOMAIN challenge)), DOMAIN D = DOMAIN delivery,
           challenge' = Append(C, NewChallenge(f)), delivery' = Append(D, NewDelivery(Len(challenge')))
    PROVE  QueueInv'
  <1>1. NewChallenge(f) \in ChallengeRow
    BY RowUpdates
  <1>2. PICK T : T = DOMAIN challenge'
    OBVIOUS
  <1>3. /\ challenge' \in Seq(ChallengeRow)
        /\ DOMAIN challenge \subseteq T /\ Len(challenge') \in T
    BY <1>1, <1>2
  <1>4. NewDelivery(Len(challenge')) \in DeliveryRow(T) /\ DeliveryRow(DOMAIN challenge) \subseteq DeliveryRow(T)
    BY <1>3, RowUpdates
  <1>5. D \in Seq(DeliveryRow(T))
    BY <1>4, SeqWithin
  <1>6. delivery' \in Seq(DeliveryRow(T)) /\ DOMAIN delivery \subseteq DOMAIN delivery'
    BY <1>4, <1>5
  <1>7. (delivery \in Seq(DeliveryRow(DOMAIN challenge)))'
    BY <1>2, <1>6 DEF DeliveryRow
  <1> QED
    BY <1>2, <1>3, <1>6, <1>7 DEF QueueInv

\* A row of the queue changes and stays of the same challenge or flow.
LEMMA ChallengeEdit ==
    ASSUME QueueInv, NEW c \in DOMAIN challenge, NEW row \in ChallengeRow, UNCHANGED <<delivery, posts, inbox>>,
           challenge' = [challenge EXCEPT ![c] = row]
    PROVE  QueueInv'
  <1>1. challenge' \in Seq(ChallengeRow) /\ DOMAIN challenge' = DOMAIN challenge
    BY DEF QueueInv
  <1>2. (delivery \in Seq(DeliveryRow(DOMAIN challenge)))'
    BY <1>1 DEF QueueInv, DeliveryRow
  <1> QED
    BY <1>1, <1>2 DEF QueueInv

LEMMA DeliveryEdit ==
    ASSUME QueueInv, NEW d \in DOMAIN delivery, NEW row \in DeliveryRow(DOMAIN challenge), UNCHANGED challenge,
           delivery' = [delivery EXCEPT ![d] = row],
           \A p \in posts' : p \in posts \/ p[1] = d,
           inbox' \subseteq DOMAIN challenge
    PROVE  QueueInv'
  <1>1. delivery' \in Seq(DeliveryRow(DOMAIN challenge)) /\ DOMAIN delivery' = DOMAIN delivery
    BY DEF QueueInv
  <1>2. \A p \in posts' : p[1] \in DOMAIN delivery
    BY DEF QueueInv
  <1>3. (delivery \in Seq(DeliveryRow(DOMAIN challenge)))'
    BY <1>1 DEF DeliveryRow
  <1> QED
    BY <1>1, <1>2, <1>3 DEF QueueInv

LEMMA QueueMails ==
    ASSUME QueueInv, NEW b \in Browsers, NEW f \in MailFlows,
           (\E i \in {"in", "up"} : StartEmailCodeFlow(b, f, i)) \/ ResendEmailChallenge(b, f)
    PROVE  QueueInv'
  <1>1. CASE \E i \in {"in", "up"} : StartEmailCodeFlow(b, f, i)
    BY <1>1, QueueGrows DEF StartEmailCodeFlow, QueueInv, postVars
  <1>2. ASSUME NEW c \in LiveOf(f), delivery' = Append(delivery, NewDelivery(c)), UNCHANGED <<challenge, postVars>>
        PROVE  QueueInv'
    <2>1. NewDelivery(c) \in DeliveryRow(DOMAIN challenge)
      BY <1>2, RowUpdates DEF LiveOf
    <2>2. delivery' \in Seq(DeliveryRow(DOMAIN challenge)) /\ DOMAIN delivery \subseteq DOMAIN delivery'
      BY <1>2, <2>1 DEF QueueInv
    <2> QED
      BY <1>2, <2>2 DEF QueueInv, DeliveryRow, postVars
  <1> DEFINE C == [c \in DOMAIN challenge |->
                     IF c \in LiveOf(f) THEN [challenge[c] EXCEPT !.st = "superseded"] ELSE challenge[c]]
             D == [d \in DOMAIN delivery |->
                     IF delivery[d].of \in LiveOf(f) /\ delivery[d].st = "pending"
                     THEN [delivery[d] EXCEPT !.st = "cancelled"] ELSE delivery[d]]
  <1>3. C \in Seq(ChallengeRow) /\ DOMAIN C = DOMAIN challenge
    <2>1. \A c \in DOMAIN challenge : [challenge[c] EXCEPT !.st = "superseded"] \in ChallengeRow
                                      /\ challenge[c] \in ChallengeRow
      <3>1. \A c \in DOMAIN challenge : challenge[c] \in ChallengeRow
        BY DEF QueueInv
      <3> QED
        BY <3>1, RowUpdates, Zenon
    <2>2. DOMAIN challenge = 1 .. Len(challenge) /\ Len(challenge) \in Nat
      BY DEF QueueInv
    <2> QED
      BY <2>1, <2>2
  <1>4. D \in Seq(DeliveryRow(DOMAIN challenge)) /\ DOMAIN D = DOMAIN delivery
    <2>1. \A d \in DOMAIN delivery : [delivery[d] EXCEPT !.st = "cancelled"] \in DeliveryRow(DOMAIN challenge)
                                     /\ delivery[d] \in DeliveryRow(DOMAIN challenge)
      <3>1. \A d \in DOMAIN delivery : delivery[d] \in DeliveryRow(DOMAIN challenge)
        BY DEF QueueInv
      <3> QED
        BY <3>1, RowUpdates, Zenon
    <2>2. DOMAIN delivery = 1 .. Len(delivery) /\ Len(delivery) \in Nat
      BY DEF QueueInv
    <2> QED
      BY <2>1, <2>2
  <1>5. ASSUME challenge' = Append(C, NewChallenge(f)), delivery' = Append(D, NewDelivery(Len(challenge'))),
               UNCHANGED postVars
        PROVE  QueueInv'
    <2> HIDE DEF C, D
    <2> QED
      BY <1>3, <1>4, <1>5, QueueGrows DEF postVars
  <1> QED
    BY <1>1, <1>2, <1>5 DEF ResendEmailChallenge

LEMMA QueueSends ==
    ASSUME QueueInv, \/ \E d \in DOMAIN delivery : ClaimEmailDeliveries(d)
                     \/ \E p \in posts, a \in BOOLEAN, to \in {"sent", "failed", "pending"} : deliver(p, a, to)
    PROVE  QueueInv'
  <1>1. ASSUME NEW d \in DOMAIN delivery, ClaimEmailDeliveries(d) PROVE QueueInv'
    <2>0. delivery[d] \in DeliveryRow(DOMAIN challenge)
      BY DEF QueueInv
    <2>1. /\ [delivery[d] EXCEPT !.st = "cancelled"] \in DeliveryRow(DOMAIN challenge)
          /\ [delivery[d] EXCEPT !.st = "failed"] \in DeliveryRow(DOMAIN challenge)
          /\ [delivery[d] EXCEPT !.st = "sending", !.attempts = @ + 1, !.lapsed = FALSE] \in DeliveryRow(DOMAIN challenge)
      BY <2>0, RowUpdates
    <2>2. UNCHANGED <<challenge, inbox>> /\ \A p \in posts' : p \in posts \/ p[1] = d
      <3>1. posts' = posts \/ posts' = posts \cup {<<d, delivery[d].attempts + 1>>}
        BY <1>1, Zenon DEF ClaimEmailDeliveries
      <3>2. UNCHANGED <<challenge, inbox>>
        BY <1>1, Zenon DEF ClaimEmailDeliveries
      <3> QED
        BY <3>1, <3>2
    <2>3. PICK row \in DeliveryRow(DOMAIN challenge) : delivery' = [delivery EXCEPT ![d] = row]
      BY <1>1, <2>1 DEF ClaimEmailDeliveries
    <2> QED
      BY <2>2, <2>3, DeliveryEdit DEF QueueInv
  <1>2. ASSUME NEW p \in posts, NEW a \in BOOLEAN, NEW to \in {"sent", "failed", "pending"}, deliver(p, a, to)
        PROVE  QueueInv'
    <2>1. p[1] \in DOMAIN delivery /\ delivery[p[1]] \in DeliveryRow(DOMAIN challenge)
      BY <1>2 DEF QueueInv
    <2>2. UNCHANGED challenge /\ posts' \subseteq posts /\ inbox' \subseteq DOMAIN challenge
      <3>1. UNCHANGED challenge /\ posts' \subseteq posts /\ inbox \subseteq DOMAIN challenge
        BY <1>2 DEF deliver, QueueInv
      <3>2. delivery[p[1]].of \in DOMAIN challenge
        BY <2>1, RowUpdates, Zenon
      <3>3. inbox' = inbox \/ inbox' = inbox \cup {delivery[p[1]].of}
        BY <1>2, Zenon DEF deliver
      <3> QED
        BY <3>1, <3>2, <3>3
    <2>3. [delivery[p[1]] EXCEPT !.st = to, !.lapsed = FALSE] \in DeliveryRow(DOMAIN challenge)
      BY <2>1, RowUpdates
    <2>4. CASE delivery' = delivery
      BY <2>2, <2>4 DEF QueueInv
    <2>5. CASE delivery' = [delivery EXCEPT ![p[1]].st = to, ![p[1]].lapsed = FALSE]
      <3>1. delivery' = [delivery EXCEPT ![p[1]] = [delivery[p[1]] EXCEPT !.st = to, !.lapsed = FALSE]]
        BY <2>5
      <3> QED
        BY <2>1, <2>2, <2>3, <3>1, DeliveryEdit
    <2> QED
      BY <1>2, <2>4, <2>5 DEF deliver, FinishEmailDelivery
  <1> QED
    BY <1>1, <1>2

\* A message is consumed, or marked, in its place.
LEMMA QueueStep ==
    ASSUME QueueInv, MailNext PROVE QueueInv'
  <1>1. ASSUME NEW c \in DOMAIN challenge, UNCHANGED <<delivery, posts, inbox>>,
               \/ challenge' = [challenge EXCEPT ![c].st = "consumed"]
               \/ challenge' = [challenge EXCEPT ![c].wrong = @ + 1]
               \/ challenge' = [challenge EXCEPT ![c].late = TRUE]
        PROVE  QueueInv'
    <2>1. challenge[c] \in ChallengeRow
      BY DEF QueueInv
    <2>2. /\ [challenge[c] EXCEPT !.st = "consumed"] \in ChallengeRow
          /\ [challenge[c] EXCEPT !.late = TRUE] \in ChallengeRow
          /\ [challenge[c] EXCEPT !.wrong = challenge[c].wrong + 1] \in ChallengeRow
      BY <2>1, RowUpdates, Zenon
    <2>3. PICK row \in ChallengeRow : challenge' = [challenge EXCEPT ![c] = row]
      BY <1>1, <2>2
    <2> QED
      BY <1>1, <2>3, ChallengeEdit
  <1>2. ASSUME NEW b \in Browsers, NEW f \in MailFlows, NEW c \in {0} \cup inbox, VerifyEmailCode(b, f, c)
        PROVE  QueueInv'
    <2>1. UNCHANGED <<delivery, posts, inbox>>
      BY <1>2 DEF VerifyEmailCode, postVars
    <2>2. \/ UNCHANGED challenge
          \/ \E k \in DOMAIN challenge : \/ challenge' = [challenge EXCEPT ![k].st = "consumed"]
                                         \/ challenge' = [challenge EXCEPT ![k].wrong = @ + 1]
      BY <1>2, Zenon DEF VerifyEmailCode, consumeEmailChallengeTx, LiveOf
    <2> QED
      BY <1>1, <2>1, <2>2, QueueStays
  <1>3. ASSUME NEW b \in Browsers, NEW c \in inbox, NEW a \in BOOLEAN, CompleteEmailLink(b, c, a)
        PROVE  QueueInv'
    <2>1. UNCHANGED <<delivery, posts, inbox>>
      BY <1>3 DEF CompleteEmailLink, postVars
    <2>2. UNCHANGED challenge \/ challenge' = [challenge EXCEPT ![c].st = "consumed"]
      BY <1>3, Zenon DEF CompleteEmailLink, consumeEmailChallengeTx
    <2>3. c \in DOMAIN challenge
      BY DEF QueueInv
    <2> QED
      BY <1>1, <2>1, <2>2, <2>3, QueueStays
  <1>4. CASE Lapse
    <2>1. ASSUME NEW d \in DOMAIN delivery, UNCHANGED <<challenge, posts, inbox>>,
                 delivery' = [delivery EXCEPT ![d].lapsed = TRUE]
          PROVE  QueueInv'
      <3>1. delivery[d] \in DeliveryRow(DOMAIN challenge)
        BY DEF QueueInv
      <3>2. [delivery[d] EXCEPT !.lapsed = TRUE] \in DeliveryRow(DOMAIN challenge)
        BY <3>1, RowUpdates, Zenon
      <3> QED
        BY <2>1, <3>2, DeliveryEdit DEF QueueInv
    <2> QED
      BY <1>1, <1>4, <2>1, QueueStays DEF Lapse, postVars
  <1>5. ASSUME NEW b \in Browsers, \/ GetUser(b) \/ DeleteUnboundFirebasePrincipal(b) \/ BindEmailProofUID(b)
                                   \/ VerifyIDToken(b) \/ AdvanceOnProof(b) \/ LoseRequest(b)
        PROVE  UNCHANGED <<challenge, delivery, posts, inbox>>
    BY <1>5, Zenon DEF GetUser, DeleteUnboundFirebasePrincipal, BindEmailProofUID, VerifyIDToken, AdvanceOnProof,
       LoseRequest, dbVars, postVars
  <1>6. ASSUME NEW b \in Browsers, \/ \E u \in Uids : CreateUser(b, u)
                                   \/ \E f \in HubFlows, u \in Uids : SignInWithHub(b, f, u)
                                   \/ \E f \in Doors : AdvanceOnConfirm(b, f)
                                   \/ \E f \in HubFlows, i \in {"in", "up"} : StartProviderFlow(b, f, i)
        PROVE  UNCHANGED <<challenge, delivery, posts, inbox>>
    BY <1>6 DEF CreateUser, SignInWithHub, AdvanceOnConfirm, StartProviderFlow, dbVars, postVars
  <1>7. CASE RevokeEnrollmentInvite
    BY <1>7, QueueStays DEF RevokeEnrollmentInvite, postVars
  <1> QED
    BY <1>2, <1>3, <1>4, <1>5, <1>6, <1>7, QueueMails, QueueSends, QueueStays DEF MailNext

-----------------------------------------------------------------------------
(* Flows and requests *)

InviteRow == [st : {"open", "consumed", "revoked"}, named : BOOLEAN]

\* What a step of browser b may leave: a request e, a row of flow f, a session
\* for the Human h; it comes near only to principals it suits.
LEMMA FlowStep ==
    ASSUME SignInInv, NEW b \in Browsers, NEW e \in ErrandRow, NEW f \in Doors, NEW row \in DoorRow, NEW h \in Nat,
           errand' = [errand EXCEPT ![b] = e], door' = [door EXCEPT ![f] = row],
           signedIn' = [signedIn EXCEPT ![b] = h], UNCHANGED <<principal, bound>>, invite' \in InviteRow,
           ErrandOK(b, e), DoorOK(f, row), h <= HumanCount,
           \A u \in Uids : e.flow \in HubFlows /\ e.uid = u => Suits(b, u),
           f \in HubFlows => \A u \in Uids, c \in Browsers :
               row.uid = u /\ row.holder = c => Near(c, u) \/ (c = b /\ Suits(b, u)),
           \A u \in Uids : bound[u] # 0 /\ bound[u] = h => Suits(b, u)
    PROVE  SignInInv'
  <1> USE DEF SignInInv
  <1>1. DoorType'
    BY DEF DoorType, InviteRow
  <1>2. \A g \in Doors : DoorOK(g, door[g])'
    <2> SUFFICES ASSUME NEW g \in Doors PROVE DoorOK(g, door[g])'
      OBVIOUS
    <2>1. DoorOK(g, door'[g])
      BY DEF DoorType
    <2> QED
      BY <2>1 DEF DoorOK, Stands
  <1>3. \A c \in Browsers : ErrandOK(c, errand[c])'
    <2> SUFFICES ASSUME NEW c \in Browsers PROVE ErrandOK(c, errand[c])'
      OBVIOUS
    <2>1. ErrandOK(c, errand'[c])
      BY DEF DoorType
    <2> QED
      BY <2>1 DEF ErrandOK, Stands
  <1>4. BoundInv'
    <2>1. HumanCount' = HumanCount
      BY DEF HumanCount
    <2> QED
      BY <2>1 DEF BoundInv, Stands, DoorType
  <1>5. NearInv'
    <2>1. \A u \in Uids, c \in Browsers : Near(c, u)' => Near(c, u) \/ (c = b /\ Suits(b, u))
      <3> SUFFICES ASSUME NEW u \in Uids, NEW c \in Browsers, Near(c, u)'
                   PROVE  Near(c, u) \/ (c = b /\ Suits(b, u))
        OBVIOUS
      <3>1. CASE ByErrand(c, u)'
        BY <3>1 DEF ByErrand, Near, DoorType
      <3>2. CASE ByDoor(c, u)'
        BY <3>2, SignInAssumption DEF ByDoor, Near, DoorType, Doors
      <3>3. CASE BySession(c, u)'
        BY <3>3 DEF BySession, Near, DoorType
      <3> QED
        BY <3>1, <3>2, <3>3 DEF Near
    <2> QED
      BY <2>1 DEF NearInv, Suits
  <1> QED
    BY <1>1, <1>2, <1>3, <1>4, <1>5

\* What holds before a step of browser b.
LEMMA Before ==
    ASSUME SignInInv, NEW b \in Browsers
    PROVE  /\ errand[b] \in ErrandRow /\ ErrandOK(b, errand[b])
           /\ signedIn[b] \in Nat /\ signedIn[b] <= HumanCount
           /\ \A u \in Uids : errand[b].flow \in HubFlows /\ errand[b].uid = u => Suits(b, u)
           /\ \A u \in Uids : bound[u] # 0 /\ bound[u] = signedIn[b] => Suits(b, u)
           /\ errand = [errand EXCEPT ![b] = errand[b]] /\ signedIn = [signedIn EXCEPT ![b] = signedIn[b]]
           /\ invite \in InviteRow
  <1>1. \A u \in Uids : Near(b, u) => Suits(b, u)
    BY DEF SignInInv, NearInv
  <1> QED
    BY <1>1 DEF SignInInv, DoorType, BoundInv, Near, ByErrand, BySession, InviteRow

\* What holds of a flow before a step.
LEMMA BeforeDoor ==
    ASSUME SignInInv, NEW f \in Doors
    PROVE  /\ door[f] \in DoorRow /\ DoorOK(f, door[f]) /\ door = [door EXCEPT ![f] = door[f]]
           /\ \A row : row.uid = door[f].uid /\ row.holder = door[f].holder /\ f \in HubFlows =>
                 \A u \in Uids, c \in Browsers : row.uid = u /\ row.holder = c => Near(c, u)
           /\ \A u \in Uids, c \in Browsers : door[f].uid = u /\ door[f].holder = c => Suits(c, u)
  <1>1. door[f] \in DoorRow /\ DoorOK(f, door[f]) /\ door = [door EXCEPT ![f] = door[f]]
    BY DEF SignInInv, DoorType
  <1>2. \A u \in Uids, c \in Browsers : f \in HubFlows /\ door[f].uid = u /\ door[f].holder = c => Near(c, u)
    BY DEF Near, ByDoor
  <1>3. ASSUME NEW u \in Uids, NEW c \in Browsers, door[f].uid = u, door[f].holder = c PROVE Suits(c, u)
    <2>1. CASE f \in HubFlows
      BY <1>2, <1>3, <2>1 DEF SignInInv, NearInv
    <2>2. CASE f \in MailFlows
      <3>1. c \in Readers /\ principal[u] = "verified"
        BY <1>1, <1>3, <2>2, SignInAssumption DEF DoorOK
      <3> QED
        BY <3>1 DEF Suits, SignInInv, NearInv
    <2> QED
      BY <2>1, <2>2 DEF Doors
  <1> QED
    BY <1>1, <1>2, <1>3

LEMMA IdleErrand == Idle \in ErrandRow /\ Idle.flow \notin HubFlows /\ \A b \in Browsers : ErrandOK(b, Idle)
  BY SignInAssumption DEF ErrandOK, Idle, ErrandRow

\* A row of a flow that keeps its holder and its principal.
LEMMA DoorEdit ==
    ASSUME SignInInv, NEW f \in Doors, NEW row \in DoorRow, door' = [door EXCEPT ![f] = row],
           UNCHANGED <<errand, principal, bound, signedIn, invite>>, DoorOK(f, row),
           row.uid = door[f].uid, row.holder = door[f].holder
    PROVE  SignInInv'
  <1> USE DEF SignInInv
  <1>1. DoorType'
    BY DEF DoorType
  <1>2. \A g \in Doors : DoorOK(g, door[g])'
    <2> SUFFICES ASSUME NEW g \in Doors PROVE DoorOK(g, door[g])'
      OBVIOUS
    <2>1. DoorOK(g, door'[g])
      BY DEF DoorType
    <2> QED
      BY <2>1 DEF DoorOK, Stands
  <1>3. (\A c \in Browsers : ErrandOK(c, errand[c]))'
    BY DEF ErrandOK, Stands
  <1>4. BoundInv'
    BY DEF BoundInv, HumanCount, Stands
  <1>5. NearInv'
    <2>1. \A u \in Uids, c \in Browsers : Near(c, u)' <=> Near(c, u)
      BY DEF Near, ByErrand, ByDoor, BySession, DoorType, Doors
    <2> QED
      BY <2>1 DEF NearInv, Suits
  <1> QED
    BY <1>1, <1>2, <1>3, <1>4, <1>5

\* A step that leaves every session as it is.
LEMMA RequestStep ==
    ASSUME SignInInv, NEW b \in Browsers, NEW e \in ErrandRow, NEW f \in Doors, NEW row \in DoorRow,
           errand' = [errand EXCEPT ![b] = e], door' = [door EXCEPT ![f] = row],
           UNCHANGED <<principal, bound, signedIn, invite>>, ErrandOK(b, e), DoorOK(f, row),
           \A u \in Uids : e.flow \in HubFlows /\ e.uid = u => Suits(b, u),
           f \in HubFlows => \A u \in Uids, c \in Browsers :
               row.uid = u /\ row.holder = c => Near(c, u) \/ (c = b /\ Suits(b, u))
    PROVE  SignInInv'
  <1> DEFINE h == signedIn[b]
  <1>1. /\ h \in Nat /\ h <= HumanCount /\ \A u \in Uids : bound[u] # 0 /\ bound[u] = h => Suits(b, u)
        /\ signedIn' = [signedIn EXCEPT ![b] = h]
    BY Before
  <1>2. invite' \in InviteRow
    BY Before
  <1> HIDE DEF h
  <1> QED
    BY <1>1, <1>2, FlowStep

\* A step that leaves the flows as they are too.
LEMMA ErrandStep ==
    ASSUME SignInInv, NEW b \in Browsers, NEW e \in ErrandRow, errand' = [errand EXCEPT ![b] = e],
           UNCHANGED <<door, principal, bound, signedIn, invite>>, ErrandOK(b, e),
           \A u \in Uids : e.flow \in HubFlows /\ e.uid = u => Suits(b, u)
    PROVE  SignInInv'
  <1> USE DEF SignInInv
  <1>1. DoorType'
    BY DEF DoorType
  <1>2. (\A f \in Doors : DoorOK(f, door[f]))'
    BY DEF DoorOK, Stands
  <1>3. \A c \in Browsers : ErrandOK(c, errand[c])'
    <2> SUFFICES ASSUME NEW c \in Browsers PROVE ErrandOK(c, errand[c])'
      OBVIOUS
    <2>1. ErrandOK(c, errand'[c])
      BY DEF DoorType
    <2> QED
      BY <2>1 DEF ErrandOK, Stands
  <1>4. BoundInv'
    BY DEF BoundInv, HumanCount, Stands
  <1>5. NearInv'
    <2>1. \A u \in Uids, c \in Browsers : Near(c, u)' => Near(c, u) \/ (c = b /\ Suits(b, u))
      BY DEF Near, ByErrand, ByDoor, BySession, DoorType
    <2> QED
      BY <2>1 DEF NearInv, Suits
  <1> QED
    BY <1>1, <1>2, <1>3, <1>4, <1>5

\* A flow just begun.
LEMMA Begins ==
    ASSUME SignInInv, NEW b \in Browsers, NEW f \in Doors, NEW i \in {"in", "up"},
           door' = [door EXCEPT ![f] = NewDoor(b, i)], UNCHANGED <<errand, principal, bound, signedIn, invite>>
    PROVE  SignInInv'
  <1> DEFINE row == NewDoor(b, i)
  <1>1. Unproved(row) /\ row \in DoorRow
    BY NewDoors DEF Unproved
  <1> HIDE DEF row
  <1>2. door' = [door EXCEPT ![f] = row]
    BY DEF row
  <1>3. DoorOK(f, row)
    BY <1>1 DEF Unproved, DoorOK
  <1>4. \A u \in Uids : row.uid # u
    BY <1>1, SignInAssumption DEF Unproved
  <1> QED
    <2> DEFINE e == errand[b]
    <2>1. /\ e \in ErrandRow /\ ErrandOK(b, e) /\ errand' = [errand EXCEPT ![b] = e]
          /\ \A u \in Uids : e.flow \in HubFlows /\ e.uid = u => Suits(b, u)
      BY Before
    <2> HIDE DEF e
    <2> QED
      BY <1>1, <1>2, <1>3, <1>4, <2>1, RequestStep

\* The request a proof goes on with.
LEMMA ProvedErrand ==
    ASSUME NEW b \in Readers, NEW f \in MailFlows,
           NEW e, e = [Idle EXCEPT !.phase = "proved", !.flow = f]
    PROVE  e \in ErrandRow /\ e.flow \notin HubFlows /\ ErrandOK(b, e)
  BY SignInAssumption DEF Idle, ErrandRow, ErrandOK, Doors

\* A flow whose address browser b proves.
LEMMA Proves ==
    ASSUME SignInInv, NEW b \in Readers, NEW f \in MailFlows, NEW row,
           \/ row = [door[f] EXCEPT !.proved = TRUE] /\ door[f].holder = b
           \/ row = [door[f] EXCEPT !.holder = b, !.adopted = TRUE, !.proved = TRUE],
           door' = [door EXCEPT ![f] = row], GoesOn(b, f), UNCHANGED <<principal, bound, signedIn, invite>>
    PROVE  SignInInv'
  <1>1. b \in Browsers /\ f \in Doors /\ f \notin HubFlows
    BY SignInAssumption DEF Doors
  <1>2. door[f] \in DoorRow /\ DoorOK(f, door[f])
    BY <1>1, BeforeDoor
  <1>3. row \in DoorRow
    BY <1>1, <1>2 DEF DoorRow
  <1>4. DoorOK(f, row)
    <2>1. /\ row.uid = door[f].uid /\ row.proofUid = door[f].proofUid /\ row.st = door[f].st
          /\ row.human = door[f].human /\ row.late = door[f].late
          /\ row.proved /\ row.holder = b
      BY <1>2 DEF DoorRow
    <2> QED
      BY <1>2, <2>1 DEF DoorOK
  <1> DEFINE e == [Idle EXCEPT !.phase = "proved", !.flow = f]
  <1>5. e \in ErrandRow /\ e.flow \notin HubFlows /\ ErrandOK(b, e)
    BY ProvedErrand, Zenon
  <1>6. errand' = [errand EXCEPT ![b] = e]
    BY DEF GoesOn
  <1> HIDE DEF e
  <1> QED
    BY <1>1, <1>3, <1>4, <1>5, <1>6, RequestStep

LEMMA ProvesAgain ==
    ASSUME SignInInv, NEW b \in Readers, NEW f \in MailFlows, GoesOn(b, f),
           UNCHANGED <<door, principal, bound, signedIn, invite>>
    PROVE  SignInInv'
  <1>1. b \in Browsers
    BY SignInAssumption
  <1> DEFINE e == [Idle EXCEPT !.phase = "proved", !.flow = f]
  <1>2. e \in ErrandRow /\ e.flow \notin HubFlows /\ ErrandOK(b, e)
    BY ProvedErrand, Zenon
  <1>3. errand' = [errand EXCEPT ![b] = e]
    BY DEF GoesOn
  <1> HIDE DEF e
  <1> QED
    BY <1>1, <1>2, <1>3, ErrandStep

LEMMA Verifies ==
    ASSUME QueueInv, SignInInv, NEW b \in Browsers, NEW f \in MailFlows, NEW c \in {0} \cup inbox, VerifyEmailCode(b, f, c)
    PROVE  SignInInv'
  <1>0. f \in Doors
    BY DEF Doors
  <1>1. UNCHANGED <<principal, bound, signedIn, invite>> /\ door[f].holder = b
    BY Zenon DEF VerifyEmailCode, cloudAccountVars, HoldsDoor
  <1>2. CASE door[f].proved /\ GoesOn(b, f) /\ UNCHANGED door
    <2>1. b \in Readers
      BY <1>0, <1>1, <1>2, BeforeDoor DEF DoorOK
    <2> QED
      BY <1>1, <1>2, <2>1, ProvesAgain
  <1>3. ASSUME NEW k \in LiveOf(f), HasSecret(b, k), consumeEmailChallengeTx(b, k, door[f]) PROVE SignInInv'
    <2>1. b \in Readers /\ challenge[k].flow = f
      BY <1>3 DEF HasSecret, LiveOf
    <2>2. door' = [door EXCEPT ![f] = [door[f] EXCEPT !.proved = TRUE]] /\ GoesOn(b, f)
      BY <1>3, <2>1 DEF consumeEmailChallengeTx
    <2> QED
      BY <1>1, <2>1, <2>2, Proves
  <1>4. CASE UNCHANGED <<door, errand>>
    BY <1>0, <1>1, <1>4, BeforeDoor, DoorEdit
  <1>5. \/ door[f].proved /\ GoesOn(b, f) /\ UNCHANGED door
        \/ \E k \in LiveOf(f) : c = k /\ consumeEmailChallengeTx(b, k, door[f])
        \/ UNCHANGED <<door, errand>>
    BY Zenon DEF VerifyEmailCode
  <1>6. \A k \in LiveOf(f) : c = k => HasSecret(b, k)
    <2>1. 0 \notin DOMAIN challenge
      BY DEF QueueInv
    <2>2. c = 0 \/ HasSecret(b, c)
      BY Zenon DEF VerifyEmailCode
    <2> QED
      BY <2>1, <2>2 DEF LiveOf
  <1> QED
    BY <1>2, <1>3, <1>4, <1>5, <1>6

LEMMA Links ==
    ASSUME QueueInv, SignInInv, NEW b \in Browsers, NEW c \in inbox, NEW a \in BOOLEAN, CompleteEmailLink(b, c, a)
    PROVE  SignInInv'
  <1>0. c \in DOMAIN challenge /\ challenge[c] \in ChallengeRow
    BY DEF QueueInv
  <1>1. PICK f \in MailFlows : f = challenge[c].flow
    BY <1>0, RowUpdates, Zenon
  <1>2. f \in Doors
    BY DEF Doors
  <1>3. UNCHANGED <<principal, bound, signedIn, invite>> /\ b \in Readers
    BY DEF CompleteEmailLink, cloudAccountVars, HasSecret
  <1>4. CASE UNCHANGED door /\ GoesOn(b, f)
    BY <1>2, <1>3, <1>4, ProvesAgain
  <1>5. CASE door[f].holder = b /\ consumeEmailChallengeTx(b, c, door[f])
    <2>1. door' = [door EXCEPT ![f] = [door[f] EXCEPT !.proved = TRUE]] /\ GoesOn(b, f)
      BY <1>1, <1>5 DEF consumeEmailChallengeTx
    <2> QED
      BY <1>3, <1>5, <2>1, Proves
  <1>6. CASE consumeEmailChallengeTx(b, c, Adopted(f, b))
    <2>0. door[f] \in DoorRow
      BY <1>2, BeforeDoor
    <2>1. [Adopted(f, b) EXCEPT !.proved = TRUE] = [door[f] EXCEPT !.holder = b, !.adopted = TRUE, !.proved = TRUE]
      BY <2>0 DEF Adopted, DoorRow
    <2>2. door' = [door EXCEPT ![f] = [door[f] EXCEPT !.holder = b, !.adopted = TRUE, !.proved = TRUE]]
      BY <1>1, <1>6, <2>1, Zenon DEF consumeEmailChallengeTx
    <2>3. GoesOn(b, f)
      BY <1>1, <1>6 DEF consumeEmailChallengeTx
    <2> QED
      BY <1>3, <2>2, <2>3, Proves
  <1>7. \/ UNCHANGED door /\ GoesOn(b, f)
        \/ consumeEmailChallengeTx(b, c, IF HoldsDoor(b, f) THEN door[f] ELSE Adopted(f, b))
    BY <1>1, Zenon DEF CompleteEmailLink
  <1>8. CASE HoldsDoor(b, f)
    BY <1>4, <1>5, <1>7, <1>8 DEF HoldsDoor
  <1>9. CASE ~HoldsDoor(b, f)
    BY <1>4, <1>6, <1>7, <1>9
  <1> QED
    BY <1>8, <1>9

LEMMA Drops ==
    ASSUME SignInInv, NEW b \in Browsers, Drop(b), UNCHANGED <<door, principal, bound, signedIn, invite>>
    PROVE  SignInInv'
  BY IdleErrand, ErrandStep DEF Drop

LEMMA Looks ==
    ASSUME SignInInv, NEW b \in Browsers, GetUser(b) PROVE SignInInv'
  <1>0. UNCHANGED <<door, principal, bound, signedIn, invite>> /\ errand[b].phase = "proved"
    BY Zenon DEF GetUser, dbVars, At
  <1>1. errand[b] \in ErrandRow /\ ErrandOK(b, errand[b])
    BY Before
  <1>2. PICK f \in MailFlows : f = errand[b].flow /\ b \in Readers /\ f \in Doors /\ f \notin HubFlows
    BY <1>0, <1>1, SignInAssumption DEF ErrandOK, Doors
  <1>3. ASSUME NEW phase \in {"creating", "unverified", "binding", "token"}, NEW u \in Uids \cup {Stranger},
               phase # "creating" => u \in Uids /\ principal[u] # "none",
               phase \in {"binding", "token"} => principal[u] = "verified",
               phase = "unverified" => principal[u] # "verified",
               errand' = [errand EXCEPT ![b] = [errand[b] EXCEPT !.phase = phase, !.uid = u]]
        PROVE  SignInInv'
    <2> DEFINE d == [errand[b] EXCEPT !.phase = phase, !.uid = u]
    <2>1. d \in ErrandRow /\ d.phase = phase /\ d.uid = u /\ d.flow = f
      BY <1>1, <1>2, <1>3 DEF ErrandRow
    <2>2. errand' = [errand EXCEPT ![b] = d]
      BY <1>3
    <2> HIDE DEF d
    <2>3. ErrandOK(b, d)
      BY <1>2, <1>3, <2>1 DEF ErrandOK
    <2> QED
      BY <1>0, <1>2, <2>1, <2>2, <2>3, ErrandStep
  <1>4. door[f] \in DoorRow /\ DoorOK(f, door[f])
    BY <1>2, BeforeDoor
  <1>5. PICK u \in Uids \cup {Stranger} : u = door[f].proofUid
    BY <1>4 DEF DoorRow
  <1>6. CASE u # Stranger /\ principal[u] = "verified" /\ errand' = [errand EXCEPT ![b].phase = "token", ![b].uid = u]
    <2>1. errand' = [errand EXCEPT ![b] = [errand[b] EXCEPT !.phase = "token", !.uid = u]]
      BY <1>6
    <2> QED
      BY <1>3, <1>5, <1>6, <2>1
  <1>7. CASE Drop(b)
    BY <1>0, <1>7, Drops
  <1>8. ASSUME NEW v \in Standing, errand' = [errand EXCEPT
                      ![b].phase = IF principal[v] = "verified" THEN "binding" ELSE "unverified", ![b].uid = v]
        PROVE  SignInInv'
    <2>1. v \in Uids /\ principal[v] # "none"
      BY <1>8 DEF Standing
    <2>2. PICK phase \in {"unverified", "binding"} :
             phase = IF principal[v] = "verified" THEN "binding" ELSE "unverified"
      OBVIOUS
    <2>3. errand' = [errand EXCEPT ![b] = [errand[b] EXCEPT !.phase = phase, !.uid = v]]
      BY <1>8, <2>2
    <2> QED
      BY <1>3, <2>1, <2>2, <2>3
  <1>9. CASE errand' = [errand EXCEPT ![b].phase = "creating"]
    <2>1. PICK v \in Uids \cup {Stranger} : v = errand[b].uid
      BY <1>1 DEF ErrandRow
    <2>2. [errand[b] EXCEPT !.phase = "creating"] = [errand[b] EXCEPT !.phase = "creating", !.uid = v]
      BY <1>1, <2>1 DEF ErrandRow
    <2>3. errand' = [errand EXCEPT ![b] = [errand[b] EXCEPT !.phase = "creating", !.uid = v]]
      BY <1>9, <2>2
    <2> QED
      BY <1>3, <2>3
  <1> QED
    BY <1>2, <1>5, <1>6, <1>7, <1>8, <1>9, Zenon DEF GetUser

LEMMA Tokens ==
    ASSUME SignInInv, NEW b \in Browsers, VerifyIDToken(b) PROVE SignInInv'
  <1>0. UNCHANGED <<door, principal, bound, signedIn, invite>> /\ errand[b].phase = "token"
    BY DEF VerifyIDToken, dbVars, At
  <1>1. /\ errand[b] \in ErrandRow /\ ErrandOK(b, errand[b])
        /\ \A u \in Uids : errand[b].flow \in HubFlows /\ errand[b].uid = u => Suits(b, u)
    BY Before
  <1>2. CASE Stands(errand[b].uid) /\ errand' = [errand EXCEPT ![b].phase = "resolving"]
    <2> DEFINE d == [errand[b] EXCEPT !.phase = "resolving"]
    <2>1. d \in ErrandRow /\ d.phase = "resolving" /\ d.uid = errand[b].uid /\ d.flow = errand[b].flow
      BY <1>1 DEF ErrandRow
    <2>2. errand' = [errand EXCEPT ![b] = d]
      BY <1>2
    <2> HIDE DEF d
    <2>3. ErrandOK(b, d)
      BY <1>0, <1>1, <1>2, <2>1 DEF ErrandOK
    <2> QED
      BY <1>0, <1>1, <2>1, <2>2, <2>3, ErrandStep
  <1> QED
    BY <1>0, <1>2, Drops DEF VerifyIDToken, Stands

LEMMA Binds ==
    ASSUME SignInInv, NEW b \in Browsers, BindEmailProofUID(b) PROVE SignInInv'
  <1>0. UNCHANGED <<principal, bound, signedIn, invite>> /\ errand[b].phase = "binding"
    BY Zenon DEF BindEmailProofUID, At
  <1>1. errand[b] \in ErrandRow /\ ErrandOK(b, errand[b])
    BY Before
  <1>2. PICK f \in MailFlows : f = errand[b].flow /\ b \in Readers /\ f \in Doors /\ f \notin HubFlows
    BY <1>0, <1>1, SignInAssumption DEF ErrandOK, Doors
  <1>3. PICK u \in Uids : u = errand[b].uid /\ principal[u] = "verified"
    BY <1>0, <1>1 DEF ErrandOK
  <1> DEFINE d == [errand[b] EXCEPT !.phase = "token"]
  <1>4. d \in ErrandRow /\ d.phase = "token" /\ d.uid = u /\ d.flow = f
    BY <1>1, <1>2, <1>3 DEF ErrandRow
  <1>5. errand' = [errand EXCEPT ![b].phase = "token"] => errand' = [errand EXCEPT ![b] = d]
    OBVIOUS
  <1> HIDE DEF d
  <1>6. ErrandOK(b, d)
    BY <1>2, <1>3, <1>4 DEF ErrandOK
  <1>7. CASE /\ HoldsDoor(b, f) /\ door[f].proved /\ door' = [door EXCEPT ![f].proofUid = u]
             /\ errand' = [errand EXCEPT ![b].phase = "token"]
    <2> DEFINE row == [door[f] EXCEPT !.proofUid = u]
    <2>0. door[f] \in DoorRow /\ DoorOK(f, door[f])
      BY <1>2, BeforeDoor
    <2>1. /\ row \in DoorRow /\ row.proofUid = u /\ row.uid = door[f].uid /\ row.st = door[f].st
          /\ row.human = door[f].human /\ row.late = door[f].late /\ row.proved = door[f].proved
          /\ row.holder = door[f].holder
      BY <2>0 DEF DoorRow
    <2>2. door' = [door EXCEPT ![f] = row]
      BY <1>7
    <2> HIDE DEF row
    <2>3. DoorOK(f, row)
      BY <1>3, <1>7, <2>0, <2>1 DEF DoorOK
    <2>4. errand' = [errand EXCEPT ![b] = d]
      BY <1>5, <1>7
    <2> QED
      BY <1>0, <1>2, <1>4, <1>6, <2>1, <2>2, <2>3, <2>4, RequestStep
  <1>8. CASE errand' = [errand EXCEPT ![b].phase = "token"] /\ UNCHANGED door
    BY <1>0, <1>2, <1>4, <1>5, <1>6, <1>8, ErrandStep
  <1>9. CASE Drop(b) /\ UNCHANGED door
    BY <1>0, <1>9, Drops
  <1> QED
    BY <1>2, <1>3, <1>7, <1>8, <1>9, Zenon DEF BindEmailProofUID

LEMMA Lapses == ASSUME SignInInv, Lapse PROVE SignInInv'
  <1>0. UNCHANGED <<errand, principal, bound, signedIn, invite>>
    BY DEF Lapse, cloudAccountVars
  <1>1. ASSUME NEW f \in Doors, door' = [door EXCEPT ![f].late = TRUE] PROVE SignInInv'
    <2> DEFINE row == [door[f] EXCEPT !.late = TRUE]
    <2>0. door[f] \in DoorRow /\ DoorOK(f, door[f])
      BY BeforeDoor
    <2>1. /\ row \in DoorRow /\ row.proofUid = door[f].proofUid /\ row.uid = door[f].uid /\ row.st = door[f].st
          /\ row.human = door[f].human /\ row.late /\ row.proved = door[f].proved
          /\ row.holder = door[f].holder
      BY <2>0 DEF DoorRow
    <2>2. door' = [door EXCEPT ![f] = row]
      BY <1>1
    <2> HIDE DEF row
    <2>3. DoorOK(f, row)
      BY <2>0, <2>1 DEF DoorOK
    <2> QED
      BY <1>0, <2>1, <2>2, <2>3, DoorEdit
  <1>2. ASSUME UNCHANGED door PROVE SignInInv'
    BY <1>0, <1>2 DEF SignInInv, DoorType, DoorOK, ErrandOK, BoundInv, HumanCount, NearInv, Suits, Near, ByErrand,
       ByDoor, BySession, Stands
  <1> QED
    BY <1>1, <1>2 DEF Lapse

-----------------------------------------------------------------------------
(* Principals *)

\* A principal is made: nobody was near it.
LEMMA Makes ==
    ASSUME SignInInv, NEW b \in Browsers, NEW u \in Uids, NEW v \in {"unverified", "verified"}, NEW e \in ErrandRow,
           principal[u] = "none", principal' = [principal EXCEPT ![u] = v], errand' = [errand EXCEPT ![b] = e],
           UNCHANGED <<door, bound, signedIn, invite>>, ErrandOK(b, e)',
           e.flow \in HubFlows => e.uid = u /\ (v = "verified" => b \in Readers)
    PROVE  SignInInv'
  <1> USE DEF SignInInv
  <1>0. principal'[u] = v /\ \A w \in Uids : w # u => principal'[w] = principal[w]
    BY DEF DoorType
  <1>1. DoorType'
    BY DEF DoorType
  <1>2. \A f \in Doors : DoorOK(f, door[f])'
    <2> SUFFICES ASSUME NEW f \in Doors PROVE DoorOK(f, door[f])'
      OBVIOUS
    <2>1. door[f] \in DoorRow /\ DoorOK(f, door[f])
      BY DEF DoorType
    <2>2. door[f].uid \in Uids \cup {Stranger} /\ door[f].proofUid \in Uids \cup {Stranger}
      BY <2>1 DEF DoorRow
    <2> QED
      BY <1>0, <2>1, <2>2 DEF DoorOK, Stands
  <1>3. \A c \in Browsers : ErrandOK(c, errand[c])'
    <2> SUFFICES ASSUME NEW c \in Browsers PROVE ErrandOK(c, errand[c])'
      OBVIOUS
    <2>1. CASE c = b
      <3>1. errand'[c] = e
        BY <2>1 DEF DoorType
      <3> QED
        BY <2>1, <3>1 DEF ErrandOK, Stands
    <2>2. CASE c # b
      <3>1. errand'[c] = errand[c] /\ ErrandOK(c, errand[c])
        BY <2>2 DEF DoorType
      <3> QED
        BY <1>0, <3>1 DEF ErrandOK, Stands
    <2> QED
      BY <2>1, <2>2
  <1>4. BoundInv'
    <2>1. HumanCount' = HumanCount
      BY DEF HumanCount
    <2> QED
      BY <1>0, <2>1 DEF BoundInv, Stands
  <1>5. NearInv'
    <2>1. \A w \in Uids, c \in Browsers : Near(c, w)' => Near(c, w) \/ (c = b /\ w = u /\ e.flow \in HubFlows)
      BY DEF Near, ByErrand, ByDoor, BySession, DoorType
    <2>2. \A c \in Browsers : ~Near(c, u)
      BY DEF NearInv, Suits
    <2> QED
      BY <1>0, <2>1, <2>2 DEF NearInv, Suits
  <1> QED
    BY <1>1, <1>2, <1>3, <1>4, <1>5

LEMMA Creates ==
    ASSUME SignInInv, NEW b \in Browsers, NEW u \in Uids, CreateUser(b, u) PROVE SignInInv'
  <1>0. UNCHANGED <<door, bound, signedIn, invite>> /\ errand[b].phase = "creating"
    BY Zenon DEF CreateUser, dbVars, At
  <1>1. errand[b] \in ErrandRow /\ ErrandOK(b, errand[b])
    BY Before
  <1>2. PICK f \in MailFlows : f = errand[b].flow /\ b \in Readers /\ f \in Doors /\ f \notin HubFlows
    BY <1>0, <1>1, SignInAssumption DEF ErrandOK, Doors
  <1>3. CASE /\ principal[u] = "none" /\ principal' = [principal EXCEPT ![u] = "verified"]
             /\ errand' = [errand EXCEPT ![b].phase = "binding", ![b].uid = u]
    <2>0. PICK d : d = [errand[b] EXCEPT !.phase = "binding", !.uid = u]
      OBVIOUS
    <2>1. d \in ErrandRow /\ d.phase = "binding" /\ d.uid = u /\ d.flow = f
      BY <1>1, <1>2, <2>0 DEF ErrandRow
    <2>2. errand' = [errand EXCEPT ![b] = d]
      BY <1>3, <2>0
    <2>3. principal'[u] = "verified"
      BY <1>3 DEF SignInInv, DoorType
    <2>4. ErrandOK(b, d)'
      BY <1>2, <2>1, <2>3 DEF ErrandOK
    <2> QED
      BY <1>0, <1>2, <1>3, <2>1, <2>2, <2>4, Makes
  <1>4. CASE errand' = [errand EXCEPT ![b].phase = "proved"] /\ UNCHANGED principal
    <2> DEFINE d == [errand[b] EXCEPT !.phase = "proved"]
    <2>1. d \in ErrandRow /\ d.phase = "proved" /\ d.flow = f
      BY <1>1, <1>2 DEF ErrandRow
    <2>2. errand' = [errand EXCEPT ![b] = d]
      BY <1>4
    <2> HIDE DEF d
    <2>3. ErrandOK(b, d)
      BY <1>2, <2>1 DEF ErrandOK
    <2> QED
      BY <1>0, <1>2, <1>4, <2>1, <2>2, <2>3, ErrandStep
  <1> QED
    BY <1>3, <1>4, Zenon DEF CreateUser

LEMMA HubPrincipals ==
    ASSUME SignInInv, NEW b \in Browsers, NEW f \in HubFlows, NEW u \in Uids, SignInWithHub(b, f, u) PROVE SignInInv'
  <1>0. UNCHANGED <<door, bound, signedIn, invite>> /\ principal[u] = "none"
    BY DEF SignInWithHub, dbVars
  <1>1. PICK v \in {"verified", "unverified"} :
           /\ v = "verified" => b \in Readers
           /\ principal' = [principal EXCEPT ![u] = v]
           /\ errand' = [errand EXCEPT ![b] = [Idle EXCEPT !.phase = "token", !.flow = f, !.uid = u,
                                                           !.verified = v = "verified"]]
    BY DEF SignInWithHub
  <1> DEFINE d == [Idle EXCEPT !.phase = "token", !.flow = f, !.uid = u, !.verified = v = "verified"]
  <1>2. d \in ErrandRow /\ d.phase = "token" /\ d.uid = u /\ d.flow = f
    BY DEF Idle, ErrandRow, Doors
  <1>3. errand' = [errand EXCEPT ![b] = d]
    BY <1>1
  <1> HIDE DEF d
  <1>4. principal'[u] = v
    BY <1>1 DEF SignInInv, DoorType
  <1>5. ErrandOK(b, d)'
    BY <1>2, <1>4, SignInAssumption DEF ErrandOK, Doors
  <1> QED
    BY <1>0, <1>1, <1>2, <1>3, <1>5, Makes

\* The owner of a bound principal that is not verified verifies it: whoever is
\* near it reads the mail.
LEMMA VerifiesOwn ==
    ASSUME SignInInv, NEW b \in Browsers, NEW u \in Uids, NEW e \in ErrandRow, b \in Readers, Near(b, u),
           principal' = [principal EXCEPT ![u] = "verified"], errand' = [errand EXCEPT ![b] = e],
           bound[u] # 0, UNCHANGED <<door, bound, signedIn, invite>>, ErrandOK(b, e)', e.flow \notin HubFlows
    PROVE  SignInInv'
  <1> USE DEF SignInInv
  <1>0. principal'[u] = "verified" /\ \A w \in Uids : w # u => principal'[w] = principal[w]
    BY DEF DoorType
  <1>1. DoorType'
    BY DEF DoorType
  <1>2. \A f \in Doors : DoorOK(f, door[f])'
    <2> SUFFICES ASSUME NEW f \in Doors PROVE DoorOK(f, door[f])'
      OBVIOUS
    <2>1. door[f] \in DoorRow /\ DoorOK(f, door[f])
      BY DEF DoorType
    <2>2. door[f].uid \in Uids \cup {Stranger} /\ door[f].proofUid \in Uids \cup {Stranger}
      BY <2>1 DEF DoorRow
    <2> QED
      BY <1>0, <2>1, <2>2 DEF DoorOK, Stands
  <1>3. \A c \in Browsers : ErrandOK(c, errand[c])'
    <2> SUFFICES ASSUME NEW c \in Browsers PROVE ErrandOK(c, errand[c])'
      OBVIOUS
    <2>1. CASE c = b
      <3>1. errand'[c] = e
        BY <2>1 DEF DoorType
      <3> QED
        BY <2>1, <3>1 DEF ErrandOK, Stands
    <2>2. CASE c # b
      <3>1. errand'[c] = errand[c] /\ ErrandOK(c, errand[c])
        BY <2>2 DEF DoorType
      <3> QED
        BY <1>0, <3>1 DEF ErrandOK, Stands
    <2> QED
      BY <2>1, <2>2
  <1>4. BoundInv'
    <2>1. HumanCount' = HumanCount
      BY DEF HumanCount
    <2> QED
      BY <1>0, <2>1 DEF BoundInv, Stands
  <1>5. NearInv'
    <2>1. \A w \in Uids, c \in Browsers : Near(c, w)' => Near(c, w)
      BY DEF Near, ByErrand, ByDoor, BySession, DoorType
    <2>2. \A c \in Browsers : Near(c, u) => c \in Readers
      BY DEF NearInv, Suits
    <2> QED
      BY <1>0, <2>1, <2>2 DEF NearInv, Suits
  <1> QED
    BY <1>1, <1>2, <1>3, <1>4, <1>5

\* An unbound principal that is not verified goes, and with it the flows that
\* wait on it; no verified flow and no request that is being resolved has it.
LEMMA DeletesUnbound ==
    ASSUME SignInInv, NEW b \in Browsers, NEW u \in Uids, NEW e \in ErrandRow, errand' = [errand EXCEPT ![b] = e],
           principal[u] \notin {"none", "verified"}, bound[u] = 0, principal' = [principal EXCEPT ![u] = "deleted"],
           \A x \in Browsers : ~(errand[x].phase = "resolving" /\ errand[x].uid = u),
           door' = ExpireFlowsOf(u), UNCHANGED <<bound, signedIn, invite>>, ErrandOK(b, e)', e.flow \notin HubFlows
    PROVE  SignInInv'
  <1> USE DEF SignInInv
  <1>0. principal'[u] = "deleted" /\ \A w \in Uids : w # u => principal'[w] = principal[w]
    BY DEF DoorType
  <1>1. \A f \in Doors :
           /\ door'[f] \in DoorRow /\ door'[f].uid = door[f].uid /\ door'[f].proofUid = door[f].proofUid
           /\ door'[f].st = door[f].st /\ door'[f].human = door[f].human /\ door'[f].proved = door[f].proved
           /\ door'[f].holder = door[f].holder
           /\ door'[f].late = door[f].late \/ door'[f].late = TRUE
           /\ door[f].st # "completed" /\ door[f].uid = u => door'[f].late = TRUE
    <2> SUFFICES ASSUME NEW f \in Doors
                 PROVE  /\ door'[f] \in DoorRow /\ door'[f].uid = door[f].uid /\ door'[f].proofUid = door[f].proofUid
                        /\ door'[f].st = door[f].st /\ door'[f].human = door[f].human
                        /\ door'[f].proved = door[f].proved /\ door'[f].holder = door[f].holder
                        /\ door'[f].late = door[f].late \/ door'[f].late = TRUE
                        /\ door[f].st # "completed" /\ door[f].uid = u => door'[f].late = TRUE
      OBVIOUS
    <2>0. door[f] \in DoorRow
      BY DEF DoorType
    <2>1. CASE door[f].st # "completed" /\ u \in {door[f].uid, door[f].proofUid}
      <3>1. door'[f] = [door[f] EXCEPT !.late = TRUE]
        BY <2>1 DEF ExpireFlowsOf
      <3> QED
        BY <2>0, <3>1 DEF DoorRow
    <2>2. CASE ~(door[f].st # "completed" /\ u \in {door[f].uid, door[f].proofUid})
      <3>1. door'[f] = door[f]
        BY <2>2 DEF ExpireFlowsOf
      <3> QED
        BY <2>0, <2>2, <3>1
    <2> QED
      BY <2>1, <2>2
  <1>2. DoorType'
    <2>1. door' \in [Doors -> DoorRow]
      BY <1>1 DEF ExpireFlowsOf
    <2> QED
      BY <2>1 DEF DoorType
  <1>3. \A f \in Doors : DoorOK(f, door[f])'
    <2> SUFFICES ASSUME NEW f \in Doors PROVE DoorOK(f, door[f])'
      OBVIOUS
    <2>1. door[f] \in DoorRow /\ DoorOK(f, door[f])
      BY DEF DoorType
    <2>2. door[f].uid \in Uids \cup {Stranger} /\ door[f].proofUid \in Uids \cup {Stranger}
      BY <2>1 DEF DoorRow
    <2> QED
      BY <1>0, <1>1, <2>1, <2>2 DEF DoorOK, Stands
  <1>4. \A c \in Browsers : ErrandOK(c, errand[c])'
    <2> SUFFICES ASSUME NEW c \in Browsers PROVE ErrandOK(c, errand[c])'
      OBVIOUS
    <2>1. CASE c = b
      <3>1. errand'[c] = e
        BY <2>1 DEF DoorType
      <3> QED
        BY <2>1, <3>1 DEF ErrandOK, Stands
    <2>2. CASE c # b
      <3>1. errand'[c] = errand[c] /\ ErrandOK(c, errand[c])
        BY <2>2 DEF DoorType
      <3> QED
        BY <1>0, <3>1 DEF ErrandOK, Stands
    <2> QED
      BY <2>1, <2>2
  <1>5. BoundInv'
    <2>1. HumanCount' = HumanCount
      BY DEF HumanCount
    <2> QED
      BY <1>0, <2>1 DEF BoundInv, Stands
  <1>6. NearInv'
    <2>1. \A w \in Uids, c \in Browsers : Near(c, w)' => Near(c, w)
      BY <1>1 DEF Near, ByErrand, ByDoor, BySession, DoorType, Doors
    <2> QED
      BY <1>0, <2>1 DEF NearInv, Suits
  <1> QED
    BY <1>2, <1>3, <1>4, <1>5, <1>6

LEMMA Deletes ==
    ASSUME MailPerils = {}, SignInInv, NEW b \in Browsers, DeleteUnboundFirebasePrincipal(b) PROVE SignInInv'
  <1>0. UNCHANGED <<bound, signedIn, invite>> /\ errand[b].phase = "unverified"
    BY Zenon DEF DeleteUnboundFirebasePrincipal, At
  <1>1. errand[b] \in ErrandRow /\ ErrandOK(b, errand[b])
    BY Before
  <1>2. PICK f \in MailFlows : f = errand[b].flow /\ b \in Readers /\ f \in Doors /\ f \notin HubFlows
    BY <1>0, <1>1, SignInAssumption DEF ErrandOK, Doors
  <1>3. PICK u \in Uids : u = errand[b].uid /\ principal[u] # "none" /\ (principal[u] = "verified" => bound[u] # 0)
    BY <1>0, <1>1 DEF ErrandOK
  <1>4. ASSUME bound[u] # 0, UNCHANGED door, VerifyOwn(b, u) PROVE SignInInv'
    <2>1. CASE signedIn[b] = bound[u]
      <3>0. PICK d : d = [errand[b] EXCEPT !.phase = "binding"]
        OBVIOUS
      <3>1. d \in ErrandRow /\ d.phase = "binding" /\ d.uid = u /\ d.flow = f
        BY <1>1, <1>2, <1>3, <3>0 DEF ErrandRow
      <3>2. Stands(u) /\ Near(b, u)
        BY <1>4, <2>1 DEF SignInInv, BoundInv, Near, BySession
      <3>3. principal' = [principal EXCEPT ![u] = "verified"]
        BY <1>4, <2>1, <3>2 DEF VerifyOwn, Stands
      <3>4. errand' = [errand EXCEPT ![b] = d]
        BY <1>4, <2>1, <3>0 DEF VerifyOwn
      <3>5. principal'[u] = "verified"
        BY <3>3 DEF SignInInv, DoorType
      <3>6. ErrandOK(b, d)'
        BY <1>2, <3>1, <3>5 DEF ErrandOK
      <3> QED
        BY <1>0, <1>2, <1>4, <3>1, <3>2, <3>3, <3>4, <3>6, VerifiesOwn
    <2>2. CASE signedIn[b] # bound[u]
      BY <1>0, <1>4, <2>2, Drops DEF VerifyOwn
    <2> QED
      BY <2>1, <2>2
  <1>5. ASSUME bound[u] = 0, \A x \in Browsers : ~(At(x, "resolving") /\ errand[x].uid = u),
               principal' = [principal EXCEPT ![u] = "deleted"], door' = ExpireFlowsOf(u),
               errand' = [errand EXCEPT ![b].phase = "proved", ![b].uid = Stranger]
        PROVE  SignInInv'
    <2>0. PICK d : d = [errand[b] EXCEPT !.phase = "proved", !.uid = Stranger]
      OBVIOUS
    <2>1. d \in ErrandRow /\ d.phase = "proved" /\ d.flow = f
      BY <1>1, <1>2, <2>0 DEF ErrandRow
    <2>2. errand' = [errand EXCEPT ![b] = d]
      BY <1>5, <2>0
    <2>3. ErrandOK(b, d)'
      BY <1>2, <2>1 DEF ErrandOK
    <2>4. \A x \in Browsers : ~(errand[x].phase = "resolving" /\ errand[x].uid = u)
      BY <1>5 DEF At
    <2> QED
      BY <1>0, <1>2, <1>3, <1>5, <2>1, <2>2, <2>3, <2>4, DeletesUnbound
  <1>6. \/ bound[u] # 0 /\ UNCHANGED door /\ VerifyOwn(b, u)
        \/ /\ bound[u] = 0 /\ \A x \in Browsers : ~(At(x, "resolving") /\ errand[x].uid = u)
           /\ principal' = [principal EXCEPT ![u] = "deleted"] /\ door' = ExpireFlowsOf(u)
           /\ errand' = [errand EXCEPT ![b].phase = "proved", ![b].uid = Stranger]
    <2>1. "token" \notin MailPerils /\ "commit" \notin MailPerils
      OBVIOUS
    <2> QED
      BY <1>3, <2>1, Zenon DEF DeleteUnboundFirebasePrincipal
  <1> QED
    BY <1>4, <1>5, <1>6

-----------------------------------------------------------------------------
(* Signing in *)

\* A Human is admitted: no browser was signed in under the number it gets.
LEMMA Admits ==
    ASSUME SignInInv, NEW b \in Browsers, NEW e \in ErrandRow, NEW f \in Doors, NEW row \in DoorRow, NEW u \in Uids,
           bound[u] = 0, Stands(u), Suits(b, u), bound' = [bound EXCEPT ![u] = NextHuman],
           signedIn' = [signedIn EXCEPT ![b] = NextHuman], door' = [door EXCEPT ![f] = row],
           errand' = [errand EXCEPT ![b] = e], UNCHANGED principal, invite' \in InviteRow,
           row.uid = u, row.holder = b, DoorOK(f, row)', ErrandOK(b, e),
           \A w \in Uids : e.flow \in HubFlows /\ e.uid = w => Suits(b, w)
    PROVE  SignInInv'
  <1> USE DEF SignInInv
  <1>1. HumanCount \in Nat /\ NextHuman = HumanCount + 1 /\ HumanCount' = HumanCount + 1
    <2> DEFINE H == {w \in Uids : bound[w] # 0}
    <2>1. IsFiniteSet(H) /\ u \notin H
      BY SignInAssumption, FS_Subset
    <2>2. {w \in Uids : bound'[w] # 0} = H \cup {u}
      <3>1. NextHuman # 0
        <4>1. Cardinality(H) \in Nat
          BY <2>1, FS_CardinalityType
        <4> QED
          BY <4>1 DEF NextHuman
      <3> QED
        BY <3>1 DEF DoorType
    <2>3. Cardinality(H) \in Nat /\ Cardinality(H \cup {u}) = Cardinality(H) + 1
      BY <2>1, FS_AddElement, FS_CardinalityType
    <2>4. HumanCount' = Cardinality(H \cup {u})
      BY <2>2 DEF HumanCount
    <2>5. HumanCount = Cardinality(H) /\ NextHuman = 1 + Cardinality(H)
      BY DEF HumanCount, NextHuman
    <2> HIDE DEF H
    <2> QED
      BY <2>3, <2>4, <2>5
  <1>2. PICK n \in Nat : n = NextHuman /\ n # 0 /\ n > HumanCount
    BY <1>1
  <1>3. bound'[u] = n /\ \A w \in Uids : w # u => bound'[w] = bound[w]
    BY <1>2 DEF DoorType
  <1>4. DoorType'
    BY <1>2 DEF DoorType, InviteRow
  <1>5. \A g \in Doors : DoorOK(g, door[g])'
    <2> SUFFICES ASSUME NEW g \in Doors PROVE DoorOK(g, door[g])'
      OBVIOUS
    <2>1. CASE g = f
      <3>1. door'[g] = row
        BY <2>1 DEF DoorType
      <3> QED
        BY <2>1, <3>1 DEF DoorOK, Stands
    <2>2. CASE g # f
      <3>1. door'[g] = door[g] /\ DoorOK(g, door[g])
        BY <2>2 DEF DoorType
      <3> QED
        BY <1>3, <3>1 DEF DoorOK, Stands
    <2> QED
      BY <2>1, <2>2
  <1>6. \A c \in Browsers : ErrandOK(c, errand[c])'
    <2> SUFFICES ASSUME NEW c \in Browsers PROVE ErrandOK(c, errand[c])'
      OBVIOUS
    <2>1. ErrandOK(c, errand'[c])
      BY DEF DoorType
    <2> QED
      BY <1>2, <1>3, <2>1 DEF ErrandOK, Stands
  <1>7. BoundInv'
    <2>1. \A w \in Uids : bound[w] \in Nat /\ bound[w] <= HumanCount
      BY DEF BoundInv, DoorType
    <2>2. (\A w \in Uids : bound[w] <= HumanCount /\ (bound[w] # 0 => Stands(w)))'
      BY <1>1, <1>2, <1>3, <2>1 DEF BoundInv, Stands
    <2>3. (\A w, v \in Uids : bound[w] # 0 /\ bound[w] = bound[v] => w = v)'
      BY <1>1, <1>2, <1>3, <2>1 DEF BoundInv
    <2>4. \A c \in Browsers : signedIn[c] \in Nat /\ signedIn[c] <= HumanCount
      BY DEF BoundInv, DoorType
    <2>5. (\A c \in Browsers : signedIn[c] <= HumanCount)'
      BY <1>1, <1>2, <2>4 DEF DoorType
    <2> QED
      BY <2>2, <2>3, <2>5 DEF BoundInv
  <1>8. NearInv'
    <2>1. \A w \in Uids, c \in Browsers : Near(c, w)' => Near(c, w) \/ (c = b /\ Suits(b, w))
      <3> SUFFICES ASSUME NEW w \in Uids, NEW c \in Browsers, Near(c, w)'
                   PROVE  Near(c, w) \/ (c = b /\ Suits(b, w))
        OBVIOUS
      <3>1. CASE ByErrand(c, w)'
        BY <3>1 DEF ByErrand, Near, DoorType
      <3>2. CASE ByDoor(c, w)'
        BY <3>2, SignInAssumption DEF ByDoor, Near, DoorType, Doors
      <3>3. CASE BySession(c, w)'
        <4>1. CASE c = b
          <5>1. signedIn'[c] = n /\ bound'[w] = n
            BY <1>2, <3>3, <4>1 DEF BySession, DoorType
          <5>2. w = u
            <6>1. bound[w] <= HumanCount /\ bound[w] \in Nat
              BY DEF BoundInv, DoorType
            <6> QED
              BY <1>1, <1>2, <1>3, <5>1, <6>1
          <5> QED
            BY <4>1, <5>2
        <4>2. CASE c # b
          <5>1. signedIn'[c] = signedIn[c] /\ signedIn[c] <= HumanCount /\ signedIn[c] \in Nat
            BY <4>2 DEF DoorType, BoundInv
          <5>2. w # u
            BY <1>1, <1>2, <1>3, <3>3, <5>1 DEF BySession
          <5> QED
            BY <1>3, <3>3, <5>1, <5>2 DEF BySession, Near
        <4> QED
          BY <4>1, <4>2
      <3> QED
        BY <3>1, <3>2, <3>3 DEF Near
    <2> QED
      BY <2>1 DEF NearInv, Suits
  <1> QED
    BY <1>4, <1>5, <1>6, <1>7, <1>8

\* Browser b holds flow f and may sign in with principal u by it.
Owns(b, f, u) ==
    /\ door[f].holder = b /\ Suits(b, u) /\ Stands(u)
    /\ f \in MailFlows => door[f].proved /\ principal[u] = "verified"

LEMMA CompletedRow ==
    ASSUME SignInInv, NEW b \in Browsers, NEW f \in Doors, NEW u \in Uids, NEW h \in Nat, Owns(b, f, u)
    PROVE  \E row \in DoorRow :
              /\ Completed(f, u, h) = [door EXCEPT ![f] = row]
              /\ row.holder = b /\ row.uid = u /\ row.human = h /\ row.st = "completed"
              /\ row.proved = door[f].proved /\ row.proofUid = door[f].proofUid
  <1>1. door[f] \in DoorRow
    BY BeforeDoor
  <1> DEFINE row == [door[f] EXCEPT !.st = "completed", !.uid = u, !.human = h, !.action = "none"]
  <1>2. row \in DoorRow
    BY <1>1 DEF DoorRow
  <1>3. /\ row.holder = b /\ row.uid = u /\ row.human = h /\ row.st = "completed"
        /\ row.proved = door[f].proved /\ row.proofUid = door[f].proofUid
    BY <1>1 DEF DoorRow, Owns
  <1>4. Completed(f, u, h) = [door EXCEPT ![f] = row]
    BY DEF Completed
  <1> HIDE DEF row
  <1> QED
    BY <1>2, <1>3, <1>4

LEMMA SignsIn ==
    ASSUME SignInInv, NEW b \in Browsers, NEW e \in ErrandRow, NEW f \in Doors, NEW u \in Uids, Owns(b, f, u),
           completeExistingFlow(b, f, u) \/ \E verified \in BOOLEAN : provisionFromFlow(b, f, u, verified),
           errand' = [errand EXCEPT ![b] = e], UNCHANGED principal, ErrandOK(b, e),
           \A w \in Uids : e.flow \in HubFlows /\ e.uid = w => Suits(b, w)
    PROVE  SignInInv'
  <1>0. /\ DoorOK(f, door[f]) /\ bound \in [Uids -> Nat] /\ invite \in InviteRow
        /\ \A w \in Uids : bound[w] <= HumanCount
    BY DEF SignInInv, DoorType, InviteRow, BoundInv
  <1>1. CASE completeExistingFlow(b, f, u)
    <2>1. PICK h \in Nat : h = bound[u] /\ h # 0 /\ h <= HumanCount
      BY <1>0, <1>1 DEF completeExistingFlow
    <2>2. /\ door' = Completed(f, u, h) /\ signedIn' = [signedIn EXCEPT ![b] = h]
          /\ UNCHANGED <<bound, invite>>
      BY <1>1, <2>1 DEF completeExistingFlow
    <2>3. PICK row \in DoorRow :
             /\ Completed(f, u, h) = [door EXCEPT ![f] = row]
             /\ row.holder = b /\ row.uid = u /\ row.human = h /\ row.st = "completed"
             /\ row.proved = door[f].proved /\ row.proofUid = door[f].proofUid
      BY CompletedRow
    <2>4. DoorOK(f, row)
      BY <1>0, <2>1, <2>3 DEF DoorOK, Owns
    <2>5. \A w \in Uids : bound[w] # 0 /\ bound[w] = h => Suits(b, w)
      <3>1. \A w \in Uids : bound[w] # 0 /\ bound[w] = h => w = u
        BY <2>1 DEF SignInInv, BoundInv
      <3> QED
        BY <3>1 DEF Owns
    <2>6. \A w \in Uids, c \in Browsers : row.uid = w /\ row.holder = c => Near(c, w) \/ (c = b /\ Suits(b, w))
      BY <2>3 DEF Owns
    <2>7. door' = [door EXCEPT ![f] = row] /\ invite' \in InviteRow
      BY <1>0, <2>2, <2>3
    <2> QED
      BY <2>1, <2>2, <2>4, <2>5, <2>6, <2>7, FlowStep
  <1>2. ASSUME NEW verified \in BOOLEAN, provisionFromFlow(b, f, u, verified) PROVE SignInInv'
    <2>1. /\ bound[u] = 0 /\ bound' = [bound EXCEPT ![u] = NextHuman] /\ invite' = [invite EXCEPT !.st = "consumed"]
          /\ door' = Completed(f, u, NextHuman) /\ signedIn' = [signedIn EXCEPT ![b] = NextHuman]
      BY <1>2 DEF provisionFromFlow
    <2>2. PICK h \in Nat : h = NextHuman /\ h # 0
      <3>1. IsFiniteSet({w \in Uids : bound[w] # 0})
        BY SignInAssumption, FS_Subset
      <3>2. Cardinality({w \in Uids : bound[w] # 0}) \in Nat
        BY <3>1, FS_CardinalityType
      <3>3. NextHuman \in Nat /\ NextHuman # 0
        BY <3>2 DEF NextHuman
      <3> QED
        BY <3>3
    <2>3. PICK row \in DoorRow :
             /\ Completed(f, u, h) = [door EXCEPT ![f] = row]
             /\ row.holder = b /\ row.uid = u /\ row.human = h /\ row.st = "completed"
             /\ row.proved = door[f].proved /\ row.proofUid = door[f].proofUid
      BY CompletedRow
    <2>4. bound'[u] = h
      BY <1>0, <2>1, <2>2
    <2>5. DoorOK(f, row)'
      BY <1>0, <2>2, <2>3, <2>4 DEF DoorOK, Owns
    <2>6. invite' \in InviteRow
      BY <1>0, <2>1 DEF InviteRow
    <2>7. door' = [door EXCEPT ![f] = row]
      BY <2>1, <2>2, <2>3
    <2>8. Stands(u) /\ Suits(b, u)
      BY DEF Owns
    <2> QED
      BY <2>1, <2>3, <2>5, <2>6, <2>7, <2>8, Admits
  <1> QED
    BY <1>1, <1>2

LEMMA Advances ==
    ASSUME SignInInv, NEW b \in Browsers, AdvanceOnProof(b) PROVE SignInInv'
  <1>0. UNCHANGED principal /\ errand[b].phase = "resolving" /\ errand' = [errand EXCEPT ![b] = Idle]
    BY Zenon DEF AdvanceOnProof, At, Drop
  <1>1. /\ errand[b] \in ErrandRow /\ ErrandOK(b, errand[b])
        /\ \A w \in Uids : errand[b].flow \in HubFlows /\ errand[b].uid = w => Suits(b, w)
    BY Before
  <1>2. PICK f \in Doors : f = errand[b].flow /\ (f \in MailFlows => b \in Readers)
    BY <1>0, <1>1 DEF ErrandOK
  <1>3. PICK u \in Uids : u = errand[b].uid /\ Stands(u) /\ (f \in MailFlows => principal[u] = "verified")
    BY <1>0, <1>1, <1>2 DEF ErrandOK
  <1>4. door[f] \in DoorRow /\ DoorOK(f, door[f])
    BY BeforeDoor
  <1>5. Suits(b, u)
    <2>1. CASE f \in HubFlows
      BY <1>1, <1>2, <1>3, <2>1
    <2>2. CASE f \in MailFlows
      BY <1>2, <1>3, <2>2 DEF Suits, SignInInv, NearInv
    <2> QED
      BY <2>1, <2>2 DEF Doors
  <1> DEFINE verified == f \in MailFlows \/ errand[b].verified
             asking == [door EXCEPT ![f].st = "confirm", ![f].uid = u, ![f].verified = verified,
                               ![f].action = IF bound[u] = 0 THEN "create" ELSE "signin"]
             open == HoldsDoor(b, f) /\ door[f].st = "pending" /\ ~door[f].late /\ ProofMatches(f, u)
  <1>6. verified \in BOOLEAN
    BY <1>1 DEF ErrandRow
  <1>7. open => Owns(b, f, u)
    BY <1>3, <1>4, <1>5, SignInAssumption DEF Owns, HoldsDoor, ProofMatches, DoorOK
  <1>8. CASE open /\ (completeExistingFlow(b, f, u) \/ provisionFromFlow(b, f, u, verified))
    <2> HIDE DEF verified, open
    <2> QED
      BY <1>0, <1>6, <1>7, <1>8, IdleErrand, SignsIn
  <1>9. CASE open /\ door' = asking /\ UNCHANGED <<bound, invite, signedIn>>
    <2> DEFINE act == IF bound[u] = 0 THEN "create" ELSE "signin"
               row == [door[f] EXCEPT !.st = "confirm", !.uid = u, !.verified = verified, !.action = act]
    <2>1. act \in {"create", "signin"}
      OBVIOUS
    <2>2. door' = [door EXCEPT ![f] = row]
      BY <1>9
    <2>3. Owns(b, f, u)
      BY <1>7, <1>9
    <2> HIDE DEF act, verified, open
    <2>4. row \in DoorRow
      BY <1>4, <1>6, <2>1 DEF DoorRow
    <2>5. /\ row.holder = door[f].holder /\ row.uid = u /\ row.st = "confirm"
          /\ row.proved = door[f].proved /\ row.proofUid = door[f].proofUid
      BY <1>4 DEF DoorRow
    <2> HIDE DEF row
    <2>6. DoorOK(f, row)
      BY <1>4, <2>3, <2>5 DEF DoorOK, Owns
    <2>7. \A w \in Uids, c \in Browsers : row.uid = w /\ row.holder = c => Near(c, w) \/ (c = b /\ Suits(b, w))
      BY <1>5, <2>3, <2>5 DEF Owns
    <2>8. UNCHANGED <<principal, bound, signedIn, invite>>
      BY <1>0, <1>9
    <2> QED
      BY <1>0, <2>2, <2>4, <2>6, <2>7, <2>8, IdleErrand, RequestStep
  <1>10. CASE /\ HoldsDoor(b, f) /\ door[f].st = "completed" /\ door[f].uid = u /\ bound[u] = door[f].human
              /\ signedIn' = [signedIn EXCEPT ![b] = door[f].human] /\ UNCHANGED <<door, bound, invite>>
    <2>1. PICK h \in Nat : h = door[f].human /\ h = bound[u] /\ h # 0 /\ h <= HumanCount
      BY <1>4, <1>10 DEF DoorOK, SignInInv, BoundInv, DoorType
    <2>2. \A w \in Uids : bound[w] # 0 /\ bound[w] = h => Suits(b, w)
      BY <1>5, <2>1 DEF SignInInv, BoundInv
    <2>3. signedIn' = [signedIn EXCEPT ![b] = h] /\ invite' \in InviteRow
      BY <1>10, <2>1, Before
    <2>4. PICK row \in DoorRow :
             /\ DoorOK(f, row) /\ door' = [door EXCEPT ![f] = row]
             /\ f \in HubFlows => \A w \in Uids, c \in Browsers : row.uid = w /\ row.holder = c => Near(c, w)
      BY <1>10, BeforeDoor
    <2>5. UNCHANGED <<principal, bound>>
      BY <1>0, <1>10
    <2> QED
      BY <1>0, <2>1, <2>2, <2>3, <2>4, <2>5, IdleErrand, FlowStep
  <1>11. CASE UNCHANGED <<door, bound, invite, signedIn>>
    BY <1>0, <1>11, Drops DEF Drop
  <1>12. \/ open /\ (completeExistingFlow(b, f, u) \/ provisionFromFlow(b, f, u, verified))
         \/ open /\ door' = asking /\ UNCHANGED <<bound, invite, signedIn>>
         \/ /\ HoldsDoor(b, f) /\ door[f].st = "completed" /\ door[f].uid = u /\ bound[u] = door[f].human
            /\ signedIn' = [signedIn EXCEPT ![b] = door[f].human] /\ UNCHANGED <<door, bound, invite>>
         \/ UNCHANGED <<door, bound, invite, signedIn>>
    BY <1>2, <1>3, Zenon DEF AdvanceOnProof
  <1> QED
    BY <1>8, <1>9, <1>10, <1>11, <1>12

LEMMA Confirms ==
    ASSUME SignInInv, NEW b \in Browsers, NEW f \in Doors, AdvanceOnConfirm(b, f) PROVE SignInInv'
  <1>1. /\ UNCHANGED <<principal, errand>> /\ door[f].holder = b /\ door[f].st = "confirm" /\ ~door[f].late
        /\ \/ provisionFromFlow(b, f, door[f].uid, door[f].verified) \/ completeExistingFlow(b, f, door[f].uid)
    BY Zenon DEF AdvanceOnConfirm, HoldsDoor
  <1>2. door[f] \in DoorRow /\ DoorOK(f, door[f]) /\ \A w \in Uids : door[f].uid = w => Suits(b, w)
    BY <1>1, BeforeDoor
  <1>3. PICK u \in Uids : u = door[f].uid /\ Owns(b, f, u)
    BY <1>1, <1>2, SignInAssumption DEF DoorOK, Owns
  <1>4. PICK verified \in BOOLEAN : verified = door[f].verified
    BY <1>2 DEF DoorRow
  <1>5. completeExistingFlow(b, f, u) \/ provisionFromFlow(b, f, u, verified)
    BY <1>1, <1>3, <1>4
  <1>6. PICK e \in ErrandRow : /\ errand' = [errand EXCEPT ![b] = e] /\ ErrandOK(b, e)
                               /\ \A w \in Uids : e.flow \in HubFlows /\ e.uid = w => Suits(b, w)
    BY <1>1, Before
  <1> QED
    BY <1>1, <1>3, <1>5, <1>6, SignsIn

-----------------------------------------------------------------------------

LEMMA SignInStep ==
    ASSUME MailPerils = {}, QueueInv, SignInInv, [MailNext]_mailVars PROVE QueueInv' /\ SignInInv'
  <1>0. ASSUME UNCHANGED <<door, errand, principal, bound, signedIn>>, invite' \in InviteRow PROVE SignInInv'
    <2>1. DoorType'
      BY <1>0 DEF SignInInv, DoorType, InviteRow
    <2>2. (\A f \in Doors : DoorOK(f, door[f]))' /\ (\A b \in Browsers : ErrandOK(b, errand[b]))'
      BY <1>0 DEF SignInInv, DoorOK, ErrandOK, Stands
    <2>3. BoundInv' /\ NearInv'
      BY <1>0 DEF SignInInv, BoundInv, HumanCount, Stands, NearInv, Suits, Near, ByErrand, ByDoor, BySession
    <2> QED
      BY <2>1, <2>2, <2>3 DEF SignInInv
  <1>1. invite \in InviteRow
    BY DEF SignInInv, DoorType, InviteRow
  <1>2. CASE UNCHANGED mailVars
    BY <1>0, <1>1, <1>2, QueueStays DEF mailVars
  <1>3. CASE MailNext
    <2>1. ASSUME NEW b \in Browsers, NEW f \in MailFlows, NEW i \in {"in", "up"}, StartEmailCodeFlow(b, f, i)
          PROVE  SignInInv'
      BY <2>1, Begins DEF StartEmailCodeFlow, cloudAccountVars, Doors
    <2>2. ASSUME NEW b \in Browsers, NEW f \in HubFlows, NEW i \in {"in", "up"}, StartProviderFlow(b, f, i)
          PROVE  SignInInv'
      BY <2>2, Begins DEF StartProviderFlow, cloudAccountVars, Doors
    <2>3. ASSUME NEW b \in Browsers, NEW f \in MailFlows, ResendEmailChallenge(b, f) PROVE SignInInv'
      <3>1. UNCHANGED <<door, errand, cloudAccountVars>>
        BY <2>3, Zenon DEF ResendEmailChallenge
      <3> QED
        BY <1>0, <1>1, <3>1 DEF cloudAccountVars
    <2>4. ASSUME NEW d \in DOMAIN delivery, ClaimEmailDeliveries(d) PROVE SignInInv'
      <3>1. UNCHANGED <<door, errand, cloudAccountVars>>
        BY <2>4, Zenon DEF ClaimEmailDeliveries
      <3> QED
        BY <1>0, <1>1, <3>1 DEF cloudAccountVars
    <2>5. ASSUME NEW p \in posts, NEW a \in BOOLEAN, NEW to \in {"sent", "failed", "pending"}, deliver(p, a, to)
          PROVE  SignInInv'
      <3>1. UNCHANGED <<door, errand, cloudAccountVars>>
        BY <2>5, Zenon DEF deliver
      <3> QED
        BY <1>0, <1>1, <3>1 DEF cloudAccountVars
    <2>6. ASSUME NEW b \in Browsers, LoseRequest(b) PROVE SignInInv'
      BY <2>6, Drops DEF LoseRequest, dbVars
    <2>7. ASSUME RevokeEnrollmentInvite PROVE SignInInv'
      <3>1. invite' \in InviteRow
        BY <1>1, <2>7 DEF RevokeEnrollmentInvite, InviteRow
      <3> QED
        BY <1>0, <2>7, <3>1 DEF RevokeEnrollmentInvite, postVars
    <2>8. ASSUME NEW b \in Browsers, \/ GetUser(b) \/ DeleteUnboundFirebasePrincipal(b) \/ BindEmailProofUID(b)
                                     \/ VerifyIDToken(b) \/ AdvanceOnProof(b) \/ LoseRequest(b)
          PROVE  SignInInv'
      BY <2>6, <2>8, Looks, Deletes, Binds, Tokens, Advances
    <2>9. ASSUME NEW b \in Browsers, NEW f \in MailFlows, NEW c \in {0} \cup inbox, VerifyEmailCode(b, f, c)
          PROVE  SignInInv'
      BY <2>9, Verifies
    <2>10. ASSUME NEW b \in Browsers, NEW c \in inbox, NEW a \in BOOLEAN, CompleteEmailLink(b, c, a)
           PROVE  SignInInv'
      BY <2>10, Links
    <2>11. ASSUME NEW b \in Browsers, NEW u \in Uids, CreateUser(b, u) PROVE SignInInv'
      BY <2>11, Creates
    <2>12. ASSUME NEW b \in Browsers, NEW f \in HubFlows, NEW u \in Uids, SignInWithHub(b, f, u) PROVE SignInInv'
      BY <2>12, HubPrincipals
    <2>13. ASSUME NEW b \in Browsers, NEW f \in Doors, AdvanceOnConfirm(b, f) PROVE SignInInv'
      BY <2>13, Confirms
    <2>14. ASSUME Lapse PROVE SignInInv'
      BY <2>14, Lapses
    <2>15. SignInInv'
      BY <1>3, <2>1, <2>2, <2>3, <2>4, <2>5, <2>7, <2>8, <2>9, <2>10, <2>11, <2>12, <2>13, <2>14, Zenon DEF MailNext
    <2> QED
      BY <1>3, <2>15, QueueStep
  <1> QED
    BY <1>2, <1>3

LEMMA SoundFlows == SignInInv => SignInSound
  <1> SUFFICES ASSUME SignInInv PROVE SignInSound
    OBVIOUS
  <1>1. HumanHasPrincipal
    BY DEF HumanHasPrincipal, SignInInv, BoundInv, Stands
  <1>2. ASSUME NEW f \in MailFlows, door[f].st = "completed", NEW b \in Browsers, signedIn[b] = door[f].human
        PROVE  b \in Readers
    <2>1. f \in Doors
      BY DEF Doors
    <2>2. PICK u \in Uids : u = door[f].uid /\ principal[u] = "verified" /\ bound[u] # 0 /\ signedIn[b] = bound[u]
      BY <1>2, <2>1, SignInAssumption DEF SignInInv, DoorOK
    <2> QED
      BY <2>2 DEF SignInInv, NearInv, Near, BySession, Suits
  <1> QED
    BY <1>1, <1>2 DEF SignInSound, OnlyReadersSignIn

(* While deletions are committed and tokens are read again (no peril): a   *)
(* Human reached by proving the mailbox is signed in only in browsers of   *)
(* the one who reads it, and no Human's principal is deleted, for any      *)
(* number of browsers, flows and principals and any order of the mails.    *)
THEOREM SignInStaysSound == ASSUME MailPerils = {} PROVE MailSpec => []SignInSound
  <1>1. QueueInv /\ SignInInv /\ [MailNext]_mailVars => (QueueInv /\ SignInInv)'
    BY SignInStep
  <1> QED
    BY SignInInitially, <1>1, SoundFlows, PTL DEF MailSpec
============================================================================
