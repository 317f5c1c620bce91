---------------------------- MODULE PushDelivery ----------------------------
(***************************************************************************)
(* Web push.  A login gives the browser a device row (its cookie), the     *)
(* browser registers its push endpoint under that device, and a message    *)
(* intent is sent to every endpoint of the human it is for.  The audience  *)
(* and its endpoints are read once; every send then takes a lease: a       *)
(* transaction that holds the workspace, the membership, the device and    *)
(* the endpoint locked while the request is on its way.  Browsers are      *)
(* shared: one human logs out, another logs in and takes the endpoint over.*)
(***************************************************************************)
EXTENDS Integers, FiniteSets

CONSTANTS
    Machines,     \* browsers, each with one endpoint and its keys
    Owners,       \* humans
    NoOne,        \* nobody logged in
    Sends,        \* sends that may be in flight
    MaxDevices,   \* bound: device rows ever made
    MaxSubs,      \* endpoints a human may hold (8 in the code)
    MaxTerms      \* bound: changes of membership per human

ASSUME PushAssumption == MaxDevices \in Nat

VARIABLES
    user,      \* who is logged in at a browser
    cookie,    \* the device its cookie names, or 0
    device,    \* device rows: owner and whether live, expired or absent
    devices,   \* device rows made so far
    subscription,       \* the subscription of a browser's endpoint, or NoRow
    term,      \* memberships begun and ended: odd while a member
    job,       \* the sends
    purging    \* humans whose expired devices are still to be purged
pushVars == <<user, cookie, device, devices, subscription, term, job, purging>>

NoRow == [human |-> NoOne, device |-> 0, gen |-> 0]
NoJob == [at |-> "none", human |-> NoOne, term |-> 0, browser |-> NoOne, device |-> 0, gen |-> 0]
DeviceIds == 1..MaxDevices
PushInit ==
    /\ user = [b \in Machines |-> NoOne] /\ cookie = [b \in Machines |-> 0]
    /\ device = [d \in DeviceIds |-> [owner |-> NoOne, state |-> "none"]] /\ devices = 0
    /\ subscription = [b \in Machines |-> NoRow] /\ term = [h \in Owners |-> 1]
    /\ job = [j \in Sends |-> NoJob] /\ purging = {}

Member(h) == term[h] % 2 = 1
Leased == {j \in Sends : job[j].at = "leased"}
\* The locks a lease holds against a deletion, a takeover and a departure.
DeviceFreeAlways(d) == TRUE
DeviceFree(d) == \A j \in Leased : job[j].device # d
EndpointFree(b) == \A j \in Leased : job[j].browser # b
WorkspaceFree == Leased = {}

lockPushDevice(d, h) == d # 0 /\ device[d].state = "live" /\ device[d].owner = h
\* Deleting device rows deletes the subscriptions that hang on them.
Without(ds) ==
    /\ device' = [d \in DeviceIds |-> IF d \in ds THEN [owner |-> NoOne, state |-> "none"] ELSE device[d]]
    /\ subscription' = [b \in Machines |-> IF subscription[b].device \in ds THEN NoRow ELSE subscription[b]]
ExpiredOf(h) == {d \in DeviceIds : device[d].state = "expired" /\ device[d].owner = h /\ DeviceFree(d)}

-----------------------------------------------------------------------------
(* Devices.                                                                *)
\* A login renews the device of the cookie if it is this human's and live;
\* otherwise the old row goes and a new one is made.  Expired rows are then
\* purged, or left to the retry when that takes too long.
RefreshBrowserPushDevice(b, h) ==
    /\ user[b] = NoOne /\ user' = [user EXCEPT ![b] = h]
    /\ IF lockPushDevice(cookie[b], h)
       THEN UNCHANGED <<cookie, device, devices, subscription>>
       ELSE /\ devices < MaxDevices /\ devices' = devices + 1
            /\ cookie[b] # 0 => DeviceFree(cookie[b])
            /\ cookie' = [cookie EXCEPT ![b] = devices + 1]
            /\ device' = [d \in DeviceIds |->
                   IF d = devices + 1 THEN [owner |-> h, state |-> "live"]
                   ELSE IF d = cookie[b] THEN [owner |-> NoOne, state |-> "none"] ELSE device[d]]
            /\ subscription' = [c \in Machines |->
                   IF cookie[b] # 0 /\ subscription[c].device = cookie[b] THEN NoRow ELSE subscription[c]]
    /\ purging' = purging \cup {h} /\ UNCHANGED <<term, job>>
\* Rows under a lease are skipped; the human stays due while any remain.
purgeExpiredPushDevices(h) ==
    /\ h \in purging /\ Without(ExpiredOf(h))
    /\ purging' = IF \E d \in DeviceIds : device'[d].state = "expired" /\ device'[d].owner = h
                  THEN purging ELSE purging \ {h}
    /\ UNCHANGED <<user, cookie, devices, term, job>>
\* Logout deletes the device of the cookie; the session ends without it too
\* (an expired session leaves the browser, not the device).
RevokeBrowserPushDevice(b) ==
    /\ user[b] # NoOne /\ cookie[b] # 0 /\ DeviceFree(cookie[b])
    /\ Without({cookie[b]}) /\ user' = [user EXCEPT ![b] = NoOne]
    /\ cookie' = [cookie EXCEPT ![b] = 0] /\ UNCHANGED <<devices, term, job, purging>>
SessionExpires(b) ==
    /\ user[b] # NoOne /\ user' = [user EXCEPT ![b] = NoOne]
    /\ UNCHANGED <<cookie, device, devices, subscription, term, job, purging>>
DeviceExpires(d) ==
    /\ device[d].state = "live" /\ device' = [device EXCEPT ![d].state = "expired"]
    /\ UNCHANGED <<user, cookie, devices, subscription, term, job, purging>>

-----------------------------------------------------------------------------
(* Subscriptions.                                                          *)
\* What the purge inside a save deletes: rows on expired devices, of the
\* human or at this endpoint.
lockAndPurgeExpiredPushSubscriptions(h, b) ==
    [c \in Machines |-> IF subscription[c] # NoRow /\ device[subscription[c].device].state = "expired"
                           /\ (subscription[c].human = h \/ c = b)
                        THEN NoRow ELSE subscription[c]]
SavePushSubscription(b) ==
    LET h == user[b]
        kept == lockAndPurgeExpiredPushSubscriptions(h, b)
        others == {c \in Machines \ {b} : kept[c].human = h /\ device[kept[c].device].state = "live"}
    IN /\ h # NoOne /\ Member(h) /\ lockPushDevice(cookie[b], h)
       /\ \A c \in Machines : kept[c] # subscription[c] \/ c = b => EndpointFree(c)
       /\ Cardinality(others) < MaxSubs
       /\ subscription' = [kept EXCEPT ![b] =
              [human |-> h, device |-> cookie[b],
               gen |-> IF @ = NoRow THEN 1
                       ELSE IF @.human = h /\ @.device = cookie[b] THEN @.gen ELSE @.gen + 1]]
       /\ UNCHANGED <<user, cookie, device, devices, term, job, purging>>
DeletePushSubscription(b) ==
    /\ user[b] # NoOne /\ Member(user[b]) /\ lockPushDevice(cookie[b], user[b]) /\ EndpointFree(b)
    /\ subscription[b].human = user[b] /\ subscription[b].device = cookie[b]
    /\ subscription' = [subscription EXCEPT ![b] = NoRow] /\ UNCHANGED <<user, cookie, device, devices, term, job, purging>>

\* A human leaves the workspace, or comes back.
ChangeTerm(h) ==
    /\ term[h] <= MaxTerms /\ WorkspaceFree /\ term' = [term EXCEPT ![h] = @ + 1]
    /\ UNCHANGED <<user, cookie, device, devices, subscription, job, purging>>

-----------------------------------------------------------------------------
(* Delivery.                                                               *)
\* The endpoints of a human, on devices that are live.
pushSubscriptionsForWith(h) ==
    {b \in Machines : subscription[b].human = h /\ device[subscription[b].device].state = "live"}
\* A message notifies a member: the intent names the membership.
deliverPush(j, h) ==
    /\ job[j].at = "none" /\ Member(h)
    /\ job' = [job EXCEPT ![j] = [NoJob EXCEPT !.at = "decided", !.human = h, !.term = term[h]]]
    /\ UNCHANGED <<user, cookie, device, devices, subscription, term, purging>>
\* The audience is authorised again and the human's endpoints are read; the
\* send that is followed is one of them.
deliverJob(j) ==
    /\ job[j].at = "decided"
    /\ \/ /\ ~Member(job[j].human) /\ job' = [job EXCEPT ![j].at = "done"]
       \/ \E b \in pushSubscriptionsForWith(job[j].human) :
              /\ Member(job[j].human)
              /\ job' = [job EXCEPT ![j].at = "read", ![j].browser = b, ![j].device = subscription[b].device,
                                    ![j].gen = subscription[b].gen]
    /\ UNCHANGED <<user, cookie, device, devices, subscription, term, purging>>
lockAnyPushAudience(j) == Member(job[j].human)
lockExactPushAudience(j) == Member(job[j].human) /\ term[job[j].human] = job[j].term
\* The row is the one that was read: owner, device and generation.
StillThere(j) == subscription[job[j].browser] = [human |-> job[j].human, device |-> job[j].device, gen |-> job[j].gen]
acquirePushSendLease(j) ==
    /\ job[j].at = "read" /\ EndpointFree(job[j].browser)
    /\ job' = [job EXCEPT ![j].at =
           IF lockExactPushAudience(j) /\ lockPushDevice(job[j].device, job[j].human) /\ StillThere(j)
           THEN "leased" ELSE "done"]
    /\ UNCHANGED <<user, cookie, device, devices, subscription, term, purging>>
\* The request is answered, fails or times out, and the lease goes; an
\* endpoint the push service no longer knows is deleted with it.
send(j) ==
    /\ job[j].at = "leased" /\ job' = [job EXCEPT ![j].at = "done"]
    /\ \/ UNCHANGED subscription
       \/ subscription' = [subscription EXCEPT ![job[j].browser] = IF StillThere(j) THEN NoRow ELSE @]
    /\ UNCHANGED <<user, cookie, device, devices, term, purging>>

PushNext ==
    \/ \E b \in Machines, h \in Owners : RefreshBrowserPushDevice(b, h)
    \/ \E h \in Owners : purgeExpiredPushDevices(h) \/ ChangeTerm(h)
    \/ \E b \in Machines : RevokeBrowserPushDevice(b) \/ SessionExpires(b)
                           \/ SavePushSubscription(b) \/ DeletePushSubscription(b)
    \/ \E d \in DeviceIds : DeviceExpires(d)
    \/ \E j \in Sends, h \in Owners : deliverPush(j, h)
    \/ \E j \in Sends : deliverJob(j) \/ acquirePushSendLease(j) \/ send(j)
PushSpec == PushInit /\ [][PushNext]_pushVars

-----------------------------------------------------------------------------
\* While a notification is on its way to an endpoint, that endpoint is the
\* registered one of the human it is for, on a device that human still has,
\* and the human is in the very membership the message notified: whatever
\* was logged out, taken over, left or rejoined since the audience was read.
PushStaysWithItsHuman ==
    \A j \in Sends : job[j].at = "leased" =>
        /\ subscription[job[j].browser].human = job[j].human
        /\ subscription[job[j].browser].device = job[j].device
        /\ device[job[j].device].owner = job[j].human /\ device[job[j].device].state # "none"
        /\ term[job[j].human] = job[j].term /\ Member(job[j].human)
=============================================================================
