------------------------- MODULE SecretaryContract -------------------------
(***************************************************************************)
(* What the durable state promises about one secretary, with no turns,     *)
(* generations, leases, retries, journals or placements in sight: an input *)
(* is admitted; decisions are recorded for it; each recorded call runs at  *)
(* most once, before the reply, an elevated one only on the human's yes to *)
(* that very call and a normal one never against the human's no to the     *)
(* same action; and the input is answered once.                            *)
(***************************************************************************)
EXTENDS Integers, Sequences

CONSTANTS Inputs, Actions, ElevatedOnly, Decisions, MaxCalls

Call == [act : Actions, route : {"normal", "elevated"}]
Index == 1 .. MaxCalls
Position == Inputs \X Index

VARIABLES
    known,     \* the admitted inputs
    calls,     \* the calls decided for each input, in order
    verdict,   \* the human's decision on each call
    runs,      \* how often the effect of each call was applied
    reply      \* the answers given to each input

contractVars == <<known, calls, verdict, runs, reply>>

Init ==
    /\ known = {}
    /\ calls = [i \in Inputs |-> <<>>]
    /\ verdict = [p \in Position |-> "absent"]
    /\ runs = [p \in Position |-> 0]
    /\ reply = [i \in Inputs |-> <<>>]

Open(i) == i \in known /\ reply[i] = <<>>
Recorded(p) == p[2] <= Len(calls[p[1]])
CallOf(p) == calls[p[1]][p[2]]

Admit(i) ==
    /\ known' = known \cup {i}
    /\ UNCHANGED <<calls, verdict, runs, reply>>

Decide(i, d) ==
    /\ Open(i)
    /\ calls' = [calls EXCEPT ![i] = @ \o d]
    /\ UNCHANGED <<known, verdict, runs, reply>>

Ask(p) ==
    /\ Open(p[1]) /\ Recorded(p)
    /\ CallOf(p).route = "elevated" /\ verdict[p] = "absent"
    /\ verdict' = [verdict EXCEPT ![p] = "pending"]
    /\ UNCHANGED <<known, calls, runs, reply>>

Answer(p, v) ==
    /\ verdict[p] = "pending"
    /\ verdict' = [verdict EXCEPT ![p] = v]
    /\ UNCHANGED <<known, calls, runs, reply>>

\* The human refused the same action for the same input.
RefusedBefore(p) ==
    \E k \in Index : /\ verdict[<<p[1], k>>] = "denied"
                     /\ CallOf(<<p[1], k>>).act = CallOf(p).act

Consented(p) ==
    IF CallOf(p).route = "elevated"
    THEN verdict[p] = "approved"
    ELSE CallOf(p).act \notin ElevatedOnly /\ ~RefusedBefore(p)

Run(p) ==
    /\ Open(p[1]) /\ Recorded(p)
    /\ runs[p] = 0
    /\ Consented(p)
    /\ runs' = [runs EXCEPT ![p] = 1]
    /\ UNCHANGED <<known, calls, verdict, reply>>

Reply(i, r) ==
    /\ Open(i)
    /\ reply' = [reply EXCEPT ![i] = <<r>>]
    /\ UNCHANGED <<known, calls, verdict, runs>>

Next ==
    \/ \E i \in Inputs :
          \/ Admit(i)
          \/ \E d \in Decisions : Decide(i, d)
          \/ \E r \in {"turn_completed", "turn_failed"} : Reply(i, r)
    \/ \E p \in Position :
          \/ Ask(p)
          \/ \E v \in {"approved", "denied"} : Answer(p, v)
          \/ Run(p)

Spec == Init /\ [][Next]_contractVars

=============================================================================
