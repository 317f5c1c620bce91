---------------------------- MODULE RuntimeWaker ----------------------------
(***************************************************************************)
(* The state service's half of a runtime that sleeps: a sweep finds active *)
(* personas with work that no live writer holds, one bounded page at a     *)
(* time from a rotating cursor, and wakes each unless its last wake is too *)
(* recent and achieved nothing.  A wake may be lost; nothing but the       *)
(* database and the waker's marks remembers it.                            *)
(***************************************************************************)
EXTENDS Integers, FiniteSets

CONSTANTS
    LastPersona,   \* personas are 1..LastPersona, in the order of their ids
    PageLimit,     \* personas one sweep may see (200 in the code)
    MinGap, MaxGap, MemoryGap   \* bounds of the gap before a vain wake is repeated
ASSUME WakerAssumption ==
    /\ LastPersona \in Nat \ {0} /\ PageLimit \in Nat \ {0}
    /\ MinGap \in Nat \ {0} /\ MaxGap \in Nat /\ MinGap <= MaxGap /\ MemoryGap \in Nat

PersonaIds == 1..LastPersona

VARIABLES
    work,     \* a persona's work: none, due (a queued input, one left claimed, a schedule),
              \* or rescue (an overdue memory branch and nothing else)
    holder,   \* personas with a live writer lease, or active elsewhere
    marks,    \* the waker's marks: whether the work moved since, the gap, the time passed
    cursor,   \* the rotation cursor (0: from the beginning)
    quiet,    \* history: time since the last wake over work that has not moved
    passed,   \* history: sweeps in a row that found a persona due and did not wake it
    hasty     \* history: personas woken again too soon
wakerVars == <<work, holder, marks, cursor, quiet, passed, hasty>>

NoMark == [on |-> FALSE, same |-> FALSE, gap |-> 0, at |-> 0]
WakerInit ==
    /\ work = [p \in PersonaIds |-> "none"] /\ holder = {}
    /\ marks = [p \in PersonaIds |-> NoMark] /\ cursor = 0
    /\ quiet = [p \in PersonaIds |-> MinGap] /\ passed = [p \in PersonaIds |-> 0] /\ hasty = {}

-----------------------------------------------------------------------------
(* The personas: work arrives, comes due, is done, is left behind.         *)
\* Any change of the pending work changes the progress the waker compares.
Moved(p, w) ==
    /\ work' = [work EXCEPT ![p] = w] /\ marks' = [marks EXCEPT ![p].same = FALSE]
    /\ quiet' = [quiet EXCEPT ![p] = MinGap] /\ passed' = [passed EXCEPT ![p] = 0]
    /\ UNCHANGED <<cursor, hasty>>
WorkArrives(p) ==
    /\ p \notin holder /\ \E w \in {"due", "rescue"} : work[p] # "due" /\ Moved(p, w)
    /\ UNCHANGED holder
\* The runtime takes the lease, or the persona moves away; the lease ends, or
\* the persona returns, with its work done, moved or as it was.
RuntimeStarts(p) ==
    /\ p \notin holder /\ holder' = holder \cup {p}
    /\ passed' = [passed EXCEPT ![p] = 0] /\ UNCHANGED <<work, marks, cursor, quiet, hasty>>
RuntimeStops(p) ==
    /\ p \in holder /\ holder' = holder \ {p}
    /\ \/ UNCHANGED <<work, marks, cursor, quiet, passed, hasty>>
       \/ \E w \in {"none", "due"} : Moved(p, w)
\* Time passes for every gap.
Tick ==
    /\ marks' = [p \in PersonaIds |-> [marks[p] EXCEPT !.at = IF @ < marks[p].gap THEN @ + 1 ELSE @]]
    /\ quiet' = [p \in PersonaIds |-> IF quiet[p] < MinGap THEN quiet[p] + 1 ELSE MinGap]
    /\ UNCHANGED <<work, holder, cursor, passed, hasty>>

-----------------------------------------------------------------------------
(* The sweep.                                                              *)
Awaiting == {p \in PersonaIds \ holder : work[p] # "none"}
\* The page: ids above the cursor first, then from the smallest.
Before(p, q) == (p > cursor /\ q <= cursor) \/ ((p > cursor <=> q > cursor) /\ p < q)
PersonasAwaitingRuntime ==
    {p \in Awaiting : Cardinality({q \in Awaiting : Before(q, p)}) < PageLimit}
LastOf(page) == CHOOSE p \in page : \A q \in page \ {p} : Before(q, p)
\* The cursor starts again once a page was short or wrapped.
NextCursorStuck(page) == 0
NextCursor(page) ==
    IF Cardinality(page) < PageLimit THEN 0
    ELSE IF LastOf(page) <= cursor THEN 0 ELSE LastOf(page)
InGap(p) == marks[p].on /\ marks[p].same /\ marks[p].at < marks[p].gap
Clipped(g) == IF g > MaxGap THEN MaxGap ELSE g
GapFor(p) ==
    LET gap == IF marks[p].on /\ marks[p].same THEN Clipped(2 * marks[p].gap) ELSE MinGap
    IN IF work[p] = "rescue" /\ gap < MemoryGap THEN MemoryGap ELSE gap
\* A mark outside the page is kept while its gap runs.
KeepsNone(p) == FALSE
KeepsMark(p) == marks[p].at < marks[p].gap
Sweep ==
    LET page == PersonasAwaitingRuntime
        due == {p \in page : ~InGap(p)}
    IN /\ marks' = [p \in PersonaIds |->
              IF p \in due THEN [on |-> TRUE, same |-> TRUE, gap |-> GapFor(p), at |-> 0]
              ELSE IF p \in page \/ KeepsMark(p) THEN marks[p] ELSE NoMark]
       /\ cursor' = NextCursor(page)
       /\ quiet' = [p \in PersonaIds |-> IF p \in due THEN 0 ELSE quiet[p]]
       /\ passed' = [p \in PersonaIds |-> IF p \in due \/ p \notin Awaiting \/ InGap(p) THEN 0
                                   ELSE IF passed[p] <= LastPersona THEN passed[p] + 1 ELSE passed[p]]
       /\ hasty' = hasty \cup {p \in due : quiet[p] < MinGap} /\ UNCHANGED <<work, holder>>
\* A wake that landed starts the runtime (RuntimeStarts); one that was lost
\* leaves only its mark.  A restart of the service forgets the marks.
Restart ==
    /\ marks' = [p \in PersonaIds |-> NoMark] /\ cursor' = 0 /\ quiet' = [p \in PersonaIds |-> MinGap]
    /\ passed' = [p \in PersonaIds |-> 0] /\ UNCHANGED <<work, holder, hasty>>

WakerNext ==
    \/ \E p \in PersonaIds : WorkArrives(p) \/ RuntimeStarts(p) \/ RuntimeStops(p)
    \/ Tick \/ Sweep \/ Restart
WakerSpec == WakerInit /\ [][WakerNext]_wakerVars

-----------------------------------------------------------------------------
\* No persona is starved by the page: one that has work, no live writer and
\* no gap running is woken at the latest by the sweep after as many sweeps
\* as it takes to walk through every persona once more.
NeverPassedOver ==
    \A p \in PersonaIds : passed[p] <= (LastPersona + PageLimit - 1) \div PageLimit
\* A wake that achieved nothing is not repeated within the least gap, even if
\* the persona left the page in the meantime.
NotHammered == hasty = {}
\* Every persona with work is woken in its turn, and none again and again.
WakesFairly == NeverPassedOver /\ NotHammered
=============================================================================
