--------------------------- MODULE TerminalOutput ---------------------------
(***************************************************************************)
(* The output of one terminal, from the shell to the scrollback: the       *)
(* container daemon's journal file (external), the provisioner's pump that *)
(* copies it into a durable log with absolute offsets                      *)
(* (process_interactive_service.go, process_ttylog.go,                     *)
(* process_journal_recover.go), the live tail that shows what the journal  *)
(* does not have yet (process_interactive_live.go), and the driver that    *)
(* drains both into the session's scrollback (termexec, agentstate).       *)
(*                                                                          *)
(* The shell prints the bytes 1, 2, 3, ...  A journal record is a run      *)
(* <<lo, hi>> of them; its timestamp tells it from every other record, its *)
(* payload need not.  Offsets into the journal count records.      *)
(* The daemon keeps one file and truncates it in place when it is full.    *)
(***************************************************************************)
EXTENDS Integers, Sequences, FiniteSets
LOCAL INSTANCE SequencesExt

CONSTANTS
    MaxBytes,     \* bound: bytes the shell prints
    MaxCuts,      \* bound: truncations of the journal
    MaxFaults,    \* bound: provisioner restarts and failed pump steps
    Retain, Keep, \* compact the log beyond Retain bytes, to Keep
    Perils        \* what else may happen: see PerilNames

\* alike: every byte printed looks the same; early: the journal is cut before
\* the pump saw any of it; compact: a crash in the middle of a compaction.
PerilNames == {"alike", "early", "compact"}

ASSUME OutputConstantsOK ==
    /\ MaxBytes \in Nat /\ MaxCuts \in Nat /\ MaxFaults \in Nat
    /\ Keep \in 1 .. Retain
    /\ Perils \subseteq PerilNames

VARIABLES
    printed,  \* bytes the shell printed
    journal,  \* the daemon's file: its records, the bytes that reached it, touched
              \* since the pump's last stat, and the cuts so far
    tty,      \* the log: base, retained bytes, positions of gap events
    src,      \* ttysrc: the committed journal offset; -1 where none was saved
    tail,     \* the pump: on, its offset, its witnesses, what it read and did not append or save
    live,     \* the live tail: on, bytes committed, bytes delivered
    faults,   \* restarts and failed pump steps so far
    scroll    \* core_terminal_output: byte at each position, gap rows, output_bytes

outputVars == <<printed, journal, tty, src, tail, live, faults, scroll>>

NoRec == <<0, 0>>
Bytes(rec) == [k \in 1 .. rec[2] - rec[1] + 1 |-> rec[1] + k - 1]
Looks(b) == IF "alike" \in Perils THEN 1 ELSE b
SameText(p, q) == Len(p) = Len(q) /\ \A k \in DOMAIN p : Looks(p[k]) = Looks(q[k])
Total == tty.base + Len(tty.log)
Off == [on |-> FALSE, off |-> 0, head |-> NoRec, last |-> NoRec, buf |-> <<>>, unsaved |-> FALSE]

OutputTypeOK ==
    /\ printed \in 0 .. MaxBytes
    /\ journal.upto \in 0 .. printed /\ journal.touched \in BOOLEAN /\ journal.cuts \in 0 .. MaxCuts
    /\ tty.base \in Nat /\ tty.log \in Seq(1 .. MaxBytes) /\ tty.gaps \subseteq Nat
    /\ src \in -1 .. MaxBytes
    /\ tail.on \in BOOLEAN /\ tail.off \in 0 .. MaxBytes
    /\ live.on \in BOOLEAN /\ live.durable \in Nat /\ live.next \in 0 .. printed
    /\ faults \in 0 .. MaxFaults
    /\ scroll.high \in Nat /\ scroll.gaps \subseteq Nat

\* The output attach is opened before the container starts, or fails.
OutputInit ==
    /\ printed = 0
    /\ journal = [recs |-> <<>>, upto |-> 0, touched |-> FALSE, cuts |-> 0]
    /\ tty = [base |-> 0, log |-> <<>>, gaps |-> {}]
    /\ src = -1 /\ tail = Off
    /\ live \in [on : BOOLEAN, durable : {0}, next : {0}, used : {FALSE}]
    /\ faults = 0
    /\ scroll = [byte |-> <<>>, gaps |-> {}, high |-> 0]

-----------------------------------------------------------------------------
(* The shell and the daemon's journal (external). *)

ShellPrints ==
    /\ printed < MaxBytes /\ printed' = printed + 1
    /\ UNCHANGED <<journal, tty, src, tail, live, faults, scroll>>

\* A line is complete: what was printed becomes one record.
JournalWrite ==
    /\ journal.upto < printed
    /\ journal' = [journal EXCEPT !.recs = Append(@, <<journal.upto + 1, printed>>),
                                  !.upto = printed, !.touched = TRUE]
    /\ UNCHANGED <<printed, tty, src, tail, live, faults, scroll>>

JournalCut ==
    /\ journal.recs # <<>> /\ journal.cuts < MaxCuts
    /\ "early" \in Perils \/ src # -1
    /\ journal' = [journal EXCEPT !.recs = <<>>, !.touched = TRUE, !.cuts = @ + 1]
    /\ UNCHANGED <<printed, tty, src, tail, live, faults, scroll>>

-----------------------------------------------------------------------------
(* The log and the live tail. *)

recordGap(t) == [t EXCEPT !.gaps = @ \cup {t.base + Len(t.log)}]

\* compactLocked
Compacted(t) ==
    IF Len(t.log) <= Retain THEN t
    ELSE [t EXCEPT !.base = @ + Len(t.log) - Keep,
                   !.log = SubSeq(@, Len(@) - Keep + 1, Len(@))]

\* committed: appended bytes are compared with the live ones at their place;
\* byte p + 1 of the stream belongs at position p.
Agrees(p) == \A k \in DOMAIN p :
                Total + k <= live.next => Looks(p[k]) = Looks(Total + k)

\* append, and what the live tail makes of it.  A disagreement switches the
\* tail off and records a gap where readers may hold unconfirmed bytes.
Appended(p) ==
    LET longer == [tty EXCEPT !.log = @ \o p] IN
    IF live.on /\ ~Agrees(p)
    THEN /\ tty' = Compacted(IF live.next > live.durable THEN recordGap(longer) ELSE longer)
         /\ live' = [live EXCEPT !.on = FALSE]
    ELSE /\ tty' = Compacted(longer)
         /\ live' = [live EXCEPT !.durable = IF live.on THEN @ + Len(p) ELSE @]

\* delivered: the live bytes catch up with committed ones, or run ahead.
LiveDeliver ==
    /\ live.on /\ live.next < printed
    /\ IF live.next < live.durable /\ live.next >= tty.base
          /\ Looks(tty.log[live.next - tty.base + 1]) # Looks(live.next + 1)
       THEN live' = [live EXCEPT !.on = FALSE] /\ tty' = tty
       ELSE live' = [live EXCEPT !.next = @ + 1] /\ tty' = tty
    /\ UNCHANGED <<printed, journal, src, tail, faults, scroll>>

LiveDisconnect ==
    /\ live.on /\ live' = [live EXCEPT !.on = FALSE]
    /\ UNCHANGED <<printed, journal, tty, src, tail, faults, scroll>>

-----------------------------------------------------------------------------
(* The journal pump. *)

Size == Len(journal.recs)
RecAt(k) == IF k \in 1 .. Size THEN journal.recs[k] ELSE NoRec
\* A gap event also switches the live tail off (onGap).
GapRecorded == tty' = recordGap(tty) /\ live' = [live EXCEPT !.on = FALSE]

\* The decoded stream of the journal's first k records.
Decoded(k) == FlattenSeq([i \in 1 .. k |-> Bytes(journal.recs[i])])

\* Mistake: the committed cursor is believed.
recoverSourceByCursor == [certified |-> TRUE, off |-> IF src = -1 THEN 0 ELSE src]

\* recoverSource: the records whose decoded bytes, at the same offsets, are
\* the retained ones; or the committed cursor, uncertified.
recoverSource ==
    LET ends == {k \in 1 .. Size : Len(Decoded(k)) = Total /\
                    SameText(SubSeq(Decoded(k), tty.base + 1, Total), tty.log)}
    IN CASE Total = 0 -> [certified |-> TRUE, off |-> 0]
         [] Total # 0 /\ ends # {} -> [certified |-> TRUE, off |-> CHOOSE k \in ends : TRUE]
         [] OTHER -> [certified |-> FALSE, off |-> IF src = -1 THEN 0 ELSE src]

\* pumpJournal up to its loop: an offset past the end is a cut, any other is
\* verified against the log; the witnesses are taken.
TailOpen ==
    /\ ~tail.on
    /\ LET cut == src # -1 /\ src > Size
           r == recoverSource
           off == IF cut THEN 0 ELSE r.off
       IN /\ IF cut \/ ~r.certified THEN GapRecorded ELSE UNCHANGED <<tty, live>>
          /\ src' = IF ~cut /\ r.certified /\ Total # 0 THEN off ELSE src
          /\ tail' = [Off EXCEPT !.on = TRUE, !.off = off,
                        !.head = IF off = 0 THEN NoRec ELSE RecAt(1),
                        !.last = IF off = 0 THEN NoRec ELSE RecAt(off)]
    /\ journal' = [journal EXCEPT !.touched = FALSE]
    /\ UNCHANGED <<printed, faults, scroll>>

\* The file no longer continues what was committed from it.
Discontinued ==
    \/ Size < tail.off
    \/ journal.touched /\ tail.off > 0 /\ (Size <= tail.off \/ RecAt(tail.off) # tail.last)

\* One poll: a cut is marked, and the file read again from a point that
\* duplicates nothing; otherwise what is new is read.
TailPoll ==
    /\ tail.on /\ tail.buf = <<>> /\ ~tail.unsaved
    /\ IF Discontinued
       THEN /\ GapRecorded
            /\ tail' = IF tail.head # NoRec /\ RecAt(1) = tail.head
                       THEN [tail EXCEPT !.off = Size, !.last = RecAt(Size)]
                       ELSE [tail EXCEPT !.off = 0, !.head = NoRec, !.last = NoRec]
       ELSE /\ tail' = [tail EXCEPT !.buf = SubSeq(journal.recs, tail.off + 1, Size)]
            /\ UNCHANGED <<tty, live>>
    /\ journal' = [journal EXCEPT !.touched = FALSE]
    /\ UNCHANGED <<printed, src, faults, scroll>>

\* journalDrain appends one record; after the last one the offset is saved.
TailAppend ==
    /\ tail.buf # <<>>
    /\ Appended(Bytes(Head(tail.buf)))
    /\ tail' = [tail EXCEPT !.buf = Tail(@), !.off = @ + 1, !.unsaved = TRUE,
                            !.last = Head(tail.buf),
                            !.head = IF @ = NoRec THEN Head(tail.buf) ELSE @]
    /\ UNCHANGED <<printed, journal, src, faults, scroll>>

TailSave ==
    /\ tail.on /\ tail.buf = <<>> /\ tail.unsaved
    /\ src' = tail.off
    /\ tail' = [tail EXCEPT !.unsaved = FALSE]
    /\ UNCHANGED <<printed, journal, tty, live, faults, scroll>>

\* A read, an append or a save fails: the journal is opened again.
TailFault ==
    /\ tail.on /\ tail' = Off
    /\ faults < MaxFaults /\ faults' = faults + 1
    /\ UNCHANGED <<printed, journal, tty, src, live, scroll>>

\* The provisioner restarts, perhaps in the middle of an append, or between
\* the new log of a compaction and its new base; a session that was already running has no live tail any more.
ProvisionerCrash ==
    /\ faults < MaxFaults /\ faults' = faults + 1
    /\ tail' = Off
    /\ live' = [live EXCEPT !.on = FALSE]
    /\ \/ UNCHANGED tty
       \/ /\ tail.buf # <<>> /\ Len(Bytes(Head(tail.buf))) > 1
          /\ tty' = Compacted([tty EXCEPT !.log = Append(@, Head(tail.buf)[1])])
       \/ /\ "compact" \in Perils
          /\ tail.buf # <<>> /\ Len(tty.log \o Bytes(Head(tail.buf))) > Retain
          /\ tty' = [Compacted([tty EXCEPT !.log = @ \o Bytes(Head(tail.buf))]) EXCEPT !.base = tty.base]
    /\ UNCHANGED <<printed, journal, src, scroll>>

-----------------------------------------------------------------------------
(* ReadProcessOutput at the scrollback's end, and AppendTerminalOutput. *)

\* What a read at offset returns: a reader ahead of the log only gets the live
\* tail, another one the log and then the live tail.
Served(offset) ==
    LET start == IF offset < tty.base THEN tty.base ELSE offset
        fromLog == SubSeq(tty.log, start - tty.base + 1, Len(tty.log))
        at == start + Len(fromLog)
        ahead == IF live.on /\ at >= live.durable /\ at <= live.next /\ start = offset
                 THEN [k \in 1 .. live.next - at |-> at + k] ELSE <<>>
    IN [start |-> start, data |-> fromLog \o ahead]

\* The rows in one transaction; bytes below output_bytes are there already.
AppendTerminalOutput(read, gaps) ==
    LET next == read.start + Len(read.data) IN
    [byte |-> [p \in DOMAIN scroll.byte \cup read.start .. next - 1 |->
                  IF p \in DOMAIN scroll.byte THEN scroll.byte[p] ELSE read.data[p - read.start + 1]],
     gaps |-> scroll.gaps \cup gaps, high |-> next]

\* drainOutput: a skipped window and every gap event reached become gap rows.
DrainOutput ==
    LET read == Served(scroll.high)
        next == read.start + Len(read.data)
        gaps == (IF read.start > scroll.high THEN {read.start} ELSE {}) \cup
                {g \in tty.gaps : g <= next}
    IN /\ next > scroll.high \/ ~(gaps \subseteq scroll.gaps)
       /\ scroll' = AppendTerminalOutput(read, gaps)
       /\ live' = [live EXCEPT !.used = @ \/ next > Total]
       /\ UNCHANGED <<printed, journal, tty, src, tail, faults>>

OutputNext ==
    \/ ShellPrints \/ JournalWrite \/ JournalCut
    \/ LiveDeliver \/ LiveDisconnect
    \/ TailOpen \/ TailPoll \/ TailAppend \/ TailSave \/ TailFault
    \/ ProvisionerCrash \/ DrainOutput

OutputSpec == OutputInit /\ [][OutputNext]_outputVars

-----------------------------------------------------------------------------
Before(p) == IF p = 0 THEN 0 ELSE scroll.byte[p - 1]
Breaks == {p \in DOMAIN scroll.byte :
              /\ p = 0 \/ p - 1 \in DOMAIN scroll.byte
              /\ scroll.byte[p] # Before(p) + 1}

(* Output is never lost or repeated in silence: where two bytes side by    *)
(* side in the scrollback did not follow each other in the shell, a gap    *)
(* row marks the place.  A reader that was shown the live tail may be past *)
(* the place when the loss is recorded; then the break has a marker of its *)
(* own, with no other break between them.                                  *)
NoSilentLoss ==
    \A p \in Breaks :
        IF ~live.used THEN p \in scroll.gaps
        ELSE \E g \in scroll.gaps :
                \A q \in Breaks \ {p} : ~(g <= q /\ q < p) /\ ~(p < q /\ q <= g)
=============================================================================
