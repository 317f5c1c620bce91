---------------------------- MODULE ReturnFiles ----------------------------
(***************************************************************************)
(* The files of one return: how the workspace of a sealed secretary is     *)
(* carried to the Local install or stays in the Cloud behind a credential  *)
(* (cmd/local-move/returnfiles.go, returncapture.go), over the capture the *)
(* Cloud binds to the session (returnsession/capture.go).                  *)
(*                                                                         *)
(* The seal's barrier keeps the Cloud's workspace still, so every capture  *)
(* of a return holds the same files; a capture may be lost, and then it is *)
(* retaken under a new identity.  The command keeps a journal: mem is what *)
(* it holds, disk what it saved.  A file operation and the save after it   *)
(* are two steps, and the command may stop between them.  Directories and  *)
(* symbolic links go the way of files and are left out.                    *)
(***************************************************************************)
EXTENDS Naturals, FiniteSets

CONSTANTS
    Carried,      \* the files of the Cloud's workspace
    Modes,        \* the file modes the owner may choose: subset of {"local", "cloud"}
    Befores,      \* what the install may hold at a carried path: subset of
                  \* {"absent", "own", "cloud"}; "cloud" is the same bytes
    MaxCaptures,  \* bound: captures taken
    MaxEdits,     \* bound: the operator's edits of the install's workspace
    MaxTokens     \* bound: storage credentials minted

ASSUME FilesAssumption == /\ Modes \subseteq {"local", "cloud"}
                          /\ Befores \subseteq {"absent", "own", "cloud"}
                          /\ MaxCaptures \in Nat /\ MaxEdits \in Nat /\ MaxTokens \in Nat

VARIABLES
    mode,      \* the session's file_mode
    fsess,     \* the session as the files see it: sealed, cancelling or over
    capture,   \* the Cloud's captures: the bound one (0: none), the living, how many taken
    mem, disk, \* the journal in the command's memory and on disk
    dir,       \* the secretary's directory in the install's workspace
    quar,      \* the return's quarantine directory
    blob,      \* the verified blobs in the staging directory
    fpc,       \* where the command is
    rest, at,  \* the paths its pass still has to visit, and the one it quarantined
    done,      \* FilesDone or CredDone in the state file
    store,     \* configured store, running service's store, owed restart, live credential
    before, edited, torn   \* history: the install's files before the return,
                           \* edits since, a stop between an operation and its save
fileVars == <<mode, fsess, capture, mem, disk, dir, quar, blob, fpc, rest, at, done,
              store, before, edited, torn>>

Absent == "absent"
Slots == Carried \X {1, 2, 3}   \* a quarantined name: the path, or the path with a suffix
Own(p) == <<p, 1>>
Nowhere == CHOOSE p \in Carried : TRUE
NoEntry == [st |-> "verified", sha |-> FALSE, quar |-> FALSE]
NoJournal == [phase |-> "none", cap |-> 0, ent |-> [p \in Carried |-> NoEntry], coll |-> {}]

-----------------------------------------------------------------------------
(* The Cloud's side.  EnsureCapture answers the bound capture while it     *)
(* lives and takes a new one otherwise; RetakeCapture replaces the bound   *)
(* capture if it is the one the caller expects; ReleaseCapture and the end *)
(* of the session release it.                                              *)
Take(c) == [bound |-> c.taken + 1, live |-> c.live \cup {c.taken + 1}, taken |-> c.taken + 1]
CanTake(c) == c.taken < MaxCaptures
EnsureCapture(c) == IF c.bound \in c.live THEN c ELSE Take(c)
EnsureOK(c) == fsess = "sealed" /\ (c.bound \in c.live \/ CanTake(c))
RetakeCapture(c, expected) ==
    IF c.bound # expected THEN c
    ELSE [Take(c) EXCEPT !.live = @ \ {expected}]
RetakeOK(c, expected) == fsess = "sealed" /\ c.bound # 0 /\ (c.bound # expected \/ CanTake(c))
ReleaseCapture(c, expected) ==
    IF c.bound = 0 \/ c.bound # expected THEN c
    ELSE [c EXCEPT !.bound = 0, !.live = @ \ {expected}]
releaseBoundCapture(c) == ReleaseCapture(c, c.bound)
(* captureAuth: a read names the capture it planned with. *)
CaptureRead(c, expected) ==
    CASE fsess # "sealed" \/ c.bound # expected -> "replaced"
      [] fsess = "sealed" /\ c.bound = expected /\ c.bound \notin c.live -> "lost"
      [] OTHER -> "ok"

CaptureLost ==
    /\ capture.bound \in capture.live
    /\ capture' = [capture EXCEPT !.live = @ \ {capture.bound}]
    /\ UNCHANGED <<mode, fsess, mem, disk, dir, quar, blob, fpc, rest, at, done, store, before, edited, torn>>

-----------------------------------------------------------------------------
Synced == mem = disk
Go(pc) == fpc' = pc
Visit(S) == rest' = S /\ UNCHANGED at
Keep == UNCHANGED <<mode, fsess, before, edited, torn>>
CopyStep(pc) == fpc = pc /\ Synced /\ mode = "local" /\ Keep /\ UNCHANGED store

SaveJournal ==
    /\ ~Synced /\ disk' = mem
    /\ UNCHANGED <<mode, fsess, capture, mem, dir, quar, blob, fpc, rest, at, done, store, before, edited, torn>>

(* copyFilesLocal: a promoted tree is verified again on every pass; the    *)
(* journal otherwise says where to go on.                                  *)
CopyBegin ==
    /\ fpc = "idle" /\ mode = "local" /\ fsess = "sealed"
    /\ ~(disk.phase = "promoted" \/ done)
    /\ mem' = IF disk.phase = "none" THEN [disk EXCEPT !.phase = "copying"] ELSE disk
    /\ Go(IF mem'.phase = "staged" THEN "promote" ELSE "stage")
    /\ Visit(Carried)
    /\ Keep /\ UNCHANGED <<capture, disk, dir, quar, blob, done, store>>
(* verifyPromotedTree: what no longer matches is to be placed again.       *)
Unproved(j) == {p \in Carried : j.ent[p].st # "placed" \/ dir[Own(p)] # "cloud"}
VerifyPromotedTree ==
    /\ fpc = "idle" /\ mode = "local" /\ fsess = "sealed" /\ (disk.phase = "promoted" \/ done)
    /\ IF Unproved(disk) = {}
       THEN /\ done' = TRUE /\ mem' = disk /\ Go("config") /\ Visit(rest)
            /\ capture' = ReleaseCapture(capture, disk.cap)
       ELSE /\ mem' = [disk EXCEPT !.phase = "staged",
                          !.ent = [p \in Carried |-> IF p \in Unproved(disk)
                                                     THEN [@[p] EXCEPT !.st = "verified"] ELSE @[p]]]
            /\ Go("promote") /\ Visit(Carried) /\ UNCHANGED <<done, capture>>
    /\ Keep /\ UNCHANGED <<disk, dir, quar, blob, store>>

(* replanForBinding: the plan follows the capture; another capture has     *)
(* another staging directory.  A placed file is proved again by reading    *)
(* its row, everything else is fetched again.                              *)
replanForBinding(j, c) ==
    LET ent == [p \in Carried |-> IF j.ent[p].st = "placed" THEN j.ent[p]
                                  ELSE [j.ent[p] EXCEPT !.sha = FALSE]]
    IN [j EXCEPT !.cap = c, !.ent = ent,
                 !.phase = IF \E p \in Carried : ent[p].st # "placed" THEN "copying" ELSE @]
Replanned(c) ==
    IF mem.cap = c.bound THEN UNCHANGED <<mem, blob>>
    ELSE /\ mem' = replanForBinding(mem, c.bound)
         /\ blob' = {p \in Carried : mem.ent[p].st = "placed"}
                    \cup (IF mem.cap = 0 THEN blob ELSE {})
After(j) == IF j.phase = "staged" THEN "promote" ELSE "stage"
Plan(c) == capture' = c /\ Replanned(c) /\ Go(After(mem')) /\ Visit(Carried)

(* stageCapturedFiles. *)
StageEnsure ==
    /\ CopyStep("stage") /\ (capture.bound # mem.cap \/ mem.cap = 0) /\ EnsureOK(capture)
    /\ Plan(EnsureCapture(capture))
    /\ UNCHANGED <<disk, dir, quar, done>>
Staged(p) == mem.ent[p].st = "placed" \/ (mem.ent[p].sha /\ p \in blob)
FetchRow(p) == mem' = [mem EXCEPT !.ent[p].sha = TRUE] /\ blob' = blob \cup {p}
StageFetch(p) ==
    /\ CopyStep("stage") /\ mem.cap # 0 /\ ~Staged(p)
    /\ LET read == CaptureRead(capture, mem.cap) IN
       IF read = "ok" THEN FetchRow(p) /\ Go("stage") ELSE Go(read) /\ UNCHANGED <<mem, blob>>
    /\ UNCHANGED <<capture, disk, dir, quar, rest, at, done>>
StageDone ==
    /\ CopyStep("stage") /\ mem.cap # 0 /\ \A p \in Carried : Staged(p)
    /\ mem' = [mem EXCEPT !.phase = "staged"] /\ Go("promote") /\ Visit(Carried)
    /\ UNCHANGED <<capture, disk, dir, quar, blob, done>>

(* promoteStagedFiles, path by path: an identical file is kept, another    *)
(* occupant goes to the quarantine, the verified blob takes its place.     *)
Promoting(p) == CopyStep("promote") /\ mem.phase = "staged" /\ p \in rest
PromoteKept(p) ==
    /\ Promoting(p) /\ dir[Own(p)] = "cloud"
    /\ mem' = [mem EXCEPT !.ent[p].st = "placed"] /\ Visit(rest \ {p})
    /\ UNCHANGED <<capture, disk, dir, quar, blob, fpc, done>>
(* moveToQuarantine: the first name the journal does not record.           *)
FreeSlot(p) == <<p, CHOOSE i \in 1..3 : <<p, i>> \notin mem.coll
                                        /\ \A k \in 1..(i - 1) : <<p, k>> \in mem.coll>>
QuarantineOccupant(p) ==
    /\ Promoting(p) /\ dir[Own(p)] \notin {Absent, "cloud"}
    /\ quar' = [quar EXCEPT ![FreeSlot(p)] = dir[Own(p)]]
    /\ dir' = [dir EXCEPT ![Own(p)] = Absent]
    /\ mem' = [mem EXCEPT !.coll = @ \cup {FreeSlot(p)}]
    /\ at' = p /\ Go("mark") /\ UNCHANGED rest
    /\ UNCHANGED <<capture, disk, blob, done>>
MarkQuarantined(p) ==
    /\ CopyStep("mark") /\ p = at
    /\ mem' = [mem EXCEPT !.ent[p].quar = TRUE]
    /\ Go("promote") /\ at' = Nowhere
    /\ UNCHANGED <<capture, disk, dir, quar, blob, rest, done>>
(* A blob that is torn or gone is fetched again before it is placed.       *)
RefetchCaptured(p) ==
    /\ Promoting(p) /\ dir[Own(p)] = Absent /\ ~(mem.ent[p].sha /\ p \in blob)
    /\ LET read == CaptureRead(capture, mem.cap) IN
       IF read = "ok" THEN FetchRow(p) /\ UNCHANGED fpc ELSE Go(read) /\ UNCHANGED <<mem, blob>>
    /\ UNCHANGED <<capture, disk, dir, quar, rest, at, done>>
PromotePlace(p) ==
    /\ Promoting(p) /\ dir[Own(p)] = Absent /\ mem.ent[p].sha /\ p \in blob
    /\ dir' = [dir EXCEPT ![Own(p)] = "cloud"] /\ blob' = blob \ {p}
    /\ mem' = [mem EXCEPT !.ent[p].st = "placed"] /\ Visit(rest \ {p})
    /\ UNCHANGED <<capture, disk, quar, fpc, done>>
PromoteDone ==
    /\ CopyStep("promote") /\ mem.phase = "staged" /\ rest = {}
    /\ mem' = [mem EXCEPT !.phase = "promoted"] /\ Go("promoted")
    /\ UNCHANGED <<capture, disk, dir, quar, blob, rest, at, done>>
FilesDone ==
    /\ CopyStep("promoted")
    /\ blob' = {} /\ done' = TRUE /\ capture' = ReleaseCapture(capture, mem.cap) /\ Go("config")
    /\ UNCHANGED <<mem, disk, dir, quar, rest, at>>

(* The loop of copyFilesLocal: a replaced capture is planned again, a lost *)
(* one retaken.                                                            *)
CopyReplaced ==
    /\ CopyStep("replaced") /\ EnsureOK(capture)
    /\ Plan(EnsureCapture(capture))
    /\ UNCHANGED <<disk, dir, quar, done>>
CopyLost ==
    /\ CopyStep("lost") /\ RetakeOK(capture, mem.cap)
    /\ Plan(RetakeCapture(capture, mem.cap))
    /\ UNCHANGED <<disk, dir, quar, done>>

-----------------------------------------------------------------------------
(* The configured store, the service that reads it when it starts, and the *)
(* restart the return owes.  A credential is a number, 0 the Local store,  *)
(* Off a stopped service.                                                  *)
Off == MaxTokens + 1
CopyOnly == UNCHANGED <<capture, mem, disk, dir, quar, blob, rest, at>>
(* filesConfigCloud mints (an earlier credential dies) and writes the keys;*)
(* filesConfigLocal removes them.                                          *)
FilesConfigCloud ==
    /\ fpc = "idle" /\ mode = "cloud" /\ ~done /\ fsess = "sealed" /\ store.live < MaxTokens
    /\ store' = [store EXCEPT !.live = @ + 1, !.keys = store.live + 1]
    /\ Go("retarget") /\ Keep /\ CopyOnly /\ UNCHANGED done
FilesConfigLocal ==
    /\ fpc \in {"config", "active"} /\ mode = "local"
    /\ store' = [store EXCEPT !.keys = 0]
    /\ Go(IF fpc = "active" THEN "reactive" ELSE "retarget")
    /\ Keep /\ CopyOnly /\ UNCHANGED done
CloudConfigured ==
    /\ mode = "cloud" /\ done
    /\ \/ fpc = "idle" /\ fsess = "sealed" /\ Go("ready")
       \/ fpc = "active" /\ Go("converge")
    /\ Keep /\ CopyOnly /\ UNCHANGED <<done, store>>
\* Mutant: a service that cannot be stopped is left to run.
PrepareServiceRetargetLax(stops) ==
    /\ fpc \in {"retarget", "reactive"}
    /\ LET stale == store.svc \notin {Off, store.keys} IN
       /\ stops \/ stale
       /\ IF stale /\ stops
          THEN store' = [store EXCEPT !.svc = Off, !.owed = TRUE] ELSE UNCHANGED store
       /\ done' = TRUE /\ Go(IF fpc = "reactive" THEN "converge" ELSE "ready")
    /\ Keep /\ CopyOnly

(* prepareServiceRetarget: a service that runs on another store is         *)
(* stopped and its restart owed; one that cannot be stopped leaves the     *)
(* return pending.                                                         *)
PrepareServiceRetarget(stops) ==
    /\ fpc \in {"retarget", "reactive"}
    /\ LET stale == store.svc \notin {Off, store.keys} IN
       /\ stops \/ stale
       /\ IF stale /\ stops
          THEN store' = [store EXCEPT !.svc = Off, !.owed = TRUE] ELSE UNCHANGED store
       /\ IF stale /\ ~stops THEN Go("idle") /\ UNCHANGED done
          ELSE done' = TRUE /\ Go(IF fpc = "reactive" THEN "converge" ELSE "ready")
    /\ Keep /\ CopyOnly
(* activate, and after it finishActive; both owe the restart.              *)
FilesActivate ==
    /\ fpc = "ready" /\ fsess = "sealed"
    /\ fsess' = "active" /\ Go("active")
    /\ CopyOnly /\ UNCHANGED <<mode, done, store, before, edited, torn>>
FinishActive ==
    /\ fpc = "idle" /\ fsess = "active" /\ Go("active")
    /\ Keep /\ CopyOnly /\ UNCHANGED <<done, store>>
ConvergeFileService(starts) ==
    /\ fpc = "converge"
    /\ IF store.owed /\ ~starts
       THEN Go("idle") /\ UNCHANGED <<store, fsess>>
       ELSE /\ fsess' = "over" /\ Go("idle")
            /\ store' = IF store.owed THEN [store EXCEPT !.svc = IF @ = Off THEN store.keys ELSE @,
                                                         !.owed = FALSE] ELSE store
    /\ CopyOnly /\ UNCHANGED <<mode, done, before, edited, torn>>

-----------------------------------------------------------------------------
(* return-cancel: restoreWorkspace path by path, then the configuration.   *)
(* The secretary's copy here is not active: a stopped service stays down.  *)
\* Mutant: a journal that is copying (again) is taken for one that placed nothing.
ReturnFilesCancelEarly ==
    /\ fpc = "idle" /\ fsess \in {"sealed", "cancelling"}
    /\ fsess' = "cancelling" /\ capture' = releaseBoundCapture(capture)
    /\ mem' = disk /\ Visit(Carried)
    /\ Go(IF disk.phase \in {"none", "copying", "restored"} THEN "unconfig" ELSE "restore")
    /\ UNCHANGED <<mode, disk, dir, quar, blob, done, store, before, edited, torn>>
ReturnFilesCancel ==
    /\ fpc = "idle" /\ fsess \in {"sealed", "cancelling"}
    /\ fsess' = "cancelling" /\ capture' = releaseBoundCapture(capture)
    /\ mem' = disk /\ Visit(Carried)
    /\ Go(IF disk.phase \in {"none", "restored"} THEN "unconfig" ELSE "restore")
    /\ UNCHANGED <<mode, disk, dir, quar, blob, done, store, before, edited, torn>>
(* A placed file that still matches is removed; a quarantined original     *)
(* goes back when its path is free.                                        *)
Cleared(p) == IF mem.ent[p].st = "placed" /\ dir[Own(p)] = "cloud" THEN Absent ELSE dir[Own(p)]
RestorePath(p) ==
    /\ fpc = "restore" /\ p \in rest
    /\ Visit(rest \ {p})
    /\ LET back == mem.ent[p].quar /\ Cleared(p) = Absent /\ quar[Own(p)] # Absent IN
       /\ dir' = [dir EXCEPT ![Own(p)] = IF back THEN quar[Own(p)] ELSE Cleared(p)]
       /\ quar' = IF back THEN [quar EXCEPT ![Own(p)] = Absent] ELSE quar
       /\ mem' = IF back THEN [mem EXCEPT !.coll = @ \ {Own(p)}] ELSE mem
    /\ Keep /\ UNCHANGED <<capture, disk, blob, fpc, done, store>>
(* The remaining displaced objects, then the journal's last phase.         *)
RestoreCollateral ==
    /\ fpc = "restore" /\ rest = {}
    /\ LET free == {s \in mem.coll : dir[s] = Absent} IN
       /\ dir' = [s \in Slots |-> IF s \in free THEN quar[s] ELSE dir[s]]
       /\ quar' = [s \in Slots |-> IF s \in free THEN Absent ELSE quar[s]]
       /\ mem' = [mem EXCEPT !.coll = @ \ free, !.phase = "restored"]
    /\ blob' = {} /\ Go("unconfig")
    /\ Keep /\ UNCHANGED <<capture, disk, rest, at, done, store>>
CancelConfig ==
    /\ fpc = "unconfig" /\ Synced
    /\ store' = [store EXCEPT !.keys = IF mode = "cloud" /\ done THEN 0 ELSE @, !.owed = FALSE,
                              !.live = 0]
    /\ fsess' = "cancelled" /\ Go("idle")
    /\ CopyOnly /\ UNCHANGED <<mode, done, before, edited, torn>>

-----------------------------------------------------------------------------
(* The command stops; the operator edits a file, starts or stops the       *)
(* service.                                                                *)
CommandStops ==
    /\ fpc # "idle" /\ Go("idle")
    /\ mem' = disk /\ torn' = (torn \/ (~Synced /\ fpc \in {"promote", "mark"}))
    /\ UNCHANGED <<mode, fsess, capture, disk, dir, quar, blob, rest, at, done, store, before, edited>>
OperatorEdit(p) ==
    /\ Cardinality(edited) < MaxEdits /\ dir[Own(p)] # Absent /\ fsess \in {"sealed", "cancelling"}
    /\ dir' = [dir EXCEPT ![Own(p)] = "edit"] /\ edited' = edited \cup {p}
    /\ UNCHANGED <<mode, fsess, capture, mem, disk, quar, blob, fpc, rest, at, done, store, before, torn>>
OperatorService ==
    /\ fpc = "idle" /\ Modes # {"local"}
    /\ store' = [store EXCEPT !.svc = IF @ = Off THEN store.keys ELSE Off]
    /\ UNCHANGED <<mode, fsess, capture, mem, disk, dir, quar, blob, fpc, rest, at, done, before, edited, torn>>

FilesInit ==
    /\ mode \in Modes /\ fsess = "sealed"
    /\ capture = [bound |-> 0, live |-> {}, taken |-> 0]
    /\ mem = NoJournal /\ disk = NoJournal
    /\ dir \in {d \in [Slots -> Befores \cup {Absent}] :
                  \A s \in Slots : s[2] # 1 => d[s] = Absent}
    /\ quar = [s \in Slots |-> Absent]
    /\ blob = {} /\ rest = {} /\ at = Nowhere /\ fpc = "idle" /\ done = FALSE
    /\ store = [keys |-> 0, svc |-> 0, owed |-> FALSE, live |-> 0]
    /\ before = dir /\ edited = {} /\ torn = FALSE
CopyNext ==
    \/ CopyBegin \/ VerifyPromotedTree \/ StageEnsure \/ StageDone \/ PromoteDone \/ FilesDone
    \/ CopyReplaced \/ CopyLost
    \/ \E p \in Carried : \/ StageFetch(p) \/ PromoteKept(p) \/ QuarantineOccupant(p)
                          \/ MarkQuarantined(p) \/ RefetchCaptured(p) \/ PromotePlace(p)
StoreNext ==
    \/ FilesConfigCloud \/ FilesConfigLocal \/ CloudConfigured \/ FilesActivate \/ FinishActive
    \/ \E b \in BOOLEAN : PrepareServiceRetarget(b) \/ ConvergeFileService(b)
CancelNext ==
    \/ ReturnFilesCancel \/ RestoreCollateral \/ CancelConfig
    \/ \E p \in Carried : RestorePath(p)
FilesNext ==
    \/ CopyNext \/ StoreNext \/ CancelNext \/ SaveJournal \/ CaptureLost \/ CommandStops
    \/ OperatorService \/ \E p \in Carried : OperatorEdit(p)
FilesSpec == FilesInit /\ [][FilesNext]_fileVars

-----------------------------------------------------------------------------
(* One type invariant. *)
FilesTypeOK ==
    /\ disk.phase \in {"none", "copying", "staged", "promoted", "restored"}
    /\ disk.coll \subseteq Slots /\ blob \subseteq Carried
    /\ fsess \in {"sealed", "active", "over", "cancelling", "cancelled"}
    /\ capture.live \subseteq 1..MaxCaptures
    /\ store.keys \in 0..MaxTokens /\ store.svc \in {Off} \cup 0..MaxTokens

(* The copy may activate only over a complete workspace: every carried     *)
(* file is in place, whatever captures were lost, wherever the command was *)
(* stopped and resumed (verifyPromotedTree, promoteStagedFiles), unless    *)
(* the operator edits it in that very moment.                              *)
ReadyIsWhole ==
    fpc \in {"retarget", "ready"} /\ mode = "local" =>
        \A p \in Carried \ edited : dir[Own(p)] = "cloud"

(* While every displacement reached the journal, no original of the        *)
(* install is ever lost: it is at its path or in the quarantine            *)
(* (promoteStagedFiles: "never overwritten, never deleted").               *)
OriginalsKept ==
    ~torn => \A p \in Carried \ edited : before[Own(p)] = "own" =>
        \E s \in Slots : s[1] = p /\ "own" \in {dir[s], quar[s]}

(* A cancelled return leaves the workspace as it was before, edits aside:  *)
(* restoreWorkspace undoes what the journal records, even when it was cut  *)
(* off and run again.                                                      *)
CancelUndoes ==
    fsess = "cancelled" /\ mode = "local" /\ ~torn =>
        \A p \in Carried \ edited : before[Own(p)] # "cloud" => dir[Own(p)] = before[Own(p)]

(* The same for a file that already held the carried bytes: it was not     *)
(* placed by the copy ("An identical destination file is simply kept") and *)
(* is still there after a cancel.                                          *)
CancelKeepsIdentical ==
    fsess = "cancelled" /\ mode = "local" =>
        \A p \in Carried \ edited : before[Own(p)] = "cloud" => dir[Own(p)] = "cloud"

(* Once a return has finished, a running service serves the store the      *)
(* owner chose: the Cloud's through the credential that is alive, or the   *)
(* Local one (prepareServiceRetarget, convergeFileService).                *)
ServesChosenStore ==
    fsess = "over" /\ store.svc # Off => store.svc = IF mode = "cloud" THEN store.live ELSE 0

(* The files of a return: complete before the copy activates, originals    *)
(* kept, undone by a cancel, and served from the store the owner chose.    *)
WorkspaceIsCarried == ReadyIsWhole /\ OriginalsKept /\ CancelUndoes /\ ServesChosenStore

(* "A cancelled cloud-mode return leaves no stale route": the keys the     *)
(* return wrote are gone after the cancel.                                 *)
NoStaleRoute == fsess = "cancelled" => store.keys = 0
=============================================================================
