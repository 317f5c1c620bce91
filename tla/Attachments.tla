----------------------------- MODULE Attachments -----------------------------
(***************************************************************************)
(* Message attachments (messaging/attachment*.go): a durable reservation   *)
(* that holds quota, a private staging file, publication of the bytes      *)
(* under the attachment's id, binding to a message, deletion through an    *)
(* outbox, and the reconciler.  Bytes live on disk, outside the database:  *)
(* every step between the two may be the last before a crash.              *)
(*                                                                         *)
(* One uploader sends one file under one client nonce, in several attempts *)
(* that may overlap.  A file's content is the attempt that wrote it.       *)
(***************************************************************************)
EXTENDS Integers, FiniteSets

CONSTANTS
    Tries,         \* HTTP uploads of the file; each makes one reservation call
    Ids,           \* upload ids, taken in order; the attachment takes its upload's id
    Quota,         \* objects the Workspace may hold
    SendRaces      \* BOOLEAN: a draft may be sent while the expiry of old drafts runs

ASSUME AttachmentsConstantsOK ==
    /\ Tries \subseteq Nat \ {0} /\ Ids \subseteq Nat \ {0}
    /\ Quota \in Nat /\ SendRaces \in BOOLEAN

VARIABLES
    upload,   \* message_attachment_uploads: state, id, staging token, lease running, reservation running
    try,      \* per attempt: step, upload id
    staging,  \* per id: whose bytes the staging file holds, 0 for none
    final,    \* per id: whose bytes are published, 0 for none
    att,      \* message_attachments: state, whose digest it records, bound, old
    usage,    \* objects counted against the quota
    locked,   \* the attempt whose finalize transaction holds the usage rows; 0 for none
    expiring, \* drafts the running expiry has selected
    sent      \* the message: none, shown, deleted

attVars == <<upload, try, staging, final, att, usage, locked, expiring, sent>>

NoUpload == [state |-> "none", id |-> 0, token |-> 0, lease |-> FALSE, live |-> FALSE]
NoAtt == [state |-> "none", of |-> 0, bound |-> FALSE, old |-> FALSE]
Kept == {"stored", "deleting"}

AttTypeOK ==
    /\ upload.state \in {"none", "reserved", "finalized", "released"}
    /\ upload.id \in Ids \cup {0} /\ upload.token \in Tries \cup {0}
    /\ try \in [Tries -> [at : {"new", "reserved", "opened", "staged", "publishing", "abandon", "over"},
                          id : Ids \cup {0}]]
    /\ staging \in [Ids -> Tries \cup {0}] /\ final \in [Ids -> Tries \cup {0}]
    /\ att \in [Ids -> [state : {"none", "stored", "deleting", "deleted"}, of : Tries \cup {0},
                        bound : BOOLEAN, old : BOOLEAN]]
    /\ usage \in Int /\ locked \in Tries \cup {0}
    /\ expiring \subseteq Ids /\ sent \in {"none", "shown", "deleted"}

AttInit ==
    /\ upload = NoUpload
    /\ try = [t \in Tries |-> [at |-> "new", id |-> 0]]
    /\ staging = [i \in Ids |-> 0] /\ final = [i \in Ids |-> 0]
    /\ att = [i \in Ids |-> NoAtt]
    /\ usage = 0 /\ locked = 0 /\ expiring = {} /\ sent = "none"

-----------------------------------------------------------------------------
(* An upload. *)

\* attachmentByNonce: a finalized attachment answers the attempt at once.
AlreadyStored == \E i \in Ids : att[i].state = "stored"
UsedIds == {i \in Ids : att[i].state # "none" \/ final[i] # 0 \/ staging[i] # 0
                        \/ \E t \in Tries : try[t].id = i}
FreshIds == {i \in Ids : \A j \in UsedIds \cup {upload.id} : j < i}

\* A live reservation is resumed when nobody stages under it; a released or
\* absent one takes quota anew.
ReserveAttachmentUpload(t) ==
    /\ locked = 0 /\ try[t].at = "new"
    /\ \/ /\ AlreadyStored \/ upload.state = "finalized"
          /\ try' = [try EXCEPT ![t].at = "over"]
          /\ UNCHANGED <<upload, usage>>
       \/ /\ ~AlreadyStored /\ upload.state = "reserved"
          /\ ~upload.lease /\ staging[upload.id] = 0
          /\ upload' = [upload EXCEPT !.token = t, !.lease = TRUE, !.live = TRUE]
          /\ try' = [try EXCEPT ![t] = [at |-> "reserved", id |-> upload.id]]
          /\ UNCHANGED usage
       \/ /\ ~AlreadyStored /\ upload.state \in {"none", "released"} /\ usage + 1 <= Quota
          /\ \E i \in IF upload.state = "none" THEN FreshIds ELSE {upload.id} :
                /\ upload.state = "none" => \A j \in FreshIds : i <= j
                /\ upload' = [state |-> "reserved", id |-> i, token |-> t, lease |-> TRUE, live |-> TRUE]
                /\ try' = [try EXCEPT ![t] = [at |-> "reserved", id |-> i]]
          /\ usage' = usage + 1
    /\ UNCHANGED <<staging, final, att, locked, expiring, sent>>

\* The staging file is created exclusively, or the attempt gives up.
OpenStaging(t) ==
    /\ try[t].at = "reserved"
    /\ \/ /\ staging[try[t].id] = 0
          /\ staging' = [staging EXCEPT ![try[t].id] = t]
          /\ try' = [try EXCEPT ![t].at = "opened"]
       \/ /\ staging[try[t].id] # 0
          /\ try' = [try EXCEPT ![t].at = "abandon"] /\ UNCHANGED staging
    /\ UNCHANGED <<upload, final, att, usage, locked, expiring, sent>>

\* The body was read in full, or not: then the file at the staging path is
\* removed, whoever wrote it.
Stage(t) ==
    /\ try[t].at = "opened"
    /\ \/ try' = [try EXCEPT ![t].at = "staged"] /\ UNCHANGED staging
       \/ /\ try' = [try EXCEPT ![t].at = "abandon"]
          /\ staging' = [staging EXCEPT ![try[t].id] = 0]
    /\ UNCHANGED <<upload, final, att, usage, locked, expiring, sent>>

\* Mutant: the staging lease is not checked again.
MayPublishUnleased(t) ==
    /\ upload.state = "reserved" /\ upload.id = try[t].id /\ upload.live

\* The reservation must still be this attempt's, its lease and itself alive.
MayPublish(t) ==
    /\ upload.state = "reserved" /\ upload.id = try[t].id /\ upload.live
    /\ upload.token = t /\ upload.lease

\* First half of FinalizeAttachmentUpload, under the usage locks: the staging
\* file is renamed over whatever an earlier attempt left; refused, the
\* attempt discards what is at the staging path.
PublishBlob(t) ==
    LET i == try[t].id IN
    /\ locked = 0 /\ try[t].at = "staged"
    /\ \/ /\ MayPublish(t) /\ staging[i] # 0
          /\ final' = [final EXCEPT ![i] = staging[i]] /\ staging' = [staging EXCEPT ![i] = 0]
          /\ locked' = t /\ try' = [try EXCEPT ![t].at = "publishing"]
       \/ /\ ~(MayPublish(t) /\ staging[i] # 0)
          /\ staging' = [staging EXCEPT ![i] = 0]
          /\ try' = [try EXCEPT ![t].at = "abandon"]
          /\ UNCHANGED <<final, locked>>
    /\ UNCHANGED <<upload, att, usage, expiring, sent>>

\* Second half: the row and the receipt commit, or the insert fails and the
\* blob is taken back, or the process dies with the blob published.
FinalizeAttachmentUpload(t) ==
    LET i == try[t].id IN
    /\ try[t].at = "publishing" /\ locked' = 0
    /\ \/ /\ att' = [att EXCEPT ![i] = [state |-> "stored", of |-> t, bound |-> FALSE, old |-> FALSE]]
          /\ upload' = [upload EXCEPT !.state = "finalized", !.token = 0, !.lease = FALSE]
          /\ try' = [try EXCEPT ![t].at = "over"] /\ UNCHANGED final
       \/ /\ final' = [final EXCEPT ![i] = 0]
          /\ try' = [try EXCEPT ![t].at = "abandon"] /\ UNCHANGED <<att, upload>>
       \/ try' = [try EXCEPT ![t].at = "over"] /\ UNCHANGED <<final, att, upload>>
    /\ UNCHANGED <<staging, usage, expiring, sent>>

\* Only the attempt's own claim is given up; quota stays with the reservation.
AbandonAttachmentStaging(t) ==
    /\ try[t].at = "abandon" /\ locked = 0
    /\ try' = [try EXCEPT ![t].at = "over"]
    /\ IF upload.state = "reserved" /\ upload.id = try[t].id /\ upload.token = t
       THEN /\ upload' = [upload EXCEPT !.token = 0, !.lease = FALSE]
            /\ staging' = [staging EXCEPT ![try[t].id] = 0]
       ELSE UNCHANGED <<upload, staging>>
    /\ UNCHANGED <<final, att, usage, locked, expiring, sent>>

\* The process dies in the middle of an upload.
UploadDies(t) ==
    /\ try[t].at \in {"reserved", "opened", "staged", "abandon"}
    /\ try' = [try EXCEPT ![t].at = "over"]
    /\ UNCHANGED <<upload, staging, final, att, usage, locked, expiring, sent>>

-----------------------------------------------------------------------------
(* Time, and the message. *)

\* The lease is longer than the window a request has to send its body, so it
\* runs out only on an attempt that has staged its file, or is gone.
LeaseRunsOut ==
    /\ upload.token # 0 => try[upload.token].at \notin {"reserved", "opened"}
    /\ upload.lease /\ upload' = [upload EXCEPT !.lease = FALSE]
    /\ UNCHANGED <<try, staging, final, att, usage, locked, expiring, sent>>

ReservationRunsOut ==
    /\ upload.live /\ ~upload.lease /\ upload' = [upload EXCEPT !.live = FALSE]
    /\ UNCHANGED <<try, staging, final, att, usage, locked, expiring, sent>>

DraftGetsOld(i) ==
    /\ att[i].state = "stored" /\ ~att[i].bound /\ ~att[i].old
    /\ att' = [att EXCEPT ![i].old = TRUE]
    /\ UNCHANGED <<upload, try, staging, final, usage, locked, expiring, sent>>

\* The message is sent with the draft.
bindAttachments(i) ==
    /\ sent = "none" /\ att[i].state = "stored" /\ ~att[i].bound
    /\ SendRaces \/ i \notin expiring
    /\ att' = [att EXCEPT ![i].bound = TRUE] /\ sent' = "shown"
    /\ UNCHANGED <<upload, try, staging, final, usage, locked, expiring>>

enqueueAttachmentDeletions ==
    /\ sent = "shown" /\ sent' = "deleted"
    /\ att' = [i \in Ids |-> IF att[i].bound /\ att[i].state = "stored"
                             THEN [att[i] EXCEPT !.state = "deleting"] ELSE att[i]]
    /\ UNCHANGED <<upload, try, staging, final, usage, locked, expiring>>

-----------------------------------------------------------------------------
(* The reconciler. *)

\* Mutant: the quota is given back with a published blob still on disk.
releaseKeepingBlob ==
    /\ locked = 0 /\ upload.state = "reserved" /\ ~upload.live
    /\ staging' = [staging EXCEPT ![upload.id] = 0]
    /\ upload' = [upload EXCEPT !.state = "released", !.token = 0, !.lease = FALSE]
    /\ usage' = usage - 1
    /\ UNCHANGED <<try, final, att, locked, expiring, sent>>

\* Artifacts first, then the quota; the transaction may fail in between.
releaseExpiredReservations ==
    /\ locked = 0 /\ upload.state = "reserved" /\ ~upload.live
    /\ staging' = [staging EXCEPT ![upload.id] = 0]
    /\ final' = [final EXCEPT ![upload.id] = 0]
    /\ \/ /\ upload' = [upload EXCEPT !.state = "released", !.token = 0, !.lease = FALSE]
          /\ usage' = usage - 1
       \/ UNCHANGED <<upload, usage>>
    /\ UNCHANGED <<try, att, locked, expiring, sent>>

\* expireUnboundDrafts: its subquery selects the drafts, its update does not
\* look at them again.
SelectOldDrafts ==
    /\ expiring = {}
    /\ expiring' = {i \in Ids : att[i].state = "stored" /\ ~att[i].bound /\ att[i].old}
    /\ expiring' # {}
    /\ UNCHANGED <<upload, try, staging, final, att, usage, locked, sent>>

expireUnboundDrafts ==
    /\ expiring # {} /\ expiring' = {}
    /\ att' = [i \in Ids |-> IF i \in expiring THEN [att[i] EXCEPT !.state = "deleting"] ELSE att[i]]
    /\ UNCHANGED <<upload, try, staging, final, usage, locked, sent>>

\* The outbox worker removes the bytes, then settles the row; an unbound
\* draft's row and receipt go with it.
RemoveDeleted(i) ==
    /\ att[i].state = "deleting" /\ final[i] # 0
    /\ final' = [final EXCEPT ![i] = 0]
    /\ UNCHANGED <<upload, try, staging, att, usage, locked, expiring, sent>>

processAttachmentDeletions(i) ==
    /\ att[i].state = "deleting" /\ final[i] = 0 /\ locked = 0
    /\ att' = [att EXCEPT ![i] = IF @.bound THEN [@ EXCEPT !.state = "deleted"] ELSE NoAtt]
    /\ upload' = IF ~att[i].bound /\ upload.id = i THEN NoUpload ELSE upload
    /\ usage' = usage - 1
    /\ UNCHANGED <<try, staging, final, locked, expiring, sent>>

\* Staging files of old attempts go without a lock; a file is old when no
\* attempt with a running lease can still be writing it.
SweepStaging(i) ==
    /\ staging[i] # 0 /\ ~(upload.id = i /\ upload.lease)
    /\ staging' = [staging EXCEPT ![i] = 0]
    /\ UNCHANGED <<upload, try, final, att, usage, locked, expiring, sent>>

\* Mutant: the orphan is judged without the reservation's lock.
OrphanUnlocked(i) == final[i] # 0 /\ att[i].state \notin Kept

\* A published blob with no attachment, and none being published.
Orphan(i) ==
    /\ final[i] # 0 /\ att[i].state \notin Kept
    /\ upload.id = i => locked = 0

removeOrphanAttachmentBlob(i) ==
    /\ Orphan(i)
    /\ final' = [final EXCEPT ![i] = 0]
    /\ UNCHANGED <<upload, try, staging, att, usage, locked, expiring, sent>>

\* Receipts that no attachment row answers for.
purgeSettledUploadReceipts ==
    /\ upload.state = "released" \/ (upload.state = "finalized" /\ att[upload.id].state = "none")
    /\ upload' = NoUpload
    /\ UNCHANGED <<try, staging, final, att, usage, locked, expiring, sent>>

AttNext ==
    \/ \E t \in Tries :
          \/ ReserveAttachmentUpload(t) \/ OpenStaging(t) \/ Stage(t) \/ PublishBlob(t)
          \/ FinalizeAttachmentUpload(t) \/ AbandonAttachmentStaging(t) \/ UploadDies(t)
    \/ LeaseRunsOut \/ ReservationRunsOut \/ enqueueAttachmentDeletions
    \/ releaseExpiredReservations \/ SelectOldDrafts \/ expireUnboundDrafts
    \/ purgeSettledUploadReceipts
    \/ \E i \in Ids :
          \/ DraftGetsOld(i) \/ bindAttachments(i) \/ RemoveDeleted(i)
          \/ processAttachmentDeletions(i) \/ SweepStaging(i) \/ removeOrphanAttachmentBlob(i)
AttSpec == AttInit /\ [][AttNext]_attVars

-----------------------------------------------------------------------------
\* Whatever uploads overlap, die or are swept, an attachment the database
\* calls stored has on disk the bytes whose digest it records; and a message
\* that is shown keeps its attachment (attachment.go, attachment_reconcile.go:
\* "a stale snapshot can never unlink bytes a concurrent finalizer just
\* published").
StoredHasItsBytes ==
    \A i \in Ids :
        /\ att[i].state = "stored" => final[i] = att[i].of
        /\ att[i].bound /\ sent = "shown" => att[i].state = "stored"

\* The ledger counts each live reservation and each attachment whose bytes
\* are not gone, once; and no published byte escapes it
\* (AbandonAttachmentStaging: "the reservation remains accountable").
QuotaIsExact ==
    /\ usage = (IF upload.state = "reserved" THEN 1 ELSE 0) + Cardinality({i \in Ids : att[i].state \in Kept})
    /\ usage <= Quota
    /\ \A i \in Ids : final[i] # 0 => \/ att[i].state \in Kept
                                      \/ upload.state = "reserved" /\ upload.id = i

\* The disk has what the database promises, and the quota counts it exactly.
AttachmentsSound == StoredHasItsBytes /\ QuotaIsExact
=============================================================================
