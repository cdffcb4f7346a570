--------------------------- MODULE MediaLifecycle ---------------------------
(***************************************************************************)
(* Media of one RustZap company (src/src/state.rs, storage.rs, media.rs,   *)
(* routes.rs): outbound uploads behind one Idempotency-Key, media of       *)
(* inbound messages, profile pictures, and what later touches them: save,  *)
(* delete, and the retention worker.  The bytes live in a staging file and *)
(* then in the object store, the records in the store; no lock spans the   *)
(* two, and each call of the object store is a step that may fail.         *)
(*                                                                         *)
(* A media id is the upload, inbound message or picture it belongs to.     *)
(* Each media has an object "object" (object_key) and one per entity it    *)
(* was saved for (permanent_object_key holds the last).  temp,             *)
(* outbound-temp and quarantine are treated alike by everything below and  *)
(* are one status.  Ages are abstracted: retention may pick any message    *)
(* and any temporary media.  One save and one delete per media at a time.  *)
(***************************************************************************)
EXTENDS Naturals, FiniteSets, Sequences, Functions

CONSTANTS
    Uploads,    \* upload requests, all with the same Idempotency-Key
    Inbound,    \* inbound messages with media
    Pictures,   \* profile pictures
    Entities,   \* entities a media is saved for
    Targets,    \* bound: media that save, delete and retention work on
    Bodies,     \* request bodies, as far as their hash tells them apart
    MaxOps,     \* bound: picture downloads, saves, deletes and retention runs
    MaxFaults   \* bound: cancelled requests, failed calls and crashes

Media == Uploads \cup Inbound \cup Pictures

ASSUME MediaAssumption ==
    /\ Uploads \cap (Inbound \cup Pictures) = {} /\ Inbound \cap Pictures = {}
    /\ Entities \cap {"none", "object", "mark"} = {}
    /\ "no body" \notin Bodies /\ "none" \notin Uploads
    /\ Targets \subseteq Media
    /\ MaxOps \in Nat /\ MaxFaults \in Nat

VARIABLES
    store,      \* memory: media records, idempotency record, messages
    snapshot,   \* the metadata_snapshots row
    inflight,   \* media_upload_idempotency_inflight of the key
    body,       \* the body of each upload in progress
    phase,      \* where the request or download of a media is
    staging,    \* staging files
    objects,    \* objects of the object store
    save,       \* save_media calls in progress
    remove,     \* delete_media calls in progress
    sweep,      \* the retention run in progress
    recorded,   \* history: uploads that got a media record
    raced,      \* history: media on which two of these overlapped
    leaked,     \* history: media whose record and bytes a fault set apart
    ops, faults, crashes

vars == <<store, snapshot, inflight, body, phase, staging, objects, save, remove,
          sweep, recorded, raced, leaked, ops, faults, crashes>>
requests == <<inflight, body, phase, staging, recorded>>
callers == <<save, remove, sweep>>
counters == <<ops, faults, crashes>>

NoBody == "no body"
NoMedia == "none"
Record(s, o, p) == [status |-> s, object |-> o, permanent |-> p]
Absent == Record("absent", FALSE, "none")
Temp == Record("temp", TRUE, "none")
PictureRecord == Record("permanent", TRUE, "object")
NotSaving == <<"idle", "none">>
(* The objects a record refers to, in the order they are deleted in.       *)
KeysOf(r) == (IF r.object THEN <<"object">> ELSE <<>>)
             \o (IF r.permanent # "none" THEN <<r.permanent>> ELSE <<>>)
(* The object a temporary or permanent media is kept in.                   *)
BytesKey(r) == IF r.permanent = "none" THEN "object" ELSE r.permanent
Objects(m) == {o \in objects : o[1] = m}
NotSweeping == [step |-> "idle", messages |-> {}, todo |-> {}, deleted |-> {}, failed |-> {}]

Fault == faults < MaxFaults /\ faults' = faults + 1
Operation == ops < MaxOps /\ ops' = ops + 1

(* Phases in which an upload holds the in-flight entry.                    *)
Owning == {"owner", "staged", "put", "recorded"}
(* Phases in which the bytes or the record of a media are still to come.   *)
Arriving == Owning \cup {"download"}
(* A save, delete or retention run works on the media.                     *)
Busy(m) ==
    \/ save[m] # NotSaving \/ remove[m] # <<>>
    \/ m \in {c[1] : c \in sweep.todo} \cup sweep.deleted

Init ==
    /\ store = [media |-> [m \in Media |-> Absent], key |-> NoMedia, messages |-> {}]
    /\ snapshot = store
    /\ inflight = NoBody
    /\ body = [m \in Media |-> NoBody]
    /\ phase = [m \in Media |-> "new"]
    /\ staging = {} /\ objects = {}
    /\ save = [m \in Media |-> NotSaving]
    /\ remove = [m \in Media |-> <<>>]
    /\ sweep = NotSweeping
    /\ recorded = {} /\ raced = {} /\ leaked = {}
    /\ ops = 0 /\ faults = 0 /\ crashes = 0

-----------------------------------------------------------------------------
(* A request or download ends.                                             *)
Answer(m) ==
    /\ phase' = [phase EXCEPT ![m] = "answered"]
    /\ body' = [body EXCEPT ![m] = NoBody]

(* Mutant: a second request does not wait for the one in flight.           *)
EnterUploadWithoutWaiting(u, b) ==
    /\ phase[u] = "new"
    /\ \/ store.key # NoMedia /\ Answer(u) /\ UNCHANGED inflight
       \/ /\ store.key = NoMedia
          /\ phase' = [phase EXCEPT ![u] = "owner"]
          /\ body' = [body EXCEPT ![u] = b]
          /\ inflight' = b
    /\ UNCHANGED <<store, snapshot, staging, objects, callers, recorded, raced, leaked, counters>>

(* One round of the loop of upload_outbound_media_idempotent: answered     *)
(* from the record (with an error when the media is gone or the body       *)
(* differs), waiting for the same body in flight, or the owner.            *)
EnterUpload(u, b) ==
    /\ phase[u] = "new" \/ (phase[u] = "waiting" /\ b = body[u])
    /\ \/ /\ store.key # NoMedia \/ inflight \notin {NoBody, b}
          /\ Answer(u)
          /\ UNCHANGED inflight
       \/ /\ store.key = NoMedia /\ inflight \in {NoBody, b}
          /\ phase' = [phase EXCEPT ![u] = IF inflight = b THEN "waiting" ELSE "owner"]
          /\ body' = [body EXCEPT ![u] = b]
          /\ inflight' = b
    /\ UNCHANGED <<store, snapshot, staging, objects, callers, recorded, raced, leaked, counters>>

(* The wait is given up after 12000 rounds.                                *)
GiveUpWaiting(u) ==
    /\ phase[u] = "waiting"
    /\ Answer(u)
    /\ UNCHANGED <<store, snapshot, inflight, staging, objects, callers, recorded, raced,
                   leaked, counters>>

(* The message of an inbound media is recorded; its download begins.       *)
ReceiveInbound(i) ==
    /\ phase[i] = "new"
    /\ store' = [store EXCEPT !.messages = @ \cup {i}]
    /\ phase' = [phase EXCEPT ![i] = "download"]
    /\ UNCHANGED <<snapshot, inflight, body, staging, objects, callers, recorded, raced,
                   leaked, counters>>

(* classify puts it over the reject threshold: a record without bytes.     *)
RejectInbound(i) ==
    /\ phase[i] = "download"
    /\ store' = [store EXCEPT !.media[i] = Record("rejected", FALSE, "none")]
    /\ Answer(i)
    /\ UNCHANGED <<snapshot, inflight, staging, objects, callers, recorded, raced,
                   leaked, counters>>

(* attach_profile_picture_media_id: the picture is downloaded.             *)
FetchPicture(p) ==
    /\ phase[p] = "new"
    /\ Operation
    /\ phase' = [phase EXCEPT ![p] = "download"]
    /\ UNCHANGED <<store, snapshot, inflight, body, staging, objects, callers, recorded, raced,
                   leaked, faults, crashes>>

(* stage_media_bytes; a picture is not staged.                             *)
Stage(m) ==
    /\ phase[m] \in {"owner", "download"} /\ m \notin Pictures
    /\ staging' = staging \cup {m}
    /\ phase' = [phase EXCEPT ![m] = "staged"]
    /\ UNCHANGED <<store, snapshot, inflight, body, objects, callers, recorded, raced,
                   leaked, counters>>

(* The request ends; an upload gives up the in-flight entry.               *)
Finish(m) ==
    /\ Answer(m)
    /\ inflight' = IF m \in Uploads THEN NoBody ELSE inflight

(* Refused before the bytes are staged (empty, too large, unsupported, or  *)
(* the download failed) or, with the staged file removed, because the      *)
(* magic bytes do not match.                                               *)
Refuse(m) ==
    /\ phase[m] \in {"owner", "download", "staged"}
    /\ staging' = staging \ {m}
    /\ Finish(m)
    /\ UNCHANGED <<store, snapshot, objects, callers, recorded, raced, leaked, counters>>

(* The bytes are next handed to the object store.                          *)
Stored(m) == phase[m] = (IF m \in Pictures THEN "download" ELSE "staged")

(* media_bytes.put.                                                        *)
PutBytes(m) ==
    /\ Stored(m)
    /\ objects' = objects \cup {<<m, "object">>}
    /\ phase' = [phase EXCEPT ![m] = "put"]
    /\ UNCHANGED <<store, snapshot, inflight, body, staging, callers, recorded, raced,
                   leaked, counters>>

(* Mutant: the staged file is kept when the put fails.                     *)
PutFailsKeepsStaging(m) ==
    /\ Stored(m)
    /\ Fault
    /\ UNCHANGED <<objects, leaked, staging>>
    /\ Finish(m)
    /\ UNCHANGED <<store, snapshot, callers, recorded, raced, ops, crashes>>

(* The put fails: the staged file goes, and so does what the put may have  *)
(* written, unless the delete fails too.                                   *)
PutFails(m) ==
    /\ Stored(m)
    /\ Fault
    /\ \/ UNCHANGED <<objects, leaked>>
       \/ objects' = objects \cup {<<m, "object">>} /\ leaked' = leaked \cup {m}
    /\ staging' = staging \ {m}
    /\ Finish(m)
    /\ UNCHANGED <<store, snapshot, callers, recorded, raced, ops, crashes>>

(* The media record; an inbound one is attached to its message, if that is *)
(* still there, and is stored either way.  A picture is permanent and its  *)
(* two keys are one.                                                       *)
RecordMedia(m) ==
    /\ phase[m] = "put"
    /\ store' = [store EXCEPT !.media[m] =
                     IF m \in Pictures THEN PictureRecord ELSE Temp]
    /\ staging' = staging \ {m}
    /\ recorded' = recorded \cup ({m} \cap Uploads)
    /\ phase' = [phase EXCEPT ![m] = IF m \in Uploads THEN "recorded" ELSE "answered"]
    /\ UNCHANGED <<snapshot, inflight, body, objects, callers, raced, leaked, counters>>

(* upload_outbound_media_idempotent after the upload: the key's record.    *)
RecordKey(u) ==
    /\ phase[u] = "recorded"
    /\ store' = [store EXCEPT !.key = IF @ = NoMedia THEN u ELSE @]
    /\ Finish(u)
    /\ UNCHANGED <<snapshot, staging, objects, callers, recorded, raced, leaked, counters>>

(* Mutant: the in-flight entry has no drop guard.                          *)
CancelUploadUnguarded(u) ==
    /\ phase[u] \in {"waiting", "staged"}
    /\ Fault
    /\ Answer(u)
    /\ objects' \in {objects, objects \cup {<<m, "object">> : m \in staging \cap {u}}}
    /\ leaked' = leaked \cup {u}
    /\ UNCHANGED <<store, snapshot, inflight, staging, callers, recorded, raced, ops, crashes>>

(* The client goes away: the handler is dropped at an await, and the drop  *)
(* guard of the owner removes its in-flight entry.  The staged file stays, *)
(* and the bytes may have been stored.                                     *)
CancelUpload(u) ==
    /\ phase[u] \in {"waiting", "staged"}
    /\ Fault
    /\ Answer(u)
    /\ inflight' = IF phase[u] = "staged" THEN NoBody ELSE inflight
    /\ objects' \in {objects, objects \cup {<<m, "object">> : m \in staging \cap {u}}}
    /\ leaked' = leaked \cup {u}
    /\ UNCHANGED <<store, snapshot, staging, callers, recorded, raced, ops, crashes>>

-----------------------------------------------------------------------------
(* Mutant: the record is marked permanent before the bytes are copied.     *)
BeginSaveMarksFirst(m, e) ==
    /\ store.media[m] # Absent /\ save[m] = NotSaving
    /\ Operation
    /\ raced' = IF Busy(m) THEN raced \cup {m} ELSE raced
    /\ store' = [store EXCEPT !.media[m] = Record("permanent", @.object, e)]
    /\ save' = [save EXCEPT ![m] = IF store.media[m].object THEN <<"copy", e>> ELSE @]
    /\ UNCHANGED <<snapshot, requests, objects, remove, sweep, leaked, faults, crashes>>

(* save_media reads the media; a media without bytes is marked permanent   *)
(* at once, with a permanent key no object has.                            *)
BeginSave(m, e) ==
    /\ store.media[m] # Absent /\ save[m] = NotSaving
    /\ Operation
    /\ raced' = IF Busy(m) THEN raced \cup {m} ELSE raced
    /\ \/ /\ store.media[m].object
          /\ save' = [save EXCEPT ![m] = <<"copy", e>>]
          /\ UNCHANGED store
       \/ /\ ~store.media[m].object
          /\ store' = [store EXCEPT !.media[m] = Record("permanent", FALSE, e)]
          /\ UNCHANGED save
    /\ UNCHANGED <<snapshot, requests, objects, remove, sweep, leaked, faults, crashes>>

(* copy_media_bytes: a missing source, a failed copy, or the request       *)
(* dropped while it waits, ends the save; the copy may have been made.     *)
CopyBytes(m) ==
    /\ save[m][1] = "copy"
    /\ \/ /\ <<m, "object">> \in objects
          /\ objects' = objects \cup {<<m, save[m][2]>>}
          /\ save' = [save EXCEPT ![m] = <<"copied", save[m][2]>>]
          /\ UNCHANGED <<faults, leaked>>
       \/ /\ <<m, "object">> \notin objects
          /\ save' = [save EXCEPT ![m] = NotSaving]
          /\ UNCHANGED <<objects, faults, leaked>>
       \/ /\ <<m, "object">> \in objects /\ Fault
          /\ save' = [save EXCEPT ![m] = NotSaving]
          /\ objects' \in {objects, objects \cup {<<m, save[m][2]>>}}
          /\ leaked' = IF objects' = objects THEN leaked ELSE leaked \cup {m}
    /\ UNCHANGED <<store, snapshot, requests, remove, sweep, raced, ops, crashes>>

(* save_media_with_permanent_object_key: NotFound when the media is gone.  *)
(* The object of an earlier save for another entity stays, unreferenced.   *)
FinishSave(m) ==
    /\ save[m][1] = "copied"
    /\ save' = [save EXCEPT ![m] = NotSaving]
    /\ store' = IF store.media[m] = Absent THEN store
                ELSE [store EXCEPT !.media[m] = Record("permanent", @.object, save[m][2])]
    /\ leaked' = IF store.media[m].permanent \in Entities \ {save[m][2]}
                 THEN leaked \cup {m} ELSE leaked
    /\ UNCHANGED <<snapshot, requests, objects, remove, sweep, raced, counters>>

(* delete_media reads the media.                                           *)
BeginDelete(m) ==
    /\ store.media[m] # Absent /\ remove[m] = <<>>
    /\ Operation
    /\ raced' = IF Busy(m) THEN raced \cup {m} ELSE raced
    /\ remove' = [remove EXCEPT ![m] = KeysOf(store.media[m]) \o <<"mark">>]
    /\ UNCHANGED <<store, snapshot, requests, objects, save, sweep, leaked, faults, crashes>>

(* A delete that did not end well may have taken the bytes of a media that *)
(* keeps its record.                                                       *)
LeakIfGone(m) ==
    leaked' = IF <<m, BytesKey(store.media[m])>> \in objects'
              THEN leaked ELSE leaked \cup {m}

(* delete_media_bytes, for the object and then for the permanent one.  An  *)
(* error, or the request dropped while it waits, ends the call, and the    *)
(* object may be gone by then.  A picture's one object is deleted twice.   *)
DeleteBytes(m) ==
    LET o == <<m, Head(remove[m])>> IN
    /\ Len(remove[m]) > 1
    /\ \/ /\ objects' = objects \ {o}
          /\ remove' = [remove EXCEPT ![m] = Tail(@)]
          /\ UNCHANGED <<faults, leaked>>
       \/ /\ Fault
          /\ remove' = [remove EXCEPT ![m] = <<>>]
          /\ objects' \in {objects, objects \ {o}}
          /\ LeakIfGone(m)
    /\ UNCHANGED <<store, snapshot, requests, save, sweep, raced, ops, crashes>>

(* delete_media_for_company: NotFound when the record is gone.             *)
FinishDelete(m) ==
    /\ remove[m] = <<"mark">>
    /\ remove' = [remove EXCEPT ![m] = <<>>]
    /\ store' = IF store.media[m] = Absent THEN store
                ELSE [store EXCEPT !.media[m].status = "deleted"]
    /\ UNCHANGED <<snapshot, requests, objects, save, sweep, raced, leaked, counters>>

-----------------------------------------------------------------------------
(* apply_company_retention (expired messages M and temporary media T) and  *)
(* cleanup_expired_temp_media (M empty): the candidates are cloned under   *)
(* the lock.  An upload has no message.                                    *)
BeginSweep(M, T) ==
    /\ sweep = NotSweeping
    /\ Operation
    /\ M \subseteq store.messages
    /\ T \subseteq {m \in Media : store.media[m].status = "temp"}
    /\ M \cup T # {}
    /\ LET C == {m \in M \cup T : store.media[m] # Absent} IN
       /\ sweep' = [NotSweeping EXCEPT !.step = "bytes", !.messages = M,
                        !.todo = {<<m, store.media[m]>> : m \in C}]
       /\ raced' = raced \cup {m \in C : Busy(m)} \cup {m \in M : phase[m] \in Arriving}
    /\ UNCHANGED <<store, snapshot, requests, objects, save, remove, leaked, faults, crashes>>

(* delete_media_object_bytes_best_effort with the keys of the clone; a     *)
(* failed delete, whichever objects are gone, keeps media and message.     *)
SweepBytes(c) ==
    LET m == c[1]
        keys == {<<m, k>> : k \in Range(KeysOf(c[2]))} IN
    /\ c \in sweep.todo
    /\ \/ /\ objects' = objects \ keys
          /\ sweep' = [sweep EXCEPT !.todo = @ \ {c}, !.deleted = @ \cup {m}]
          /\ UNCHANGED <<faults, leaked>>
       \/ /\ Fault
          /\ keys # {}
          /\ \E gone \in SUBSET keys : objects' = objects \ gone
          /\ LeakIfGone(m)
          /\ sweep' = [sweep EXCEPT !.todo = @ \ {c}, !.failed = @ \cup {m}]
    /\ UNCHANGED <<store, snapshot, requests, save, remove, raced, ops, crashes>>

(* Mutant: messages go even when the bytes of their media stay.            *)
FinishSweepDropsFailed ==
    /\ sweep.step = "bytes" /\ sweep.todo = {}
    /\ store' = [store EXCEPT
          !.media = [m \in Media |-> IF m \in sweep.deleted THEN Absent ELSE store.media[m]],
          !.messages = @ \ sweep.messages]
    /\ sweep' = NotSweeping
    /\ UNCHANGED <<snapshot, requests, objects, save, remove, raced, leaked, counters>>

(* Messages without failed media, and media whose bytes are gone, are      *)
(* removed, whatever became of them since they were cloned.                *)
FinishSweep ==
    /\ sweep.step = "bytes" /\ sweep.todo = {}
    /\ store' = [store EXCEPT
          !.media = [m \in Media |-> IF m \in sweep.deleted THEN Absent ELSE store.media[m]],
          !.messages = @ \ (sweep.messages \ sweep.failed)]
    /\ sweep' = NotSweeping
    /\ UNCHANGED <<snapshot, requests, objects, save, remove, raced, leaked, counters>>

-----------------------------------------------------------------------------
(* Without a crash to come the snapshot is never read: it is not taken     *)
(* once the bound on faults is reached.                                    *)
Persist ==
    /\ snapshot # store /\ faults < MaxFaults
    /\ snapshot' = store
    /\ UNCHANGED <<store, requests, objects, callers, raced, leaked, counters>>

(* sanitize_updates_surfaces: a key whose media is gone is forgotten.      *)
Loaded(s) == IF s.key # NoMedia /\ s.media[s.key] = Absent THEN [s EXCEPT !.key = NoMedia] ELSE s

(* The process dies; files and objects stay as they are.                   *)
Crash ==
    /\ Fault
    /\ crashes' = crashes + 1
    /\ store' = Loaded(snapshot)
    /\ inflight' = NoBody
    /\ phase' = [m \in Media |-> IF phase[m] = "new" THEN "new" ELSE "answered"]
    /\ save' = [m \in Media |-> NotSaving]
    /\ remove' = [m \in Media |-> <<>>]
    /\ sweep' = NotSweeping
    /\ leaked' = leaked \cup {m \in Media : \/ phase[m] \in Arriving \/ Busy(m)
                                            \/ store.media[m] # snapshot.media[m]
                                            \/ m \in store.messages \ snapshot.messages
                                            \/ m \in snapshot.messages \ store.messages}
    /\ body' = [m \in Media |-> NoBody]
    /\ UNCHANGED <<snapshot, staging, objects, recorded, raced, ops>>

UploadSteps(u) ==
    (\E b \in Bodies : EnterUpload(u, b)) \/ Stage(u) \/ PutBytes(u) \/ RecordMedia(u) \/ RecordKey(u)

InboundSteps(i) ==
    ReceiveInbound(i) \/ RejectInbound(i) \/ Stage(i) \/ PutBytes(i) \/ RecordMedia(i)

CallerSteps ==
    \/ \E m \in Media : CopyBytes(m) \/ FinishSave(m) \/ DeleteBytes(m) \/ FinishDelete(m)
    \/ \E c \in sweep.todo : SweepBytes(c)
    \/ FinishSweep

Next ==
    \/ \E u \in Uploads : UploadSteps(u) \/ GiveUpWaiting(u) \/ CancelUpload(u)
    \/ \E i \in Inbound : InboundSteps(i)
    \/ \E m \in Media : Refuse(m) \/ PutFails(m)
    \/ \E p \in Pictures : FetchPicture(p) \/ PutBytes(p) \/ RecordMedia(p)
    \/ \E m \in Targets, e \in Entities : BeginSave(m, e)
    \/ \E m \in Targets : BeginDelete(m)
    \/ \E M \in SUBSET (Inbound \cap Targets), T \in SUBSET Targets : BeginSweep(M, T)
    \/ CallerSteps
    \/ Persist
    \/ Crash

(* A request that has begun goes on until it is answered or dropped; the   *)
(* waiting one polls every 10 ms.                                          *)
Fairness == \A u \in Uploads : WF_vars(UploadSteps(u) /\ phase'[u] # phase[u])

Spec == Init /\ [][Next]_vars /\ Fairness

-----------------------------------------------------------------------------
ObjectKeys == {"object"} \cup Entities
Records == [status : {"absent", "temp", "permanent", "deleted", "rejected"},
            object : BOOLEAN, permanent : {"none", "object"} \cup Entities]
Stores == [media : [Media -> Records], key : Uploads \cup {NoMedia}, messages : SUBSET Inbound]
Saves == {NotSaving} \cup ({"copy", "copied"} \X Entities)
Sweeps == [step : {"idle", "bytes"}, messages : SUBSET Inbound, todo : SUBSET (Media \X Records),
           deleted : SUBSET Media, failed : SUBSET Media]

RequestType ==
    /\ inflight \in Bodies \cup {NoBody}
    /\ body \in [Media -> Bodies \cup {NoBody}]
    /\ phase \in [Media -> {"new", "waiting", "answered"} \cup Arriving]
    /\ staging \subseteq Media

CallerType ==
    /\ save \in [Media -> Saves]
    /\ remove \in [Media -> Seq(ObjectKeys \cup {"mark"})]
    /\ sweep \in Sweeps

HistoryType == recorded \subseteq Uploads /\ raced \subseteq Media /\ leaked \subseteq Media

CounterType == ops \in 0..MaxOps /\ faults \in 0..MaxFaults /\ crashes \in 0..faults

(* The values the variables take.                                          *)
TypeOK ==
    /\ store \in Stores /\ snapshot \in Stores
    /\ RequestType
    /\ objects \subseteq Media \X ObjectKeys
    /\ CallerType
    /\ HistoryType
    /\ CounterType

(* The in-flight entry of a key exists exactly while one upload works      *)
(* under it, and carries that upload's body: it is released on every path, *)
(* a dropped request and a crash included, and never by a waiting request. *)
InflightHasOneOwner ==
    /\ inflight # NoBody <=> \E u \in Uploads : phase[u] \in Owning
    /\ \A u \in Uploads : phase[u] \in Owning =>
            /\ inflight = body[u]
            /\ \A v \in Uploads : phase[v] \in Owning => u = v

(* README.md:812, an upload "requires Idempotency-Key": one key stores one *)
(* media however requests overlap, are dropped and are repeated; only a    *)
(* crash that forgets the key makes a second one possible.                 *)
KeyStoresOneMedia == Cardinality(recorded) <= 1 + crashes

(* A record that says temp or permanent has its bytes, after any sequence  *)
(* of saves, deletes, retention runs, failed calls and dropped requests,   *)
(* unless two of them overlapped on it, a crash came between bytes and     *)
(* record, a delete that failed or was dropped had by then taken the bytes *)
(* (delete_media marks the record last), or it was saved without ever      *)
(* having bytes.                                                           *)
RecordHasBytes ==
    \A m \in Media \ (raced \cup leaked) : (~Busy(m) /\ store.media[m].object) =>
        /\ store.media[m].status = "temp" => <<m, "object">> \in objects
        /\ store.media[m].status = "permanent" => <<m, store.media[m].permanent>> \in objects

(* docs/task-checks/08-media-storage-r2.md:35, "Midia rejeitada nao        *)
(* permanece no staging nem no R2", and for deleted and expired media too: *)
(* bytes without a record that owns them are left only by a fault, by two  *)
(* overlapping calls, or by a second save for another entity.              *)
NoBytesLeftBehind ==
    \A m \in Media \ (raced \cup leaked) : phase[m] \notin Arriving =>
        /\ m \notin staging
        /\ (~Busy(m) /\ store.media[m].status \in {"absent", "deleted", "rejected"})
             => Objects(m) = {}

(* Retention by message takes the media with it: when a message is gone    *)
(* its media has neither record nor bytes, and a media whose bytes could   *)
(* not be deleted keeps its message.                                       *)
RemovedMessageLeavesNoMedia ==
    \A i \in Inbound \ (raced \cup leaked) :
        i \notin store.messages => store.media[i] = Absent /\ Objects(i) = {}

(* An upload that has begun is answered, also one that waits for another.  *)
UploadIsAnswered ==
    \A u \in Uploads : phase[u] \in Owning \cup {"waiting"} ~> phase[u] = "answered"
=============================================================================
