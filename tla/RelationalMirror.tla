-------------------------- MODULE RelationalMirror --------------------------
(***************************************************************************)
(* The relational tables MetadataDb::persist_store keeps beside the        *)
(* snapshot row (src/src/db.rs).  The snapshot task writes the snapshot in *)
(* a transaction of its own and then upserts, statement by statement and   *)
(* without a transaction, the rows of the tables of Order; the first       *)
(* statement that fails ends the pass, which is only logged, and nothing   *)
(* starts another one before the next change of the store.  No row is ever *)
(* deleted.  The migrations give the tables foreign keys and two unique    *)
(* keys of messages: (conversation_id, conversation_seq) and (channel,     *)
(* wa_message_id, direction).                                              *)
(*                                                                         *)
(* One tenant with one channel and one group chat is modelled; the columns *)
(* no key depends on are left out.  A row is <<table, id>>.  Message ids   *)
(* are UUIDs, numbered here in the order of their creation; the media of   *)
(* message i has id i, and so has every transcript of it, though one that  *)
(* is stored again after its removal gets a row of its own.                *)
(***************************************************************************)
EXTENDS Naturals, Sequences

CONSTANTS
    MaxIds,       \* bound: message ids handed out
    MaxWa,        \* bound: message ids of WhatsApp
    MaxChanges,   \* bound: changes of the store
    MaxFaults     \* bound: failures of the database and crashes

ASSUME MirrorAssumption ==
    {MaxIds, MaxWa, MaxChanges, MaxFaults} \subseteq Nat

Ids == 1..MaxIds
NoWa == 0
Entity == 0   \* a contact with a profile picture, and the id of the picture
Chat == 1     \* the group chat of the messages, and its sender
Only == 1     \* the id of the single row of a table

VARIABLES
    store,        \* the maps of the store in memory
    saved,        \* the snapshot row, which is what a pass mirrors
    changed,      \* the watch channel holds a state the task has not taken
    mirroring,    \* the task is in persist_relational
    failed,       \* the last pass was ended by an error of the database
    rows,         \* the rows of the tables
    rowWa,        \* wa_message_id of the message rows
    seqOf,        \* conversation_seq of each message id
    nextId,       \* message ids handed out
    usedWa,       \* message ids WhatsApp has handed out
    sending,      \* <<i, w>>: WhatsApp accepted message i as w, not recorded
    downloading,  \* messages whose media is being downloaded
    transcribing, \* messages whose audio a worker has read
    delivering,   \* deleted callbacks a delivery was under way to
    changes,      \* changes of the store so far
    faults        \* failures and crashes so far

taskVars == <<saved, mirroring, failed, rows, rowWa>>
outsideVars == <<usedWa, sending, downloading, transcribing, delivering>>
counters == <<changes, faults>>
mirrorVars == <<store, changed, taskVars, seqOf, nextId, outsideVars, counters>>

MirrorInit ==
    /\ store = [messages |-> {}, wa |-> [i \in Ids |-> NoWa], lastSeq |-> 0,
                media |-> {}, transcripts |-> {}, chats |-> {},
                callbacks |-> {}, attempts |-> {}]
    /\ saved = store
    /\ changed = FALSE /\ mirroring = FALSE /\ failed = FALSE
    /\ rows = {}
    /\ rowWa = [i \in Ids |-> NoWa]
    /\ seqOf = [i \in Ids |-> 0]
    /\ nextId = 0
    /\ usedWa = {} /\ sending = {} /\ downloading = {} /\ transcribing = {}
    /\ delivering = {}
    /\ changes = 0 /\ faults = 0

-----------------------------------------------------------------------------
(* Operations of the store.  Each one ends in persist_locked, which hands  *)
(* the new state to the snapshot task.                                     *)

Changes(s) ==
    /\ changes < MaxChanges
    /\ changes' = changes + 1
    /\ store' = s
    /\ changed' = TRUE

(* A message record with the next number of the chat.                      *)
Recorded(w) ==
    [store EXCEPT !.messages = @ \cup {nextId + 1}, !.wa[nextId + 1] = w,
                  !.lastSeq = @ + 1, !.chats = @ \cup {Chat}]

NewMessage(w) ==
    /\ nextId < MaxIds
    /\ nextId' = nextId + 1
    /\ seqOf' = [seqOf EXCEPT ![nextId + 1] = store.lastSeq + 1]
    /\ Changes(Recorded(w))

(* prepare_send_message: a queued message, without an id of WhatsApp.      *)
SendMessage ==
    /\ NewMessage(NoWa)
    /\ UNCHANGED <<taskVars, outsideVars, faults>>

(* WhatsApp accepts a queued message and gives it its own id.              *)
Accept(i) ==
    /\ i \in store.messages /\ store.wa[i] = NoWa
    /\ \A p \in sending : p[1] # i
    /\ \E w \in (1..MaxWa) \ usedWa :
          /\ usedWa' = usedWa \cup {w}
          /\ sending' = sending \cup {<<i, w>>}
    /\ UNCHANGED <<store, changed, taskVars, seqOf, nextId, downloading, transcribing,
                   delivering, counters>>

(* update_outbound_after_dispatch: the id is written to the message,       *)
(* whoever else has it, unless the message is gone.                        *)
RecordSent(i, w) ==
    /\ <<i, w>> \in sending
    /\ sending' = sending \ {<<i, w>>}
    /\ IF i \in store.messages
       THEN Changes([store EXCEPT !.wa[i] = w])
       ELSE UNCHANGED <<store, changed, changes>>
    /\ UNCHANGED <<taskVars, seqOf, nextId, usedWa, downloading, transcribing, delivering,
                   faults>>

(* record_whatsapp_message for a new inbound message, the echo of a sent   *)
(* one, or a repeated delivery of either: a stored message with the same   *)
(* id is returned as it is.                                                *)
WhatsappMessage(w) ==
    /\ \A i \in store.messages : store.wa[i] # w
    /\ usedWa' = usedWa \cup {w}
    /\ NewMessage(w)
    /\ downloading' = downloading \cup {nextId + 1}
    /\ UNCHANGED <<taskVars, sending, transcribing, delivering, faults>>

(* record_inbound_media_object, with or without its message.               *)
RecordMedia(i) ==
    /\ i \in downloading
    /\ downloading' = downloading \ {i}
    /\ Changes([store EXCEPT !.media = @ \cup {i}])
    /\ UNCHANGED <<taskVars, seqOf, nextId, usedWa, sending, transcribing, delivering, faults>>

(* store_profile_picture_media_bytes: the media names the contact as its   *)
(* conversation.                                                           *)
RecordPicture ==
    /\ Entity \notin store.media
    /\ Changes([store EXCEPT !.media = @ \cup {Entity}])
    /\ UNCHANGED <<taskVars, seqOf, nextId, outsideVars, faults>>

(* request_transcript and process_transcription_request find the message   *)
(* and its media in the store.                                             *)
ReadAudio(i) ==
    /\ i \in (store.messages \cap store.media) \ transcribing
    /\ transcribing' = transcribing \cup {i}
    /\ UNCHANGED <<store, changed, taskVars, seqOf, nextId, usedWa, sending, downloading,
                   delivering, counters>>

(* set_transcript_lifecycle and set_completed_groq_transcript do not ask   *)
(* whether the message and the media are still there.  A worker writes     *)
(* more than once.                                                         *)
RecordTranscript(i) ==
    /\ i \in transcribing \ store.transcripts
    /\ transcribing' \in {transcribing, transcribing \ {i}}
    /\ Changes([store EXCEPT !.transcripts = @ \cup {i}])
    /\ UNCHANGED <<taskVars, seqOf, nextId, usedWa, sending, downloading, delivering, faults>>

(* Mutant: last_seq follows the newest message that is left.               *)
RetentionTakesSeqBack(i) ==
    /\ i \in store.messages
    /\ Changes([store EXCEPT !.messages = @ \ {i}, !.media = @ \ {i},
                             !.transcripts = @ \ {i},
                             !.lastSeq = IF seqOf[i] = @ THEN @ - 1 ELSE @])
    /\ UNCHANGED <<taskVars, seqOf, nextId, outsideVars, faults>>

(* apply_company_retention: the message goes with its media and its        *)
(* transcript; the chat and its last_seq stay.                             *)
Retention(i) ==
    /\ i \in store.messages
    /\ Changes([store EXCEPT !.messages = @ \ {i}, !.media = @ \ {i},
                             !.transcripts = @ \ {i}])
    /\ UNCHANGED <<taskVars, seqOf, nextId, outsideVars, faults>>

(* cleanup_expired_temp_media, and the media that apply_company_retention  *)
(* finds too old: the message and its transcript stay.                     *)
TempMediaExpires(i) ==
    /\ i \in store.media
    /\ Changes([store EXCEPT !.media = @ \ {i}])
    /\ UNCHANGED <<taskVars, seqOf, nextId, outsideVars, faults>>

(* apply_company_retention: a transcript that is too old goes alone.       *)
TranscriptExpires(i) ==
    /\ i \in store.transcripts
    /\ Changes([store EXCEPT !.transcripts = @ \ {i}])
    /\ UNCHANGED <<taskVars, seqOf, nextId, outsideVars, faults>>

(* upsert_callback.                                                        *)
UpsertCallback ==
    /\ store.callbacks = {}
    /\ Changes([store EXCEPT !.callbacks = {Only}])
    /\ UNCHANGED <<taskVars, seqOf, nextId, outsideVars, faults>>

(* record_webhook_attempt does not ask whether the callback is still there.*)
RecordAttempt ==
    /\ store.attempts = {}
    /\ store.callbacks \cup delivering # {}
    /\ delivering' = {}
    /\ Changes([store EXCEPT !.attempts = {Only}])
    /\ UNCHANGED <<taskVars, seqOf, nextId, usedWa, sending, downloading, transcribing, faults>>

(* delete_callback: its attempts stay, and a delivery may be under way.    *)
DeleteCallback ==
    /\ store.callbacks # {}
    /\ delivering' \in {{}, store.callbacks}
    /\ Changes([store EXCEPT !.callbacks = {}])
    /\ UNCHANGED <<taskVars, seqOf, nextId, usedWa, sending, downloading, transcribing, faults>>

-----------------------------------------------------------------------------
(* The rows of each table, from a snapshot.                                *)

(* ensure_media_conversation_placeholders, on the way into the snapshot: a *)
(* media whose conversation is unknown gets one.                           *)
Sanitized(s) ==
    [s EXCEPT !.chats = @ \cup ({Entity} \cap s.media)]

(* The project and the company of anything in the store.                   *)
TenantRows(s) == {Only : x \in s.chats \cup s.callbacks}

(* The channel of chats, messages and contacts.                            *)
ChannelRows(s) == {Only : v \in s.chats}

(* Contacts of direct chats and senders of messages; the sender in the     *)
(* group has the id of the group here.                                     *)
ContactRows(s) == s.chats

GroupRows(s) == s.chats \cap {Chat}

MemberRows(s) == s.chats \cap {Chat}

ConversationRows(s) == s.chats

MessageRows(s) == s.messages

MediaRows(s) == s.media

TranscriptRows(s) == s.transcripts

(* Dirty record, leases, progress and idempotency keys of a chat.          *)
ProgressRows(s) == s.chats \cap {Chat}

CallbackRows(s) == s.callbacks

AttemptRows(s) == s.attempts

RowsOf(table, s) ==
    {<<table, id>> : id \in
        CASE table = "companies"                 -> TenantRows(s)
          [] table = "channel_accounts"          -> ChannelRows(s)
          [] table = "contacts"                  -> ContactRows(s)
          [] table = "groups"                    -> GroupRows(s)
          [] table = "group_members"             -> MemberRows(s)
          [] table = "conversations"             -> ConversationRows(s)
          [] table = "messages"                  -> MessageRows(s)
          [] table = "media_objects"             -> MediaRows(s)
          [] table = "transcripts"               -> TranscriptRows(s)
          [] table = "dirty_conversations"       -> ProgressRows(s)
          [] table = "consumer_callbacks"        -> CallbackRows(s)
          [] table = "webhook_delivery_attempts" -> AttemptRows(s)}

(* Mutant: the media rows are written before the messages they belong to.  *)
OrderMediaFirst ==
    <<"companies", "channel_accounts", "contacts", "groups", "group_members",
      "conversations", "media_objects", "messages", "transcripts",
      "dirty_conversations", "consumer_callbacks", "webhook_delivery_attempts">>

(* The order of persist_relational.                                        *)
Order ==
    <<"companies", "channel_accounts", "contacts", "groups", "group_members",
      "conversations", "messages", "media_objects", "transcripts",
      "dirty_conversations", "consumer_callbacks", "webhook_delivery_attempts">>

(* The foreign keys of the migrations.                                     *)
References(r) ==
    LET id == r[2] IN
    CASE r[1] = "companies" -> {}
      [] r[1] \in {"channel_accounts", "consumer_callbacks"} -> {<<"companies", Only>>}
      [] r[1] \in {"contacts", "groups"} -> {<<"channel_accounts", Only>>}
      [] r[1] = "group_members" -> {<<"groups", id>>, <<"contacts", id>>}
      [] r[1] = "conversations" ->
             {<<IF id = Chat THEN "groups" ELSE "contacts", id>>}
      [] r[1] = "messages" -> {<<"conversations", Chat>>, <<"contacts", Chat>>}
      [] r[1] = "media_objects" ->
             IF id = Entity THEN {<<"conversations", Entity>>}
             ELSE {<<"conversations", Chat>>, <<"messages", id>>}
      [] r[1] = "transcripts" -> {<<"messages", id>>, <<"media_objects", id>>}
      [] r[1] = "dirty_conversations" -> {<<"conversations", id>>}
      [] r[1] = "webhook_delivery_attempts" -> {<<"consumer_callbacks", id>>}

(* UNIQUE(conversation_id, conversation_seq) of messages.                  *)
NumberIsFree(i) ==
    \A j \in Ids \ {i} : <<"messages", j>> \in rows => seqOf[j] # seqOf[i]

(* idx_messages_external_dedupe: the id of WhatsApp, where there is one.   *)
WaIdIsFree(i, w) ==
    w # NoWa => \A j \in Ids \ {i} : <<"messages", j>> \in rows => rowWa[j] # w

Accepted(r) ==
    /\ References(r) \subseteq rows
    /\ r[1] = "messages" => NumberIsFree(r[2]) /\ WaIdIsFree(r[2], saved.wa[r[2]])

(* Rows of the snapshot that their table does not have yet, or has without *)
(* the id of WhatsApp.                                                     *)
Outdated(table) ==
    {r \in RowsOf(table, saved) :
        r \notin rows \/ (table = "messages" /\ rowWa[r[2]] # saved.wa[r[2]])}

(* The statements of the first table that is not up to date; those before  *)
(* it would change nothing.                                                *)
Current ==
    UNION {Outdated(Order[n]) : n \in {n \in 1..Len(Order) :
                                          \A k \in 1..(n - 1) : Outdated(Order[k]) = {}}}

-----------------------------------------------------------------------------
(* persist_snapshot_and_outbox for the newest state, then the tables.      *)
Save ==
    /\ changed /\ ~mirroring
    /\ changed' = FALSE
    /\ saved' = Sanitized(store)
    /\ mirroring' = TRUE
    /\ failed' = FALSE
    /\ UNCHANGED <<store, rows, rowWa, seqOf, nextId, outsideVars, counters>>

(* The snapshot transaction fails: logged, and the state is not offered    *)
(* again.                                                                  *)
SaveFails ==
    /\ changed /\ ~mirroring
    /\ faults < MaxFaults
    /\ faults' = faults + 1
    /\ changed' = FALSE
    /\ failed' = TRUE
    /\ UNCHANGED <<store, saved, mirroring, rows, rowWa, seqOf, nextId,
                   outsideVars, changes>>

(* One upsert; the maps are hash maps, so the rows of a table come in any  *)
(* order.                                                                  *)
Upsert ==
    /\ mirroring
    /\ \E r \in Current :
          /\ Accepted(r)
          /\ rows' = rows \cup {r}
          /\ rowWa' = IF r[1] = "messages"
                      THEN [rowWa EXCEPT ![r[2]] = saved.wa[r[2]]] ELSE rowWa
    /\ UNCHANGED <<store, saved, changed, mirroring, failed, seqOf, nextId,
                   outsideVars, counters>>

(* The pass ends: nothing is left to write, or a constraint refuses a row  *)
(* and the rest is given up.                                               *)
EndPass ==
    /\ mirroring
    /\ LET current == Current IN current = {} \/ \E r \in current : ~Accepted(r)
    /\ mirroring' = FALSE
    /\ UNCHANGED <<store, saved, changed, failed, rows, rowWa, seqOf, nextId,
                   outsideVars, counters>>

(* A statement of the pass fails.                                          *)
StatementFails ==
    /\ mirroring
    /\ faults < MaxFaults
    /\ faults' = faults + 1
    /\ mirroring' = FALSE
    /\ failed' = TRUE
    /\ UNCHANGED <<store, saved, changed, rows, rowWa, seqOf, nextId,
                   outsideVars, changes>>

(* The process dies and loads the snapshot; what was being sent, downloaded *)
(* or transcribed is forgotten, and nothing is written until the next      *)
(* change.                                                                 *)
Crash ==
    /\ faults < MaxFaults
    /\ faults' = faults + 1
    /\ store' = Sanitized(saved)
    /\ changed' = FALSE
    /\ mirroring' = FALSE
    /\ failed' = TRUE
    /\ sending' = {} /\ downloading' = {} /\ transcribing' = {} /\ delivering' = {}
    /\ UNCHANGED <<saved, rows, rowWa, seqOf, nextId, usedWa, changes>>

SnapshotTask == Save \/ Upsert \/ EndPass

MirrorNext ==
    \/ SendMessage
    \/ \E i \in Ids :
          \/ Accept(i)
          \/ \E w \in 1..MaxWa : RecordSent(i, w)
          \/ RecordMedia(i)
          \/ ReadAudio(i)
          \/ RecordTranscript(i)
          \/ Retention(i)
          \/ TempMediaExpires(i)
          \/ TranscriptExpires(i)
    \/ \E w \in 1..MaxWa : WhatsappMessage(w)
    \/ RecordPicture
    \/ UpsertCallback \/ RecordAttempt \/ DeleteCallback
    \/ SnapshotTask \/ SaveFails \/ StatementFails
    \/ Crash

(* Only the snapshot task is assumed to go on.                             *)
MirrorSpec == MirrorInit /\ [][MirrorNext]_mirrorVars /\ WF_mirrorVars(SnapshotTask)

-----------------------------------------------------------------------------
(* task.md:1926, "unique(conversation_id, conversation_seq)": a message    *)
(* never has the number of another row of the messages table.  The table   *)
(* keeps removed messages, and a crash takes last_seq back, but never      *)
(* below a row, because a row is written after its snapshot.               *)
SeqIsNeverTakenTwice ==
    \A i \in store.messages, j \in Ids :
        (i # j /\ <<"messages", j>> \in rows) => seqOf[i] # seqOf[j]

(* The row of x is neither in the table nor on its way there.              *)
NeverMirrored(table, x) ==
    <<table, x>> \notin rows \cup RowsOf(table, store)

(* What the store may hold that a constraint refuses: two messages with    *)
(* one id of WhatsApp; and a row that outlived one it refers to which was  *)
(* removed before it was mirrored: the media or the transcript of a        *)
(* message, the transcript of a media, an attempt of a callback.           *)
Refusable ==
    \/ \E i \in store.messages, j \in Ids :
          /\ i # j /\ store.wa[i] # NoWa
          /\ \/ j \in store.messages /\ store.wa[j] = store.wa[i]
             \/ <<"messages", j>> \in rows /\ rowWa[j] = store.wa[i]
    \/ \E i \in Ids \cap (store.media \cup store.transcripts) : NeverMirrored("messages", i)
    \/ \E i \in store.transcripts : NeverMirrored("media_objects", i)
    \/ \E b \in store.attempts : NeverMirrored("consumer_callbacks", b)

(* A row of the store that is not in its table.                            *)
Behind ==
    \E n \in 1..Len(Order) : ~(RowsOf(Order[n], Sanitized(store)) \subseteq rows)

(* Everything in the store reaches its table: the order of the tables, the *)
(* upserts of the rows a row refers to and the placeholder chats satisfy   *)
(* every foreign key.  The exceptions are a store that is Refusable, and a *)
(* pass that failed with no change after it.                               *)
MirrorCatchesUp == Behind ~> (~Behind \/ Refusable \/ (failed /\ ~changed))
=============================================================================
