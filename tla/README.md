# A TLA+ model of RustZap

RustZap is a multi-tenant WhatsApp gateway in Rust. It keeps one in-memory store
behind a single mutex, writes it to Postgres as a snapshot in the background,
distributes events over memory, Postgres or Kafka, and hands messages to backends
over HTTP, WebSocket and webhooks. These modules model the parts of it where several
actors meet, check them with TLC on small instances, and prove the most important
facts with TLAPS for every instance. Line numbers refer to the commit under `src/`;
`state.rs`, `db.rs` and so on are under `src/src/`.

## 1. Inventory

### 1.1 Components, their state and their operations

| Component | State | Operations | Model |
|---|---|---|---|
| Message store (`state.rs`) | `StoreInner`: conversations with `last_seq`, messages by id and by conversation, events | record a message, patch a conversation, cursor reads | `DirtyConversations`, `ConsumerLoop` |
| Dirty feed (`state.rs:6485-6632`, `8793-8839`) | `dirty`, `dirty_leases`, `consumer_state` | `mark_dirty_inner`, `list_dirty`, `ack_dirty` | `DirtyConversations`, `ConsumerLoop` |
| Snapshot (`state.rs:298-414`, `945-957`, `1345-1377`; `db.rs:552-622`) | a watch channel, the `metadata_snapshots` row | `persist_locked`, the snapshot task, `load_snapshot` | a part of nearly every module |
| Relational tables (`db.rs:624-1679`, `migrations/`) | one row per record, foreign and unique keys | `persist_relational` | `RelationalMirror` |
| Outbox and Kafka publisher (`db.rs:158-341`, `eventbus.rs:446-584`) | `event_outbox` rows with status, attempts and lock; `kafka_deadletters` | claim, send, mark, dead-letter, replay | `EventPipeline` |
| Kafka workers and inbox (`workers.rs`, `eventbus.rs:1070-1132`, `db.rs:343-407`) | consumer position, committed offset, `event_inbox` | fetch, handle, record, commit | `EventPipeline` |
| Outbound send (`state.rs:1940-2075`, `2331-2456`, `3916-3982`, `6207-6237`) | `idempotency`, message status and WhatsApp id, the drainer's row | prepare, drain, dispatch, record | `OutboundDelivery` |
| Receipts (`state.rs:4522-4603`) | message status | apply a receipt | `OutboundDelivery` |
| Channel lifecycle (`state.rs:1499-1900`, `2554-2969`; `whatsapp.rs`) | channel status and QR, running client, reconnect intent, session files, sleeping tasks | create, connect, QR, connected, disconnect, logged out, wipe, reconnect | `ChannelLifecycle` |
| Media (`state.rs:4759-5976`, `media.rs`, `storage.rs`) | media records, staging files, object store, in-flight uploads | upload, download, save, delete, temporary clean-up | `MediaLifecycle` |
| Retention (`state.rs:5854-6075`) | - | remove old messages, media, transcripts | `MediaLifecycle`, `Transcription`, `OutboundDelivery`, `RelationalMirror` |
| Transcription (`state.rs:6119-6483`, `transcription.rs`) | transcripts and their text | request, work, fail, complete | `Transcription` |
| Webhooks (`state.rs:6659-7049`, `secrets.rs`) | callbacks, attempts per event | change a callback, build jobs, post, retry | `WebhookDelivery` |
| WebSocket and in-memory dispatcher (`routes.rs:3082-3210`, `state.rs:979-1123`) | a broadcast channel of 1024 slots, sessions | push, subscribe, receive, lag, dispatch | `EventStream` |
| Rate limiter (`rate_limit.rs`) | counters per key and minute | check | `RateLimiter` |
| Contacts, groups, enrichment (`state.rs:3336-3903`, `7731-8282`; `whatsapp.rs:721-911`) | names under several ids per person, subjects, members | merge events, sends and lookups | `ContactProfiles` |
| Privacy (`state.rs:7051-7233`) | - | export, erase | the erase, in `ContactProfiles` |
| HTTP routes, authorization, configuration | none of their own | checks and wiring | not modelled |

### 1.2 How they interact

An HTTP handler, a WhatsApp callback or a worker takes the store mutex, changes the
store, pushes an event and calls `persist_locked`, which publishes the new store to a
watch channel. A background task writes the newest store it sees, together with an
outbox row for each event that has none, in one Postgres transaction, and then the
relational tables row by row; the operation has answered long before that. With
`EVENT_BUS=kafka` a publisher task claims rows and sends them, and a worker per topic
consumes them behind the inbox; with `EVENT_BUS=postgres` a drainer task claims the
rows and runs the handlers itself; in memory a dispatcher reads them from the
broadcast channel that also feeds the WebSocket sessions. The handlers change the store
again, often around an `await` (WhatsApp, Groq, the object store, a webhook endpoint)
during which the mutex is free. Backends poll the dirty feed, read after their cursor
and acknowledge; they survive a restart of RustZap and RustZap survives theirs. A
restart loads the snapshot; the outbox, the inbox, the tables, Kafka, the object store,
the session files and WhatsApp are as they were.

### 1.3 What is hard, and what correctness means

- **Answer before write.** Everything an operation did can be forgotten by a crash,
  but not by the parties that saw the answer. *Correct:* what left the process
  (Kafka, WhatsApp, a table row) is in the snapshot; keys and sequence numbers never
  mean two things.
- **Several consumers, one dirty record.** *Correct:* nobody's acknowledgement clears
  another's work; a lease is good for as long as there is work; every message reaches
  every registered backend.
- **At-least-once twice over** (outbox to Kafka, Kafka to handler). *Correct:* nothing
  persisted is lost, nothing runs again without a fault, the commit follows the inbox.
- **A send that cannot be undone.** *Correct:* one message per idempotency key,
  repeated only after a crash or a failed update; every request gets an outcome.
- **One client per channel.** Operator, timer and bootstrap all connect, a logout wipes
  the files of a session later. *Correct:* never two clients, no wipe of a living
  pairing, a dropped channel comes back.
- **Bytes and records without a common lock.** *Correct:* a record has its bytes, bytes
  have a record, and a key stores one media.
- **Work that waits while its object changes** (transcription, webhook jobs, profile
  lookups). *Correct:* it ends, and applying its result late breaks nothing.
- **Bounded and lossy channels.** *Correct:* loss is announced, and what is still in
  the channel is handled.

`PROJECT.json` lists the hazards line by line with the properties that watch them.

## 2. The modules

The tenant is fixed everywhere: every key of the maps involved starts with
`(project_id, company_id)` and no modelled operation crosses it. An operation that
holds the mutex from its first read to its last write is one action; an operation
with an `await` in the middle is one action per critical section. Times (leases, locks,
back-off, QR life, ages) are "some time later".

**`DirtyConversations`** - the feed. `lastSeq`, `dirty`, `leases` and `consumerState`
are the maps of the source, `durable` the snapshot row. `ListDirty(c, S)` returns any
nonempty part of the listable conversations (the source walks a hash map and stops at
the limit), leases them and registers the consumer; `AckDirty` takes *any* sequence
number, as the source does. `RecordMessage`, `UpdateMessage` and `PatchConversation`
stand for everything that calls `mark_dirty_inner`: they differ only in the number
they pass. Tokens are numbered per key and expire in order. `joined` is history.

**`ConsumerLoop`** - extends it with the messages, with backends that follow
README.md:1411-1417 (lease, read a page after the cursor, persist, acknowledge, poll
again; external, with a durable cursor), and with careless consumers of the same
tenant that read nothing and acknowledge any number. Its steps on the feed's variables
are the actions of `DirtyConversations`.

**`EventPipeline`** - Postgres and Kafka mode, one partition, one consumer group.
`outbox`, `inbox`, `deadletters`, `topic`, `committed` are durable; `store`, `batch`,
`publisher`, `consumer`, `position` die with the process. Each Postgres statement is a
step that can fail the way the source handles it (most errors are only logged).
`GiveUp` is the worker's loop after an error: log, sleep, fetch the *next* message.

**`EventQueue`** - the abstract specification of the pipeline: a durable at-least-once
queue with four variables. An event is saved before its handler runs, the handler runs
only until the event is done, it is done only after a run, and nothing is taken back.
`EventPipeline` instantiates it with `saved <- snapshot.events`, `done <- inbox` and
`parked <-` the dead-lettered events, and `ImplementsQueue` checks the refinement.

**`OutboundDelivery`** - `EVENT_BUS=postgres`, one channel. `Prepare` is the idempotent
command with a new key (a known key returns early). `Begin`, `Accepted`/`SendFails`,
`Record` and `MarkRow` are the critical sections and awaits of one drained row.
A send that times out may or may not have reached WhatsApp. `ApplyRetention` removes
a message while its key and its row stay; `Missing` is the drainer's retry and
dead-letter path. `wire` is what WhatsApp accepted, `request` is history.

**`IdempotentSend`** - the abstract specification of the send command, four variables
without store, outbox or drainer: a key is bound to one message for good and no two
keys to the same one, only a bound message goes out, once and once more per fault, and
never after its request was settled. `OutboundDelivery` instantiates it with
`bound <- snapshot.idempotency`, `sends <-` the count on the wire, `settled <-` the rows
published or dead-lettered and `faults <-` crashes and failed outbox updates.

**`ChannelLifecycle`** - one channel. `connect_channel` runs for three callers (operator,
timer, bootstrap) and is one action per lock it takes: its checks, the status, the reset
flag, the stop and the wipe of a reset, the QR entry, the status again, the intent, the
start under the lifecycle lock, the building of the client. `disconnect_channel` (intent,
client, status) and the delayed wipe after a logout (`is_desired`, `stop_channel`,
`wipe_session_files`, `state.rs:2630-2634`) are split in the same way, so a connect can
fall between the wipe's look at the intent and the wipe. The client reports QR codes,
connection, disconnection, logout and connect failures; its task may die. `intent` is
memory only, the session files survive. The history variables are `gaveUp` (the last
connect ended without a client, or its client was stopped by a task that had decided to
before), `forgotten` (the mark of a logout was lost) and the `raced` flag of a client
whose start overlapped a wipe that was already decided.

**`MediaLifecycle`** - uploads of one key, inbound media and profile pictures pass
through staging, the object store and the record, one step per await; save, delete and
the retention run do the same backwards. A call on the object store may fail with or
without its effect, and a request may be dropped at any await, the deletes included
(`routes.rs:2333-2341`). `raced` and `leaked` are history: media on which two calls
overlapped, and media a fault hit between bytes and record.

**`Transcription`** - requests, one worker, and what retention, deletion, a policy
change or a crash do between its steps. `repeated`, `stranded` and `raced` are history.

**`WebhookDelivery`** - two or more callbacks, a list of jobs copied under the lock,
posts without it, attempts, back-off, restarts with another master key. The list is
any order of the pending jobs that keeps the jobs of a callback together and in the
order of the events (the source walks a hash map of callbacks). The first attempt does
not look at the retry limit, so `MaxAttempts` is 1 when `WEBHOOK_MAX_RETRIES` is 0.

**`EventStream`** - the broadcast channel with its capacity, WebSocket sessions, the
in-memory dispatcher, and `push_event`, which broadcasts before it stores.

**`RateLimiter`** - `check` as `send_message` calls it, twice in a row.

**`ContactProfiles`** - one person with a phone JID and a LID, one group. The chat of a
message is one of the two addresses, its sender may be that address with a device number
(`Devices`), an id of its own to the code. A record names the canonical id and the LID it
was linked to, and its aliases are those. A lookup is an action that starts it, with all
it captured, and one that applies its answer. `PrepareSendMessage` is the API send, whose
message has no sender and shows the contact's name. `snapshot` is what the snapshot task
wrote last, and `Restart` loads it, however old. `erased` is history: the ids the running
privacy request has reached. Messages, requests and answers about the group share a
budget; erases, answers to lookups and restarts are free. Phone, picture and business
fields are written beside the name and left out.

**`RelationalMirror`** - the store as far as keys of tables depend on it, and the pass
of `persist_relational` with one upsert per step, in the order of its calls. A row
without an effect is skipped. A transcription reads message and media, and writes its
transcript later whether they are still there or not; the clean-up of temporary media
removes a media and leaves message and transcript, and transcripts expire alone.
`References`, `NumberIsFree` and `WaIdIsFree` are the constraints of the migrations;
`Refusable` names the states of the store they refuse: two messages with one WhatsApp id,
and a record that refers to one removed before it was mirrored (the media or transcript
of a message, the transcript of a media, an attempt of a callback).

The modules whose names end in `Proofs` hold the theorems (section 5). The `MC`
modules are the instances; the constants are in the `.cfg` files. No symmetry is used:
nearly every run has a temporal property.

## 3. The runs

Most runs set `CHECK_DEADLOCK FALSE`: every budget is finite, and a system without
input may stop. `channel` and `contacts` keep the check.

### Passing

| Run | Bounds | What it shows |
|---|---|---|
| `loop` | 1 conversation, 1 backend and 1 careless consumer, 2 messages, pages of 1, every acknowledgement 0..3, 6 leases (2 of the careless one), 1 restart, 1 expiry, 1 crash | `PendingWorkStaysListed`: a message recorded after a consumer registered stays in the feed until *that* consumer has passed it. `LeaseCoversPendingWork`: an unexpired token is never refused because somebody else cleared the record. `CursorCoversStoredMessages` and `EveryMessageReachesConsumer`, until a crash of RustZap. |
| `pipeline` | 2 events, 2 attempts, any 2 of: crash, Kafka error, failed publisher or consumer statement, handler error, replay | `PublishedIsPersisted`, `HandlerRunsOncePerFault`, `CommittedIsSettled` and `PersistedIsSettled` (unless a consumer statement failed), and `ImplementsQueue`. |
| `outbound` | 2 keys, 2 messages, 3 sends, 1 receipt, any 2 of: crash, failed update, failed send, lost connection, removal | `RequestedKeyIsKnown`, `KeySendsOneMessage`, `SentOncePerFault`, `ImplementsSend`, and `OutcomeIsRecorded` as long as the process lives. |
| `channel` | 2 operator calls, 3 faults | `OneClient`, `DeadSessionIsFlagged`, `ConnectedSessionIsSaved`, `DroppedChannelComesBack`. |
| `media` | 2 uploads of one key with 2 bodies, 1 inbound media, 1 picture, 2 entities, 2 operations, 1 fault | `InflightHasOneOwner`, `KeyStoresOneMedia`, `RecordHasBytes`, `NoBytesLeftBehind`, `RemovedMessageLeavesNoMedia`, `UploadIsAnswered`. |
| `transcription` | 1 message, 3 requests, 3 operations, 2 faults | `OpenHasDelivery`, `NoOrphanTranscript`, `DeniedTextIsNotStored`, `CompletedIsKept`, `RequestedIsSettled`. |
| `webhook` | 2 events, 2 callbacks, 2 attempts, 2 disturbances | `ReceivedOncePerFault`, `OwedIsReceived`; `WebhookTypeOK` bounds the attempts. |
| `stream` | 1 session, 1 slot, 3 events, 1 connection, 1 crash | `NoSilentGap`, `WorkIsHandled`. |
| `contacts` | 1 name, 1 subject, 1 sender id with a device number, 2 inputs (messages, sends, lookups on request, answers about the group), 1 lookup at a time, 1 snapshot written | `ErasedStaysErased`, `GroupChatShowsSubject`. |
| `mirror` | 3 messages, 1 WhatsApp id, 4 changes, 1 fault | `SeqIsNeverTakenTwice`, `MirrorCatchesUp`. |

The bounds are the least at which the cases differ: a consumer to get in the backend's
way with an acknowledgement below, at and above `last_seq`; a page shorter than the
backlog; two events, so that one can be overtaken and one commit can cover another; as
many attempts as make a retry and a dead letter both happen; two messages of one key,
which only a crash can produce; two faults, so that each can hit the recovery from
another; three events against one slot, so that a reader falls behind and catches up;
three changes between two passes and one after them. Conversations never interact, nor
do partitions, so one of each is enough. Two larger instances were also
checked without a violation: `pipeline` with three faults (1.7 million states) and
`mirror` with two WhatsApp ids (0.67 million).

Every passing property also has a mutant: an operator beside the definition it replaces,
with a plausible slip, under which TLC finds the property violated.

### Violations

| Run | Property | What happens |
|---|---|---|
| `pipeline_effects` | `CommittedEffectsSurvive` | Inbox row and offset are durable before the handler's effect; a crash in between loses it for good. |
| `rate_limit` | `LimitPerMinute` | A request that waited for the lock across a minute boundary sets a newer bucket back and counts from zero. |

The quotations are under `findings` in `PROJECT.json`.

### Other places where the code and the repository's words part

These are behaviours of the models. A property that would be violated is stated with
the exception named, so that what remains is checked.

- *Dirty feed.* A receipt, outcome or transcript for an acknowledged message sets
  `max_seq` below everybody's progress, and `list_dirty` skips it for all
  (`state.rs:6511`; docs/architecture.md:14, "polling is always recoverable"). A crash
  forgets a message a backend has read, and the next one gets its number, below the
  cursor (`state.rs:951`; README.md:109-110).
- *Pipeline.* A message whose inbox statement failed is covered by the next commit
  (`workers.rs:107`; docs/task-checks/01-kafka-eventbus.md:45). A worker's dead letter
  is replayed under an id its inbox already has, and dropped (`db.rs:510`; task.md:128,
  README.md:626).
- *Outbound.* Only two statuses stop a second send, and a receipt moves the message out
  of them (`state.rs:6220`; task.md:1860, 1868). A repeated `delivered` takes back a
  `read` (`state.rs:4533`; task.md:1872).
- *Channel.* A QR code that still looks fresh makes `connect_channel` return without a
  client and without a new timer; a disconnect or a delayed wipe that a connect overtook
  stops the new client all the same, and nothing restarts it; such a wipe can also
  remove the files of the new pairing (`state.rs:2630-2634`, against the comment at
  `state.rs:2628`, "leave it alone"), which are then missing at the next restart;
  `has_connected` is forgotten by a restart, so a channel that then drops before it
  reconnects waits for the operator.
- *Media.* `delete_media` marks the record last: a request dropped, or an error after the
  object is gone, leaves a temp or permanent record without bytes. A second save for another entity leaves the first permanent object behind.
  The temporary clean-up can remove the bytes of a media that was saved meanwhile.
- *Transcription.* A repeated raw inbound event resets a completed transcript
  (task.md:1866); a crash can leave one `processing` with nothing on its way, which
  `POST .../transcribe` returns as it is (README.md:1351).
- *Webhooks.* A secret that cannot be decrypted ends every cycle at its job, and
  callbacks behind it get nothing (`state.rs:6854`; task.md:1821).
- *Stream.* A session that connects and subscribes between the halves of `push_event`
  misses the event. The in-memory dispatcher only logs the work it skipped.
- *Rate limiter.* The limit per conversation is also applied to the company's, the
  project's, the API key's and the address's counters (`routes.rs:1725-1736`), and a
  request the second check refuses stays counted by the first.
- *Contacts.* A message sent through the API shows the contact's name and has no sender
  id (`state.rs:7493`), by which alone the erase finds messages, so it keeps the name
  (docs/task-checks/13-privacy-retention.md:22, 34; README.md:1038, "redacts contact and
  related display fields"). An erase changes the record it names, not the alias's
  record, the names of group members, `profile_picture_media_id` or `canonical_jid`; a
  lookup begun before the erase brings the name back
  (docs/task-checks/13-privacy-retention.md:34), and so does a restart from a snapshot
  written before it (`state.rs:945-957`, `1370-1371`). A message whose sender id has a
  device number is redacted only when that id is the one erased or linked to it
  (`state.rs:7179-7210`). A late group profile overwrites a newer subject; members are
  never removed.
- *Tables.* Rows are never deleted, so an erase or retention does not reach them. Two
  messages with one WhatsApp id (an echo that overtakes the record of its own send, a
  message received again after retention), media or a transcript of a message that was
  removed before it was mirrored, a transcript of such a media, and an attempt of a
  callback deleted likewise are refused by a constraint, and every later pass stops there
  (task.md:1866, 1871). A failed write
  waits for the next change of the store (`state.rs:951-955`).

## 4. Fairness

Weak fairness of tasks that are loops on the tokio runtime, and of time passing;
never of input, of a fault or of an operator.

- `ConsumerLoop`: each backend's own loop.
- `EventPipeline`: the publisher, the worker, a lock running out. Not the snapshot: a
  failed one is only tried again after the next change of the store.
- `OutboundDelivery`: the drainer, including the end of a send, which its 15 or 30
  second time-out guarantees, and a lock running out.
- `ChannelLifecycle`: each caller's progress through `connect_channel`, the rest of a
  disconnect, the report of a dead client task, the reconnect timer, the delayed wipe. Not the client's own events.
- `MediaLifecycle`: the steps of an upload; the client's body ends or breaks off.
- `Transcription`: the worker (the Groq call has a time-out), the start on each queued
  request, and the snapshot, without which a request never becomes durable.
- `WebhookDelivery`: the worker loop and a retry falling due.
- `EventStream`: the dispatcher. `RelationalMirror`: the snapshot task.
- `ContactProfiles` and `RateLimiter` have safety properties only.

## 5. What is proved

Each theorem holds for every value of the constants that satisfies the named
assumption of its module: bounds and acknowledged numbers are naturals, a page, a
channel and an outbox retry limit are not empty, the callbacks are finitely many, the
receipt names are those `receipt_type_name` gives, empty bodies are bodies, backends may
acknowledge any number a message can have (`Seqs \subseteq AckSeqs`), upload, inbound and
picture ids differ, and the marker strings of the models ("none", "object", "number")
are not among the entities, bodies, uploads or names. TLC evaluates the assumptions in
every run.

Two proof modules hold the theorems of two components each. They extend both, which is
why `WebhookDelivery` and `RelationalMirror` have names of their own for what every
module has (`WebhookSpec`, `MirrorSpec`, `WebhookTypeOK`, ...).

A proof module has the shape: definitions of the parts of the inductive invariant,
lemmas on the operators and the types, one lemma or one step per action, and then the
theorems, each of which follows from the invariant. All invariants were checked with TLC
on the instances of section 3 before they were proved.

| Module | Theorem | States |
|---|---|---|
| `DirtyConversationsProofs` | `TypeCorrect`, `PendingWorkIsNeverLost`, `LeasesCoverPendingWork` | `TypeOK`, `PendingWorkStaysListed`, `LeaseCoversPendingWork` |
| | `CursorsSkipNothing`, `LoopNeverLosesWork` | `CursorCoversStoredMessages`, and the two above for the loop |
| | `LoopImplementsFeed` | `LoopSpec => Spec`: the composition implements the feed |
| `EventPipelineProofs` | `PipelineTypeCorrect`, `PublishedEventsArePersisted`, `CommittedMessagesAreSettled`, `HandlersRunOncePerFault` | `TypeOK`, `PublishedIsPersisted`, `CommittedIsSettled`, `HandlerRunsOncePerFault` |
| | `PipelineImplementsQueue` | `ImplementsQueue`: the refinement of `EventQueue` |
| `OutboundDeliveryProofs` | `TypeCorrect`, `KeysStayKnown`, `OneMessagePerKey`, `MessagesAreSentOncePerFault` | `TypeOK`, `RequestedKeyIsKnown`, `KeySendsOneMessage`, `SentOncePerFault` |
| | `OutboundImplementsSend` | `ImplementsSend`: the refinement of `IdempotentSend` |
| `ChannelLifecycleProofs` | `NeverTwoClients`, `DeadSessionsStayFlagged`, `ConnectedSessionsAreSaved` | `OneClient`, `DeadSessionIsFlagged`, `ConnectedSessionIsSaved` |
| `MediaLifecycleProofs` | `InflightIsOwnedByOne`, `KeysAreSpentOncePerCrash`, `RecordsKeepTheirBytes`, `BytesAreCleanedUp`, `RetentionTakesTheMedia` | `InflightHasOneOwner`, `KeyStoresOneMedia`, `RecordHasBytes`, `NoBytesLeftBehind`, `RemovedMessageLeavesNoMedia` |
| `TranscriptionProofs` | `OpenTranscriptsHaveADelivery`, `NoTranscriptIsOrphaned`, `DeniedTextIsNeverStored`, `CompletedTranscriptsAreKept` | `OpenHasDelivery`, `NoOrphanTranscript`, `DeniedTextIsNotStored`, `CompletedIsKept` (an action property) |
| `EventDeliveryProofs` | `NoGapGoesUntold` | `NoSilentGap` of `EventStream` |
| | `WebhookTypeCorrect`, `WebhookReceivedOncePerFault` | `WebhookTypeOK`, `ReceivedOncePerFault` of `WebhookDelivery` |
| `StoredRecordsProofs` | `ErasedNamesStayAway`, `GroupChatsShowTheirSubject` | `ErasedStaysErased`, `GroupChatShowsSubject` of `ContactProfiles` |
| | `MirrorNumbers` | `SeqIsNeverTakenTwice` of `RelationalMirror` |

Hardly any of these properties is inductive as it stands. What carries them:

- *Dirty feed.* An acknowledgement may clear the record only because the lease it
  presents shows that its holder was behind `max_seq`, which is why a message that came
  in meanwhile is not lost; and a restart is harmless only if the snapshot was itself a
  good store. `SafeStore` states `max_seq <= last_seq`, lease coverage and pending work
  together, of the memory *and* of the snapshot. For the loop, `LoopTypeOK`
  adds that each log is as long as its `last_seq`, in memory and in the snapshot, and
  `CursorsCover` that no cursor is beyond its log.
- *Pipeline.* What is in Kafka went through an outbox row, and rows are written in the
  transaction of the snapshot that holds their event (`RowsPersisted`,
  `InFlightHasRow`). What the offset covers is in the inbox because the consumer goes
  through the partition in order with one message in hand (`InHand`,
  `FetchedIsRecorded`); that message is also the only one whose handler can have run
  without an inbox row, which bounds the runs (`RunsAreRecorded`). With these every step
  maps to one step of `EventQueue` or to none.
- *Outbound.* What was sent, or is being worked on, has an outbox row; a row comes from
  a request that memory and snapshot hold; each of the two has the key of every request
  it holds (`Keyed`). It does not need the messages, so retention cannot break it. That
  a message is sent once per fault is a count: a row still to be drained whose message
  is on the wire has been paid for by a fault (`SendsBounded`). For the refinement the
  binding of a key is the one in the snapshot: it is never changed because the store
  agrees with it (`SnapshotKeysKept`), and never shared because a key is that of the
  request of its message (`KeyedByRequest`).
- *Channel.* A start in progress is alone and no client runs beside it (`StartIsAlone`).
  Files that are attached hold the credentials that were read from them
  (`OpenedMatches`, `ClientMatches`). A start that overlaps a decided wipe is marked, a
  client that comes up between the stop and the wipe came from such a start, and only the
  marked can have lost their files (`RacedOrAttached`). Once a connect is past its look
  at the status, or a client runs, only the flag marks a dead session (`DeadIsMarked`).
- *Media.* `Sound(m)` says, for each point of an upload, a save, a delete and a
  retention run, which objects of the media exist at least (`Held`) and at most
  (`Whole`), and that at most one of the three works on it; the object a record's status
  points at (`BytesKey`) is there unless a call that ended early took it (`leaked`). It speaks of one media, so a
  step on another keeps it. `MessageSound` ties a message to its media through a
  retention run. The key is an argument of its own: while an upload works under the key
  the key has no record, and only a crash loses one (`OneOwner`, `KeysSpent`).
- *Transcription.* While the worker waits for the network, the message in its hands has
  no finished transcript, is there or is marked as raced, and the policy read for it
  still holds (`InHand`).
- *Stream.* `Gapless` speaks of events not yet stored and of sessions not yet
  subscribed, which `NoSilentGap` leaves out.
- *Webhooks.* Attempts may have been recorded since the list of jobs was built. What
  makes it safe is that no two jobs of a cycle are of one callback and event, and none
  that is left is of a pair with a success (`JobsAreOpen`). The one request beyond the
  number of faults is one whose success is recorded or in the worker's hands
  (`Answered`).
- *Tables.* Numbers are injective on the messages of the store, the snapshot and the
  table together, and `saved.lastSeq` is not below any row, so a crash that takes
  `last_seq` back to the snapshot cannot give a row's number away (`NumberInv`).
- *Contacts.* A request erases the ids of a person one by one, so `ErasedIsClean` speaks
  of the ids erased so far; it needs that whatever conversation shows a name belongs to an
  id with a record (`Owned`) and that a lookup begun after the erase carries no name
  (`LookupsClean`). A restart is covered because the snapshot satisfies the same
  condition for the erases *it* holds (`StoreOK`, of the store and of the snapshot).

Two properties were made stronger than they were first checked, because the proofs gave
more: `DeadSessionIsFlagged` holds during a connect too, and
`RemovedMessageLeavesNoMedia` also says that the bytes are gone. One was wrong outside
the instance TLC had been given: `WebhookTypeOK` bounded the attempts by
the retry limit, which fails when the limit is 0; it now uses `MaxAttempts`.

Only model-checked is liveness (`EveryMessageReachesConsumer`, `PersistedIsSettled`,
`OutcomeIsRecorded`, `DroppedChannelComesBack`, `UploadIsAnswered`,
`RequestedIsSettled`, `OwedIsReceived`, `WorkIsHandled`, `MirrorCatchesUp`): fairness
and ENABLED are outside what the prover does. Every invariant and every action property
of a passing run, and both refinements, are proved; `TypeOK` of `OutboundDelivery` is
proved and no run repeats it.

## 6. Plan

1. Retention and message flags in `ConsumerLoop`; a receipt that overtakes its message
   behind `EventPipeline`.
2. Edits, revokes and reactions as handlers of raw WhatsApp events.

## 7. Not modelled, and why

- Requests, authorization, OpenAPI, configuration: stateless checks and wiring.
- Payload encoding, metrics, logging, the copy of a dead letter on a Kafka topic.
- Several RustZap processes on one database: the store is one process's memory and
  nothing in the source reconciles two.
- Kafka without Postgres (`spawn_kafka_publisher`): best effort by design, no outbox.
- The normalisation of WhatsApp events: data conversion; their handlers are modelled
  where they change state that others read.
- `reset_dev`, which empties the store of a development server, and the functions
  without a caller (`insert_event_outbox`, `cleanup_staging_files`,
  `create_transcript`).
- What a recursive definition computes for every input, and RECURSIVE operators, are
  out of the prover's reach; the modules use neither.
