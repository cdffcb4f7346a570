--------------------------- MODULE EventPipeline ---------------------------
(***************************************************************************)
(* The durable event pipeline of RustZap in Postgres + Kafka mode          *)
(* (src/src/db.rs, eventbus.rs, workers.rs): an operation pushes an event  *)
(* into the store; the snapshot task writes the store and its outbox rows  *)
(* in one transaction; the outbox publisher claims rows and sends them to  *)
(* Kafka; a Kafka worker consumes them behind the idempotent inbox, runs   *)
(* the handler, and dead-letters what the handler refuses; an operator can *)
(* replay a dead letter.                                                   *)
(*                                                                         *)
(* All events share one partition key (one conversation) and one consumer  *)
(* group.  There is one RustZap process, hence one publisher task and one  *)
(* consumer task; the process can die between any two steps.  Postgres     *)
(* statements and Kafka sends can fail.  Back-off times and the 30 second  *)
(* row lock are abstracted to "some time later".                           *)
(***************************************************************************)
EXTENDS Naturals, Sequences, FiniteSets
LOCAL INSTANCE Functions

CONSTANTS
    MaxEvents,         \* bound: events pushed
    RetryMaxAttempts,  \* KAFKA_RETRY_MAX_ATTEMPTS
    MaxCrashes,        \* bound: process crashes
    MaxKafkaErrors,    \* bound: Kafka sends that return an error
    MaxOutboxErrors,   \* bound: publisher statements that fail
    MaxInboxErrors,    \* bound: consumer statements or commits that fail
    MaxRefusals,       \* bound: handler runs that return an error
    MaxReplays,        \* bound: dead letters replayed
    MaxFaults          \* bound: all of these together

Events == 1..MaxEvents

ASSUME PipelineAssumption ==
    /\ MaxEvents \in Nat
    /\ RetryMaxAttempts \in Nat \ {0}
    /\ MaxCrashes \in Nat /\ MaxKafkaErrors \in Nat /\ MaxOutboxErrors \in Nat
    /\ MaxInboxErrors \in Nat /\ MaxRefusals \in Nat /\ MaxReplays \in Nat
    /\ MaxFaults \in Nat

VARIABLES
    unencodable,  \* events encode_event_for_kafka refuses, fixed at the start
    pushed,       \* events pushed so far: event n is the n-th
    store,        \* memory: store.events and the effects handlers had on it
    snapshot,     \* the metadata_snapshots row
    outbox,       \* event_outbox rows
    batch,        \* claimed rows the publisher has not dealt with
    publisher,    \* where the publisher is with a row of the batch
    topic,        \* the Kafka partition
    position,     \* next offset the consumer will fetch
    committed,    \* committed offset of the consumer group
    consumer,     \* where the worker is with the message it fetched
    inbox,        \* event_inbox rows
    deadletters,  \* kafka_deadletters rows not replayed yet, per event
    runs,         \* history: handler runs per event
    buried,       \* history: events that got a kafka_deadletters row
    faults        \* faults so far, per kind

pushVars == <<unencodable, pushed>>
pubVars == <<batch, publisher>>
consVars == <<position, committed, consumer, inbox, runs>>
vars == <<pushVars, store, snapshot, outbox, batch, publisher, topic, position,
          committed, consumer, inbox, deadletters, runs, buried, faults>>

RowStatus == {"absent", "queued", "publishing", "published", "failed", "deadlettered"}
Idle == [step |-> "idle", event |-> 0]
Polling == [step |-> "poll", offset |-> 0]
FaultKinds == {"crash", "kafka", "outbox", "inbox", "refusal", "replay"}

Init ==
    /\ unencodable \in SUBSET Events
    /\ pushed = 0
    /\ store = [events |-> {}, effects |-> {}]
    /\ snapshot = store
    /\ outbox = [e \in Events |-> [status |-> "absent", attempts |-> 0, locked |-> FALSE]]
    /\ batch = {}
    /\ publisher = Idle
    /\ topic = <<>>
    /\ position = 1
    /\ committed = 1
    /\ consumer = Polling
    /\ inbox = {}
    /\ deadletters = [e \in Events |-> 0]
    /\ runs = [e \in Events |-> 0]
    /\ buried = {}
    /\ faults = [k \in FaultKinds |-> 0]

(* A fault, or an operator's replay, uses up one of its kind's budget.     *)
Fault(k, max) ==
    /\ faults[k] < max
    /\ SumFunction(faults) < MaxFaults
    /\ faults' = [faults EXCEPT ![k] = @ + 1]

-----------------------------------------------------------------------------
(* push_event_inner under the store lock.                                  *)
Push ==
    /\ pushed < MaxEvents
    /\ pushed' = pushed + 1
    /\ store' = [store EXCEPT !.events = @ \cup {pushed + 1}]
    /\ UNCHANGED <<unencodable, snapshot, outbox, pubVars, topic, consVars, deadletters,
                   buried, faults>>

(* Mutant: rows are written for the snapshot that is about to be replaced, *)
(* so an event can be in the snapshot without a row.                       *)
PersistMissesNewRows ==
    /\ snapshot # store
    /\ snapshot' = store
    /\ outbox' = [e \in Events |-> IF e \in snapshot.events /\ outbox[e].status = "absent"
                                   THEN [outbox[e] EXCEPT !.status = "queued"] ELSE outbox[e]]
    /\ UNCHANGED <<pushVars, store, pubVars, topic, consVars, deadletters,
                   buried, faults>>

(* Mutant: the rows and the snapshot are two transactions.                 *)
PersistInTwoTransactions ==
    /\ snapshot # store
    /\ \/ /\ snapshot' = store
          /\ UNCHANGED outbox
       \/ /\ outbox' = [e \in Events |-> IF e \in store.events /\ outbox[e].status = "absent"
                                   THEN [outbox[e] EXCEPT !.status = "queued"] ELSE outbox[e]]
          /\ UNCHANGED snapshot
    /\ UNCHANGED <<pushVars, store, pubVars, topic, consVars, deadletters,
                   buried, faults>>

(* persist_snapshot_and_outbox: the snapshot and, for each of its events,  *)
(* an outbox row unless there is one already.                              *)
Persist ==
    /\ snapshot # store
    /\ snapshot' = store
    /\ outbox' = [e \in Events |-> IF e \in store.events /\ outbox[e].status = "absent"
                                   THEN [outbox[e] EXCEPT !.status = "queued"] ELSE outbox[e]]
    /\ UNCHANGED <<pushVars, store, pubVars, topic, consVars, deadletters,
                   buried, faults>>

-----------------------------------------------------------------------------
(* claim_event_outbox_batch: rows that wait, or whose publisher let the    *)
(* lock run out.                                                           *)
Claimable(e) ==
    /\ outbox[e].status \in {"queued", "failed", "publishing"}
    /\ ~outbox[e].locked

(* spawn_outbox_publisher claims again when its batch is done.  RETURNING  *)
(* gives the rows of a batch in no particular order.                       *)
Claim(B) ==
    /\ batch = {} /\ publisher = Idle
    /\ B # {} /\ \A e \in B : Claimable(e)
    /\ outbox' = [e \in Events |-> IF e \in B
                     THEN [outbox[e] EXCEPT !.status = "publishing", !.locked = TRUE]
                     ELSE outbox[e]]
    /\ batch' = {[event |-> e, attempts |-> outbox[e].attempts] : e \in B}
    /\ UNCHANGED <<pushVars, store, snapshot, publisher, topic, consVars, deadletters,
                   buried, faults>>

(* locked_until passes; a slow publisher or a dead one loses the row.      *)
LockExpires(e) ==
    /\ outbox[e].locked
    /\ outbox' = [outbox EXCEPT ![e].locked = FALSE]
    /\ UNCHANGED <<pushVars, store, snapshot, pubVars, topic, consVars, deadletters,
                   buried, faults>>

(* publish_outbox_record, Kafka acknowledges the send.                     *)
Send(r) ==
    /\ publisher = Idle /\ r \in batch /\ r.event \notin unencodable
    /\ batch' = batch \ {r}
    /\ topic' = Append(topic, r.event)
    /\ publisher' = [step |-> "acked", event |-> r.event]
    /\ UNCHANGED <<pushVars, store, snapshot, outbox, consVars, deadletters,
                   buried, faults>>

(* Kafka reports an error; after a time-out the record may still have been *)
(* written.                                                                *)
SendFails(r) ==
    /\ publisher = Idle /\ r \in batch /\ r.event \notin unencodable
    /\ Fault("kafka", MaxKafkaErrors)
    /\ batch' = batch \ {r}
    /\ topic' \in {topic, Append(topic, r.event)}
    /\ publisher' = [step |-> IF r.attempts + 1 >= RetryMaxAttempts THEN "bury" ELSE "retry",
                     event |-> r.event]
    /\ UNCHANGED <<pushVars, store, snapshot, outbox, consVars, deadletters,
                   buried>>

(* The payload cannot be encoded: the row is dead-lettered first and the   *)
(* kafka_deadletters row inserted after it.                                *)
Refuse(r) ==
    /\ publisher = Idle /\ r \in batch /\ r.event \in unencodable
    /\ batch' = batch \ {r}
    /\ \/ /\ outbox' = [outbox EXCEPT ![r.event] =
                           [status |-> "deadlettered", attempts |-> @.attempts + 1, locked |-> FALSE]]
          /\ UNCHANGED faults
       \/ /\ Fault("outbox", MaxOutboxErrors)
          /\ UNCHANGED outbox
    /\ publisher' = [step |-> "buryOnly", event |-> r.event]
    /\ UNCHANGED <<pushVars, store, snapshot, topic, consVars, deadletters,
                   buried>>

(* insert_kafka_deadletter by the publisher: an error is only logged.      *)
InsertDeadletter ==
    LET e == publisher.event IN
    /\ publisher.step \in {"bury", "buryOnly"}
    /\ publisher' = IF publisher.step = "bury" THEN [publisher EXCEPT !.step = "buried"] ELSE Idle
    /\ \/ /\ deadletters' = [deadletters EXCEPT ![e] = @ + 1]
          /\ buried' = buried \cup {e}
          /\ UNCHANGED faults
       \/ /\ Fault("outbox", MaxOutboxErrors)
          /\ UNCHANGED <<deadletters, buried>>
    /\ UNCHANGED <<pushVars, store, snapshot, outbox, batch, topic, consVars>>

(* mark_event_outbox_published / failed / deadlettered: no check of the    *)
(* lock or of the status; an error is only logged and leaves the row       *)
(* "publishing".                                                           *)
MarkRow ==
    LET e == publisher.event
        outcome == CASE publisher.step = "acked" -> "published"
                     [] publisher.step = "retry" -> "failed"
                     [] OTHER -> "deadlettered" IN
    /\ publisher.step \in {"acked", "retry", "buried"}
    /\ publisher' = Idle
    /\ \/ /\ outbox' = [outbox EXCEPT ![e] =
                [status |-> outcome, attempts |-> @.attempts + 1,
                 locked |-> IF outcome = "published" THEN @.locked ELSE FALSE]]
          /\ UNCHANGED faults
       \/ /\ Fault("outbox", MaxOutboxErrors)
          /\ UNCHANGED outbox
    /\ UNCHANGED <<pushVars, store, snapshot, batch, topic, consVars, deadletters,
                   buried>>

-----------------------------------------------------------------------------
Fetched == topic[consumer.offset]

(* The consumer task gives up on the message it fetched: the loop logs,    *)
(* sleeps and fetches the next one; nothing seeks back.                    *)
GiveUp ==
    /\ Fault("inbox", MaxInboxErrors)
    /\ consumer' = Polling

(* Mutant: a redelivered event is not looked up in the inbox.              *)
FetchIgnoresInbox ==
    /\ consumer = Polling /\ position <= Len(topic)
    /\ position' = position + 1
    /\ consumer' = [step |-> "new", offset |-> position]
    /\ UNCHANGED <<pushVars, store, snapshot, outbox, pubVars, topic, committed, inbox,
                   deadletters, runs, buried, faults>>

(* consume_one_message_with_inbox: fetch, then event_inbox_processed.      *)
Fetch ==
    /\ consumer = Polling /\ position <= Len(topic)
    /\ position' = position + 1
    /\ \/ /\ consumer' = [step |-> IF topic[position] \in inbox THEN "settled" ELSE "new",
                          offset |-> position]
          /\ UNCHANGED faults
       \/ GiveUp
    /\ UNCHANGED <<pushVars, store, snapshot, outbox, pubVars, topic, committed, inbox,
                   deadletters, runs, buried>>

(* handle_message: the handler changes the store in memory.                *)
Handle ==
    /\ consumer.step = "new"
    /\ runs' = [runs EXCEPT ![Fetched] = @ + 1]
    /\ store' = [store EXCEPT !.effects = @ \cup {Fetched}]
    /\ consumer' = [consumer EXCEPT !.step = "handled"]
    /\ UNCHANGED <<pushVars, snapshot, outbox, pubVars, topic, position, committed, inbox,
                   deadletters, buried, faults>>

(* handle_message: the handler returns an error.                           *)
HandlerRefuses ==
    /\ consumer.step = "new"
    /\ Fault("refusal", MaxRefusals)
    /\ runs' = [runs EXCEPT ![Fetched] = @ + 1]
    /\ consumer' = [consumer EXCEPT !.step = "refused"]
    /\ UNCHANGED <<pushVars, store, snapshot, outbox, pubVars, topic, position, committed,
                   inbox, deadletters, buried>>

(* handle_message dead-letters the event; when the insert fails the        *)
(* decision is DoNotCommit.                                                *)
WorkerDeadletter ==
    /\ consumer.step = "refused"
    /\ \/ /\ deadletters' = [deadletters EXCEPT ![Fetched] = @ + 1]
          /\ buried' = buried \cup {Fetched}
          /\ consumer' = [consumer EXCEPT !.step = "handled"]
          /\ UNCHANGED faults
       \/ GiveUp /\ UNCHANGED <<deadletters, buried>>
    /\ UNCHANGED <<pushVars, store, snapshot, outbox, pubVars, topic, position, committed,
                   inbox, runs>>

(* Mutant: the offset is committed before the inbox row is written.        *)
MarkInboxAfterCommit ==
    /\ consumer.step = "handled"
    /\ committed' = consumer.offset + 1
    /\ \/ /\ inbox' = inbox \cup {Fetched}
          /\ consumer' = Polling
          /\ UNCHANGED faults
       \/ GiveUp /\ UNCHANGED inbox
       \/ UNCHANGED <<inbox, consumer, faults>>
    /\ UNCHANGED <<pushVars, store, snapshot, outbox, pubVars, topic, position,
                   deadletters, runs, buried>>

(* mark_event_inbox_processed, for a processed and for a dead-lettered     *)
(* event alike.                                                            *)
MarkInbox ==
    /\ consumer.step = "handled"
    /\ \/ /\ inbox' = inbox \cup {Fetched}
          /\ consumer' = [consumer EXCEPT !.step = "settled"]
          /\ UNCHANGED faults
       \/ GiveUp /\ UNCHANGED inbox
    /\ UNCHANGED <<pushVars, store, snapshot, outbox, pubVars, topic, position, committed,
                   deadletters, runs, buried>>

(* Mutant: the caller adds one to an offset that is already the next one.  *)
CommitOneTooFar ==
    /\ consumer.step = "settled"
    /\ committed' = consumer.offset + 2
    /\ consumer' = Polling
    /\ UNCHANGED <<pushVars, store, snapshot, outbox, pubVars, topic, position, inbox,
                   deadletters, runs, buried, faults>>

(* commit_message: the committed offset of a partition is cumulative.      *)
Commit ==
    /\ consumer.step = "settled"
    /\ \/ /\ committed' = consumer.offset + 1
          /\ consumer' = Polling
          /\ UNCHANGED faults
       \/ GiveUp /\ UNCHANGED committed
    /\ UNCHANGED <<pushVars, store, snapshot, outbox, pubVars, topic, position, inbox,
                   deadletters, runs, buried>>

-----------------------------------------------------------------------------
(* replay_kafka_deadletter: the row goes back to queued under the same     *)
(* event_id and the dead letter counts as replayed.                        *)
Replay(e) ==
    /\ deadletters[e] > 0
    /\ Fault("replay", MaxReplays)
    /\ deadletters' = [deadletters EXCEPT ![e] = @ - 1]
    /\ outbox' = [outbox EXCEPT ![e].status = "queued", ![e].locked = FALSE]
    /\ UNCHANGED <<pushVars, store, snapshot, pubVars, topic, consVars, buried>>

(* The process dies: the store is the last snapshot, both tasks start      *)
(* over, and the consumer group resumes at its committed offset.           *)
Crash ==
    /\ Fault("crash", MaxCrashes)
    /\ store' = snapshot
    /\ batch' = {}
    /\ publisher' = Idle
    /\ consumer' = Polling
    /\ position' = committed
    /\ UNCHANGED <<pushVars, snapshot, outbox, topic, committed, inbox, deadletters,
                   runs, buried>>

Publisher ==
    \/ \E B \in SUBSET Events : Claim(B)
    \/ \E r \in batch : Send(r) \/ Refuse(r)
    \/ InsertDeadletter
    \/ MarkRow

Worker == Fetch \/ Handle \/ WorkerDeadletter \/ MarkInbox \/ Commit

Next ==
    \/ Push
    \/ Persist
    \/ Publisher
    \/ Worker
    \/ \E e \in Events : LockExpires(e) \/ Replay(e)
    \/ \E r \in batch : SendFails(r)
    \/ HandlerRefuses
    \/ Crash

(* The publisher and the worker task keep running (tokio schedules them)   *)
(* and time passes.  Nothing else need happen: no push, no fault, no       *)
(* replay, and no snapshot either, because a snapshot that fails is only   *)
(* tried again after the next change of the store.                         *)
Fairness ==
    /\ WF_vars(Publisher)
    /\ WF_vars(Worker)
    /\ \A e \in Events : WF_vars(LockExpires(e))

Spec == Init /\ [][Next]_vars /\ Fairness

-----------------------------------------------------------------------------
StoreType == [events : SUBSET Events, effects : SUBSET Events]
RowType == [status : RowStatus, attempts : Nat, locked : BOOLEAN]
PublisherType == [step : {"idle", "acked", "retry", "bury", "buryOnly", "buried"},
                  event : {0} \cup Events]
ConsumerType == [step : {"poll", "new", "handled", "refused", "settled"},
                 offset : 0..Len(topic)]

(* Every variable has the shape its declaration says; the committed offset *)
(* is never ahead of the next one to fetch, nor that of the partition.     *)
TypeOK ==
    /\ unencodable \subseteq Events
    /\ pushed \in 0..MaxEvents
    /\ store \in StoreType /\ snapshot \in StoreType
    /\ outbox \in [Events -> RowType]
    /\ batch \subseteq [event : Events, attempts : Nat]
    /\ publisher \in PublisherType
    /\ topic \in Seq(Events)
    /\ committed \in 1..Len(topic) + 1
    /\ position \in committed..Len(topic) + 1
    /\ consumer \in ConsumerType
    /\ inbox \subseteq Events
    /\ deadletters \in [Events -> Nat]
    /\ runs \in [Events -> Nat]
    /\ buried \subseteq Events
    /\ faults \in [FaultKinds -> Nat]

(* docs/architecture.md:11, "events are written to event_outbox            *)
(* transactionally": what has been sent to Kafka is in the snapshot, so a  *)
(* crash never forgets an event the outside world has seen.                *)
PublishedIsPersisted ==
    \A i \in 1..Len(topic) : topic[i] \in snapshot.events /\ topic[i] \in store.events

(* Every event of the snapshot reaches the inbox of the worker or a dead   *)
(* letter, whatever crashes, Kafka errors, publisher errors and handler    *)
(* errors happen, as long as no statement of the consumer fails (a failed  *)
(* one is committed over by the next message).                             *)
PersistedIsSettled ==
    \A e \in Events :
        e \in snapshot.events ~>
            \/ e \in inbox \/ e \in buried \/ outbox[e].status = "deadlettered"
            \/ faults["inbox"] > 0

(* docs/task-checks/01-kafka-eventbus.md:45, the offset is committed only  *)
(* "apos sucesso, duplicata ou falha duravel": every offset below the      *)
(* committed one is a message the inbox has recorded, unless a statement   *)
(* of the consumer failed: the loop then fetches on, and the next commit   *)
(* is cumulative.                                                          *)
CommittedIsSettled ==
    faults["inbox"] = 0 => \A i \in 1..committed - 1 : topic[i] \in inbox

(* An event is in the inbox only if its handler ran, and it runs again     *)
(* only after a crash between the handler and the inbox row, or after a    *)
(* failed inbox statement: duplicates of Kafka alone never re-run it.      *)
HandlerRunsOncePerFault ==
    \A e \in Events :
        /\ e \in inbox => runs[e] >= 1
        /\ runs[e] <= 1 + faults["crash"] + faults["inbox"]

(* The pipeline is a durable at-least-once queue: saved means in the       *)
(* snapshot, done means in the inbox, parked means dead-lettered.          *)
Queue == INSTANCE EventQueue WITH
            saved <- snapshot.events,
            done <- inbox,
            parked <- buried \cup {e \in Events : outbox[e].status = "deadlettered"}

(* Every step of the snapshot task, the publisher, the worker and the      *)
(* operator is a step of that queue or none: a handler never runs for an   *)
(* event a crash can still forget nor for one the inbox has recorded, and  *)
(* no fault makes a saved, recorded or dead-lettered event unsaved,        *)
(* unrecorded or lost.                                                     *)
ImplementsQueue == Queue!Spec

(* task.md:130, "evento nao some se o processo RustZap reiniciar", and     *)
(* docs/task-checks/01-kafka-eventbus.md:10, "commit somente depois de     *)
(* processamento duravel": what the handler of a committed message did is  *)
(* still in the store after a restart.                                     *)
CommittedEffectsSurvive ==
    \A e \in Events : (e \in inbox /\ e \notin buried) => e \in store.effects
=============================================================================
