-------------------------- MODULE OutboundDelivery --------------------------
(***************************************************************************)
(* An outbound message of RustZap with EVENT_BUS=postgres (src/src/state.rs*)
(* and db.rs): the idempotent send command stores a queued message and an  *)
(* outbound.send.requested event; the snapshot task writes both; the       *)
(* Postgres event drainer claims the event and dispatches the message to   *)
(* WhatsApp, which answers, fails or times out; receipts arrive later and  *)
(* are matched by the WhatsApp id.                                         *)
(*                                                                         *)
(* One tenant with one channel.  The drainer is one task that deals with   *)
(* one row at a time.  Every access to the store is one critical section   *)
(* of the store mutex, and the sections of a dispatch are separate steps.  *)
(* The retention worker may remove a message at any time; a request whose  *)
(* message is gone is the one the drainer retries and dead-letters.        *)
(***************************************************************************)
EXTENDS Naturals, Sequences, FiniteSets

CONSTANTS
    Keys,             \* Idempotency-Key values
    Bodies,           \* request bodies
    EmptyBodies,      \* bodies with neither text, caption nor media
    ReceiptTypes,     \* names receipt_type_name gives
    RetryMaxAttempts, \* KAFKA_RETRY_MAX_ATTEMPTS
    MaxMessages,      \* bound: messages created
    MaxSends,         \* bound: messages WhatsApp accepts
    MaxReceipts,      \* bound: receipts applied
    MaxCrashes,       \* bound: process crashes
    MaxMarkErrors,    \* bound: outbox updates that fail
    MaxSendErrors,    \* bound: sends that fail or time out
    MaxDrops,         \* bound: losses of the WhatsApp connection
    MaxRemovals,      \* bound: messages the retention worker removes
    MaxFaults         \* bound: all of the last five together

ASSUME DeliveryAssumption ==
    /\ EmptyBodies \subseteq Bodies
    /\ ReceiptTypes \subseteq {"delivered", "read", "played", "failed", "server_ack"}
    /\ MaxMessages \in Nat /\ MaxSends \in Nat /\ MaxReceipts \in Nat
    /\ MaxCrashes \in Nat /\ MaxMarkErrors \in Nat /\ MaxSendErrors \in Nat
    /\ MaxDrops \in Nat /\ MaxRemovals \in Nat /\ MaxFaults \in Nat /\ RetryMaxAttempts \in Nat \ {0}

Ids == 1..MaxMessages
NoMessage == 0

VARIABLES
    messages,     \* messages_by_id: status, wa_message_id, receipts applied
    idempotency,  \* idempotency[k]: the message created for the key
    events,       \* messages with an outbound.send.requested in store.events
    channel,      \* status of the channel record
    snapshot,     \* the metadata_snapshots row: the four above
    request,      \* history: key and body a message id was created for
    outbox,       \* event_outbox row of the message's send request
    batch,        \* claimed rows the drainer has not started
    drainer,      \* where the drainer is with a row
    wire,         \* messages WhatsApp accepted; the position is the wa id
    connected,    \* the WhatsApp client of the channel is connected
    receipts,     \* receipts applied so far
    faults        \* faults so far, per kind

store == <<messages, idempotency, events, channel>>
vars == <<messages, idempotency, events, channel, snapshot, request, outbox, batch, drainer,
          wire, connected, receipts, faults>>

Absent == [status |-> "absent", waId |-> 0, receipts |-> {}]
Queued == [status |-> "queued", waId |-> 0, receipts |-> {}]
Working(step, m, waId) == [step |-> step, message |-> m, waId |-> waId]
Idle == Working("idle", NoMessage, 0)
RowStatus == {"absent", "queued", "publishing", "published", "failed", "deadlettered"}
FaultKinds == {"crash", "mark", "send", "drop", "removal"}

Snapshot ==
    [messages |-> messages, idempotency |-> idempotency, events |-> events, channel |-> channel]

Init ==
    /\ messages = [m \in Ids |-> Absent]
    /\ idempotency = [k \in Keys |-> NoMessage]
    /\ events = {}
    /\ channel = "connected"
    /\ snapshot = Snapshot
    /\ request = <<>>
    /\ outbox = [m \in Ids |-> [status |-> "absent", attempts |-> 0, locked |-> FALSE]]
    /\ batch = {}
    /\ drainer = Idle
    /\ wire = <<>>
    /\ connected = TRUE
    /\ receipts = 0
    /\ faults = [k \in FaultKinds |-> 0]

AllFaults ==
    faults["crash"] + faults["mark"] + faults["send"] + faults["drop"] + faults["removal"]

(* A fault uses up one of its kind's budget and one of the budget of all.  *)
Fault(k, max) ==
    /\ faults[k] < max /\ AllFaults < MaxFaults
    /\ faults' = [faults EXCEPT ![k] = @ + 1]

-----------------------------------------------------------------------------
(* Mutant: the key is not remembered.                                      *)
PrepareForgetsKey(k, b) ==
    /\ Len(request) < MaxMessages
    /\ idempotency[k] = NoMessage
    /\ request' = Append(request, [key |-> k, body |-> b])
    /\ messages' = [messages EXCEPT ![Len(request) + 1] = Queued]
    /\ events' = events \cup {Len(request) + 1}
    /\ UNCHANGED <<idempotency, channel, snapshot, outbox, batch, drainer, wire,
                   connected, receipts, faults>>

(* prepare_send_message_with_actor with a new key.  A known key returns    *)
(* the cached message or idempotency_conflict and changes nothing.         *)
Prepare(k, b) ==
    /\ Len(request) < MaxMessages
    /\ idempotency[k] = NoMessage
    /\ request' = Append(request, [key |-> k, body |-> b])
    /\ messages' = [messages EXCEPT ![Len(request) + 1] = Queued]
    /\ events' = events \cup {Len(request) + 1}
    /\ idempotency' = [idempotency EXCEPT ![k] = Len(request) + 1]
    /\ UNCHANGED <<channel, snapshot, outbox, batch, drainer, wire, connected,
                   receipts, faults>>

(* Mutant: the rows are written before the snapshot, in a transaction of   *)
(* their own.                                                              *)
PersistRowsFirst ==
    /\ snapshot # Snapshot
    /\ \/ snapshot' = Snapshot /\ UNCHANGED outbox
       \/ /\ outbox' = [m \in Ids |->
                IF m \in events /\ outbox[m].status = "absent"
                THEN [outbox[m] EXCEPT !.status = "queued"] ELSE outbox[m]]
          /\ UNCHANGED snapshot
    /\ UNCHANGED <<store, request, batch, drainer, wire, connected, receipts, faults>>

(* persist_snapshot_and_outbox: the store and a row for each send request  *)
(* that has none yet, in one transaction.                                  *)
Persist ==
    /\ snapshot # Snapshot
    /\ snapshot' = Snapshot
    /\ outbox' = [m \in Ids |-> IF m \in events /\ outbox[m].status = "absent"
                                THEN [outbox[m] EXCEPT !.status = "queued"] ELSE outbox[m]]
    /\ UNCHANGED <<store, request, batch, drainer, wire, connected, receipts, faults>>

-----------------------------------------------------------------------------
Claimable(m) == outbox[m].status \in {"queued", "failed", "publishing"} /\ ~outbox[m].locked

(* Mutant: a second drainer claims while the first is still busy.          *)
ClaimWhileBusy(B) ==
    /\ B # {} /\ \A m \in B : Claimable(m)
    /\ outbox' = [m \in Ids |-> IF m \in B
                     THEN [outbox[m] EXCEPT !.status = "publishing", !.locked = TRUE]
                     ELSE outbox[m]]
    /\ batch' = batch \cup B
    /\ UNCHANGED <<store, snapshot, request, drainer, wire, connected, receipts, faults>>

(* spawn_postgres_event_drainer: claim_event_outbox_batch, once the rows   *)
(* of the previous batch are done.                                         *)
Claim(B) ==
    /\ batch = {} /\ drainer = Idle
    /\ B # {} /\ \A m \in B : Claimable(m)
    /\ outbox' = [m \in Ids |-> IF m \in B
                     THEN [outbox[m] EXCEPT !.status = "publishing", !.locked = TRUE]
                     ELSE outbox[m]]
    /\ batch' = B
    /\ UNCHANGED <<store, snapshot, request, drainer, wire, connected, receipts, faults>>

(* locked_until passes, 30 seconds after the claim.                        *)
LockExpires(m) ==
    /\ outbox[m].locked
    /\ outbox' = [outbox EXCEPT ![m].locked = FALSE]
    /\ UNCHANGED <<store, snapshot, request, batch, drainer, wire, connected, receipts,
                   faults>>

Missing(m) == messages[m].status = "absent"

(* process_outbound_send_request returns early for these.                  *)
Finished(m) == messages[m].status \in {"sent_to_whatsapp", "failed"}

(* process_outbound_send_request and the checks of                         *)
(* dispatch_prepared_message before its first await: an error for a        *)
(* missing message; skip a finished message; give up when the channel is   *)
(* not connected (and record that the client has gone); do nothing for a   *)
(* message without content.                                                *)
Begin(m) ==
    /\ drainer = Idle /\ m \in batch
    /\ batch' = batch \ {m}
    /\ LET goTo(step) == drainer' = Working(step, m, 0) IN
       \/ Missing(m) /\ goTo("error") /\ UNCHANGED channel
       \/ Finished(m) /\ goTo("mark") /\ UNCHANGED channel
       \/ /\ ~Missing(m) /\ ~Finished(m) /\ channel # "connected"
          /\ goTo("failed") /\ UNCHANGED channel
       \/ /\ ~Missing(m) /\ ~Finished(m) /\ channel = "connected" /\ ~connected
          /\ goTo("failed") /\ channel' = "disconnected"
       \/ /\ ~Missing(m) /\ ~Finished(m) /\ channel = "connected" /\ connected
          /\ goTo(IF request[m].body \in EmptyBodies THEN "mark" ELSE "send")
          /\ UNCHANGED channel
    /\ UNCHANGED <<messages, idempotency, events, snapshot, request, outbox, wire, connected,
                   receipts, faults>>

(* send_text or send_media returns a WhatsApp id.                          *)
Accepted ==
    /\ drainer.step = "send"
    /\ Len(wire) < MaxSends
    /\ wire' = Append(wire, drainer.message)
    /\ drainer' = Working("sent", drainer.message, Len(wire) + 1)
    /\ UNCHANGED <<store, snapshot, request, outbox, batch, connected, receipts, faults>>

(* The send fails, or the 15 or 30 second timeout cuts it off: WhatsApp    *)
(* may have accepted the message all the same, but its id is lost.  An     *)
(* error that says "is not connected" also updates the channel.            *)
SendFails ==
    /\ drainer.step = "send"
    /\ Fault("send", MaxSendErrors)
    /\ drainer' = Working("failed", drainer.message, 0)
    /\ \/ /\ ~connected
          /\ channel' = "disconnected"
          /\ UNCHANGED wire
       \/ UNCHANGED <<channel, wire>>
       \/ /\ Len(wire) < MaxSends
          /\ wire' = Append(wire, drainer.message)
          /\ UNCHANGED channel
    /\ UNCHANGED <<messages, idempotency, events, snapshot, request, outbox, batch, connected,
                   receipts>>

(* Mutant: the error path forgets to update the message.                   *)
RecordOnlySuccess ==
    /\ drainer.step \in {"sent", "failed"}
    /\ messages' = IF drainer.step = "sent"
                   THEN [messages EXCEPT ![drainer.message].status = "sent_to_whatsapp",
                                         ![drainer.message].waId = drainer.waId]
                   ELSE messages
    /\ drainer' = Working("mark", drainer.message, 0)
    /\ UNCHANGED <<idempotency, events, channel, snapshot, request, outbox, batch, wire,
                   connected, receipts, faults>>

(* update_outbound_after_dispatch overwrites the status, whatever it is by *)
(* now, and the WhatsApp id if there is one; an error when the message is  *)
(* gone.                                                                   *)
Record ==
    LET m == drainer.message IN
    /\ drainer.step \in {"sent", "failed"}
    /\ \/ /\ Missing(m)
          /\ drainer' = Working("error", m, 0)
          /\ UNCHANGED messages
       \/ /\ ~Missing(m)
          /\ drainer' = Working("mark", m, 0)
          /\ messages' = [messages EXCEPT
                ![m].status = IF drainer.step = "sent" THEN "sent_to_whatsapp" ELSE "failed",
                ![m].waId = IF drainer.step = "sent" THEN drainer.waId ELSE @]
    /\ UNCHANGED <<idempotency, events, channel, snapshot, request, outbox, batch, wire,
                   connected, receipts, faults>>

(* The row after process_postgres_outbox_record: published when the        *)
(* handler returned Ok, whether or not the message went out.               *)
Marked(row) ==
    IF drainer.step = "mark"
    THEN [row EXCEPT !.status = "published", !.attempts = @ + 1]
    ELSE [status |-> IF row.attempts + 1 >= RetryMaxAttempts THEN "deadlettered" ELSE "failed",
          attempts |-> row.attempts + 1, locked |-> FALSE]

(* process_postgres_outbox_record's last step.  A failing update is only   *)
(* logged; the row stays "publishing" and is claimed again when its lock   *)
(* has run out.                                                            *)
MarkRow ==
    /\ drainer.step \in {"mark", "error"}
    /\ drainer' = Idle
    /\ \/ /\ outbox' = [outbox EXCEPT ![drainer.message] = Marked(@)]
          /\ UNCHANGED faults
       \/ Fault("mark", MaxMarkErrors) /\ UNCHANGED outbox
    /\ UNCHANGED <<store, snapshot, request, batch, wire, connected, receipts>>

-----------------------------------------------------------------------------
(* update_receipt_by_wa_id: the message with that WhatsApp id takes the    *)
(* receipt's name as its status.  A receipt for an unknown id is dropped.  *)
Receipt(m, t) ==
    /\ receipts < MaxReceipts
    /\ messages[m].waId # 0
    /\ receipts' = receipts + 1
    /\ messages' = [messages EXCEPT ![m].status = t, ![m].receipts = @ \cup {t}]
    /\ UNCHANGED <<idempotency, events, channel, snapshot, request, outbox, batch, drainer, wire,
                   connected, faults>>

(* apply_company_retention: a message older than message_retention_days,   *)
(* which may be 0, is removed; its key and its outbox row stay.            *)
ApplyRetention(m) ==
    /\ ~Missing(m)
    /\ Fault("removal", MaxRemovals)
    /\ messages' = [messages EXCEPT ![m] = Absent]
    /\ UNCHANGED <<idempotency, events, channel, snapshot, request, outbox, batch, drainer, wire,
                   connected, receipts>>

(* The client loses its connection; the Disconnected event comes later.    *)
Drop ==
    /\ connected
    /\ Fault("drop", MaxDrops)
    /\ connected' = FALSE
    /\ UNCHANGED <<store, snapshot, request, outbox, batch, drainer, wire, receipts>>

(* process_whatsapp_event, Disconnected.                                   *)
Disconnected ==
    /\ ~connected /\ channel = "connected"
    /\ channel' = "disconnected"
    /\ UNCHANGED <<messages, idempotency, events, snapshot, request, outbox, batch, drainer, wire,
                   connected, receipts, faults>>

(* process_whatsapp_event, Connected.                                      *)
Connected ==
    /\ ~connected
    /\ connected' = TRUE
    /\ channel' = "connected"
    /\ UNCHANGED <<messages, idempotency, events, snapshot, request, outbox, batch, drainer, wire,
                   receipts, faults>>

(* The process dies; the store of the next one is the snapshot.            *)
Crash ==
    /\ Fault("crash", MaxCrashes)
    /\ messages' = snapshot.messages
    /\ idempotency' = snapshot.idempotency
    /\ events' = snapshot.events
    /\ channel' = snapshot.channel
    /\ batch' = {}
    /\ drainer' = Idle
    /\ connected' = FALSE
    /\ UNCHANGED <<snapshot, request, outbox, wire, receipts>>

Drainer ==
    \/ \E B \in SUBSET Ids : Claim(B)
    \/ \E m \in batch : Begin(m)
    \/ Accepted
    \/ Record
    \/ MarkRow

Next ==
    \/ \E k \in Keys, b \in Bodies : Prepare(k, b)
    \/ Persist
    \/ Drainer
    \/ SendFails
    \/ \E m \in Ids :
          \/ LockExpires(m)
          \/ \E t \in ReceiptTypes : Receipt(m, t)
          \/ ApplyRetention(m)
    \/ Drop \/ Disconnected \/ Connected
    \/ Crash

(* The drainer task keeps running, a send comes to an end (it has a        *)
(* timeout) and time passes.                                               *)
Fairness ==
    /\ WF_vars(Drainer \/ SendFails)
    /\ \A m \in Ids : WF_vars(LockExpires(m))

Spec == Init /\ [][Next]_vars /\ Fairness

-----------------------------------------------------------------------------
MessageType ==
    [status : {"absent", "queued", "sent_to_whatsapp", "failed"} \cup ReceiptTypes,
     waId : 0..MaxSends, receipts : SUBSET ReceiptTypes]

ChannelStatus == {"connected", "disconnected"}

SnapshotType ==
    [messages : [Ids -> MessageType], idempotency : [Keys -> {NoMessage} \cup Ids],
     events : SUBSET Ids, channel : ChannelStatus]

DrainerType ==
    {Idle} \cup [step : {"send", "sent", "failed", "mark", "error"},
                message : Ids, waId : 0..MaxSends]

RowType == [status : RowStatus, attempts : Nat, locked : BOOLEAN]

(* Every variable has the shape its declaration says; a busy drainer works *)
(* on some message.                                                        *)
TypeOK ==
    /\ messages \in [Ids -> MessageType]
    /\ idempotency \in [Keys -> {NoMessage} \cup Ids]
    /\ events \subseteq Ids
    /\ channel \in ChannelStatus
    /\ snapshot \in SnapshotType
    /\ request \in Seq([key : Keys, body : Bodies]) /\ Len(request) <= MaxMessages
    /\ outbox \in [Ids -> RowType]
    /\ batch \subseteq Ids
    /\ drainer \in DrainerType
    /\ wire \in Seq(Ids) /\ Len(wire) <= MaxSends
    /\ connected \in BOOLEAN
    /\ receipts \in 0..MaxReceipts
    /\ faults \in [FaultKinds -> Nat]

(* While a send request is in the outbox its key is on record, in memory   *)
(* and in the store a restart would load: prepare_send_message_with_actor  *)
(* never takes a repeated command for a new one, whatever crashes, and     *)
(* although retention forgets the message.                                 *)
RequestedKeyIsKnown ==
    \A m \in Ids : outbox[m].status # "absent" =>
        /\ idempotency[request[m].key] = m
        /\ snapshot.idempotency[request[m].key] = m

(* README.md:238-241 and task.md:1868, "Outbound deve deduplicar por       *)
(* project_id + company_id + idempotency_key": a client that repeats its   *)
(* command, even after a crash that forgot the first one or after the      *)
(* message was removed, never makes two messages of one key reach          *)
(* WhatsApp.                                                               *)
KeySendsOneMessage ==
    \A i, j \in 1..Len(wire) : request[wire[i]].key = request[wire[j]].key => wire[i] = wire[j]

Sends(m) == Cardinality({i \in 1..Len(wire) : wire[i] = m})

(* A message reaches WhatsApp once, and once more only for a crash or for  *)
(* an outbox update that failed: neither an expired row lock nor a timeout *)
(* that reported a failed send repeats it.                                 *)
SentOncePerFault ==
    \A m \in Ids : Sends(m) <= 1 + faults["crash"] + faults["mark"]

(* The requests that are closed for good.                                  *)
Settled == {m \in Ids : outbox[m].status \in {"published", "deadlettered"}}

Promise == INSTANCE IdempotentSend WITH
    Messages <- Ids,
    bound <- snapshot.idempotency,
    sends <- [m \in Ids |-> Sends(m)],
    settled <- Settled,
    faults <- faults["crash"] + faults["mark"]

(* prepare_send_message_with_actor, the snapshot and the drainer together  *)
(* keep the promise of IdempotentSend: the durable binding of a key is     *)
(* never changed or shared, nothing goes out before it is durable, no send *)
(* is repeated without a fault, and none follows a closed request.         *)
ImplementsSend == Promise!Spec

(* A persisted send request with content gets an outcome unless its        *)
(* message is removed or the process dies first, whatever fails in         *)
(* Postgres or on the connection.  After a crash the outcome can be lost   *)
(* for good: the row is marked before the snapshot has the new status.     *)
OutcomeIsRecorded ==
    \A m \in Ids :
        (outbox[m].status # "absent" /\ request[m].body \notin EmptyBodies)
            ~> (messages[m].status # "queued" \/ faults["crash"] > 0)
=============================================================================
