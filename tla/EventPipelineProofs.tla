------------------------ MODULE EventPipelineProofs ------------------------
(***************************************************************************)
(* Proofs about EventPipeline, for every number of events, attempts,       *)
(* crashes and faults.                                                     *)
(*                                                                         *)
(* What is in Kafka is in the snapshot because it went through a row of    *)
(* the outbox, and rows are only written together with the snapshot that   *)
(* holds their event.  What the committed offset covers is in the inbox    *)
(* because the consumer goes through the partition in order and has at     *)
(* most one message in hand; that message is also the only one whose       *)
(* handler can have run without an inbox row, which bounds the runs.       *)
(***************************************************************************)
EXTENDS EventPipeline, TLAPS

HasRow(e) == outbox[e].status # "absent"

(* A row is written with the snapshot, and a restart loads the snapshot.   *)
RowsPersisted ==
    /\ snapshot.events \subseteq store.events
    /\ \A e \in Events : HasRow(e) => e \in snapshot.events

(* What the publisher holds, has sent or has dead-lettered has a row.      *)
InFlightHasRow ==
    /\ \A r \in batch : HasRow(r.event)
    /\ publisher # Idle => publisher.event \in Events /\ HasRow(publisher.event)
    /\ \A i \in 1..Len(topic) : HasRow(topic[i])
    /\ \A e \in Events : deadletters[e] > 0 => HasRow(e)

(* The message in hand is the last one fetched, and not committed yet; the *)
(* inbox was asked about it, and its handler ran before it is recorded.    *)
Unrecorded == {"new", "handled", "refused"}

InHand ==
    consumer.step # "poll" =>
        /\ consumer.offset = position - 1
        /\ consumer.offset \in committed..Len(topic)
        /\ Fetched \in inbox <=> consumer.step = "settled"
        /\ consumer.step \in {"handled", "refused"} => runs[Fetched] > 0

(* Every message fetched, but for the one in hand, is in the inbox.        *)
FetchedIsRecorded ==
    faults["inbox"] = 0 =>
        \A i \in 1..position - 1 :
            topic[i] \in inbox \/ (consumer.step \in Unrecorded /\ i = consumer.offset)

(* A run without an inbox row is the one in hand, or a fault stopped it.   *)
RanInHand(e) == consumer.step \in {"handled", "refused"} /\ Fetched = e

RunsAreRecorded ==
    \A e \in Events :
        /\ e \in inbox => runs[e] >= 1
        /\ runs[e] <= faults["crash"] + faults["inbox"]
                      + (IF e \in inbox \/ RanInHand(e) THEN 1 ELSE 0)

(* The publisher holds each row once, and a row it has yet to deal with is *)
(* not dead-lettered; a dead letter stays known after its replay.          *)
DeadlettersAreKept ==
    /\ \A r, q \in batch : r.event = q.event => r = q
    /\ \A r \in batch : /\ outbox[r.event].status # "deadlettered"
                        /\ publisher # Idle => r.event # publisher.event
    /\ publisher.step \in {"acked", "retry", "bury", "buried"} =>
          outbox[publisher.event].status # "deadlettered"
    /\ \A e \in Events : deadletters[e] > 0 => e \in buried

IInv ==
    /\ TypeOK
    /\ RowsPersisted
    /\ InFlightHasRow
    /\ InHand
    /\ FetchedIsRecorded
    /\ RunsAreRecorded
    /\ DeadlettersAreKept
-----------------------------------------------------------------------------
(* Types.                                                                  *)
LEMMA FaultTyped ==
    ASSUME NEW k \in FaultKinds, NEW max, faults \in [FaultKinds -> Nat], Fault(k, max)
    PROVE  /\ faults' \in [FaultKinds -> Nat]
           /\ faults'[k] = faults[k] + 1
           /\ \A j \in FaultKinds \ {k} : faults'[j] = faults[j]
  BY DEF Fault

(* What an idle publisher, a polling consumer and a busy one are.          *)
LEMMA Busy ==
    ASSUME TypeOK, InFlightHasRow, InHand
    PROVE  /\ Idle \in PublisherType
           /\ publisher.step # "idle" => publisher.event \in Events
           /\ consumer.step # "poll" =>
                 /\ consumer.offset \in 1..Len(topic)
                 /\ Fetched \in Events
<1>1. Idle \in PublisherType
  BY DEF Idle, PublisherType
<1>2. publisher.step # "idle" => publisher.event \in Events
  BY DEF InFlightHasRow, Idle
<1>3. consumer.step # "poll" => consumer.offset \in 1..Len(topic) /\ Fetched \in Events
  BY DEF TypeOK, InHand, Fetched
<1> QED
  BY <1>1, <1>2, <1>3

LEMMA NextTypeOK == TypeOK /\ InFlightHasRow /\ InHand /\ [Next]_vars => TypeOK'
<1> SUFFICES ASSUME TypeOK, InFlightHasRow, InHand, [Next]_vars PROVE TypeOK'
  OBVIOUS
<1> USE PipelineAssumption DEF TypeOK, pushVars, pubVars, consVars
<1>1. CASE Push
  <2>1. pushed + 1 \in Events /\ pushed' \in 0..MaxEvents
    BY <1>1 DEF Push, Events
  <2>2. store' \in StoreType
    BY <1>1, <2>1 DEF Push, StoreType
  <2> QED
    BY <1>1, <2>1, <2>2 DEF Push, ConsumerType
<1>2. CASE Persist
  <2>1. outbox' \in [Events -> RowType]
    BY <1>2 DEF Persist, RowType, RowStatus
  <2> QED
    BY <1>2, <2>1 DEF Persist, ConsumerType
<1>3. ASSUME NEW B \in SUBSET Events, Claim(B) PROVE TypeOK'
  <2>1. outbox' \in [Events -> RowType]
    BY <1>3 DEF Claim, RowType, RowStatus
  <2>2. batch' \subseteq [event : Events, attempts : Nat]
    <3>1. \A e \in B : e \in Events /\ outbox[e].attempts \in Nat
      BY <1>3 DEF RowType
    <3>2. ASSUME NEW r \in batch' PROVE r \in [event : Events, attempts : Nat]
      <4>1. PICK e \in B : r = [event |-> e, attempts |-> outbox[e].attempts]
        BY <1>3, <3>2 DEF Claim
      <4> QED
        BY <3>1, <4>1
    <3> QED
      BY <3>2
  <2> QED
    BY <1>3, <2>1, <2>2 DEF Claim, ConsumerType
<1>4. ASSUME NEW r \in batch, Send(r) PROVE TypeOK'
  <2>1. r.event \in Events
    OBVIOUS
  <2>2. publisher' \in PublisherType
    BY <1>4, <2>1 DEF Send, PublisherType
  <2>3. /\ topic' \in Seq(Events)
        /\ Len(topic) <= Len(topic') /\ Len(topic') \in Nat
    BY <1>4, <2>1 DEF Send
  <2>4. consumer' \in ConsumerType'
    BY <1>4, <2>3 DEF Send, ConsumerType
  <2>5. committed' \in 1..Len(topic') + 1 /\ position' \in committed'..Len(topic') + 1
    BY <1>4, <2>3 DEF Send
  <2> QED
    BY <1>4, <2>2, <2>3, <2>4, <2>5 DEF Send
<1>5. ASSUME NEW r \in batch, Refuse(r) PROVE TypeOK'
  <2>1. r.event \in Events
    OBVIOUS
  <2>2. publisher' \in PublisherType
    BY <1>5, <2>1 DEF Refuse, PublisherType
  <2>3. outbox' \in [Events -> RowType]
    <3>1. CASE outbox' = outbox
      BY <3>1
    <3>2. CASE outbox' = [outbox EXCEPT ![r.event] =
                  [status |-> "deadlettered", attempts |-> @.attempts + 1, locked |-> FALSE]]
      <4>1. outbox[r.event].attempts + 1 \in Nat
        BY <2>1 DEF RowType
      <4> QED
        BY <2>1, <3>2, <4>1 DEF RowType, RowStatus
    <3> QED
      BY <1>5, <3>1, <3>2 DEF Refuse
  <2>4. faults' \in [FaultKinds -> Nat]
    BY <1>5, FaultTyped DEF Refuse, FaultKinds
  <2> QED
    BY <1>5, <2>2, <2>3, <2>4 DEF Refuse, ConsumerType
<1>6. CASE InsertDeadletter
  <2>1. publisher.event \in Events
    BY <1>6, Busy DEF InsertDeadletter
  <2>2. publisher' \in PublisherType
    BY <1>6, Busy DEF InsertDeadletter, PublisherType
  <2>3. deadletters' \in [Events -> Nat] /\ buried' \subseteq Events
    <3>1. CASE deadletters' = [deadletters EXCEPT ![publisher.event] = @ + 1]
               /\ buried' = buried \cup {publisher.event}
      BY <2>1, <3>1
    <3>2. CASE UNCHANGED <<deadletters, buried>>
      BY <3>2
    <3> QED
      BY <1>6, <3>1, <3>2 DEF InsertDeadletter
  <2>4. faults' \in [FaultKinds -> Nat]
    BY <1>6, FaultTyped DEF InsertDeadletter, FaultKinds
  <2> QED
    BY <1>6, <2>2, <2>3, <2>4 DEF InsertDeadletter, ConsumerType
<1>7. CASE MarkRow
  <2>1. publisher.event \in Events /\ publisher' \in PublisherType
    BY <1>7, Busy DEF MarkRow
  <2>2. outbox' \in [Events -> RowType]
    <3>1. CASE outbox' = outbox
      BY <3>1
    <3>2. CASE outbox' # outbox
      <4>1. PICK o \in RowStatus, l \in BOOLEAN : outbox' = [outbox EXCEPT ![publisher.event] =
                  [status |-> o, attempts |-> outbox[publisher.event].attempts + 1, locked |-> l]]
        BY <1>7, <2>1, <3>2 DEF MarkRow, RowType, RowStatus
      <4>2. outbox[publisher.event].attempts + 1 \in Nat
        BY <2>1 DEF RowType
      <4> QED
        BY <2>1, <4>1, <4>2 DEF RowType
    <3> QED
      BY <3>1, <3>2
  <2>3. faults' \in [FaultKinds -> Nat]
    BY <1>7, FaultTyped DEF MarkRow, FaultKinds
  <2> QED
    BY <1>7, <2>1, <2>2, <2>3 DEF MarkRow, ConsumerType
<1>8. CASE Fetch
  <2>1. consumer' \in ConsumerType'
    BY <1>8, Busy DEF Fetch, GiveUp, ConsumerType, Polling
  <2>2. faults' \in [FaultKinds -> Nat]
    BY <1>8, FaultTyped DEF Fetch, GiveUp, FaultKinds
  <2>3. position' \in committed'..Len(topic') + 1
    BY <1>8 DEF Fetch
  <2> QED
    BY <1>8, <2>1, <2>2, <2>3 DEF Fetch
<1>9. CASE Handle
  <2>1. consumer' \in ConsumerType'
    BY <1>9, Busy DEF Handle, ConsumerType
  <2>2. Fetched \in Events
    BY <1>9, Busy DEF Handle
  <2>3. store' \in StoreType
    BY <1>9, <2>2 DEF Handle, StoreType
  <2>4. runs' \in [Events -> Nat]
    BY <1>9, <2>2 DEF Handle
  <2> QED
    BY <1>9, <2>1, <2>3, <2>4 DEF Handle
<1>10. CASE WorkerDeadletter
  <2>1. consumer' \in ConsumerType'
    <3>1. CASE consumer' = [consumer EXCEPT !.step = "handled"]
      BY <1>10, <3>1 DEF WorkerDeadletter, ConsumerType
    <3>2. CASE consumer' = Polling
      BY <1>10, <3>2 DEF WorkerDeadletter, ConsumerType, Polling
    <3> QED
      BY <1>10, <3>1, <3>2 DEF WorkerDeadletter, GiveUp
  <2>2. faults' \in [FaultKinds -> Nat]
    BY <1>10, FaultTyped DEF WorkerDeadletter, GiveUp, FaultKinds
  <2>3. Fetched \in Events
    BY <1>10, Busy DEF WorkerDeadletter
  <2>4. deadletters' \in [Events -> Nat] /\ buried' \subseteq Events
    <3>1. CASE deadletters' = [deadletters EXCEPT ![Fetched] = @ + 1]
               /\ buried' = buried \cup {Fetched}
      BY <2>3, <3>1
    <3>2. CASE UNCHANGED <<deadletters, buried>>
      BY <3>2
    <3> QED
      BY <1>10, <3>1, <3>2 DEF WorkerDeadletter
  <2> QED
    BY <1>10, <2>1, <2>2, <2>4 DEF WorkerDeadletter
<1>11. CASE MarkInbox
  <2>1. consumer' \in ConsumerType'
    BY <1>11, Busy DEF MarkInbox, GiveUp, ConsumerType, Polling
  <2>2. faults' \in [FaultKinds -> Nat]
    BY <1>11, FaultTyped DEF MarkInbox, GiveUp, FaultKinds
  <2>3. Fetched \in Events
    BY <1>11, Busy DEF MarkInbox
  <2> QED
    BY <1>11, <2>1, <2>2, <2>3 DEF MarkInbox
<1>12. CASE Commit
  <2>1. consumer' \in ConsumerType'
    BY <1>12, Busy DEF Commit, GiveUp, ConsumerType, Polling
  <2>2. faults' \in [FaultKinds -> Nat]
    BY <1>12, FaultTyped DEF Commit, GiveUp, FaultKinds
  <2>3. committed' \in 1..Len(topic') + 1 /\ position' \in committed'..Len(topic') + 1
    <3>1. committed' = committed \/ committed' = consumer.offset + 1
      BY <1>12 DEF Commit
    <3>2. consumer.offset + 1 = position
      BY <1>12, Busy DEF Commit, InHand
    <3> QED
      BY <1>12, <3>1, <3>2 DEF Commit
  <2> QED
    BY <1>12, <2>1, <2>2, <2>3 DEF Commit
<1>13. ASSUME NEW e \in Events, LockExpires(e) PROVE TypeOK'
  <2>1. outbox' \in [Events -> RowType]
    BY <1>13 DEF LockExpires, RowType
  <2> QED
    BY <1>13, <2>1 DEF LockExpires, ConsumerType
<1>14. ASSUME NEW e \in Events, Replay(e) PROVE TypeOK'
  <2>1. outbox' \in [Events -> RowType]
    BY <1>14 DEF Replay, RowType, RowStatus
  <2>2. deadletters' \in [Events -> Nat]
    BY <1>14 DEF Replay
  <2>3. faults' \in [FaultKinds -> Nat]
    BY <1>14, FaultTyped DEF Replay, FaultKinds
  <2> QED
    BY <1>14, <2>1, <2>2, <2>3 DEF Replay, ConsumerType
<1>15. ASSUME NEW r \in batch, SendFails(r) PROVE TypeOK'
  <2>1. r.event \in Events
    OBVIOUS
  <2>2. publisher' \in PublisherType
    BY <1>15, <2>1 DEF SendFails, PublisherType
  <2>3. /\ topic' \in Seq(Events)
        /\ Len(topic) <= Len(topic') /\ Len(topic') \in Nat
    <3>1. CASE topic' = topic
      BY <3>1
    <3>2. CASE topic' = Append(topic, r.event)
      BY <2>1, <3>2
    <3> QED
      BY <1>15, <3>1, <3>2 DEF SendFails
  <2>4. consumer' \in ConsumerType'
    BY <1>15, <2>3 DEF SendFails, ConsumerType
  <2>5. committed' \in 1..Len(topic') + 1 /\ position' \in committed'..Len(topic') + 1
    BY <1>15, <2>3 DEF SendFails
  <2>6. faults' \in [FaultKinds -> Nat]
    BY <1>15, FaultTyped DEF SendFails, FaultKinds
  <2> QED
    BY <1>15, <2>2, <2>3, <2>4, <2>5, <2>6 DEF SendFails
<1>16. CASE HandlerRefuses
  <2>1. consumer' \in ConsumerType'
    BY <1>16, Busy DEF HandlerRefuses, ConsumerType, Polling
  <2>2. faults' \in [FaultKinds -> Nat]
    BY <1>16, FaultTyped DEF HandlerRefuses, FaultKinds
  <2>3. Fetched \in Events
    BY <1>16, Busy DEF HandlerRefuses
  <2>4. runs' \in [Events -> Nat]
    BY <1>16, <2>3 DEF HandlerRefuses
  <2> QED
    BY <1>16, <2>1, <2>2, <2>4 DEF HandlerRefuses
<1>17. CASE Crash
  <2>1. publisher' \in PublisherType
    BY <1>17, Busy DEF Crash
  <2>2. consumer' \in ConsumerType'
    BY <1>17 DEF Crash, Polling, ConsumerType
  <2>3. faults' \in [FaultKinds -> Nat]
    BY <1>17, FaultTyped DEF Crash, FaultKinds
  <2> QED
    BY <1>17, <2>1, <2>2, <2>3 DEF Crash
<1>18. CASE UNCHANGED vars
  BY <1>18 DEF vars, ConsumerType
<1> QED
  BY <1>1, <1>2, <1>3, <1>4, <1>5, <1>6, <1>7, <1>8, <1>9, <1>10, <1>11, <1>12,
     <1>13, <1>14, <1>15, <1>16, <1>17, <1>18
     DEF Next, Publisher, Worker

-----------------------------------------------------------------------------
(* The partition only grows, and the message in hand stays where it is.    *)
LEMMA TopicGrows ==
    ASSUME TypeOK, InFlightHasRow, InHand, NEW e \in Events,
           topic' = topic \/ topic' = Append(topic, e), consumer' = consumer
    PROVE  /\ Len(topic') \in Nat /\ Len(topic) <= Len(topic')
           /\ \A i \in 1..Len(topic) : topic'[i] = topic[i]
           /\ \A i \in 1..Len(topic') : i \in 1..Len(topic) \/ topic'[i] = e
           /\ consumer.step # "poll" => Fetched' = Fetched
<1>1. /\ Len(topic') \in Nat /\ Len(topic) <= Len(topic')
      /\ \A i \in 1..Len(topic) : topic'[i] = topic[i]
      /\ \A i \in 1..Len(topic') : i \in 1..Len(topic) \/ topic'[i] = e
  <2>1. CASE topic' = topic
    BY <2>1 DEF TypeOK
  <2>2. CASE topic' = Append(topic, e)
    BY <2>2 DEF TypeOK
  <2> QED
    BY <2>1, <2>2
<1>2. consumer.step # "poll" => Fetched' = Fetched
  BY <1>1, Busy DEF Fetched
<1> QED
  BY <1>1, <1>2

(* A step of the worker with the message in hand.                          *)
LEMMA HandKept ==
    ASSUME TypeOK, NEW st, consumer' = [consumer EXCEPT !.step = st], topic' = topic
    PROVE  consumer'.step = st /\ consumer'.offset = consumer.offset /\ Fetched' = Fetched
  BY DEF TypeOK, ConsumerType, Fetched

LEMMA NextRows ==
    TypeOK /\ RowsPersisted /\ InFlightHasRow /\ InHand /\ [Next]_vars
        => (RowsPersisted /\ InFlightHasRow)'
<1> SUFFICES ASSUME TypeOK, RowsPersisted, InFlightHasRow, InHand, [Next]_vars
                    PROVE  (RowsPersisted /\ InFlightHasRow)'
  OBVIOUS
<1> USE DEF TypeOK, RowsPersisted, InFlightHasRow, pushVars, pubVars, consVars
<1>1. CASE Push
  <2>1. store'.events = store.events \cup {pushed + 1}
    BY <1>1 DEF Push, StoreType
  <2>2. \A e \in Events : HasRow(e)' <=> HasRow(e)
    BY <1>1 DEF Push, HasRow
  <2> QED
    BY <1>1, <2>1, <2>2 DEF Push
<1>2. CASE Persist
  <2>1. \A e \in Events : HasRow(e)' => HasRow(e) \/ e \in store.events
    BY <1>2 DEF Persist, HasRow
  <2>2. \A e \in Events : HasRow(e) => HasRow(e)'
    BY <1>2 DEF Persist, HasRow, RowType
  <2> QED
    BY <1>2, <2>1, <2>2 DEF Persist
<1>3. ASSUME NEW B \in SUBSET Events, Claim(B) PROVE (RowsPersisted /\ InFlightHasRow)'
  <2>1. \A e \in Events : HasRow(e)' <=> HasRow(e)
    BY <1>3 DEF Claim, Claimable, HasRow, RowType
  <2>2. ASSUME NEW q \in batch' PROVE q.event \in B
    <3>1. PICK e \in B : q = [event |-> e, attempts |-> outbox[e].attempts]
      BY <1>3, <2>2 DEF Claim
    <3> QED
      BY <3>1
  <2>3. \A e \in B : HasRow(e)
    BY <1>3 DEF Claim, Claimable, HasRow
  <2>4. \A q \in batch' : HasRow(q.event)'
    BY <2>1, <2>2, <2>3
  <2>5. publisher' = Idle /\ UNCHANGED <<store, snapshot, topic, deadletters>>
    BY <1>3 DEF Claim
  <2>6. \A i \in 1..Len(topic) : HasRow(topic[i])'
    BY <2>1, <2>5
  <2> QED
    BY <2>1, <2>4, <2>5, <2>6
<1>4. ASSUME NEW r \in batch, Send(r) PROVE (RowsPersisted /\ InFlightHasRow)'
  <2>1. r.event \in Events /\ HasRow(r.event)
    OBVIOUS
  <2>2. \A i \in 1..Len(topic') : HasRow(topic'[i])
    BY <1>4, <2>1, TopicGrows DEF Send
  <2>3. publisher'.event = r.event
    BY <1>4 DEF Send
  <2> QED
    BY <1>4, <2>1, <2>2, <2>3 DEF Send, HasRow
<1>5. ASSUME NEW r \in batch, Refuse(r) PROVE (RowsPersisted /\ InFlightHasRow)'
  <2>1. r.event \in Events /\ HasRow(r.event)
    OBVIOUS
  <2>2. outbox' = outbox \/ outbox' = [outbox EXCEPT ![r.event] =
            [status |-> "deadlettered", attempts |-> outbox[r.event].attempts + 1,
             locked |-> FALSE]]
    BY <1>5 DEF Refuse
  <2>3. \A e \in Events : HasRow(e)' <=> HasRow(e)
    <3>1. CASE outbox' = outbox
      BY <3>1 DEF HasRow
    <3>2. CASE outbox' # outbox
      <4>1. PICK row : /\ row.status = "deadlettered"
                       /\ outbox' = [outbox EXCEPT ![r.event] = row]
        BY <2>2, <3>2
      <4> QED
        BY <2>1, <4>1 DEF HasRow
    <3> QED
      BY <3>1, <3>2
  <2>4. publisher'.event = r.event
    BY <1>5 DEF Refuse
  <2> QED
    BY <1>5, <2>1, <2>3, <2>4 DEF Refuse
<1>6. CASE InsertDeadletter
  <2>1. publisher.event \in Events /\ HasRow(publisher.event)
    BY <1>6 DEF InsertDeadletter, Idle
  <2>2. publisher' = Idle \/ publisher'.event = publisher.event
    BY <1>6 DEF InsertDeadletter, PublisherType
  <2>3. \A e \in Events : deadletters'[e] > 0 => HasRow(e)
    BY <1>6, <2>1 DEF InsertDeadletter
  <2>4. \A e \in Events : HasRow(e)' <=> HasRow(e)
    BY <1>6 DEF InsertDeadletter, HasRow
  <2> QED
    BY <1>6, <2>1, <2>2, <2>3, <2>4 DEF InsertDeadletter
<1>7. CASE MarkRow
  <2>1. publisher.event \in Events /\ HasRow(publisher.event)
    BY <1>7 DEF MarkRow, Idle
  <2>2. \A e \in Events : HasRow(e)' <=> HasRow(e)
    <3>1. CASE outbox' = outbox
      BY <3>1 DEF HasRow
    <3>2. CASE outbox' # outbox
      <4>1. PICK o \in RowStatus \ {"absent"}, l \in {outbox[publisher.event].locked, FALSE} :
               outbox' = [outbox EXCEPT ![publisher.event] =
                  [status |-> o, attempts |-> outbox[publisher.event].attempts + 1, locked |-> l]]
        BY <1>7, <2>1, <3>2 DEF MarkRow, RowStatus
      <4> QED
        BY <2>1, <4>1 DEF HasRow
    <3> QED
      BY <3>1, <3>2
  <2> QED
    BY <1>7, <2>2 DEF MarkRow
<1>8. CASE Fetch
  BY <1>8 DEF Fetch, HasRow, Idle, StoreType
<1>9. CASE Handle
  BY <1>9 DEF Handle, HasRow, Idle, StoreType
<1>10. CASE WorkerDeadletter
  <2>1. Fetched \in Events /\ HasRow(Fetched)
    BY <1>10, Busy DEF WorkerDeadletter, Fetched
  <2>2. \A e \in Events : deadletters'[e] > 0 => HasRow(e)
    BY <1>10, <2>1 DEF WorkerDeadletter
  <2> QED
    BY <1>10, <2>2 DEF WorkerDeadletter, HasRow
<1>11. CASE MarkInbox
  BY <1>11 DEF MarkInbox, HasRow, Idle, StoreType
<1>12. CASE Commit
  BY <1>12 DEF Commit, HasRow, Idle, StoreType
<1>13. ASSUME NEW e \in Events, LockExpires(e) PROVE (RowsPersisted /\ InFlightHasRow)'
  <2>1. \A f \in Events : HasRow(f)' <=> HasRow(f)
    BY <1>13 DEF LockExpires, HasRow, RowType
  <2> QED
    BY <1>13, <2>1 DEF LockExpires
<1>14. ASSUME NEW e \in Events, Replay(e) PROVE (RowsPersisted /\ InFlightHasRow)'
  <2>1. HasRow(e)
    BY <1>14 DEF Replay
  <2>2. \A f \in Events : HasRow(f)' <=> HasRow(f)
    BY <1>14, <2>1 DEF Replay, HasRow, RowType
  <2>3. \A f \in Events : deadletters'[f] > 0 => deadletters[f] > 0
    BY <1>14 DEF Replay
  <2> QED
    BY <1>14, <2>2, <2>3 DEF Replay
<1>15. ASSUME NEW r \in batch, SendFails(r) PROVE (RowsPersisted /\ InFlightHasRow)'
  <2>1. r.event \in Events /\ HasRow(r.event)
    OBVIOUS
  <2>2. \A i \in 1..Len(topic') : HasRow(topic'[i])
    BY <1>15, <2>1, TopicGrows DEF SendFails
  <2>3. publisher'.event = r.event
    BY <1>15 DEF SendFails
  <2> QED
    BY <1>15, <2>1, <2>2, <2>3 DEF SendFails, HasRow
<1>16. CASE HandlerRefuses
  BY <1>16 DEF HandlerRefuses, HasRow, Idle, StoreType
<1>17. CASE Crash
  BY <1>17 DEF Crash, HasRow, Idle, StoreType
<1>18. CASE UNCHANGED vars
  BY <1>18 DEF vars, HasRow, Idle, StoreType
<1> QED
  BY <1>1, <1>2, <1>3, <1>4, <1>5, <1>6, <1>7, <1>8, <1>9, <1>10, <1>11, <1>12,
     <1>13, <1>14, <1>15, <1>16, <1>17, <1>18
     DEF Next, Publisher, Worker

LEMMA NextInHand == TypeOK /\ InFlightHasRow /\ InHand /\ [Next]_vars => InHand'
<1> SUFFICES ASSUME TypeOK, InFlightHasRow, InHand, [Next]_vars PROVE InHand'
  OBVIOUS
<1> USE DEF TypeOK, InHand, pushVars, pubVars, consVars
<1>1. CASE Push
  BY <1>1 DEF Push, Fetched
<1>2. CASE Persist
  BY <1>2 DEF Persist, Fetched
<1>3. ASSUME NEW B \in SUBSET Events, Claim(B) PROVE InHand'
  BY <1>3 DEF Claim, Fetched
<1>4. ASSUME NEW r \in batch, Send(r) PROVE InHand'
  <2>1. r.event \in Events
    OBVIOUS
  <2>2. topic' = topic \/ topic' = Append(topic, r.event)
    BY <1>4 DEF Send
  <2>3. UNCHANGED <<consumer, position, committed, inbox, runs>>
    BY <1>4 DEF Send
  <2>4. /\ Len(topic') \in Nat /\ Len(topic) <= Len(topic')
        /\ consumer.step # "poll" => Fetched' = Fetched
    BY <2>1, <2>2, <2>3, TopicGrows
  <2> QED
    BY <2>3, <2>4
<1>5. ASSUME NEW r \in batch, Refuse(r) PROVE InHand'
  BY <1>5 DEF Refuse, Fetched
<1>6. CASE InsertDeadletter
  BY <1>6 DEF InsertDeadletter, Fetched
<1>7. CASE MarkRow
  BY <1>7 DEF MarkRow, Fetched
<1>8. CASE Fetch
  <2>1. CASE consumer' = Polling
    BY <2>1 DEF Polling
  <2>2. CASE consumer' # Polling
    <3>1. consumer' = [step |-> IF topic[position] \in inbox THEN "settled" ELSE "new",
                       offset |-> position]
      BY <1>8, <2>2 DEF Fetch, GiveUp
    <3>2. Fetched' = topic[position]
      BY <1>8, <3>1 DEF Fetch, Fetched
    <3> QED
      BY <1>8, <3>1, <3>2 DEF Fetch
  <2> QED
    BY <2>1, <2>2
<1>9. CASE Handle
  <2>1. consumer'.step = "handled" /\ consumer'.offset = consumer.offset /\ Fetched' = Fetched
    BY <1>9, HandKept DEF Handle
  <2>2. Fetched \in Events
    BY <1>9, Busy DEF Handle
  <2>3. runs'[Fetched] > 0
    BY <1>9, <2>2 DEF Handle
  <2> QED
    BY <1>9, <2>1, <2>3 DEF Handle
<1>10. CASE WorkerDeadletter
  <2>1. CASE consumer' = Polling
    BY <2>1 DEF Polling
  <2>2. CASE consumer' = [consumer EXCEPT !.step = "handled"]
    <3>1. consumer'.step = "handled" /\ consumer'.offset = consumer.offset /\ Fetched' = Fetched
      BY <1>10, <2>2, HandKept DEF WorkerDeadletter
    <3> QED
      BY <1>10, <3>1 DEF WorkerDeadletter
  <2> QED
    BY <1>10, <2>1, <2>2 DEF WorkerDeadletter, GiveUp
<1>11. CASE MarkInbox
  <2>1. CASE consumer' = Polling
    BY <2>1 DEF Polling
  <2>2. CASE consumer' # Polling
    <3>1. consumer' = [consumer EXCEPT !.step = "settled"] /\ inbox' = inbox \cup {Fetched}
      BY <1>11, <2>2 DEF MarkInbox, GiveUp
    <3>2. consumer'.step = "settled" /\ consumer'.offset = consumer.offset /\ Fetched' = Fetched
      BY <1>11, <3>1, HandKept DEF MarkInbox
    <3> QED
      BY <1>11, <3>1, <3>2 DEF MarkInbox
  <2> QED
    BY <2>1, <2>2
<1>12. CASE Commit
  <2>1. CASE consumer' = Polling
    BY <2>1 DEF Polling
  <2> QED
    BY <1>12, <2>1 DEF Commit, GiveUp
<1>13. ASSUME NEW e \in Events, LockExpires(e) PROVE InHand'
  BY <1>13 DEF LockExpires, Fetched
<1>14. ASSUME NEW e \in Events, Replay(e) PROVE InHand'
  BY <1>14 DEF Replay, Fetched
<1>15. ASSUME NEW r \in batch, SendFails(r) PROVE InHand'
  <2>1. r.event \in Events
    OBVIOUS
  <2>2. topic' = topic \/ topic' = Append(topic, r.event)
    BY <1>15 DEF SendFails
  <2>3. UNCHANGED <<consumer, position, committed, inbox, runs>>
    BY <1>15 DEF SendFails
  <2>4. /\ Len(topic') \in Nat /\ Len(topic) <= Len(topic')
        /\ consumer.step # "poll" => Fetched' = Fetched
    BY <2>1, <2>2, <2>3, TopicGrows
  <2> QED
    BY <2>3, <2>4
<1>16. CASE HandlerRefuses
  <2>1. consumer'.step = "refused" /\ consumer'.offset = consumer.offset /\ Fetched' = Fetched
    BY <1>16, HandKept DEF HandlerRefuses
  <2>2. Fetched \in Events
    BY <1>16, Busy DEF HandlerRefuses
  <2>3. runs'[Fetched] > 0
    BY <1>16, <2>2 DEF HandlerRefuses
  <2> QED
    BY <1>16, <2>1, <2>3 DEF HandlerRefuses
<1>17. CASE Crash
  BY <1>17 DEF Crash, Polling
<1>18. CASE UNCHANGED vars
  BY <1>18 DEF vars, Fetched
<1> QED
  BY <1>1, <1>2, <1>3, <1>4, <1>5, <1>6, <1>7, <1>8, <1>9, <1>10, <1>11, <1>12,
     <1>13, <1>14, <1>15, <1>16, <1>17, <1>18
     DEF Next, Publisher, Worker

-----------------------------------------------------------------------------
(* Faults are never forgotten.                                             *)
LEMMA FaultsGrow ==
    TypeOK /\ [Next]_vars => \A k \in FaultKinds : faults'[k] \in Nat /\ faults'[k] >= faults[k]
<1> SUFFICES ASSUME TypeOK, [Next]_vars
             PROVE  \A k \in FaultKinds : faults'[k] \in Nat /\ faults'[k] >= faults[k]
  OBVIOUS
<1>1. faults \in [FaultKinds -> Nat]
  BY DEF TypeOK
<1>2. \/ faults' = faults
      \/ \E k \in FaultKinds : \E max : Fault(k, max)
  BY DEF Next, Publisher, Worker, Push, Persist, Claim, LockExpires, Send, SendFails, Refuse,
         InsertDeadletter, MarkRow, Fetch, Handle, HandlerRefuses, WorkerDeadletter, MarkInbox,
         Commit, Replay, Crash, GiveUp, FaultKinds, vars
<1> QED
  BY <1>1, <1>2, FaultTyped

(* The steps of the publisher and of the operator are, for the consumer,   *)
(* no step or a longer partition.                                          *)
LEMMA ConsumerSteps ==
    TypeOK /\ [Next]_vars =>
        \/ UNCHANGED <<topic, position, committed, consumer, inbox, runs>>
        \/ \E e \in Events : /\ topic' = Append(topic, e)
                             /\ UNCHANGED <<position, committed, consumer, inbox, runs>>
        \/ Worker \/ HandlerRefuses \/ Crash
<1> SUFFICES ASSUME TypeOK, [Next]_vars, ~Worker, ~HandlerRefuses, ~Crash
             PROVE  /\ UNCHANGED <<position, committed, consumer, inbox, runs>>
                    /\ topic' = topic \/ \E e \in Events : topic' = Append(topic, e)
  OBVIOUS
<1>1. ASSUME NEW r \in batch, Send(r) \/ SendFails(r)
      PROVE  /\ UNCHANGED <<position, committed, consumer, inbox, runs>>
             /\ topic' = topic \/ \E e \in Events : topic' = Append(topic, e)
  <2>1. r.event \in Events
    BY DEF TypeOK
  <2> QED
    BY <1>1, <2>1 DEF Send, SendFails, consVars
<1> QED
  BY <1>1 DEF Next, Publisher, Push, Persist, Claim, LockExpires, Refuse, InsertDeadletter,
              MarkRow, Replay, vars, consVars

LEMMA NextFetched ==
    TypeOK /\ InFlightHasRow /\ InHand /\ FetchedIsRecorded /\ [Next]_vars => FetchedIsRecorded'
<1> SUFFICES ASSUME TypeOK, InFlightHasRow, InHand, FetchedIsRecorded, [Next]_vars,
                    faults'["inbox"] = 0,
                    NEW i \in 1..position' - 1
             PROVE  \/ topic'[i] \in inbox'
                    \/ consumer'.step \in Unrecorded /\ i = consumer'.offset
  BY DEF FetchedIsRecorded
<1>1. faults["inbox"] = 0
  <2>1. "inbox" \in FaultKinds /\ faults["inbox"] \in Nat
    BY DEF FaultKinds, TypeOK
  <2> QED
    BY <2>1, FaultsGrow
<1>2. position \in Nat /\ committed \in Nat /\ Len(topic) \in Nat
      /\ 1 <= committed /\ committed <= position /\ position <= Len(topic) + 1
  BY DEF TypeOK
<1>3. \A j \in 1..position - 1 :
         topic[j] \in inbox \/ (consumer.step \in Unrecorded /\ j = consumer.offset)
  BY <1>1 DEF FetchedIsRecorded
<1>4. ~GiveUp
  BY FaultTyped DEF GiveUp, FaultKinds, TypeOK
<1>5. CASE UNCHANGED <<topic, position, committed, consumer, inbox, runs>>
  BY <1>3, <1>5
<1>6. ASSUME NEW e \in Events, topic' = Append(topic, e),
             UNCHANGED <<position, committed, consumer, inbox, runs>>
      PROVE  topic'[i] \in inbox' \/ (consumer'.step \in Unrecorded /\ i = consumer'.offset)
  <2>1. i \in 1..Len(topic)
    BY <1>2, <1>6
  <2>2. topic'[i] = topic[i]
    BY <1>6, <2>1 DEF TypeOK
  <2> QED
    BY <1>3, <1>6, <2>2
<1>7. CASE Fetch
  <2>1. consumer' = [step |-> IF topic[position] \in inbox THEN "settled" ELSE "new",
                     offset |-> position]
    BY <1>4, <1>7 DEF Fetch
  <2>2. consumer.step = "poll" /\ topic' = topic /\ inbox' = inbox /\ position' = position + 1
    BY <1>7 DEF Fetch, Polling
  <2>3. CASE i = position
    BY <2>1, <2>2, <2>3 DEF Unrecorded
  <2>4. CASE i # position
    <3>1. i \in 1..position - 1
      BY <1>2, <2>2, <2>4
    <3> QED
      BY <1>3, <2>2, <3>1 DEF Unrecorded
  <2> QED
    BY <2>3, <2>4
<1>8. CASE Handle \/ HandlerRefuses \/ WorkerDeadletter
  <2>1. PICK st \in Unrecorded : consumer' = [consumer EXCEPT !.step = st]
    BY <1>4, <1>8 DEF Handle, HandlerRefuses, WorkerDeadletter, Unrecorded
  <2>2. consumer.step \in Unrecorded /\ UNCHANGED <<topic, position, inbox>>
    BY <1>8 DEF Handle, HandlerRefuses, WorkerDeadletter, Unrecorded
  <2>3. consumer'.step = st /\ consumer'.offset = consumer.offset
    BY <2>1, <2>2, HandKept
  <2> QED
    BY <1>3, <2>2, <2>3
<1>9. CASE MarkInbox
  <2>1. inbox' = inbox \cup {Fetched} /\ UNCHANGED <<topic, position>>
    BY <1>4, <1>9 DEF MarkInbox
  <2> QED
    BY <1>3, <2>1 DEF Fetched
<1>10. CASE Commit
  <2>1. consumer.step \notin Unrecorded /\ UNCHANGED <<topic, position, inbox>>
    BY <1>10 DEF Commit, Unrecorded
  <2> QED
    BY <1>3, <2>1
<1>11. CASE Crash
  <2>1. position' = committed /\ UNCHANGED <<topic, inbox>>
    BY <1>11 DEF Crash
  <2>2. i \in 1..position - 1 /\ i < committed
    BY <1>2, <2>1
  <2>3. ~(consumer.step \in Unrecorded /\ i = consumer.offset)
    BY <2>2, <1>2 DEF InHand, Unrecorded
  <2> QED
    BY <1>3, <2>1, <2>2, <2>3
<1> QED
  BY <1>5, <1>6, <1>7, <1>8, <1>9, <1>10, <1>11, ConsumerSteps DEF Worker

LEMMA NextRuns ==
    TypeOK /\ InFlightHasRow /\ InHand /\ RunsAreRecorded /\ [Next]_vars => RunsAreRecorded'
<1> DEFINE F == faults["crash"] + faults["inbox"]
           Due(e) == e \in inbox \/ RanInHand(e)
<1> SUFFICES ASSUME TypeOK, InFlightHasRow, InHand, RunsAreRecorded, [Next]_vars,
                    NEW e \in Events
             PROVE  /\ e \in inbox' => runs'[e] >= 1
                    /\ runs'[e] <= F' + (IF Due(e)' THEN 1 ELSE 0)
  BY DEF RunsAreRecorded
<1>1. /\ runs[e] \in Nat
      /\ e \in inbox => runs[e] >= 1
      /\ runs[e] <= F + (IF Due(e) THEN 1 ELSE 0)
  BY DEF RunsAreRecorded, TypeOK
<1>2. F \in Nat /\ F' \in Nat /\ F' >= F
  <2>1. /\ "crash" \in FaultKinds /\ "inbox" \in FaultKinds
        /\ faults["crash"] \in Nat /\ faults["inbox"] \in Nat
    BY DEF TypeOK, FaultKinds
  <2>2. /\ faults'["crash"] \in Nat /\ faults'["crash"] >= faults["crash"]
        /\ faults'["inbox"] \in Nat /\ faults'["inbox"] >= faults["inbox"]
    BY <2>1, FaultsGrow
  <2> QED
    BY <2>1, <2>2
<1>3. GiveUp \/ Crash => F' = F + 1
  <2>1. /\ faults \in [FaultKinds -> Nat]
        /\ "crash" \in FaultKinds \ {"inbox"} /\ "inbox" \in FaultKinds \ {"crash"}
    BY DEF TypeOK, FaultKinds
  <2>2. CASE GiveUp
    <3>1. faults'["inbox"] = faults["inbox"] + 1 /\ faults'["crash"] = faults["crash"]
      BY <2>1, <2>2, FaultTyped DEF GiveUp
    <3> QED
      BY <2>1, <3>1
  <2>3. CASE Crash
    <3>1. faults'["crash"] = faults["crash"] + 1 /\ faults'["inbox"] = faults["inbox"]
      BY <2>1, <2>3, FaultTyped DEF Crash
    <3> QED
      BY <2>1, <3>1
  <2> QED
    BY <2>2, <2>3
<1> HIDE DEF F
<1>4. ASSUME UNCHANGED <<inbox, runs>>, F' = F + 1
      PROVE  /\ e \in inbox' => runs'[e] >= 1
             /\ runs'[e] <= F' + (IF Due(e)' THEN 1 ELSE 0)
  BY <1>1, <1>2, <1>4
<1>5. ASSUME UNCHANGED <<inbox, runs>>, Due(e) => Due(e)'
      PROVE  /\ e \in inbox' => runs'[e] >= 1
             /\ runs'[e] <= F' + (IF Due(e)' THEN 1 ELSE 0)
  BY <1>1, <1>2, <1>5
<1>6. CASE UNCHANGED <<topic, position, committed, consumer, inbox, runs>>
  BY <1>5, <1>6 DEF RanInHand, Fetched
<1>7. ASSUME NEW f \in Events, topic' = Append(topic, f),
             UNCHANGED <<position, committed, consumer, inbox, runs>>
      PROVE  /\ e \in inbox' => runs'[e] >= 1
             /\ runs'[e] <= F' + (IF Due(e)' THEN 1 ELSE 0)
  <2>1. consumer.step # "poll" => Fetched' = Fetched
    BY <1>7, TopicGrows
  <2> QED
    BY <1>5, <1>7, <2>1 DEF RanInHand
<1>8. CASE Fetch
  <2>1. ~RanInHand(e) /\ UNCHANGED <<inbox, runs>>
    BY <1>8 DEF Fetch, Polling, RanInHand
  <2> QED
    BY <1>5, <2>1
<1>9. CASE Handle \/ HandlerRefuses
  <2>1. PICK st \in {"handled", "refused"} : consumer' = [consumer EXCEPT !.step = st]
    BY <1>9 DEF Handle, HandlerRefuses
  <2>2. /\ consumer.step = "new" /\ UNCHANGED <<topic, inbox>>
        /\ runs' = [runs EXCEPT ![Fetched] = @ + 1]
    BY <1>9 DEF Handle, HandlerRefuses
  <2>3. consumer'.step = st /\ Fetched' = Fetched
    BY <2>1, <2>2, HandKept
  <2>4. Fetched \in Events /\ Fetched \notin inbox /\ ~RanInHand(e)
    BY <2>2, Busy DEF InHand, RanInHand
  <2>5. CASE e = Fetched
    <3>1. runs'[e] = runs[e] + 1 /\ RanInHand(e)' /\ ~Due(e)
      BY <2>2, <2>3, <2>4, <2>5 DEF RanInHand, TypeOK
    <3> QED
      BY <1>1, <1>2, <3>1
  <2>6. CASE e # Fetched
    <3>1. runs'[e] = runs[e] /\ (Due(e) => e \in inbox)
      BY <2>2, <2>4, <2>6 DEF TypeOK
    <3> QED
      BY <1>1, <1>2, <2>2, <3>1
  <2> QED
    BY <2>5, <2>6
<1>10. CASE WorkerDeadletter
  <2>1. UNCHANGED <<topic, inbox, runs>>
    BY <1>10 DEF WorkerDeadletter
  <2>2. CASE GiveUp
    BY <1>3, <1>4, <2>1, <2>2
  <2>3. CASE consumer' = [consumer EXCEPT !.step = "handled"]
    <3>1. consumer'.step = "handled" /\ Fetched' = Fetched
      BY <2>1, <2>3, HandKept
    <3> QED
      BY <1>5, <2>1, <3>1 DEF RanInHand
  <2> QED
    BY <1>10, <2>2, <2>3 DEF WorkerDeadletter
<1>11. CASE MarkInbox
  <2>1. UNCHANGED <<topic, runs>> /\ runs[Fetched] > 0
    BY <1>11 DEF MarkInbox, InHand
  <2>2. CASE GiveUp /\ UNCHANGED inbox
    BY <1>3, <1>4, <2>1, <2>2
  <2>3. CASE inbox' = inbox \cup {Fetched}
    <3>1. Due(e) => e \in inbox'
      BY <2>3 DEF RanInHand
    <3>2. e \in inbox' => runs[e] >= 1
      BY <1>1, <2>1, <2>3
    <3> QED
      BY <1>1, <1>2, <2>1, <3>1, <3>2
  <2> QED
    BY <1>11, <2>2, <2>3 DEF MarkInbox
<1>12. CASE Commit
  <2>1. ~RanInHand(e) /\ UNCHANGED <<inbox, runs>>
    BY <1>12 DEF Commit, RanInHand
  <2> QED
    BY <1>5, <2>1
<1>13. CASE Crash
  <2>1. UNCHANGED <<inbox, runs>>
    BY <1>13 DEF Crash
  <2> QED
    BY <1>3, <1>4, <1>13, <2>1
<1> QED
  BY <1>6, <1>7, <1>8, <1>9, <1>10, <1>11, <1>12, <1>13, ConsumerSteps DEF Worker

-----------------------------------------------------------------------------
(* The dead letters.                                                       *)
LEMMA NextDeadletters ==
    TypeOK /\ InFlightHasRow /\ InHand /\ DeadlettersAreKept /\ [Next]_vars => DeadlettersAreKept'
<1> SUFFICES ASSUME TypeOK, InFlightHasRow, InHand, DeadlettersAreKept, [Next]_vars
             PROVE  DeadlettersAreKept'
  OBVIOUS
<1> USE DEF TypeOK, PublisherType, RowType, InFlightHasRow, DeadlettersAreKept, Idle,
            pushVars, pubVars, consVars
<1>1. CASE Push
  BY <1>1 DEF Push
<1>2. CASE Persist
  BY <1>2 DEF Persist
<1>3. ASSUME NEW B \in SUBSET Events, Claim(B) PROVE DeadlettersAreKept'
  <2>1. ASSUME NEW q \in batch'
        PROVE  /\ q.event \in B /\ q = [event |-> q.event, attempts |-> outbox[q.event].attempts]
               /\ outbox'[q.event].status # "deadlettered"
    <3>1. PICK e \in B : q = [event |-> e, attempts |-> outbox[e].attempts]
      BY <1>3, <2>1 DEF Claim
    <3>2. outbox'[e].status = "publishing"
      BY <1>3 DEF Claim
    <3> QED
      BY <3>1, <3>2
  <2>2. publisher' = Idle /\ UNCHANGED <<deadletters, buried>>
    BY <1>3 DEF Claim
  <2> QED
    BY <2>1, <2>2
<1>4. ASSUME NEW r \in batch, Send(r) PROVE DeadlettersAreKept'
  BY <1>4 DEF Send
<1>5. ASSUME NEW r \in batch, Refuse(r) PROVE DeadlettersAreKept'
  BY <1>5 DEF Refuse
<1>6. CASE InsertDeadletter
  BY <1>6, Busy DEF InsertDeadletter
<1>7. CASE MarkRow
  <2>1. publisher.event \in Events /\ publisher' = Idle /\ publisher # Idle
    BY <1>7, Busy DEF MarkRow
  <2>2. UNCHANGED <<batch, deadletters, buried>>
    BY <1>7 DEF MarkRow
  <2>3. \A e \in Events \ {publisher.event} : outbox'[e] = outbox[e]
    BY <1>7, <2>1 DEF MarkRow
  <2>4. ASSUME NEW r \in batch PROVE outbox'[r.event].status # "deadlettered"
    <3>1. r.event \in Events \ {publisher.event} /\ outbox[r.event].status # "deadlettered"
      BY <2>1
    <3> QED
      BY <2>3, <3>1
  <2> QED
    BY <2>1, <2>2, <2>4
<1>8. CASE Fetch
  BY <1>8 DEF Fetch, GiveUp
<1>9. CASE Handle
  BY <1>9 DEF Handle
<1>10. CASE WorkerDeadletter
  BY <1>10, Busy DEF WorkerDeadletter, GiveUp
<1>11. CASE MarkInbox
  BY <1>11 DEF MarkInbox, GiveUp
<1>12. CASE Commit
  BY <1>12 DEF Commit, GiveUp
<1>13. ASSUME NEW e \in Events, LockExpires(e) PROVE DeadlettersAreKept'
  BY <1>13 DEF LockExpires
<1>14. ASSUME NEW e \in Events, Replay(e) PROVE DeadlettersAreKept'
  BY <1>14 DEF Replay
<1>15. ASSUME NEW r \in batch, SendFails(r) PROVE DeadlettersAreKept'
  BY <1>15 DEF SendFails
<1>16. CASE HandlerRefuses
  BY <1>16 DEF HandlerRefuses
<1>17. CASE Crash
  BY <1>17 DEF Crash
<1>18. CASE UNCHANGED vars
  BY <1>18 DEF vars
<1> QED
  BY <1>1, <1>2, <1>3, <1>4, <1>5, <1>6, <1>7, <1>8, <1>9, <1>10, <1>11, <1>12,
     <1>13, <1>14, <1>15, <1>16, <1>17, <1>18
     DEF Next, Publisher, Worker

-----------------------------------------------------------------------------
LEMMA InitIInv == Init => IInv
<1> SUFFICES ASSUME Init PROVE IInv
  OBVIOUS
<1> USE PipelineAssumption DEF Init, Idle, Polling
<1>1. TypeOK
  BY DEF TypeOK, StoreType, RowType, RowStatus, PublisherType, ConsumerType, FaultKinds
<1>2. RowsPersisted /\ InFlightHasRow /\ DeadlettersAreKept
  BY DEF RowsPersisted, InFlightHasRow, DeadlettersAreKept, HasRow
<1>3. InHand /\ FetchedIsRecorded
  BY DEF InHand, FetchedIsRecorded
<1>4. RunsAreRecorded
  BY DEF RunsAreRecorded, RanInHand, FaultKinds
<1> QED
  BY <1>1, <1>2, <1>3, <1>4 DEF IInv

LEMMA NextIInv == IInv /\ [Next]_vars => IInv'
  BY NextTypeOK, NextRows, NextInHand, NextFetched, NextRuns, NextDeadletters DEF IInv

LEMMA Invariance == Spec => []IInv
  BY InitIInv, NextIInv, PTL DEF Spec

(* The type invariant of the pipeline, offsets included: the worker never  *)
(* commits past what it fetched, nor fetches past the partition.           *)
THEOREM PipelineTypeCorrect == Spec => []TypeOK
<1>1. IInv => TypeOK
  BY DEF IInv
<1> QED
  BY <1>1, Invariance, PTL

(* persist_snapshot_and_outbox writes the rows with the snapshot, so an    *)
(* event that reached Kafka is in the snapshot and in the store, whatever  *)
(* crashes and failed statements come between.                             *)
THEOREM PublishedEventsArePersisted == Spec => []PublishedIsPersisted
<1>1. IInv => PublishedIsPersisted
  BY DEF IInv, RowsPersisted, InFlightHasRow, PublishedIsPersisted, TypeOK
<1> QED
  BY <1>1, Invariance, PTL

(* commit_message never covers a message that is not in the inbox, as long *)
(* as no statement of the consumer has failed.                             *)
THEOREM CommittedMessagesAreSettled == Spec => []CommittedIsSettled
<1>1. IInv => CommittedIsSettled
  <2> SUFFICES ASSUME IInv, faults["inbox"] = 0, NEW i \in 1..committed - 1
               PROVE  topic[i] \in inbox
    BY DEF CommittedIsSettled
  <2>1. i \in 1..position - 1 /\ i < committed
    BY DEF IInv, TypeOK
  <2>2. ~(consumer.step \in Unrecorded /\ i = consumer.offset)
    BY <2>1 DEF IInv, TypeOK, InHand, Unrecorded
  <2> QED
    BY <2>1, <2>2 DEF IInv, FetchedIsRecorded
<1> QED
  BY <1>1, Invariance, PTL

(* consume_one_message_with_inbox runs the handler of an event once, and   *)
(* once more for each crash and each failed statement of the consumer at   *)
(* the most, however often Kafka or the publisher repeats the event.       *)
THEOREM HandlersRunOncePerFault == Spec => []HandlerRunsOncePerFault
<1>1. IInv => HandlerRunsOncePerFault
  <2> SUFFICES ASSUME IInv, NEW e \in Events
               PROVE  /\ e \in inbox => runs[e] >= 1
                      /\ runs[e] <= 1 + faults["crash"] + faults["inbox"]
    BY DEF HandlerRunsOncePerFault
  <2>1. runs[e] \in Nat /\ faults["crash"] \in Nat /\ faults["inbox"] \in Nat
    BY DEF IInv, TypeOK, FaultKinds
  <2>2. /\ e \in inbox => runs[e] >= 1
        /\ \/ runs[e] <= faults["crash"] + faults["inbox"] + 1
           \/ runs[e] <= faults["crash"] + faults["inbox"] + 0
    BY DEF IInv, RunsAreRecorded
  <2> QED
    BY <2>1, <2>2
<1> QED
  BY <1>1, Invariance, PTL

-----------------------------------------------------------------------------
(* The refinement: the pipeline is a durable at-least-once queue.          *)
Parked == buried \cup {e \in Events : outbox[e].status = "deadlettered"}

LEMMA NextQueue == IInv /\ IInv' /\ [Next]_vars => [Queue!Next]_Queue!vars
<1> SUFFICES ASSUME IInv, IInv', [Next]_vars PROVE Queue!Next \/ UNCHANGED Queue!vars
  OBVIOUS
<1> USE DEF pushVars, pubVars, consVars
<1>1. ASSUME UNCHANGED <<snapshot, runs, inbox, Parked>> PROVE UNCHANGED Queue!vars
  BY <1>1 DEF Queue!vars, Parked
<1>2. ASSUME NEW e \in Events, HasRow(e), Parked' = Parked \cup {e},
             UNCHANGED <<snapshot, runs, inbox>>
      PROVE  Queue!Next
  <2>1. e \in snapshot.events
    BY <1>2 DEF IInv, RowsPersisted
  <2>2. Queue!Park(e)
    BY <1>2, <2>1 DEF Queue!Park, Parked
  <2> QED
    BY <2>2 DEF Queue!Next
<1>3. consumer.step \in {"new", "handled", "refused"} =>
          /\ Fetched \in Events /\ HasRow(Fetched)
          /\ Fetched \in snapshot.events \ inbox
          /\ consumer.step \in {"handled", "refused"} => runs[Fetched] > 0
  <2>1. consumer.step \in {"new", "handled", "refused"} =>
           consumer.offset \in 1..Len(topic) /\ Fetched \in Events
    BY Busy DEF IInv
  <2> QED
    BY <2>1 DEF IInv, InHand, InFlightHasRow, RowsPersisted, Fetched
<1>4. (\A e \in Events : outbox'[e].status = "deadlettered" <=> outbox[e].status = "deadlettered")
      /\ buried' = buried => Parked' = Parked
  BY DEF Parked
<1>5. CASE Persist
  <2>1. \A e \in Events :
           outbox'[e].status = "deadlettered" <=> outbox[e].status = "deadlettered"
    BY <1>5 DEF Persist, IInv, TypeOK, RowType
  <2>2. Parked' = Parked /\ UNCHANGED <<runs, inbox>>
    BY <1>4, <1>5, <2>1 DEF Persist
  <2>3. snapshot'.events = snapshot.events \cup store.events /\ store.events \in SUBSET Events
    BY <1>5 DEF Persist, IInv, RowsPersisted, TypeOK, StoreType
  <2>4. Queue!Save(store.events)
    BY <2>2, <2>3 DEF Queue!Save, Parked
  <2> QED
    BY <2>3, <2>4 DEF Queue!Next
<1>6. ASSUME NEW B \in SUBSET Events, Claim(B) PROVE UNCHANGED Queue!vars
  <2>1. \A e \in Events :
           outbox'[e].status = "deadlettered" <=> outbox[e].status = "deadlettered"
    BY <1>6 DEF Claim, Claimable, IInv, TypeOK, RowType
  <2> QED
    BY <1>1, <1>4, <1>6, <2>1 DEF Claim
<1>7. ASSUME NEW e \in Events, LockExpires(e) PROVE UNCHANGED Queue!vars
  <2>1. \A f \in Events :
           outbox'[f].status = "deadlettered" <=> outbox[f].status = "deadlettered"
    BY <1>7 DEF LockExpires, IInv, TypeOK, RowType
  <2> QED
    BY <1>1, <1>4, <1>7, <2>1 DEF LockExpires
<1>8. ASSUME NEW e \in Events, Replay(e) PROVE UNCHANGED Queue!vars
  <2>1. e \in buried /\ buried' = buried
    BY <1>8 DEF Replay, IInv, DeadlettersAreKept
  <2>2. \A f \in Events \ {e} : outbox'[f] = outbox[f]
    BY <1>8 DEF Replay, IInv, TypeOK
  <2>3. Parked' = Parked
    BY <2>1, <2>2 DEF Parked
  <2> QED
    BY <1>1, <1>8, <2>3 DEF Replay
<1>9. ASSUME NEW r \in batch, Refuse(r) PROVE Queue!Next \/ UNCHANGED Queue!vars
  <2>1. r.event \in Events /\ HasRow(r.event)
    BY DEF IInv, TypeOK, InFlightHasRow
  <2>2. UNCHANGED <<snapshot, runs, inbox, buried>>
    BY <1>9 DEF Refuse
  <2>3. CASE outbox' = outbox
    BY <1>1, <2>2, <2>3 DEF Parked
  <2>4. CASE outbox' # outbox
    <3>1. PICK row : row.status = "deadlettered" /\ outbox' = [outbox EXCEPT ![r.event] = row]
      BY <1>9, <2>4 DEF Refuse
    <3>2. Parked' = Parked \cup {r.event}
      BY <2>1, <2>2, <3>1 DEF Parked, IInv, TypeOK
    <3> QED
      BY <1>2, <2>1, <2>2, <3>2
  <2> QED
    BY <2>3, <2>4
<1>10. CASE InsertDeadletter
  <2>1. publisher.event \in Events /\ HasRow(publisher.event)
    BY <1>10 DEF InsertDeadletter, Idle, IInv, InFlightHasRow
  <2>2. UNCHANGED <<snapshot, runs, inbox, outbox>>
    BY <1>10 DEF InsertDeadletter
  <2>3. CASE buried' = buried
    BY <1>1, <2>2, <2>3 DEF Parked
  <2>4. CASE buried' = buried \cup {publisher.event}
    BY <1>2, <2>1, <2>2, <2>4 DEF Parked
  <2> QED
    BY <1>10, <2>3, <2>4 DEF InsertDeadletter
<1>11. CASE MarkRow
  <2>1. publisher.event \in Events /\ HasRow(publisher.event)
        /\ outbox[publisher.event].status # "deadlettered"
    BY <1>11 DEF MarkRow, Idle, IInv, InFlightHasRow, DeadlettersAreKept
  <2>2. UNCHANGED <<snapshot, runs, inbox, buried>>
    BY <1>11 DEF MarkRow
  <2>3. CASE outbox' = outbox
    BY <1>1, <2>2, <2>3 DEF Parked
  <2>4. CASE outbox' # outbox
    <3>1. PICK row : outbox' = [outbox EXCEPT ![publisher.event] = row]
      BY <1>11, <2>4 DEF MarkRow
    <3>2. CASE row.status = "deadlettered"
      <4>1. Parked' = Parked \cup {publisher.event}
        BY <2>1, <2>2, <3>1, <3>2 DEF Parked, IInv, TypeOK
      <4> QED
        BY <1>2, <2>1, <2>2, <4>1
    <3>3. CASE row.status # "deadlettered"
      <4>1. Parked' = Parked
        BY <2>1, <2>2, <3>1, <3>3 DEF Parked, IInv, TypeOK
      <4> QED
        BY <1>1, <2>2, <4>1
    <3> QED
      BY <3>2, <3>3
  <2> QED
    BY <2>3, <2>4
<1>12. CASE Handle \/ HandlerRefuses
  <2>1. /\ Fetched \in Events /\ Fetched \in snapshot.events \ inbox
        /\ runs' = [runs EXCEPT ![Fetched] = @ + 1]
        /\ UNCHANGED <<snapshot, inbox, buried, outbox>>
    BY <1>3, <1>12 DEF Handle, HandlerRefuses
  <2>2. Queue!HandOut(Fetched)
    BY <2>1 DEF Queue!HandOut
  <2> QED
    BY <2>1, <2>2 DEF Queue!Next
<1>13. CASE WorkerDeadletter
  <2>1. Fetched \in Events /\ HasRow(Fetched) /\ UNCHANGED <<snapshot, runs, inbox, outbox>>
    BY <1>3, <1>13 DEF WorkerDeadletter
  <2>2. CASE buried' = buried
    BY <1>1, <2>1, <2>2 DEF Parked
  <2>3. CASE buried' = buried \cup {Fetched}
    BY <1>2, <2>1, <2>3 DEF Parked
  <2> QED
    BY <1>13, <2>2, <2>3 DEF WorkerDeadletter
<1>14. CASE MarkInbox
  <2>1. /\ Fetched \in Events /\ Fetched \in snapshot.events \ inbox /\ runs[Fetched] > 0
        /\ UNCHANGED <<snapshot, runs, buried, outbox>>
    BY <1>3, <1>14 DEF MarkInbox
  <2>2. CASE inbox' = inbox
    BY <1>1, <2>1, <2>2 DEF Parked
  <2>3. CASE inbox' = inbox \cup {Fetched}
    <3>1. Queue!Finish(Fetched)
      BY <2>1, <2>3 DEF Queue!Finish
    <3> QED
      BY <2>1, <3>1 DEF Queue!Next
  <2> QED
    BY <1>14, <2>2, <2>3 DEF MarkInbox
<1>15. ASSUME UNCHANGED <<snapshot, runs, inbox, outbox, buried>> PROVE UNCHANGED Queue!vars
  BY <1>15 DEF Queue!vars
<1>16. ASSUME NEW r \in batch, Send(r) \/ SendFails(r) PROVE UNCHANGED Queue!vars
  BY <1>15, <1>16 DEF Send, SendFails
<1>17. CASE Push \/ Fetch \/ Commit \/ Crash \/ UNCHANGED vars
  BY <1>15, <1>17 DEF Push, Fetch, Commit, Crash, vars
<1> QED
  BY <1>5, <1>6, <1>7, <1>8, <1>9, <1>10, <1>11, <1>12, <1>13, <1>14, <1>16, <1>17
     DEF Next, Publisher, Worker

(* Every step of the snapshot task, the publisher, the worker and the      *)
(* operator, with every crash and failed statement in between, is a step   *)
(* of the durable queue or none at all: snapshot.events is what is saved,  *)
(* the inbox what is done, the dead letters what is parked.                *)
THEOREM PipelineImplementsQueue == Spec => ImplementsQueue
<1>1. Init => Queue!Init
  <2> SUFFICES ASSUME Init PROVE Queue!Init
    OBVIOUS
  <2>1. Parked = {}
    BY DEF Init, Parked
  <2> QED
    BY <2>1 DEF Init, Queue!Init, Parked
<1> QED
  BY <1>1, NextQueue, Invariance, PTL DEF Spec, ImplementsQueue, Queue!Spec

=============================================================================
