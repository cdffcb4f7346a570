----------------------- MODULE OutboundDeliveryProofs -----------------------
(***************************************************************************)
(* Proofs about OutboundDelivery, for every set of keys, bodies and        *)
(* receipt types and every bound.                                          *)
(*                                                                         *)
(* That a key sends one message is a fact about the wire, the outbox, the  *)
(* store and the snapshot at once: what is on the wire has an outbox row,  *)
(* what has a row was requested in the store as it is now and in the store *)
(* a restart would load, and each of these two stores knows the key of     *)
(* every request it holds.  The messages themselves do not matter: the     *)
(* retention worker may have removed them.                                 *)
(***************************************************************************)
EXTENDS OutboundDelivery, FiniteSetTheorems, TLAPS

(* The idempotency key of a send request points at the message.            *)
KeyedAt(s, m) ==
    m \in s.events => m <= Len(request) /\ s.idempotency[request[m].key] = m

Keyed(s) == \A m \in Ids : KeyedAt(s, m)

HasRow(m) == outbox[m].status # "absent"

(* A row comes from a request that the snapshot and the store hold.        *)
RowsRequested == \A m \in Ids : HasRow(m) => m \in events /\ m \in snapshot.events

(* What the drainer works on, and what it has sent, has an outbox row.     *)
InFlightHasRow ==
    /\ \A m \in batch : HasRow(m)
    /\ drainer.step # "idle" => drainer.message \in Ids /\ HasRow(drainer.message)
    /\ \A i \in 1..Len(wire) : HasRow(wire[i])

IInv ==
    /\ TypeOK
    /\ Keyed(Snapshot)
    /\ Keyed(snapshot)
    /\ RowsRequested
    /\ InFlightHasRow

-----------------------------------------------------------------------------
LEMMA InitTypeOK == Init => TypeOK
  BY DeliveryAssumption DEF Init, TypeOK, SnapshotType, MessageType, ChannelStatus, Snapshot,
     Ids, Absent, Idle, Working, DrainerType, NoMessage, RowStatus, RowType, FaultKinds

LEMMA NextTypeOK == TypeOK /\ [Next]_vars => TypeOK'
<1> SUFFICES ASSUME TypeOK, [Next]_vars PROVE TypeOK'
  OBVIOUS
<1> USE DeliveryAssumption DEF TypeOK, NoMessage, store, Working
<1>1. ASSUME NEW k \in Keys, NEW b \in Bodies, Prepare(k, b) PROVE TypeOK'
  <2> USE <1>1 DEF Prepare
  <2>1. messages' \in [Ids -> MessageType]
    <3>1. Queued \in MessageType
      BY DEF MessageType, Queued
    <3> QED
      BY <3>1
  <2>2. idempotency' \in [Keys -> {NoMessage} \cup Ids]
    BY DEF Ids
  <2>3. request' \in Seq([key : Keys, body : Bodies]) /\ Len(request') <= MaxMessages
    OBVIOUS
  <2>4. events' \subseteq Ids
    <3>1. Len(request) + 1 \in Ids
      BY DEF Ids
    <3> QED
      BY <3>1
  <2> QED
    BY <2>1, <2>2, <2>3, <2>4
<1>2. CASE Persist
  <2> USE <1>2 DEF Persist
  <2>1. snapshot' \in SnapshotType
    BY DEF Snapshot, SnapshotType
  <2>2. outbox' \in [Ids -> RowType]
    BY DEF RowStatus, RowType
  <2> QED
    BY <2>1, <2>2
<1>3. ASSUME NEW B \in SUBSET Ids, Claim(B) PROVE TypeOK'
  <2>1. outbox' \in [Ids -> RowType]
    BY <1>3 DEF Claim, RowStatus, RowType
  <2> QED
    BY <1>3, <2>1 DEF Claim
<1>4. ASSUME NEW m \in batch, Begin(m) PROVE TypeOK'
  <2> USE <1>4 DEF Begin
  <2>1. drainer' \in DrainerType
    BY DEF Idle, DrainerType
  <2>2. channel' \in ChannelStatus
    BY DEF ChannelStatus
  <2> QED
    BY <2>1, <2>2
<1>5. CASE Accepted
  <2> USE <1>5 DEF Accepted
  <2>1. drainer.message \in Ids /\ drainer' \in DrainerType
    BY DEF DrainerType, Idle
  <2>2. wire' \in Seq(Ids) /\ Len(wire') <= MaxSends
    BY <2>1
  <2> QED
    BY <2>1, <2>2
<1>6. CASE SendFails
  <2> USE <1>6 DEF SendFails
  <2>1. drainer.message \in Ids /\ drainer' \in DrainerType
    BY DEF DrainerType, Idle
  <2>2. faults' \in [FaultKinds -> Nat]
    BY DEF Fault, FaultKinds
  <2>3. channel' \in ChannelStatus
    BY DEF ChannelStatus
  <2>4. wire' \in Seq(Ids) /\ Len(wire') <= MaxSends
    <3>1. CASE wire' = wire
      BY <3>1
    <3>2. CASE Len(wire) < MaxSends /\ wire' = Append(wire, drainer.message)
      BY <2>1, <3>2
    <3> QED
      BY <3>1, <3>2
  <2> QED
    BY <2>1, <2>2, <2>3, <2>4
<1>7. CASE Record
  <2> USE <1>7 DEF Record
  <2>1. drainer.message \in Ids /\ drainer.waId \in 0..MaxSends /\ drainer' \in DrainerType
    BY DEF DrainerType, Idle
  <2>2. messages[drainer.message] \in MessageType
    BY <2>1
  <2>3. messages' \in [Ids -> MessageType]
    <3>1. CASE messages' = messages
      BY <3>1
    <3>2. CASE messages' # messages
      <4>1. messages' = [messages EXCEPT ![drainer.message] =
                [status |-> IF drainer.step = "sent" THEN "sent_to_whatsapp" ELSE "failed",
                 waId |-> IF drainer.step = "sent" THEN drainer.waId
                          ELSE messages[drainer.message].waId,
                 receipts |-> messages[drainer.message].receipts]]
        BY <2>1, <2>2, <3>2 DEF MessageType
      <4> QED
        BY <2>1, <2>2, <4>1 DEF MessageType
    <3> QED
      BY <3>1, <3>2
  <2> QED
    BY <2>1, <2>3
<1>8. CASE MarkRow
  <2> USE <1>8 DEF MarkRow
  <2>1. drainer.message \in Ids /\ drainer' \in DrainerType
    BY DEF DrainerType, Idle
  <2>2. faults' \in [FaultKinds -> Nat]
    BY DEF Fault, FaultKinds
  <2>3. outbox[drainer.message] \in RowType
    BY <2>1
  <2>4. Marked(outbox[drainer.message]) \in RowType
    <3> DEFINE row == outbox[drainer.message]
    <3>1. row.attempts + 1 \in Nat
      BY <2>3 DEF RowType
    <3>2. CASE drainer.step = "mark"
      <4>1. Marked(row) = [status |-> "published", attempts |-> row.attempts + 1,
                           locked |-> row.locked]
        BY <2>3, <3>2 DEF Marked, RowType
      <4> QED
        BY <2>3, <3>1, <4>1 DEF RowType, RowStatus
    <3>3. CASE drainer.step # "mark"
      BY <3>1, <3>3 DEF Marked, RowType, RowStatus
    <3> QED
      BY <3>2, <3>3
  <2>5. outbox' \in [Ids -> RowType]
    <3>1. CASE outbox' = outbox
      BY <3>1
    <3>2. CASE outbox' = [outbox EXCEPT ![drainer.message] = Marked(@)]
      BY <2>4, <3>2
    <3> QED
      BY <3>1, <3>2
  <2> QED
    BY <2>1, <2>2, <2>5
<1>9. ASSUME NEW m \in Ids, LockExpires(m) PROVE TypeOK'
  <2> USE <1>9 DEF LockExpires
  <2>1. outbox' \in [Ids -> RowType]
    BY DEF RowType
  <2> QED
    BY <2>1
<1>10. ASSUME NEW m \in Ids, NEW t \in ReceiptTypes, Receipt(m, t) PROVE TypeOK'
  <2> USE <1>10 DEF Receipt
  <2>1. messages[m] \in MessageType
    OBVIOUS
  <2>2. messages' \in [Ids -> MessageType]
    BY <2>1 DEF MessageType
  <2> QED
    BY <2>2
<1>11. CASE Drop
  <2>1. faults' \in [FaultKinds -> Nat]
    BY <1>11 DEF Drop, Fault, FaultKinds
  <2> QED
    BY <1>11, <2>1 DEF Drop
<1>12. CASE Disconnected \/ Connected
  BY <1>12 DEF Disconnected, Connected, ChannelStatus
<1>13. CASE Crash
  <2> USE <1>13 DEF Crash
  <2>1. faults' \in [FaultKinds -> Nat]
    BY DEF Fault, FaultKinds
  <2>2. /\ messages' \in [Ids -> MessageType]
        /\ idempotency' \in [Keys -> {NoMessage} \cup Ids]
        /\ events' \subseteq Ids
        /\ channel' \in ChannelStatus
    BY DEF SnapshotType
  <2> QED
    BY <2>1, <2>2 DEF DrainerType
<1>14. ASSUME NEW m \in Ids, ApplyRetention(m) PROVE TypeOK'
  <2> USE <1>14 DEF ApplyRetention
  <2>1. Absent \in MessageType
    BY DEF MessageType, Absent
  <2>2. messages' \in [Ids -> MessageType]
    BY <2>1
  <2>3. faults' \in [FaultKinds -> Nat]
    BY DEF Fault, FaultKinds
  <2> QED
    BY <2>2, <2>3
<1>15. CASE UNCHANGED vars
  BY <1>15 DEF vars
<1> QED
  BY <1>1, <1>2, <1>3, <1>4, <1>5, <1>6, <1>7, <1>8, <1>9, <1>10, <1>11, <1>12, <1>13,
     <1>14, <1>15 DEF Next, Drainer

-----------------------------------------------------------------------------
LEMMA InitIInv == Init => IInv
<1> SUFFICES ASSUME Init PROVE IInv
  OBVIOUS
<1>1. TypeOK
  BY InitTypeOK
<1>2. Keyed(Snapshot) /\ Keyed(snapshot)
  BY DEF Init, Keyed, KeyedAt, Snapshot
<1>3. RowsRequested
  BY DEF Init, RowsRequested, HasRow
<1>4. InFlightHasRow
  BY DEF Init, InFlightHasRow, Idle, Working
<1> QED
  BY <1>1, <1>2, <1>3, <1>4 DEF IInv

(* A step that leaves the requests and their keys alone, in the store and  *)
(* in the snapshot, leaves every request with its key.                     *)
LEMMA SameStoreKeyed ==
    /\ Keyed(Snapshot) /\ Keyed(snapshot)
    /\ UNCHANGED <<idempotency, events, snapshot, request>>
    => Keyed(Snapshot)' /\ Keyed(snapshot)'
  BY DEF Keyed, KeyedAt, Snapshot

(* A step that neither adds nor removes requests or rows.                  *)
LEMMA SameRowsRequested ==
    /\ RowsRequested
    /\ \A m \in Ids : HasRow(m)' <=> HasRow(m)
    /\ UNCHANGED <<events, snapshot>>
    => RowsRequested'
  BY DEF RowsRequested

(* Stated for a set the provers do not look into.                          *)
LEMMA ItemOfSeq ==
    ASSUME NEW S, NEW s \in Seq(S), NEW i \in 1..Len(s) PROVE s[i] \in S
  OBVIOUS

LEMMA NextIInv == IInv /\ [Next]_vars => IInv'
<1> SUFFICES ASSUME IInv, [Next]_vars PROVE IInv'
  OBVIOUS
<1>0. TypeOK /\ TypeOK'
  BY NextTypeOK DEF IInv
<1> USE <1>0
<1>1. ASSUME NEW k \in Keys, NEW b \in Bodies, Prepare(k, b) PROVE IInv'
  <2> DEFINE n == Len(request) + 1
  <2>0. n \in Ids /\ Len(request') = n /\ request'[n].key = k
        /\ \A m \in 1..Len(request) : request'[m] = request[m]
    BY <1>1, DeliveryAssumption DEF Prepare, TypeOK, Ids
  <2>1. Keyed(Snapshot)'
    <3> SUFFICES ASSUME NEW m \in Ids PROVE KeyedAt(Snapshot, m)'
      BY DEF Keyed
    <3>1. CASE m = n
      BY <1>1, <2>0, <3>1 DEF Prepare, KeyedAt, Snapshot, TypeOK
    <3>2. CASE m # n
      <4>1. KeyedAt(Snapshot, m)
        BY DEF IInv, Keyed
      <4>2. m \in events' <=> m \in events
        BY <1>1, <3>2 DEF Prepare
      <4>3. CASE m \notin events
        BY <4>2, <4>3 DEF KeyedAt, Snapshot
      <4>4. CASE m \in events
        <5>1. m <= Len(request) /\ idempotency[request[m].key] = m
          BY <4>1, <4>4 DEF KeyedAt, Snapshot
        <5>2. m \in 1..Len(request) /\ m # NoMessage
          BY <5>1 DEF Ids, TypeOK, NoMessage
        <5>3. request'[m] = request[m] /\ request[m].key # k /\ request[m].key \in Keys
          <6>1. request'[m] = request[m]
            BY <2>0, <5>2
          <6>2. request[m].key # k
            BY <1>1, <5>1, <5>2 DEF Prepare
          <6>3. request[m] \in [key : Keys, body : Bodies]
            <7>1. request \in Seq([key : Keys, body : Bodies])
              BY DEF TypeOK
            <7> QED
              BY <5>2, <7>1, ItemOfSeq
          <6> QED
            BY <6>1, <6>2, <6>3
        <5>4. idempotency'[request'[m].key] = m
          BY <1>1, <5>1, <5>3 DEF Prepare, TypeOK
        <5> QED
          BY <2>0, <5>2, <5>4 DEF KeyedAt, Snapshot
      <4> QED
        BY <4>3, <4>4
    <3> QED
      BY <3>1, <3>2
  <2>2. Keyed(snapshot)'
    <3> SUFFICES ASSUME NEW m \in Ids PROVE KeyedAt(snapshot, m)'
      BY DEF Keyed
    <3>1. KeyedAt(snapshot, m) /\ snapshot' = snapshot
      BY <1>1 DEF IInv, Keyed, Prepare
    <3>2. m <= Len(request) => request'[m] = request[m]
      BY <2>0 DEF Ids, TypeOK
    <3> QED
      BY <2>0, <3>1, <3>2 DEF KeyedAt, TypeOK, Ids
  <2>3. RowsRequested'
    BY <1>1 DEF IInv, RowsRequested, HasRow, Prepare
  <2>4. InFlightHasRow'
    BY <1>1 DEF IInv, InFlightHasRow, HasRow, Prepare
  <2> QED
    BY <2>1, <2>2, <2>3, <2>4 DEF IInv
<1>2. CASE Persist
  <2>1. Keyed(Snapshot)' /\ Keyed(snapshot)'
    BY <1>2 DEF IInv, Persist, store, Keyed, KeyedAt, Snapshot
  <2>2. \A m \in Ids : /\ HasRow(m) => HasRow(m)'
                       /\ HasRow(m)' => HasRow(m) \/ m \in events
    BY <1>2 DEF Persist, HasRow, TypeOK
  <2>3. events' = events /\ snapshot'.events = events
    BY <1>2 DEF Persist, store, Snapshot
  <2>4. RowsRequested'
    BY <2>2, <2>3 DEF IInv, RowsRequested
  <2>5. InFlightHasRow'
    BY <1>2, <2>2 DEF IInv, InFlightHasRow, Persist, TypeOK
  <2> QED
    BY <2>1, <2>4, <2>5 DEF IInv
<1>3. ASSUME NEW B \in SUBSET Ids, Claim(B) PROVE IInv'
  <2>1. Keyed(Snapshot)' /\ Keyed(snapshot)'
    BY <1>3, SameStoreKeyed DEF IInv, Claim, store
  <2>2. \A m \in Ids : HasRow(m)' <=> HasRow(m)
    <3> TAKE m \in Ids
    <3>1. CASE m \in B
      BY <1>3, <3>1 DEF Claim, Claimable, HasRow, TypeOK, RowType
    <3>2. CASE m \notin B
      BY <1>3, <3>2 DEF Claim, HasRow
    <3> QED
      BY <3>1, <3>2
  <2>3. RowsRequested'
    BY <1>3, <2>2, SameRowsRequested DEF IInv, Claim, store
  <2>4. \A m \in B : HasRow(m)
    BY <1>3 DEF Claim, Claimable, HasRow
  <2>5. InFlightHasRow'
    <3>1. batch' = B /\ drainer.step = "idle" /\ UNCHANGED <<drainer, wire>>
      BY <1>3 DEF Claim, Idle, Working
    <3>2. \A i \in 1..Len(wire) : wire[i] \in Ids
      BY DEF TypeOK
    <3> QED
      BY <2>2, <2>4, <3>1, <3>2 DEF IInv, InFlightHasRow
  <2> QED
    BY <2>1, <2>3, <2>5 DEF IInv
<1>4. ASSUME NEW m \in batch, Begin(m) PROVE IInv'
  <2>1. Keyed(Snapshot)' /\ Keyed(snapshot)'
    BY <1>4, SameStoreKeyed DEF IInv, Begin
  <2>2. RowsRequested'
    BY <1>4 DEF IInv, RowsRequested, HasRow, Begin
  <2>3. drainer'.message = m /\ m \in Ids
    BY <1>4 DEF Begin, Working, TypeOK
  <2>4. InFlightHasRow'
    BY <1>4, <2>3 DEF IInv, InFlightHasRow, HasRow, Begin
  <2> QED
    BY <2>1, <2>2, <2>4 DEF IInv
<1>5. CASE Accepted \/ SendFails
  <2>1. Keyed(Snapshot)' /\ Keyed(snapshot)'
    BY <1>5, SameStoreKeyed DEF IInv, Accepted, SendFails, store
  <2>2. RowsRequested'
    BY <1>5 DEF IInv, RowsRequested, HasRow, Accepted, SendFails, store
  <2>3. drainer.message \in Ids /\ HasRow(drainer.message)
    BY <1>5 DEF IInv, InFlightHasRow, Accepted, SendFails
  <2>4. drainer'.message = drainer.message /\ UNCHANGED <<outbox, batch>>
    BY <1>5 DEF Accepted, SendFails, Working
  <2>5. wire' = wire \/ wire' = Append(wire, drainer.message)
    BY <1>5 DEF Accepted, SendFails
  <2>6. \A i \in 1..Len(wire') : HasRow(wire'[i])
    <3>1. CASE wire' = wire
      BY <3>1 DEF IInv, InFlightHasRow
    <3>2. CASE wire' = Append(wire, drainer.message)
      <4> SUFFICES ASSUME NEW i \in 1..Len(wire') PROVE HasRow(wire'[i])
        OBVIOUS
      <4>1. wire \in Seq(Ids) /\ drainer.message \in Ids
        BY <2>3 DEF TypeOK
      <4>2. CASE i \in 1..Len(wire)
        BY <3>2, <4>1, <4>2 DEF IInv, InFlightHasRow
      <4>3. CASE i = Len(wire) + 1
        BY <2>3, <3>2, <4>1, <4>3
      <4> QED
        BY <3>2, <4>1, <4>2, <4>3
    <3> QED
      BY <2>5, <3>1, <3>2
  <2>7. InFlightHasRow'
    BY <2>3, <2>4, <2>6 DEF IInv, InFlightHasRow, HasRow
  <2> QED
    BY <2>1, <2>2, <2>7 DEF IInv
<1>6. CASE Record
  <2>1. Keyed(Snapshot)' /\ Keyed(snapshot)'
    BY <1>6, SameStoreKeyed DEF IInv, Record
  <2>2. RowsRequested'
    BY <1>6 DEF IInv, RowsRequested, HasRow, Record
  <2>3. drainer.message \in Ids /\ HasRow(drainer.message)
    BY <1>6 DEF IInv, InFlightHasRow, Record
  <2>4. drainer'.message = drainer.message
    BY <1>6 DEF Record, Working
  <2>5. InFlightHasRow'
    BY <1>6, <2>3, <2>4 DEF IInv, InFlightHasRow, HasRow, Record
  <2> QED
    BY <2>1, <2>2, <2>5 DEF IInv
<1>7. CASE MarkRow
  <2>1. Keyed(Snapshot)' /\ Keyed(snapshot)'
    BY <1>7, SameStoreKeyed DEF IInv, MarkRow, store
  <2>2. drainer.message \in Ids /\ HasRow(drainer.message)
    BY <1>7 DEF IInv, InFlightHasRow, MarkRow
  <2>3. Marked(outbox[drainer.message]).status # "absent"
    <3>1. outbox[drainer.message] \in RowType
      BY <2>2 DEF TypeOK
    <3> QED
      BY <3>1 DEF Marked, RowType
  <2>4. \A m \in Ids : HasRow(m)' <=> HasRow(m)
    <3>1. CASE outbox' = outbox
      BY <3>1 DEF HasRow
    <3>2. CASE outbox' = [outbox EXCEPT ![drainer.message] = Marked(@)]
      BY <2>2, <2>3, <3>2 DEF HasRow, TypeOK
    <3> QED
      BY <1>7, <3>1, <3>2 DEF MarkRow
  <2>5. RowsRequested'
    BY <1>7, <2>4, SameRowsRequested DEF IInv, MarkRow, store
  <2>6. InFlightHasRow'
    BY <1>7, <2>4 DEF IInv, InFlightHasRow, MarkRow, Idle, Working, TypeOK
  <2> QED
    BY <2>1, <2>5, <2>6 DEF IInv
<1>8. ASSUME NEW m \in Ids, LockExpires(m) PROVE IInv'
  <2>1. Keyed(Snapshot)' /\ Keyed(snapshot)'
    BY <1>8, SameStoreKeyed DEF IInv, LockExpires, store
  <2>2. \A k \in Ids : HasRow(k)' <=> HasRow(k)
    BY <1>8 DEF LockExpires, HasRow, TypeOK, RowType
  <2>3. RowsRequested'
    BY <1>8, <2>2, SameRowsRequested DEF IInv, LockExpires, store
  <2>4. InFlightHasRow'
    BY <1>8, <2>2 DEF IInv, InFlightHasRow, LockExpires, TypeOK
  <2> QED
    BY <2>1, <2>3, <2>4 DEF IInv
<1>9. ASSUME UNCHANGED <<idempotency, events, snapshot, request, outbox, batch, drainer, wire>>
      PROVE  IInv'
  <2>1. Keyed(Snapshot)' /\ Keyed(snapshot)'
    BY <1>9, SameStoreKeyed DEF IInv
  <2>2. RowsRequested'
    BY <1>9 DEF IInv, RowsRequested, HasRow
  <2>3. InFlightHasRow'
    BY <1>9 DEF IInv, InFlightHasRow, HasRow
  <2> QED
    BY <2>1, <2>2, <2>3 DEF IInv
<1>10. ASSUME NEW m \in Ids, ApplyRetention(m) \/ \E t \in ReceiptTypes : Receipt(m, t)
       PROVE  IInv'
  BY <1>9, <1>10 DEF ApplyRetention, Receipt
<1>11. CASE Drop \/ Disconnected \/ Connected \/ UNCHANGED vars
  BY <1>9, <1>11 DEF Drop, Disconnected, Connected, vars, store
<1>12. CASE Crash
  <2>1. Keyed(Snapshot)' /\ Keyed(snapshot)'
    BY <1>12 DEF IInv, Crash, Keyed, KeyedAt, Snapshot
  <2>2. RowsRequested'
    BY <1>12 DEF IInv, RowsRequested, HasRow, Crash
  <2>3. InFlightHasRow'
    BY <1>12 DEF IInv, InFlightHasRow, HasRow, Crash, Idle, Working
  <2> QED
    BY <2>1, <2>2, <2>3 DEF IInv
<1> QED
  BY <1>1, <1>2, <1>3, <1>4, <1>5, <1>6, <1>7, <1>8, <1>10, <1>11, <1>12 DEF Next, Drainer

LEMMA Inductive == Spec => []IInv
  BY InitIInv, NextIInv, PTL DEF Spec

-----------------------------------------------------------------------------
(* Every reachable state has the declared types.                           *)
THEOREM TypeCorrect == Spec => []TypeOK
<1>1. IInv => TypeOK
  BY DEF IInv
<1> QED
  BY <1>1, Inductive, PTL

(* What the inductive invariant says of a request in the outbox.           *)
LEMMA RowsHaveKeys == IInv => RequestedKeyIsKnown
<1> SUFFICES ASSUME IInv, NEW m \in Ids, HasRow(m)
             PROVE  /\ idempotency[request[m].key] = m
                    /\ snapshot.idempotency[request[m].key] = m
  BY DEF RequestedKeyIsKnown, HasRow
<1>1. m \in events /\ m \in snapshot.events
  BY DEF IInv, RowsRequested
<1> QED
  BY <1>1 DEF IInv, Keyed, KeyedAt, Snapshot

(* While a send request is in the outbox prepare_send_message_with_actor   *)
(* knows its key, before and after every crash and whatever the retention  *)
(* worker has removed.                                                     *)
THEOREM KeysStayKnown == Spec => []RequestedKeyIsKnown
  BY RowsHaveKeys, Inductive, PTL

(* At most one message per idempotency key ever reaches WhatsApp, however  *)
(* often clients retry and the process crashes.                            *)
THEOREM OneMessagePerKey == Spec => []KeySendsOneMessage
<1>1. IInv => KeySendsOneMessage
  <2> SUFFICES ASSUME IInv, NEW i \in 1..Len(wire), NEW j \in 1..Len(wire),
                      request[wire[i]].key = request[wire[j]].key
               PROVE  wire[i] = wire[j]
    BY DEF KeySendsOneMessage
  <2>1. wire[i] \in Ids /\ wire[j] \in Ids
    BY DEF IInv, TypeOK
  <2>2. HasRow(wire[i]) /\ HasRow(wire[j])
    BY DEF IInv, InFlightHasRow
  <2>3. /\ idempotency[request[wire[i]].key] = wire[i]
        /\ idempotency[request[wire[j]].key] = wire[j]
    BY <2>1, <2>2, RowsHaveKeys DEF RequestedKeyIsKnown, HasRow
  <2> QED
    BY <2>3
<1> QED
  BY <1>1, Inductive, PTL

-----------------------------------------------------------------------------
(* How often a message is sent.  The rows the drainer holds are marked     *)
(* "publishing" and are each held once; an error is one of a message that  *)
(* is gone, and only a restart brings it back.                             *)
RowsInHand ==
    /\ \A m \in batch : outbox[m].status = "publishing" /\ m # drainer.message
    /\ drainer.step # "idle" => outbox[drainer.message].status = "publishing"
    /\ drainer.step = "error" => Missing(drainer.message)

(* No receipt finds a message that is not there.                           *)
AbsentHasNoWaId ==
    \A m \in Ids : /\ messages[m].status = "absent" => messages[m].waId = 0
                   /\ snapshot.messages[m].status = "absent" => snapshot.messages[m].waId = 0

(* The one send a message has without a fault is used up: the drainer is   *)
(* past it, the row is closed, or the message is gone.                     *)
Spent(m) ==
    /\ ~(drainer.step = "send" /\ drainer.message = m)
    /\ \/ drainer.message = m
       \/ outbox[m].status \in {"published", "deadlettered"}
       \/ Missing(m)

Repeats == faults["crash"] + faults["mark"]

SendsBounded == \A m \in Ids : Sends(m) <= Repeats + (IF Spent(m) THEN 1 ELSE 0)

SInv == RowsInHand /\ AbsentHasNoWaId /\ SendsBounded

(* What Append does to a count.                                            *)
LEMMA SendsAppend ==
    ASSUME TypeOK, NEW m \in Ids
    PROVE  /\ Sends(m) \in Nat
           /\ wire' = wire => Sends(m)' = Sends(m)
           /\ \A d \in Ids : wire' = Append(wire, d) =>
                 Sends(m)' = Sends(m) + (IF m = d THEN 1 ELSE 0)
<1> DEFINE At(w) == {i \in 1..Len(w) : w[i] = m}
<1>1. wire \in Seq(Ids) /\ Len(wire) \in Nat
  BY DEF TypeOK
<1>2. IsFiniteSet(At(wire)) /\ Cardinality(At(wire)) \in Nat
  <2>1. IsFiniteSet(1..Len(wire))
    BY <1>1, FS_Interval
  <2>2. At(wire) \in SUBSET (1..Len(wire))
    OBVIOUS
  <2>3. IsFiniteSet(At(wire))
    BY <2>1, <2>2, FS_Subset
  <2> QED
    BY <2>3, FS_CardinalityType
<1>3. wire' = wire => Sends(m)' = Sends(m)
  BY DEF Sends
<1>4. ASSUME NEW d \in Ids, wire' = Append(wire, d)
      PROVE  Sends(m)' = Sends(m) + (IF m = d THEN 1 ELSE 0)
  <2>1. /\ Len(wire') = Len(wire) + 1 /\ wire'[Len(wire) + 1] = d
        /\ \A i \in 1..Len(wire) : wire'[i] = wire[i]
    BY <1>1, <1>4
  <2>2. CASE m = d
    <3>1. At(wire') = At(wire) \cup {Len(wire) + 1} /\ Len(wire) + 1 \notin At(wire)
      BY <1>1, <2>1, <2>2
    <3>2. Cardinality(At(wire')) = Cardinality(At(wire)) + 1
      <4> HIDE DEF At
      <4> QED
        BY <1>2, <3>1, FS_AddElement
    <3> QED
      BY <2>2, <3>2 DEF Sends
  <2>3. CASE m # d
    <3>1. At(wire') = At(wire)
      BY <1>1, <2>1, <2>3
    <3>2. Cardinality(At(wire')) = Cardinality(At(wire)) + 0
      <4> HIDE DEF At
      <4> QED
        BY <1>2, <3>1
    <3> QED
      BY <2>3, <3>2 DEF Sends
  <2> QED
    BY <2>2, <2>3
<1> QED
  BY <1>2, <1>3, <1>4 DEF Sends

LEMMA RepeatsGrow ==
    ASSUME TypeOK, [Next]_vars
    PROVE  /\ Repeats \in Nat /\ Repeats' \in Nat /\ Repeats' >= Repeats
           /\ \A max : Fault("crash", max) \/ Fault("mark", max) => Repeats' = Repeats + 1
<1>1. faults \in [FaultKinds -> Nat] /\ "crash" \in FaultKinds /\ "mark" \in FaultKinds
  BY DEF TypeOK, FaultKinds
<1>2. ASSUME NEW k \in FaultKinds, NEW max, Fault(k, max)
      PROVE  /\ Repeats' \in Nat /\ Repeats' >= Repeats
             /\ k \in {"crash", "mark"} => Repeats' = Repeats + 1
  BY <1>1, <1>2 DEF Fault, Repeats
<1>3. faults' = faults \/ \E k \in FaultKinds : \E max : Fault(k, max)
  BY DEF Next, Drainer, Prepare, Persist, Claim, Begin, Accepted, Record, MarkRow, SendFails,
         LockExpires, Receipt, ApplyRetention, Drop, Disconnected, Connected, Crash,
         FaultKinds, vars
<1>4. Repeats \in Nat /\ (faults' = faults => Repeats' = Repeats)
  BY <1>1 DEF Repeats
<1> QED
  BY <1>1, <1>2, <1>3, <1>4

(* A message without an outbox row was never sent, and is in nobody's      *)
(* hands; the next message id has none.                                    *)
LEMMA NextIdIsFresh ==
    ASSUME IInv, Len(request) + 1 \in Ids
    PROVE  /\ Sends(Len(request) + 1) = 0
           /\ drainer.step # "idle" => drainer.message # Len(request) + 1
<1> DEFINE n == Len(request) + 1
<1>1. ~HasRow(n)
  BY DEF IInv, TypeOK, RowsRequested, Keyed, KeyedAt, Snapshot
<1>2. {i \in 1..Len(wire) : wire[i] = n} = {}
  BY <1>1 DEF IInv, InFlightHasRow
<1> QED
  BY <1>1, <1>2, FS_EmptySet DEF Sends, IInv, InFlightHasRow

LEMMA DrainerParts ==
    ASSUME TypeOK
    PROVE  /\ drainer.step = "idle" <=> drainer = Idle
           /\ drainer.step # "idle" => drainer.message \in Ids
           /\ Idle.step = "idle" /\ Idle.message \notin Ids
  BY DEF TypeOK, DrainerType, Idle, Working, NoMessage, Ids

LEMMA NextSInv == IInv /\ SInv /\ [Next]_vars => SInv'
<1> SUFFICES ASSUME IInv, SInv, [Next]_vars PROVE SInv'
  OBVIOUS
<1> TypeOK
  BY DEF IInv
<1>1. /\ Repeats \in Nat /\ Repeats' \in Nat /\ Repeats' >= Repeats
      /\ \A m \in Ids : Sends(m) \in Nat /\ Sends(m) <= Repeats + (IF Spent(m) THEN 1 ELSE 0)
  BY RepeatsGrow, SendsAppend DEF SInv, SendsBounded
<1>2. ASSUME NEW m \in Ids, wire' = wire, Spent(m) => Spent(m)'
      PROVE  Sends(m)' <= Repeats' + (IF Spent(m)' THEN 1 ELSE 0)
  BY <1>1, <1>2, SendsAppend
<1>3. ASSUME NEW m \in Ids, wire' = wire, Repeats' = Repeats + 1
      PROVE  Sends(m)' <= Repeats' + (IF Spent(m)' THEN 1 ELSE 0)
  BY <1>1, <1>3, SendsAppend
<1> USE DEF Missing
<1>4. ASSUME NEW k \in Keys, NEW b \in Bodies, Prepare(k, b) PROVE SInv'
  <2> DEFINE n == Len(request) + 1
  <2>1. n \in Ids /\ UNCHANGED <<snapshot, outbox, batch, drainer, wire>>
    BY <1>4, DeliveryAssumption DEF Prepare, TypeOK, Ids
  <2>2. \A m \in Ids : messages'[m] = IF m = n THEN Queued ELSE messages[m]
    BY <1>4, <2>1 DEF Prepare, TypeOK
  <2>3. RowsInHand'
    BY <2>1, <2>2, NextIdIsFresh, DrainerParts DEF SInv, RowsInHand
  <2>4. AbsentHasNoWaId'
    BY <2>1, <2>2 DEF SInv, AbsentHasNoWaId, Queued
  <2>5. ASSUME NEW m \in Ids PROVE Sends(m)' <= Repeats' + (IF Spent(m)' THEN 1 ELSE 0)
    <3>1. CASE m = n
      BY <1>1, <2>1, <3>1, NextIdIsFresh, SendsAppend
    <3>2. CASE m # n
      BY <1>2, <2>1, <2>2, <3>2 DEF Spent
    <3> QED
      BY <3>1, <3>2
  <2> QED
    BY <2>3, <2>4, <2>5 DEF SInv, SendsBounded
<1>5. CASE Persist
  <2>1. UNCHANGED <<messages, batch, drainer, wire>> /\ snapshot'.messages = messages
    BY <1>5 DEF Persist, store, Snapshot
  <2>2. \A m \in Ids : outbox[m].status # "absent" => outbox'[m] = outbox[m]
    BY <1>5 DEF Persist
  <2>3. RowsInHand'
    BY <2>1, <2>2, DrainerParts DEF SInv, RowsInHand, TypeOK
  <2>4. AbsentHasNoWaId'
    BY <2>1 DEF SInv, AbsentHasNoWaId
  <2>5. \A m \in Ids : Spent(m) => Spent(m)'
    BY <2>1, <2>2 DEF Spent
  <2> QED
    BY <1>2, <2>1, <2>3, <2>4, <2>5 DEF SInv, SendsBounded
<1>6. ASSUME NEW B \in SUBSET Ids, Claim(B) PROVE SInv'
  <2>1. /\ UNCHANGED <<messages, snapshot, drainer, wire>> /\ batch' = B /\ drainer = Idle
    BY <1>6 DEF Claim, store
  <2>2. \A m \in Ids : IF m \in B THEN outbox'[m].status = "publishing"
                                       /\ outbox[m].status \notin {"published", "deadlettered"}
                                  ELSE outbox'[m] = outbox[m]
    BY <1>6 DEF Claim, Claimable, TypeOK, RowType
  <2>3. RowsInHand'
    BY <2>1, <2>2, DrainerParts DEF RowsInHand
  <2>4. AbsentHasNoWaId'
    BY <2>1 DEF SInv, AbsentHasNoWaId
  <2>5. \A m \in Ids : Spent(m) => Spent(m)'
    BY <2>1, <2>2 DEF Spent
  <2> QED
    BY <1>2, <2>1, <2>3, <2>4, <2>5 DEF SInv, SendsBounded
<1>7. ASSUME NEW m \in batch, Begin(m) PROVE SInv'
  <2>1. /\ UNCHANGED <<messages, snapshot, outbox, wire>> /\ batch' = batch \ {m}
        /\ drainer = Idle /\ drainer'.message = m /\ m \in Ids
        /\ drainer'.step # "idle"
        /\ drainer'.step = "send" => ~Missing(m)
        /\ drainer'.step = "error" => Missing(m)
    BY <1>7 DEF Begin, Working, TypeOK
  <2>2. RowsInHand'
    BY <2>1 DEF SInv, RowsInHand
  <2>3. AbsentHasNoWaId'
    BY <2>1 DEF SInv, AbsentHasNoWaId
  <2>4. ASSUME NEW j \in Ids PROVE Spent(j) => Spent(j)'
    <3>1. CASE j # m
      BY <2>1, <3>1, DrainerParts DEF Spent
    <3>2. CASE j = m /\ drainer'.step # "send"
      BY <2>1, <3>2 DEF Spent
    <3>3. CASE j = m /\ drainer'.step = "send"
      <4>1. outbox[m].status = "publishing" /\ drainer.message # m
        BY <2>1, DrainerParts DEF SInv, RowsInHand
      <4> QED
        BY <2>1, <3>3, <4>1 DEF Spent
    <3> QED
      BY <3>1, <3>2, <3>3
  <2> QED
    BY <1>2, <2>1, <2>2, <2>3, <2>4 DEF SInv, SendsBounded
<1>8. CASE Accepted \/ SendFails
  <2>0. PICK d \in Ids : d = drainer.message
    BY <1>8, DrainerParts DEF Accepted, SendFails
  <2>1. /\ UNCHANGED <<messages, snapshot, outbox, batch>>
        /\ drainer.step = "send" /\ drainer'.message = d /\ drainer'.step \in {"sent", "failed"}
        /\ wire' = wire \/ wire' = Append(wire, d)
    BY <1>8, <2>0 DEF Accepted, SendFails, Working, store
  <2>3. RowsInHand'
    BY <2>0, <2>1 DEF SInv, RowsInHand
  <2>4. AbsentHasNoWaId'
    BY <2>1 DEF SInv, AbsentHasNoWaId
  <2>5. ~Spent(d) /\ Spent(d)' /\ \A m \in Ids \ {d} : Spent(m) => Spent(m)'
    BY <2>0, <2>1 DEF Spent
  <2>6. ASSUME NEW m \in Ids PROVE Sends(m)' <= Repeats' + (IF Spent(m)' THEN 1 ELSE 0)
    <3>1. CASE wire' = wire
      <4>1. Spent(m) => Spent(m)'
        BY <2>5
      <4> QED
        BY <1>2, <3>1, <4>1
    <3>2. CASE wire' = Append(wire, d)
      <4>1. Sends(m)' = Sends(m) + (IF m = d THEN 1 ELSE 0)
        BY <3>2, SendsAppend
      <4>2. CASE m = d
        <5>1. Sends(m)' = Sends(m) + 1 /\ Spent(m)' /\ ~Spent(m)
          BY <2>5, <4>1, <4>2
        <5> QED
          BY <1>1, <5>1
      <4>3. CASE m # d
        <5>1. Sends(m)' = Sends(m) + 0 /\ (Spent(m) => Spent(m)')
          BY <2>5, <4>1, <4>3
        <5> QED
          BY <1>1, <5>1
      <4> QED
        BY <4>2, <4>3
    <3> QED
      BY <2>1, <3>1, <3>2
  <2> QED
    BY <2>3, <2>4, <2>6 DEF SInv, SendsBounded
<1>9. CASE Record
  <2> DEFINE d == drainer.message
  <2>1. /\ UNCHANGED <<snapshot, outbox, batch, wire>>
        /\ drainer.step \in {"sent", "failed"} /\ drainer'.message = d
        /\ \/ drainer'.step = "mark" /\ ~Missing(d)
           \/ drainer'.step = "error" /\ Missing(d) /\ messages' = messages
    BY <1>9 DEF Record, Working
  <2>2. d \in Ids
    BY <2>1, DrainerParts
  <2>3. \A m \in Ids \ {d} : messages'[m] = messages[m]
    BY <1>9 DEF Record, TypeOK
  <2>4. drainer'.step = "mark" => messages'[d].status # "absent"
    <3>1. messages[d] \in MessageType
      BY <2>2 DEF TypeOK
    <3> QED
      BY <1>9, <2>1, <2>2, <3>1 DEF Record, MessageType, TypeOK, Working
  <2>5. RowsInHand'
    BY <2>1 DEF SInv, RowsInHand
  <2>6. AbsentHasNoWaId'
    BY <2>1, <2>2, <2>3, <2>4 DEF SInv, AbsentHasNoWaId
  <2>7. \A m \in Ids : Spent(m) => Spent(m)'
    BY <2>1, <2>3 DEF Spent
  <2> QED
    BY <1>2, <2>1, <2>5, <2>6, <2>7 DEF SInv, SendsBounded
<1>10. CASE MarkRow
  <2>0. PICK d \in Ids : d = drainer.message
    BY <1>10, DrainerParts DEF MarkRow
  <2>1. /\ UNCHANGED <<messages, snapshot, batch, wire>> /\ drainer' = Idle
        /\ drainer.step \in {"mark", "error"}
    BY <1>10 DEF MarkRow, store
  <2>3. \A m \in Ids \ {d} : outbox'[m] = outbox[m]
    BY <1>10, <2>0 DEF MarkRow, TypeOK
  <2>4. RowsInHand'
    BY <2>0, <2>1, <2>3, DrainerParts DEF SInv, RowsInHand, TypeOK
  <2>5. AbsentHasNoWaId'
    BY <2>1 DEF SInv, AbsentHasNoWaId
  <2>6. CASE Fault("mark", MaxMarkErrors)
    <3>1. Repeats' = Repeats + 1
      BY <2>6, RepeatsGrow
    <3> QED
      BY <1>3, <2>1, <2>4, <2>5, <3>1 DEF SInv, SendsBounded
  <2>7. CASE outbox' = [outbox EXCEPT ![d] = Marked(@)]
    <3>1. Spent(d)'
      <4>1. CASE drainer.step = "mark"
        <5>1. outbox'[d].status = "published"
          BY <2>7, <4>1 DEF Marked, TypeOK, RowType
        <5> QED
          BY <2>1, <5>1, DrainerParts DEF Spent
      <4>2. CASE drainer.step = "error"
        BY <2>0, <2>1, <4>2, DrainerParts DEF Spent, SInv, RowsInHand
      <4> QED
        BY <2>1, <4>1, <4>2
    <3>2. \A m \in Ids \ {d} : Spent(m) => Spent(m)'
      BY <2>0, <2>1, <2>3, DrainerParts DEF Spent
    <3>3. \A m \in Ids : Spent(m) => Spent(m)'
      BY <3>1, <3>2
    <3> QED
      BY <1>2, <2>1, <2>4, <2>5, <3>3 DEF SInv, SendsBounded
  <2> QED
    BY <1>10, <2>0, <2>6, <2>7 DEF MarkRow
<1>11. ASSUME NEW m \in Ids, LockExpires(m) PROVE SInv'
  <2>1. UNCHANGED <<messages, snapshot, batch, drainer, wire>>
    BY <1>11 DEF LockExpires, store
  <2>2. \A j \in Ids : outbox'[j].status = outbox[j].status
    BY <1>11 DEF LockExpires, TypeOK, RowType
  <2>3. RowsInHand'
    BY <2>1, <2>2, DrainerParts DEF SInv, RowsInHand, TypeOK
  <2>4. AbsentHasNoWaId'
    BY <2>1 DEF SInv, AbsentHasNoWaId
  <2>5. \A j \in Ids : Spent(j) => Spent(j)'
    BY <2>1, <2>2 DEF Spent
  <2> QED
    BY <1>2, <2>1, <2>3, <2>4, <2>5 DEF SInv, SendsBounded
<1>12. ASSUME NEW m \in Ids, NEW t \in ReceiptTypes, Receipt(m, t) PROVE SInv'
  <2>1. UNCHANGED <<snapshot, outbox, batch, drainer, wire>> /\ ~Missing(m)
    BY <1>12 DEF Receipt, SInv, AbsentHasNoWaId
  <2>2. /\ \A j \in Ids \ {m} : messages'[j] = messages[j]
        /\ messages'[m].status = t /\ t # "absent"
    BY <1>12, DeliveryAssumption DEF Receipt, TypeOK, MessageType
  <2>3. \A j \in Ids : Missing(j)' <=> Missing(j)
    BY <2>1, <2>2
  <2>4. RowsInHand'
    BY <2>1, <2>3, DrainerParts DEF SInv, RowsInHand
  <2>5. AbsentHasNoWaId'
    BY <2>1, <2>2 DEF SInv, AbsentHasNoWaId
  <2>6. \A j \in Ids : Spent(j) => Spent(j)'
    BY <2>1, <2>3 DEF Spent
  <2> QED
    BY <1>2, <2>1, <2>4, <2>5, <2>6 DEF SInv, SendsBounded
<1>13. ASSUME NEW m \in Ids, ApplyRetention(m) PROVE SInv'
  <2>1. UNCHANGED <<snapshot, outbox, batch, drainer, wire>>
    BY <1>13 DEF ApplyRetention
  <2>2. \A j \in Ids : messages'[j] = IF j = m THEN Absent ELSE messages[j]
    BY <1>13 DEF ApplyRetention, TypeOK
  <2>3. RowsInHand'
    BY <2>1, <2>2, DrainerParts DEF SInv, RowsInHand, Absent
  <2>4. AbsentHasNoWaId'
    BY <2>1, <2>2 DEF SInv, AbsentHasNoWaId, Absent
  <2>5. \A j \in Ids : Spent(j) => Spent(j)'
    BY <2>1, <2>2 DEF Spent, Absent
  <2> QED
    BY <1>2, <2>1, <2>3, <2>4, <2>5 DEF SInv, SendsBounded
<1>14. CASE Drop \/ Disconnected \/ Connected \/ UNCHANGED vars
  <2>1. UNCHANGED <<messages, snapshot, outbox, batch, drainer, wire>>
    BY <1>14 DEF Drop, Disconnected, Connected, vars, store
  <2>2. RowsInHand' /\ AbsentHasNoWaId' /\ \A j \in Ids : Spent(j) => Spent(j)'
    BY <2>1 DEF SInv, RowsInHand, AbsentHasNoWaId, Spent
  <2> QED
    BY <1>2, <2>1, <2>2 DEF SInv, SendsBounded
<1>15. CASE Crash
  <2>1. UNCHANGED <<snapshot, wire>> /\ batch' = {} /\ drainer' = Idle
        /\ messages' = snapshot.messages
    BY <1>15 DEF Crash
  <2>2. RowsInHand' /\ AbsentHasNoWaId'
    BY <2>1, DrainerParts DEF SInv, RowsInHand, AbsentHasNoWaId
  <2>3. Repeats' = Repeats + 1
    BY <1>15, RepeatsGrow DEF Crash
  <2> QED
    BY <1>3, <2>1, <2>2, <2>3 DEF SInv, SendsBounded
<1> QED
  BY <1>4, <1>5, <1>6, <1>7, <1>8, <1>9, <1>10, <1>11, <1>12, <1>13, <1>14, <1>15
     DEF Next, Drainer

LEMMA InitSInv == Init => SInv
<1> SUFFICES ASSUME Init PROVE SInv
  OBVIOUS
<1>1. RowsInHand /\ AbsentHasNoWaId
  BY DEF Init, RowsInHand, AbsentHasNoWaId, Absent, Idle, Working, Snapshot
<1>2. ASSUME NEW m \in Ids PROVE Sends(m) <= Repeats + (IF Spent(m) THEN 1 ELSE 0)
  <2>1. {i \in 1..Len(wire) : wire[i] = m} = {}
    BY DEF Init
  <2>2. Sends(m) = 0 /\ Repeats = 0
    BY <2>1, FS_EmptySet DEF Init, Sends, Repeats, FaultKinds
  <2> QED
    BY <2>2
<1> QED
  BY <1>1, <1>2 DEF SInv, SendsBounded

(* However the row locks of the outbox expire and whatever sends fail or   *)
(* time out: dispatch_prepared_message hands a message to WhatsApp once,   *)
(* and once more for each crash and each outbox update that failed at the  *)
(* most.                                                                   *)
THEOREM MessagesAreSentOncePerFault == Spec => []SentOncePerFault
<1>1. IInv /\ SInv => SentOncePerFault
  <2> SUFFICES ASSUME IInv, SInv, NEW m \in Ids
               PROVE  Sends(m) <= 1 + faults["crash"] + faults["mark"]
    BY DEF SentOncePerFault
  <2>1. Sends(m) \in Nat /\ faults["crash"] \in Nat /\ faults["mark"] \in Nat
    BY SendsAppend DEF IInv, TypeOK, FaultKinds
  <2>2. Sends(m) <= Repeats + 1 \/ Sends(m) <= Repeats + 0
    BY DEF SInv, SendsBounded
  <2> QED
    BY <2>1, <2>2 DEF Repeats
<1> QED
  BY <1>1, InitSInv, NextSInv, Inductive, PTL DEF Spec

-----------------------------------------------------------------------------
(* The refinement of IdempotentSend.  The binding of a key is the one in   *)
(* the snapshot.  It is never changed because the store agrees with it,    *)
(* and never shared because a message has the key it was requested with.   *)
KeyedByRequest ==
    \A k \in Keys : idempotency[k] # NoMessage =>
        idempotency[k] <= Len(request) /\ request[idempotency[k]].key = k

SnapshotKeysKept ==
    \A k \in Keys : snapshot.idempotency[k] # NoMessage =>
        idempotency[k] = snapshot.idempotency[k]

KInv == KeyedByRequest /\ SnapshotKeysKept

LEMMA InitKInv == Init => KInv
  BY DEF Init, KInv, KeyedByRequest, SnapshotKeysKept, Snapshot

LEMMA NextKInv == TypeOK /\ KInv /\ [Next]_vars => KInv'
<1> SUFFICES ASSUME TypeOK, KInv, [Next]_vars PROVE KInv'
  OBVIOUS
<1>0. /\ idempotency \in [Keys -> {NoMessage} \cup Ids] /\ Len(request) \in Nat
      /\ request \in Seq([key : Keys, body : Bodies])
  BY DEF TypeOK
<1>1. ASSUME NEW k \in Keys, NEW b \in Bodies, Prepare(k, b) PROVE KInv'
  <2>1. /\ idempotency[k] = NoMessage /\ snapshot' = snapshot
        /\ idempotency' = [idempotency EXCEPT ![k] = Len(request) + 1]
        /\ request' = Append(request, [key |-> k, body |-> b])
    BY <1>1 DEF Prepare
  <2>2. /\ Len(request') = Len(request) + 1 /\ request'[Len(request) + 1].key = k
        /\ \A m \in 1..Len(request) : request'[m] = request[m]
    BY <1>0, <2>1
  <2>3. KeyedByRequest'
    <3> SUFFICES ASSUME NEW l \in Keys, idempotency'[l] # NoMessage
                 PROVE  idempotency'[l] <= Len(request') /\ request'[idempotency'[l]].key = l
      BY DEF KeyedByRequest
    <3>1. CASE l = k
      BY <1>0, <2>1, <2>2, <3>1
    <3>2. CASE l # k
      <4>1. idempotency'[l] = idempotency[l]
        BY <1>0, <2>1, <3>2
      <4>2. idempotency[l] <= Len(request) /\ request[idempotency[l]].key = l
        BY <4>1 DEF KInv, KeyedByRequest
      <4>3. idempotency[l] \in Ids
        BY <1>0, <4>1
      <4>4. idempotency[l] \in 1..Len(request)
        BY <1>0, <4>2, <4>3 DEF Ids
      <4> QED
        BY <1>0, <2>2, <4>1, <4>2, <4>4
    <3> QED
      BY <3>1, <3>2
  <2>4. SnapshotKeysKept'
    BY <1>0, <2>1 DEF KInv, SnapshotKeysKept
  <2> QED
    BY <2>3, <2>4 DEF KInv
<1>2. CASE Persist
  BY <1>2 DEF Persist, store, Snapshot, KInv, KeyedByRequest, SnapshotKeysKept
<1>3. CASE Crash
  BY <1>3 DEF Crash, KInv, KeyedByRequest, SnapshotKeysKept
<1>4. CASE UNCHANGED <<idempotency, snapshot, request>>
  BY <1>4 DEF KInv, KeyedByRequest, SnapshotKeysKept
<1>5. CASE Drainer \/ SendFails
  BY <1>4, <1>5 DEF Drainer, Claim, Begin, Accepted, Record, MarkRow, SendFails, store
<1>6. ASSUME NEW m \in Ids, LockExpires(m) \/ ApplyRetention(m)
                            \/ \E t \in ReceiptTypes : Receipt(m, t)
      PROVE  KInv'
  BY <1>4, <1>6 DEF LockExpires, ApplyRetention, Receipt, store
<1>7. CASE Drop \/ Disconnected \/ Connected \/ UNCHANGED vars
  BY <1>4, <1>7 DEF Drop, Disconnected, Connected, vars, store
<1> QED
  BY <1>1, <1>2, <1>3, <1>5, <1>6, <1>7 DEF Next

(* Each variable of IdempotentSend stays when the part of the state it is  *)
(* read from does.                                                         *)
LEMMA PromiseStutters ==
    ASSUME UNCHANGED <<snapshot, wire, Repeats, Settled>> PROVE UNCHANGED Promise!vars
<1>1. \A m \in Ids : Sends(m)' = Sends(m)
  BY DEF Sends
<1> QED
  BY <1>1 DEF Promise!vars, Repeats

LEMMA OtherFaults ==
    ASSUME TypeOK, NEW k \in {"send", "drop", "removal"}, NEW max, Fault(k, max)
    PROVE  Repeats' = Repeats
  BY DEF Fault, Repeats, TypeOK, FaultKinds

(* Rows change without a request being closed or opened again.             *)
LEMMA SameSettled ==
    ASSUME \A m \in Ids : \/ outbox'[m].status = outbox[m].status
                          \/ /\ outbox[m].status \notin {"published", "deadlettered"}
                             /\ outbox'[m].status \notin {"published", "deadlettered"}
    PROVE  Settled' = Settled
  BY DEF Settled

(* A request the drainer has in hand is bound and still open.              *)
LEMMA InHandIsOpen ==
    ASSUME IInv, SInv, drainer.step # "idle"
    PROVE  drainer.message \in Ids /\ Promise!Open(drainer.message)
<1>1. PICK d \in Ids : d = drainer.message /\ HasRow(d) /\ outbox[d].status = "publishing"
  BY DEF IInv, SInv, InFlightHasRow, RowsInHand
<1>2. snapshot.idempotency[request[d].key] = d
  BY <1>1, RowsHaveKeys DEF RequestedKeyIsKnown, HasRow
<1>3. request[d].key \in Keys
  <2>1. d \in events /\ d \in 1..Len(request)
    BY <1>1 DEF IInv, RowsRequested, Keyed, KeyedAt, Snapshot, Ids, TypeOK
  <2>2. request[d] \in [key : Keys, body : Bodies]
    BY <2>1, ItemOfSeq DEF IInv, TypeOK
  <2> QED
    BY <2>2
<1>4. d \notin Settled
  BY <1>1 DEF Settled
<1> QED
  BY <1>1, <1>2, <1>3, <1>4 DEF Promise!Open

(* send_text or send_media hands over the message the drainer works on.    *)
LEMMA SendPromise ==
    ASSUME IInv, SInv, [Next]_vars, drainer.step = "send",
           UNCHANGED <<snapshot, outbox, Repeats>>, wire' = Append(wire, drainer.message)
    PROVE  Promise!Next
<1>1. PICK d \in Ids : d = drainer.message /\ Promise!Open(d)
  BY InHandIsOpen
<1>2. TypeOK /\ Repeats \in Nat
  BY RepeatsGrow DEF IInv
<1>3. \A m \in Ids : Sends(m) \in Nat /\ Sends(m)' = Sends(m) + (IF m = d THEN 1 ELSE 0)
  BY <1>1, <1>2, SendsAppend
<1>4. Sends(d) <= Repeats
  <2>1. ~Spent(d)
    BY <1>1 DEF Spent
  <2>2. Sends(d) <= Repeats + 0
    BY <2>1 DEF SInv, SendsBounded
  <2> QED
    BY <1>2, <1>3, <2>2
<1>5. [m \in Ids |-> Sends(m)]' = [[m \in Ids |-> Sends(m)] EXCEPT ![d] = @ + 1]
  <2>1. \A m \in Ids : Sends(m)' = [[n \in Ids |-> Sends(n)] EXCEPT ![d] = @ + 1][m]
    BY <1>3
  <2> QED
    BY <2>1
<1>6. Settled' = Settled
  BY DEF Settled
<1>7. Promise!Send(d)
  BY <1>1, <1>4, <1>5, <1>6 DEF Promise!Send, Repeats
<1> QED
  BY <1>7 DEF Promise!Next

LEMMA NextPromise == IInv /\ SInv /\ KInv /\ IInv' /\ [Next]_vars => [Promise!Next]_Promise!vars
<1> SUFFICES ASSUME IInv, SInv, KInv, IInv', [Next]_vars
             PROVE  Promise!Next \/ UNCHANGED Promise!vars
  OBVIOUS
<1>0. TypeOK /\ Repeats \in Nat
  BY RepeatsGrow DEF IInv
<1>1. ASSUME UNCHANGED <<snapshot, wire, outbox, faults>> PROVE UNCHANGED Promise!vars
  BY <1>1, PromiseStutters DEF Repeats, Settled
<1>2. ASSUME NEW k \in Keys, NEW b \in Bodies, Prepare(k, b) PROVE UNCHANGED Promise!vars
  BY <1>1, <1>2 DEF Prepare
<1>3. CASE Persist
  <2>1. snapshot'.idempotency = idempotency /\ UNCHANGED <<wire, faults>>
    BY <1>3 DEF Persist, Snapshot
  <2>2. Settled' = Settled
    <3>1. ASSUME NEW m \in Ids
          PROVE  \/ outbox'[m] = outbox[m]
                 \/ outbox[m].status = "absent" /\ outbox'[m].status = "queued"
      BY <1>0, <1>3 DEF Persist, TypeOK, RowType
    <3> QED
      BY <3>1, SameSettled
  <2>3. \A m \in Ids : Sends(m)' = Sends(m)
    BY <2>1 DEF Sends
  <2>4. idempotency \in [Keys -> Ids \cup {NoMessage}]
    BY <1>0 DEF TypeOK
  <2>5. \A k \in Keys : snapshot.idempotency[k] # NoMessage =>
            idempotency[k] = snapshot.idempotency[k]
    BY DEF KInv, SnapshotKeysKept
  <2>6. \A k, l \in Keys : (idempotency[k] # NoMessage /\ idempotency[k] = idempotency[l]) => k = l
    BY DEF KInv, KeyedByRequest
  <2>7. Promise!Bind
    BY <2>1, <2>2, <2>3, <2>4, <2>5, <2>6 DEF Promise!Bind
  <2> QED
    BY <2>7 DEF Promise!Next
<1>4. ASSUME NEW B \in SUBSET Ids, Claim(B) PROVE UNCHANGED Promise!vars
  <2>1. UNCHANGED <<snapshot, wire, faults>>
    BY <1>4 DEF Claim
  <2>2. ASSUME NEW m \in Ids
        PROVE  \/ outbox'[m] = outbox[m]
               \/ /\ outbox[m].status \in {"queued", "failed", "publishing"}
                  /\ outbox'[m].status = "publishing"
    BY <1>0, <1>4 DEF Claim, Claimable, TypeOK, RowType
  <2>3. Settled' = Settled
    BY <2>2, SameSettled
  <2> QED
    BY <2>1, <2>3, PromiseStutters DEF Repeats
<1>5. ASSUME NEW m \in Ids, LockExpires(m) PROVE UNCHANGED Promise!vars
  <2>1. UNCHANGED <<snapshot, wire, faults>>
    BY <1>5 DEF LockExpires
  <2>2. \A j \in Ids : outbox'[j].status = outbox[j].status
    BY <1>0, <1>5 DEF LockExpires, TypeOK, RowType
  <2>3. Settled' = Settled
    BY <2>2, SameSettled
  <2> QED
    BY <2>1, <2>3, PromiseStutters DEF Repeats
<1>6. ASSUME NEW m \in batch, Begin(m) PROVE UNCHANGED Promise!vars
  BY <1>1, <1>6 DEF Begin
<1>7. CASE Accepted
  <2>1. drainer.step = "send" /\ UNCHANGED <<snapshot, outbox, Repeats>>
        /\ wire' = Append(wire, drainer.message)
    BY <1>7 DEF Accepted, Repeats
  <2> QED
    BY <2>1, SendPromise
<1>8. CASE SendFails
  <2>1. drainer.step = "send" /\ UNCHANGED <<snapshot, outbox>>
        /\ (wire' = Append(wire, drainer.message) \/ wire' = wire)
    BY <1>8 DEF SendFails
  <2>2. Repeats' = Repeats
    BY <1>0, <1>8, OtherFaults DEF SendFails
  <2>3. Settled' = Settled
    BY <2>1 DEF Settled
  <2> QED
    BY <2>1, <2>2, <2>3, SendPromise, PromiseStutters
<1>9. CASE Record
  BY <1>1, <1>9 DEF Record
<1>10. CASE MarkRow
  <2>1. PICK d \in Ids : d = drainer.message /\ Promise!Open(d)
    BY <1>10, InHandIsOpen DEF MarkRow
  <2>2. UNCHANGED <<snapshot, wire>> /\ drainer.step \in {"mark", "error"}
    BY <1>10 DEF MarkRow
  <2>3. \A m \in Ids : Sends(m)' = Sends(m)
    BY <2>2 DEF Sends
  <2>4. CASE Fault("mark", MaxMarkErrors) /\ outbox' = outbox
    <3>1. Repeats' = Repeats + 1 /\ Settled' = Settled
      BY <1>0, <2>4, RepeatsGrow DEF Settled
    <3>2. Promise!Fail
      BY <2>2, <2>3, <3>1 DEF Promise!Fail, Repeats
    <3> QED
      BY <3>2 DEF Promise!Next
  <2>5. CASE outbox' = [outbox EXCEPT ![d] = Marked(@)] /\ faults' = faults
    <3>1. outbox[d] \in RowType
      BY <1>0 DEF TypeOK
    <3>2. outbox'[d] = Marked(outbox[d]) /\ \A m \in Ids \ {d} : outbox'[m] = outbox[m]
      BY <1>0, <2>5 DEF TypeOK
    <3>3. CASE outbox'[d].status \in {"published", "deadlettered"}
      <4>1. Settled' = Settled \cup {d}
        BY <3>2, <3>3 DEF Settled
      <4>2. Promise!Settle(d)
        BY <2>1, <2>2, <2>3, <2>5, <4>1 DEF Promise!Settle
      <4> QED
        BY <4>2 DEF Promise!Next
    <3>4. CASE outbox'[d].status \notin {"published", "deadlettered"}
      <4>1. outbox[d].status \notin {"published", "deadlettered"}
        BY <2>1 DEF Promise!Open, Settled
      <4>2. Settled' = Settled
        BY <3>2, <3>4, <4>1, SameSettled
      <4> QED
        BY <2>2, <2>5, <4>2, PromiseStutters DEF Repeats
    <3> QED
      BY <3>3, <3>4
  <2> QED
    BY <1>10, <2>1, <2>4, <2>5 DEF MarkRow
<1>11. ASSUME NEW m \in Ids, NEW t \in ReceiptTypes, Receipt(m, t) PROVE UNCHANGED Promise!vars
  BY <1>1, <1>11 DEF Receipt
<1>12. ASSUME NEW m \in Ids, ApplyRetention(m) PROVE UNCHANGED Promise!vars
  <2>1. UNCHANGED <<snapshot, wire, outbox>> /\ Repeats' = Repeats
    BY <1>0, <1>12, OtherFaults DEF ApplyRetention
  <2> QED
    BY <2>1, PromiseStutters DEF Settled
<1>13. CASE Drop
  <2>1. UNCHANGED <<snapshot, wire, outbox>> /\ Repeats' = Repeats
    BY <1>0, <1>13, OtherFaults DEF Drop
  <2> QED
    BY <2>1, PromiseStutters DEF Settled
<1>14. CASE Disconnected \/ Connected \/ UNCHANGED vars
  BY <1>1, <1>14 DEF Disconnected, Connected, vars
<1>15. CASE Crash
  <2>1. UNCHANGED <<snapshot, wire, outbox>> /\ Repeats' = Repeats + 1
    BY <1>0, <1>15, RepeatsGrow DEF Crash
  <2>2. Settled' = Settled /\ \A m \in Ids : Sends(m)' = Sends(m)
    BY <2>1 DEF Settled, Sends
  <2>3. Promise!Fail
    BY <2>1, <2>2 DEF Promise!Fail, Repeats
  <2> QED
    BY <2>3 DEF Promise!Next
<1> QED
  BY <1>2, <1>3, <1>4, <1>5, <1>6, <1>7, <1>8, <1>9, <1>10, <1>11, <1>12, <1>13, <1>14, <1>15
     DEF Next, Drainer

(* Command, snapshot, outbox and drainer together keep the promise of      *)
(* IdempotentSend: a key is bound durably and for good before its message  *)
(* goes out, no send is repeated without a crash or a lost update, and no  *)
(* closed request is sent.                                                 *)
THEOREM OutboundImplementsSend == Spec => ImplementsSend
<1>1. Init => Promise!Init
  <2> SUFFICES ASSUME Init PROVE Promise!Init
    OBVIOUS
  <2>1. Settled = {} /\ snapshot.idempotency = [k \in Keys |-> NoMessage]
    BY DEF Init, Settled, Snapshot
  <2>2. \A m \in Ids : {i \in 1..Len(wire) : wire[i] = m} = {}
    BY DEF Init
  <2>3. \A m \in Ids : Sends(m) = 0
    BY <2>2, FS_EmptySet DEF Sends
  <2>4. faults["crash"] + faults["mark"] = 0
    BY DEF Init, FaultKinds
  <2> QED
    BY <2>1, <2>3, <2>4 DEF Promise!Init
<1>2. IInv => TypeOK
  BY DEF IInv
<1> QED
  BY <1>1, <1>2, Inductive, InitSInv, NextSInv, InitKInv, NextKInv, NextPromise, PTL
     DEF Spec, ImplementsSend, Promise!Spec
=============================================================================
