---------------------- MODULE DirtyConversationsProofs ----------------------
(***************************************************************************)
(* Proofs about DirtyConversations and, below, about ConsumerLoop, for     *)
(* every set of consumers and conversations and every bound.               *)
(*                                                                         *)
(* Neither safety property is inductive alone: an acknowledgement keeps    *)
(* pending work listed only because the lease it needs proves that its     *)
(* holder was behind max_seq, and a restart keeps it only because the      *)
(* snapshot was itself a consistent store.  SafeStore states the facts     *)
(* about one store; the inductive invariant asserts it of the memory and   *)
(* of the snapshot.                                                        *)
(***************************************************************************)
EXTENDS ConsumerLoop, TLAPS

(* The facts about one store, memory or snapshot, that every step keeps:   *)
(* max_seq is never beyond last_seq, a lease covers pending work, and      *)
(* pending work is dirty up to the newest message.                         *)
SafeAt(s, c, v) ==
    /\ s.dirty[v] <= s.lastSeq[v]
    /\ s.leases[c][v] # NoLease =>
          /\ s.consumerState[c][v] # None
          /\ s.dirty[v] # None
          /\ s.consumerState[c][v] < s.dirty[v]
    /\ (/\ s.consumerState[c][v] # None
        /\ s.lastSeq[v] > s.joined[c][v]
        /\ s.consumerState[c][v] < s.lastSeq[v])
          => s.dirty[v] = s.lastSeq[v]

SafeStore(s) == \A c \in Consumers, v \in Conversations : SafeAt(s, c, v)

IInv == TypeOK /\ SafeStore(Snapshot) /\ SafeStore(durable)

-----------------------------------------------------------------------------
LEMMA InitTypeOK == Init => TypeOK
  BY ConstAssumption DEF Init, TypeOK, StoreType, Snapshot, Seqs, PerConsumer,
     NoEntries, None, NoLease

LEMMA NextTypeOK == TypeOK /\ [Next]_vars => TypeOK'
<1> SUFFICES ASSUME TypeOK, [Next]_vars PROVE TypeOK'
  OBVIOUS
<1> USE ConstAssumption DEF TypeOK, StoreType, Snapshot, Seqs, PerConsumer, None, NoLease
<1>1. ASSUME NEW v \in Conversations, EnsureConversation(v) PROVE TypeOK'
  BY <1>1 DEF EnsureConversation
<1>2. ASSUME NEW v \in Conversations, RecordMessage(v) PROVE TypeOK'
  BY <1>2 DEF RecordMessage, MarkDirty, CurrentSeq
<1>3. ASSUME NEW v \in Conversations, NEW seq \in 1..MaxSeq, UpdateMessage(v, seq)
      PROVE TypeOK'
  BY <1>3 DEF UpdateMessage, MarkDirty
<1>4. ASSUME NEW v \in Conversations, PatchConversation(v) PROVE TypeOK'
  BY <1>4 DEF PatchConversation, MarkDirty
<1>5. ASSUME NEW c \in Consumers, NEW S \in SUBSET Conversations, ListDirty(c, S)
      PROVE TypeOK'
  BY <1>5 DEF ListDirty, Processed, Registered
<1>6. ASSUME NEW c \in Consumers, NEW v \in Conversations,
             NEW token \in 1..MaxLeases, NEW seq \in AckSeqs, AckDirty(c, v, token, seq)
      PROVE TypeOK'
  BY <1>6 DEF AckDirty
<1>7. ASSUME NEW c \in Consumers, NEW v \in Conversations, Expire(c, v) PROVE TypeOK'
  BY <1>7 DEF Expire
<1>8. CASE Persist
  BY <1>8 DEF Persist
<1>9. CASE Crash
  BY <1>9 DEF Crash
<1>10. CASE UNCHANGED vars
  BY <1>10 DEF vars
<1> QED
  BY <1>1, <1>2, <1>3, <1>4, <1>5, <1>6, <1>7, <1>8, <1>9, <1>10 DEF Next

(* Every reachable state of the dirty feed is well typed.                  *)
THEOREM TypeCorrect == Spec => []TypeOK
  BY InitTypeOK, NextTypeOK, PTL DEF Spec

-----------------------------------------------------------------------------
LEMMA InitSafe == Init => SafeStore(Snapshot) /\ SafeStore(durable)
  BY DEF Init, SafeStore, SafeAt, Snapshot, NoEntries, None, NoLease

(* Every operation of the store takes a safe store to a safe store.        *)
LEMMA NextSafe == IInv /\ [Next]_vars => SafeStore(Snapshot)'
<1> SUFFICES ASSUME IInv, [Next]_vars,
                    NEW c \in Consumers, NEW v \in Conversations
             PROVE  SafeAt(Snapshot, c, v)'
  BY DEF SafeStore
<1>a. SafeAt(Snapshot, c, v)
  BY DEF IInv, SafeStore
<1> USE ConstAssumption DEF IInv, TypeOK, StoreType, Seqs, PerConsumer, None, NoLease,
        Snapshot, SafeAt
<1>1. ASSUME NEW u \in Conversations, EnsureConversation(u)
      PROVE SafeAt(Snapshot, c, v)'
  BY <1>a, <1>1 DEF EnsureConversation
<1>2. ASSUME NEW u \in Conversations, RecordMessage(u)
      PROVE SafeAt(Snapshot, c, v)'
  BY <1>a, <1>2 DEF RecordMessage, MarkDirty, CurrentSeq
<1>3. ASSUME NEW u \in Conversations, NEW seq \in 1..MaxSeq, UpdateMessage(u, seq)
      PROVE SafeAt(Snapshot, c, v)'
  BY <1>a, <1>3 DEF UpdateMessage, MarkDirty
<1>4. ASSUME NEW u \in Conversations, PatchConversation(u)
      PROVE SafeAt(Snapshot, c, v)'
  BY <1>a, <1>4 DEF PatchConversation, MarkDirty
<1>5. ASSUME NEW d \in Consumers, NEW S \in SUBSET Conversations, ListDirty(d, S)
      PROVE SafeAt(Snapshot, c, v)'
  <2>1. CASE c = d /\ v \in S
    <3>1. dirty[v] # None /\ Processed(c, v) < dirty[v]
      BY <1>5, <2>1 DEF ListDirty, Listable
    <3>2. /\ consumerState'[c][v] = Processed(c, v)
          /\ joined'[c][v] = IF Registered(c, v) THEN joined[c][v] ELSE lastSeq[v]
          /\ dirty'[v] = dirty[v]
          /\ lastSeq'[v] = lastSeq[v]
      BY <1>5, <2>1 DEF ListDirty
    <3> QED
      <4>1. /\ dirty[v] \in Int /\ lastSeq[v] \in Int /\ joined[c][v] \in Int
            /\ consumerState[c][v] \in Nat \cup {None}
        OBVIOUS
      <4>2. CASE Registered(c, v)
        BY <1>a, <3>1, <3>2, <4>1, <4>2 DEF Processed, Registered
      <4>3. CASE ~Registered(c, v)
        BY <1>a, <3>1, <3>2, <4>1, <4>3 DEF Processed
      <4> QED
        BY <4>2, <4>3
  <2>2. CASE ~(c = d /\ v \in S)
    BY <1>a, <1>5, <2>2 DEF ListDirty
  <2> QED
    BY <2>1, <2>2
<1>6. ASSUME NEW d \in Consumers, NEW u \in Conversations,
             NEW token \in 1..MaxLeases, NEW seq \in AckSeqs, AckDirty(d, u, token, seq)
      PROVE SafeAt(Snapshot, c, v)'
  <2>1. CASE v # u
    BY <1>a, <1>6, <2>1 DEF AckDirty
  (* The lease d gives up shows that d was behind max_seq.                 *)
  <2>2. CASE v = u /\ c = d
    BY <1>a, <1>6, <2>2 DEF AckDirty, AckAccepted
  (* Clearing needs every other registered consumer at max_seq, so c holds *)
  (* no lease and has nothing pending.                                     *)
  <2>3. CASE v = u /\ c # d
    <3>1. /\ consumerState'[c][v] = consumerState[c][v]
          /\ leases'[c][v] = leases[c][v]
          /\ lastSeq'[v] = lastSeq[v]
          /\ joined'[c][v] = joined[c][v]
      BY <1>6, <2>3 DEF AckDirty
    <3>2. CASE dirty'[v] = dirty[v]
      BY <1>a, <3>1, <3>2
    <3>3. CASE dirty'[v] # dirty[v]
      <4>1. dirty'[v] = None /\ AllDone(d, v)
        BY <1>6, <2>3, <3>3 DEF AckDirty
      <4>2. consumerState[c][v] # None => consumerState[c][v] >= dirty[v]
        BY <4>1, <2>3 DEF AllDone, Registered
      <4> QED
        BY <1>a, <3>1, <4>1, <4>2
    <3> QED
      BY <3>2, <3>3
  <2> QED
    BY <2>1, <2>2, <2>3
<1>7. ASSUME NEW d \in Consumers, NEW u \in Conversations, Expire(d, u)
      PROVE SafeAt(Snapshot, c, v)'
  BY <1>a, <1>7 DEF Expire
<1>8. CASE Persist
  BY <1>a, <1>8 DEF Persist
<1>9. CASE Crash
  BY <1>9 DEF Crash, SafeStore
<1>10. CASE UNCHANGED vars
  BY <1>a, <1>10 DEF vars
<1> QED
  BY <1>1, <1>2, <1>3, <1>4, <1>5, <1>6, <1>7, <1>8, <1>9, <1>10 DEF Next

(* Only Persist writes the snapshot row, and it writes the memory.         *)
LEMMA NextDurable == [Next]_vars => durable' = durable \/ durable' = Snapshot
  BY DEF Next, vars, EnsureConversation, RecordMessage, UpdateMessage,
     PatchConversation, ListDirty, AckDirty, Expire, Persist, Crash

LEMMA NextDurableSafe == IInv /\ [Next]_vars => SafeStore(durable)'
<1> SUFFICES ASSUME IInv, [Next]_vars PROVE SafeStore(durable)'
  OBVIOUS
<1>1. durable' = durable \/ durable' = Snapshot
  BY NextDurable
<1>2. CASE durable' = durable
  BY <1>2 DEF IInv, SafeStore, SafeAt
<1>3. CASE durable' = Snapshot
  BY <1>3 DEF IInv, SafeStore, SafeAt
<1> QED
  BY <1>1, <1>2, <1>3

LEMMA Inductive == Spec => []IInv
<1>1. Init => IInv
  BY InitTypeOK, InitSafe DEF IInv
<1>2. IInv /\ [Next]_vars => IInv'
  BY NextTypeOK, NextSafe, NextDurableSafe DEF IInv
<1> QED
  BY <1>1, <1>2, PTL DEF Spec

(* No acknowledgement, message update or crash hides a message recorded    *)
(* after a consumer registered from that consumer's polls (ack_dirty,      *)
(* mark_dirty_inner, into_inner), for any number of consumers and          *)
(* conversations and any values the consumers acknowledge.                 *)
THEOREM PendingWorkIsNeverLost == Spec => []PendingWorkStaysListed
<1>1. IInv => PendingWorkStaysListed
  BY DEF IInv, SafeStore, SafeAt, Snapshot, PendingWorkStaysListed, Registered
<1> QED
  BY <1>1, Inductive, PTL

(* A lease in the store always covers unfinished work of its holder, so an *)
(* unexpired token is never refused because the dirty record is gone.      *)
THEOREM LeasesCoverPendingWork == Spec => []LeaseCoversPendingWork
<1>1. IInv => LeaseCoversPendingWork
  BY DEF IInv, SafeStore, SafeAt, Snapshot, LeaseCoversPendingWork, Registered
<1> QED
  BY <1>1, Inductive, PTL

-----------------------------------------------------------------------------
(***************************************************************************)
(* The consumer loop.  Its store only takes steps of the feed, because the *)
(* numbers a backend acknowledges are sequence numbers: the cursor never   *)
(* passes the longest log there was.  So everything proved above holds of  *)
(* the loop too.                                                           *)
(***************************************************************************)

LogType == [Conversations -> Seq(Nat)]

(* The backends' own state, and the message lists: a list is as long as    *)
(* the last_seq of its conversation says, in memory and in the snapshot.   *)
LoopTypeOK ==
    /\ log \in LogType /\ durableLog \in LogType /\ nextId \in Nat
    /\ \A v \in Conversations : Len(log[v]) = CurrentSeq(v)
    /\ \A v \in Conversations :
          Len(durableLog[v]) = IF durable.lastSeq[v] = None THEN 0 ELSE durable.lastSeq[v]
    /\ cursor \in PerConsumer(Seqs)
    /\ seen \in [Consumers -> SUBSET Nat]
    /\ pc \in [Consumers -> {"idle", "leased", "processed"}]
    /\ DOMAIN held = Consumers
    /\ \A c \in Consumers : pc[c] # "idle" => held[c].conversation \in Conversations

(* Until a crash nothing at or below a cursor is missing from the log or   *)
(* from what the backend has persisted.                                    *)
Covered(c, v) ==
    /\ cursor[c][v] <= Len(log[v])
    /\ \A n \in 1..cursor[c][v] : log[v][n] \in seen[c]

CursorsCover == crashes = 0 => \A c \in Consumers, v \in Conversations : Covered(c, v)

LInv == TypeOK /\ LoopTypeOK /\ CursorsCover

(* A step of the loop is a step of the feed, or leaves the feed alone.     *)
LEMMA FeedStep == TypeOK /\ LoopTypeOK /\ [LoopNext]_loopVars => [Next]_vars
<1> SUFFICES ASSUME TypeOK, LoopTypeOK, [LoopNext]_loopVars PROVE [Next]_vars
  OBVIOUS
<1>a. leases \in PerConsumer(0..MaxLeases)
  BY DEF TypeOK, StoreType, Snapshot
<1>b. ASSUME NEW c \in Consumers, NEW v \in Conversations, NEW token,
             NEW seq \in AckSeqs, AckDirty(c, v, token, seq)
      PROVE  Next
  <2>1. token \in 1..MaxLeases
    BY <1>a, <1>b, ConstAssumption DEF AckDirty, AckAccepted, NoLease, PerConsumer
  <2> QED
    BY <1>b, <2>1 DEF Next
<1>1. ASSUME NEW v \in Conversations, StoreMessage(v) PROVE Next
  BY <1>1 DEF StoreMessage, Next
<1>2. ASSUME NEW v \in Conversations, NEW seq \in 1..MaxSeq, ChangeMessage(v, seq)
      PROVE  Next
  BY <1>2 DEF ChangeMessage, Next
<1>3. ASSUME NEW v \in Conversations, ChangeConversation(v) PROVE Next
  BY <1>3 DEF ChangeConversation, Next
<1>4. ASSUME NEW c \in Consumers, NEW v \in Conversations, LeaseRunsOut(c, v) PROVE Next
  BY <1>4 DEF LeaseRunsOut, Next
<1>5. ASSUME NEW c \in Backends, NEW v \in Conversations, Lease(c, v) PROVE Next
  <2>1. ListDirty(c, {v}) /\ {v} \in SUBSET Conversations /\ c \in Consumers
    BY <1>5 DEF Lease, Backends
  <2> QED
    BY <2>1 DEF Next
<1>6. ASSUME NEW c \in Backends, ReadPage(c) PROVE UNCHANGED vars
  BY <1>6 DEF ReadPage, storeVars, vars
<1>7. ASSUME NEW c \in Backends, Acknowledge(c) PROVE [Next]_vars
  <2>1. c \in Consumers /\ pc[c] # "idle"
    BY <1>7 DEF Acknowledge, Backends
  <2>2. PICK v \in Conversations : v = held[c].conversation
    BY <2>1 DEF LoopTypeOK
  <2>3. cursor[c][v] \in AckSeqs
    BY <2>1, <2>2, LoopAssumption DEF LoopTypeOK, PerConsumer
  <2>4. CASE AckAccepted(c, v, held[c].token)
    BY <1>7, <1>b, <2>1, <2>2, <2>3, <2>4 DEF Acknowledge
  <2>5. CASE ~AckAccepted(c, v, held[c].token)
    BY <1>7, <2>2, <2>5 DEF Acknowledge, storeVars, vars
  <2> QED
    BY <2>4, <2>5
<1>8. ASSUME NEW c \in Backends, Restart(c) PROVE UNCHANGED vars
  BY <1>8 DEF Restart, storeVars, vars
<1>9. ASSUME NEW c \in Careless, CarelessStep(c) PROVE Next
  <2>1. c \in Consumers
    BY LoopAssumption
  <2>2. ASSUME NEW S \in SUBSET Conversations, ListDirty(c, S) PROVE Next
    BY <2>1, <2>2 DEF Next
  <2>3. ASSUME NEW v \in Conversations, NEW seq \in AckSeqs,
               AckDirty(c, v, leases[c][v], seq)
        PROVE  Next
    BY <1>b, <2>1, <2>3
  <2> QED
    BY <1>9, <2>2, <2>3 DEF CarelessStep
<1>10. CASE PersistStore
  <2>1. CASE durable = Snapshot
    BY <1>10, <2>1 DEF PersistStore, store, vars
  <2>2. CASE durable # Snapshot
    <3>1. Persist
      BY <1>10, <2>2 DEF PersistStore, Persist, store
    <3> QED
      BY <3>1 DEF Next
  <2> QED
    BY <2>1, <2>2
<1>11. CASE CrashStore
  BY <1>11 DEF CrashStore, Next
<1>12. CASE UNCHANGED loopVars
  BY <1>12 DEF loopVars, storeVars, vars
<1> QED
  BY <1>1, <1>2, <1>3, <1>4, <1>5, <1>6, <1>7, <1>8, <1>9, <1>10, <1>11, <1>12
  DEF LoopNext, Backend

LEMMA LoopInitInv == LoopInit => LInv
<1> SUFFICES ASSUME LoopInit PROVE LInv
  OBVIOUS
<1>1. TypeOK
  BY InitTypeOK DEF LoopInit
<1>2. LoopTypeOK
  BY ConstAssumption DEF LoopInit, Init, LoopTypeOK, LogType, CurrentSeq, PerConsumer,
     NoEntries, Seqs, Snapshot, None
<1>3. CursorsCover
  BY DEF LoopInit, CursorsCover, Covered, NoEntries
<1> QED
  BY <1>1, <1>2, <1>3 DEF LInv

(* A page ends inside the log, and not before the cursor it starts from.   *)
LEMMA PageEndBounds ==
    ASSUME LoopTypeOK, NEW v \in Conversations, NEW after \in Nat, after <= Len(log[v])
    PROVE  PageEnd(v, after) \in after..Len(log[v])
  BY LoopAssumption DEF PageEnd, LoopTypeOK, LogType

(* A number taken from the log is bounded by last_seq, hence by MaxSeq.    *)
LEMMA LogBounded ==
    ASSUME TypeOK, LoopTypeOK, NEW v \in Conversations
    PROVE  Len(log[v]) \in Seqs
  BY ConstAssumption DEF TypeOK, StoreType, Snapshot, LoopTypeOK, CurrentSeq, Seqs, None

(* The loop of the backends and the growth of the logs keep their types.   *)
LEMMA LoopNextType == TypeOK /\ LoopTypeOK /\ [LoopNext]_loopVars => LoopTypeOK'
<1> SUFFICES ASSUME TypeOK, LoopTypeOK, [LoopNext]_loopVars PROVE LoopTypeOK'
  OBVIOUS
<1>a. lastSeq \in [Conversations -> Seqs \cup {None}] /\ durable \in StoreType
  BY DEF TypeOK, StoreType, Snapshot
<1>b. ASSUME UNCHANGED <<messageVars, backendVars, durable, lastSeq>> PROVE LoopTypeOK'
  BY <1>b DEF LoopTypeOK, messageVars, backendVars, CurrentSeq
<1>1. ASSUME NEW v \in Conversations, StoreMessage(v) PROVE LoopTypeOK'
  <2>1. /\ nextId' = nextId + 1 /\ log' = [log EXCEPT ![v] = Append(@, nextId + 1)]
        /\ lastSeq' = [lastSeq EXCEPT ![v] = CurrentSeq(v) + 1]
        /\ UNCHANGED <<durableLog, backendVars, durable>>
    BY <1>1 DEF StoreMessage, RecordMessage
  <2>2. log' \in LogType /\ nextId' \in Nat
    BY <2>1 DEF LoopTypeOK, LogType
  <2>3. ASSUME NEW u \in Conversations PROVE Len(log'[u]) = CurrentSeq(u)'
    <3>1. CASE u = v
      BY <1>a, <2>1, <3>1, ConstAssumption
      DEF LoopTypeOK, LogType, CurrentSeq, Seqs, None
    <3>2. CASE u # v
      BY <1>a, <2>1, <3>2 DEF LoopTypeOK, LogType, CurrentSeq
    <3> QED
      BY <3>1, <3>2
  <2> QED
    BY <2>1, <2>2, <2>3 DEF LoopTypeOK, backendVars
<1>2. ASSUME NEW v \in Conversations, NEW seq \in 1..MaxSeq, ChangeMessage(v, seq)
      PROVE  LoopTypeOK'
  BY <1>b, <1>2 DEF ChangeMessage, UpdateMessage
<1>3. ASSUME NEW v \in Conversations, ChangeConversation(v) PROVE LoopTypeOK'
  <2>1. CASE PatchConversation(v)
    BY <1>b, <1>3, <2>1 DEF ChangeConversation, PatchConversation
  <2>2. CASE EnsureConversation(v)
    <3>1. \A u \in Conversations : CurrentSeq(u)' = CurrentSeq(u)
      BY <1>a, <2>2 DEF EnsureConversation, CurrentSeq, None
    <3> QED
      BY <1>3, <2>2, <3>1
      DEF ChangeConversation, EnsureConversation, LoopTypeOK, messageVars, backendVars
  <2> QED
    BY <1>3, <2>1, <2>2 DEF ChangeConversation
<1>4. ASSUME NEW c \in Consumers, NEW v \in Conversations, LeaseRunsOut(c, v)
      PROVE  LoopTypeOK'
  BY <1>b, <1>4 DEF LeaseRunsOut, Expire
<1>5. ASSUME NEW c \in Consumers, NEW v \in Conversations, Lease(c, v) PROVE LoopTypeOK'
  <2>1. /\ pc' = [pc EXCEPT ![c] = "leased"]
        /\ held' = [held EXCEPT ![c] = [conversation |-> v, token |-> issued'[c][v]]]
        /\ UNCHANGED <<messageVars, cursor, seen, durable, lastSeq>>
    BY <1>5 DEF Lease, ListDirty
  <2>2. pc' \in [Consumers -> {"idle", "leased", "processed"}]
    BY <2>1 DEF LoopTypeOK
  <2>3. ASSUME NEW d \in Consumers, pc'[d] # "idle"
        PROVE  held'[d].conversation \in Conversations
    <3>1. CASE d = c
      BY <2>1, <3>1 DEF LoopTypeOK
    <3>2. CASE d # c
      BY <2>1, <2>3, <3>2 DEF LoopTypeOK
    <3> QED
      BY <3>1, <3>2
  <2> QED
    BY <2>1, <2>2, <2>3 DEF LoopTypeOK, messageVars, CurrentSeq
<1>6. ASSUME NEW c \in Consumers, ReadPage(c) PROVE LoopTypeOK'
  <2>1. PICK v \in Conversations : v = held[c].conversation
    BY <1>6 DEF ReadPage, LoopTypeOK
  <2>2. PICK to : to = PageEnd(v, cursor[c][v])
    OBVIOUS
  <2>3. /\ pc' = [pc EXCEPT ![c] = "processed"]
        /\ seen' = [seen EXCEPT ![c] = @ \cup {log[v][n] : n \in cursor[c][v] + 1 .. to}]
        /\ cursor' = [cursor EXCEPT ![c][v] = to]
        /\ UNCHANGED <<messageVars, held, durable, lastSeq>>
    BY <1>6, <2>1, <2>2 DEF ReadPage, storeVars
  <2>4. cursor[c][v] \in Seqs /\ cursor \in PerConsumer(Seqs)
    BY DEF LoopTypeOK, PerConsumer
  <2>5. to \in Seqs /\ (to # cursor[c][v] => to <= Len(log[v]))
    <3>1. Len(log[v]) \in Seqs
      BY LogBounded
    <3> QED
      BY <2>2, <2>4, <3>1, LoopAssumption, ConstAssumption DEF PageEnd, Seqs
  <2>6. cursor' \in PerConsumer(Seqs)
    BY <2>3, <2>4, <2>5 DEF PerConsumer
  <2>7. ASSUME NEW n \in cursor[c][v] + 1 .. to PROVE log[v][n] \in Nat
    BY <2>4, <2>5, <2>7, ConstAssumption DEF LoopTypeOK, LogType, Seqs
  <2>8. seen' \in [Consumers -> SUBSET Nat]
    BY <2>3, <2>7 DEF LoopTypeOK
  <2>9. pc' \in [Consumers -> {"idle", "leased", "processed"}]
    BY <2>3 DEF LoopTypeOK
  <2>10. \A d \in Consumers : pc'[d] # "idle" => held'[d].conversation \in Conversations
    BY <2>1, <2>3 DEF LoopTypeOK
  <2> QED
    BY <2>3, <2>6, <2>8, <2>9, <2>10 DEF LoopTypeOK, messageVars, CurrentSeq
<1>7. ASSUME NEW c \in Consumers, Acknowledge(c) PROVE LoopTypeOK'
  <2>1. /\ pc' = [pc EXCEPT ![c] = "idle"]
        /\ UNCHANGED <<messageVars, cursor, seen, held, durable, lastSeq>>
    BY <1>7 DEF Acknowledge, AckDirty, storeVars
  <2> QED
    BY <2>1 DEF LoopTypeOK, messageVars, CurrentSeq
<1>8. ASSUME NEW c \in Consumers, Restart(c) PROVE LoopTypeOK'
  <2>1. /\ pc' = [pc EXCEPT ![c] = "idle"]
        /\ UNCHANGED <<messageVars, cursor, seen, held, durable, lastSeq>>
    BY <1>8 DEF Restart, storeVars
  <2> QED
    BY <2>1 DEF LoopTypeOK, messageVars, CurrentSeq
<1>9. ASSUME NEW c \in Careless, CarelessStep(c) PROVE LoopTypeOK'
  BY <1>b, <1>9 DEF CarelessStep, ListDirty, AckDirty
<1>10. CASE PersistStore
  BY <1>10 DEF PersistStore, Snapshot, LoopTypeOK, store, backendVars, CurrentSeq
<1>11. CASE CrashStore
  BY <1>11 DEF CrashStore, Crash, LoopTypeOK, backendVars, CurrentSeq
<1>12. CASE UNCHANGED loopVars
  BY <1>b, <1>12 DEF loopVars, storeVars
<1> QED
  BY <1>1, <1>2, <1>3, <1>4, <1>5, <1>6, <1>7, <1>8, <1>9, <1>10, <1>11, <1>12
  DEF LoopNext, Backend, Backends

(* Only the crash that ends the promise shortens a log; a message is       *)
(* appended above every cursor, and a page is read from the cursor on.     *)
LEMMA LoopNextCovers == LInv /\ [LoopNext]_loopVars => CursorsCover'
<1> SUFFICES ASSUME LInv, [LoopNext]_loopVars, crashes' = 0,
                    NEW c \in Consumers, NEW v \in Conversations
             PROVE  Covered(c, v)'
  BY DEF CursorsCover
<1> USE DEF LInv
<1>a. crashes \in Nat
  BY ConstAssumption DEF TypeOK
<1>b. ASSUME UNCHANGED <<log, cursor, seen, crashes>> PROVE Covered(c, v)'
  BY <1>b DEF CursorsCover, Covered
<1>1. ASSUME NEW u \in Conversations, StoreMessage(u) PROVE Covered(c, v)'
  <2>1. /\ log' = [log EXCEPT ![u] = Append(@, nextId + 1)]
        /\ UNCHANGED <<cursor, seen, crashes>>
    BY <1>1 DEF StoreMessage, RecordMessage, backendVars
  <2>2. Covered(c, v) /\ cursor[c][v] \in Nat
    BY <2>1, ConstAssumption DEF CursorsCover, LoopTypeOK, PerConsumer, Seqs
  <2>3. CASE v = u
    BY <2>1, <2>2, <2>3 DEF Covered, LoopTypeOK, LogType
  <2>4. CASE v # u
    BY <2>1, <2>2, <2>4 DEF Covered, LoopTypeOK, LogType
  <2> QED
    BY <2>3, <2>4
<1>2. ASSUME NEW d \in Consumers, ReadPage(d) PROVE Covered(c, v)'
  <2>1. PICK u \in Conversations : u = held[d].conversation
    BY <1>2 DEF ReadPage, LoopTypeOK
  <2>2. PICK to : to = PageEnd(u, cursor[d][u])
    OBVIOUS
  <2>3. /\ seen' = [seen EXCEPT ![d] = @ \cup {log[u][n] : n \in cursor[d][u] + 1 .. to}]
        /\ cursor' = [cursor EXCEPT ![d][u] = to]
        /\ log' = log /\ crashes' = crashes
    BY <1>2, <2>1, <2>2 DEF ReadPage, storeVars, messageVars
  <2>4. Covered(c, v) /\ Covered(d, u)
    BY <2>3 DEF CursorsCover
  <2>5. /\ cursor[c][v] \in Nat /\ cursor[d][u] \in Nat
        /\ cursor \in [Consumers -> [Conversations -> Seqs]]
        /\ seen \in [Consumers -> SUBSET Nat]
    BY ConstAssumption DEF LoopTypeOK, PerConsumer, Seqs
  <2>6. to \in cursor[d][u]..Len(log[u])
    BY <2>2, <2>4, <2>5, PageEndBounds DEF Covered
  <2>7. seen[c] \subseteq seen'[c]
    BY <2>3, <2>5
  <2>8. CASE c = d /\ v = u
    <3>1. cursor'[c][v] = to
      BY <2>3, <2>5, <2>8
    <3>2. ASSUME NEW n \in 1..to PROVE log[v][n] \in seen'[c]
      <4>1. CASE n <= cursor[c][v]
        BY <2>4, <2>5, <2>6, <2>7, <4>1 DEF Covered
      <4>2. CASE n > cursor[c][v]
        <5>1. n \in cursor[d][u] + 1 .. to
          BY <2>5, <2>6, <2>8, <4>2
        <5> QED
          BY <2>3, <2>5, <2>8, <5>1
      <4> QED
        BY <2>5, <2>6, <4>1, <4>2
    <3>3. to <= Len(log[v])
      BY <2>5, <2>6, <2>8
    <3> QED
      BY <2>3, <3>1, <3>2, <3>3 DEF Covered
  <2>9. CASE ~(c = d /\ v = u)
    <3>1. cursor'[c][v] = cursor[c][v]
      BY <2>3, <2>5, <2>9
    <3> QED
      BY <2>3, <2>4, <2>7, <3>1 DEF Covered
  <2> QED
    BY <2>8, <2>9
<1>3. CASE CrashStore
  BY <1>a, <1>3 DEF CrashStore, Crash
<1>4. ASSUME NEW u \in Conversations, NEW seq \in 1..MaxSeq, ChangeMessage(u, seq)
      PROVE  Covered(c, v)'
  BY <1>b, <1>4 DEF ChangeMessage, UpdateMessage, messageVars, backendVars
<1>5. ASSUME NEW u \in Conversations, ChangeConversation(u) PROVE Covered(c, v)'
  BY <1>b, <1>5 DEF ChangeConversation, EnsureConversation, PatchConversation,
     messageVars, backendVars
<1>6. ASSUME NEW d \in Consumers, NEW u \in Conversations, LeaseRunsOut(d, u)
      PROVE  Covered(c, v)'
  BY <1>b, <1>6 DEF LeaseRunsOut, Expire, messageVars, backendVars
<1>7. ASSUME NEW d \in Consumers, NEW u \in Conversations, Lease(d, u)
      PROVE  Covered(c, v)'
  BY <1>b, <1>7 DEF Lease, ListDirty, messageVars
<1>8. ASSUME NEW d \in Consumers, Acknowledge(d) \/ Restart(d) PROVE Covered(c, v)'
  BY <1>b, <1>8 DEF Acknowledge, Restart, AckDirty, storeVars, messageVars
<1>9. ASSUME NEW d \in Careless, CarelessStep(d) PROVE Covered(c, v)'
  BY <1>b, <1>9 DEF CarelessStep, ListDirty, AckDirty, messageVars, backendVars
<1>10. CASE PersistStore
  BY <1>b, <1>10 DEF PersistStore, backendVars
<1>11. CASE UNCHANGED loopVars
  BY <1>b, <1>11 DEF loopVars, storeVars, messageVars, backendVars
<1> QED
  BY <1>1, <1>2, <1>3, <1>4, <1>5, <1>6, <1>7, <1>8, <1>9, <1>10, <1>11
  DEF LoopNext, Backend, Backends

LEMMA LoopInductive == LoopSpec => []LInv
<1>1. LInv /\ [LoopNext]_loopVars => LInv'
  BY FeedStep, NextTypeOK, LoopNextType, LoopNextCovers DEF LInv
<1> QED
  BY <1>1, LoopInitInv, PTL DEF LoopSpec

(* README.md:109: until RustZap crashes, reading after its cursor skips    *)
(* nothing for any backend (list_messages with after_seq, ack_dirty),      *)
(* however many backends and careless consumers share the feed, and        *)
(* whatever leases run out and backends restart.                           *)
THEOREM CursorsSkipNothing == LoopSpec => []CursorCoversStoredMessages
<1>1. LInv => CursorCoversStoredMessages
  BY DEF LInv, CursorsCover, Covered, CursorCoversStoredMessages, Backends
<1> QED
  BY <1>1, LoopInductive, PTL

(* The composition implements the component: with backends that follow the *)
(* documented loop beside careless ones, the store only does what the      *)
(* specification of the dirty feed allows.                                 *)
THEOREM LoopImplementsFeed == LoopSpec => Spec
<1>1. LoopInit => Init
  BY DEF LoopInit
<1>2. LInv /\ [LoopNext]_loopVars => [Next]_vars
  BY FeedStep DEF LInv
<1> QED
  BY <1>1, <1>2, LoopInductive, PTL DEF LoopSpec, Spec

(* Hence no backend of the loop loses pending work to another consumer's   *)
(* acknowledgement (ack_dirty, mark_dirty_inner).                          *)
THEOREM LoopNeverLosesWork ==
    LoopSpec => [](PendingWorkStaysListed /\ LeaseCoversPendingWork)
  BY LoopImplementsFeed, PendingWorkIsNeverLost, LeasesCoverPendingWork, PTL
=============================================================================
