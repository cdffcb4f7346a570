------------------------- MODULE DirtyConversations -------------------------
(***************************************************************************)
(* The dirty-conversation feed of the RustZap store (src/src/state.rs):    *)
(* numbering of the messages of a conversation, mark_dirty_inner, the      *)
(* leases of list_dirty, ack_dirty with its per-consumer progress, and the *)
(* asynchronous snapshot of the whole store.                               *)
(*                                                                         *)
(* One tenant (project, company) is modelled: every key of the maps dirty, *)
(* dirty_leases and consumer_state starts with it and no operation here    *)
(* crosses it.  Every operation of the source runs under the single store  *)
(* mutex from its first read to its last write, so it is one action.  The  *)
(* error returns of ack_dirty change nothing and are stuttering steps.     *)
(*                                                                         *)
(* A lease token is a fresh UUID that is only ever compared with the lease *)
(* stored under the same (consumer, conversation) key, so the n-th token   *)
(* handed out under a key is the number n.  All leases last 60 seconds, so *)
(* the tokens of a key expire in the order in which they were issued.      *)
(***************************************************************************)
EXTENDS Integers, FiniteSets

CONSTANTS
    Conversations,  \* conversation ids of the tenant
    Consumers,      \* consumer_id values of the backends that poll
    AckSeqs,        \* values of processed_until_seq a consumer may send
    MaxSeq,         \* bound: messages recorded per conversation
    MaxLeases,      \* bound: tokens issued per (consumer, conversation)
    MaxCrashes      \* bound: process crashes

ASSUME ConstAssumption ==
    /\ AckSeqs \subseteq Nat
    /\ MaxSeq \in Nat
    /\ MaxLeases \in Nat
    /\ MaxCrashes \in Nat

None == -1      \* an absent map entry
NoLease == 0    \* an absent dirty_leases entry; tokens start at 1

VARIABLES
    lastSeq,        \* conversations[v].last_seq, None before the record exists
    dirty,          \* dirty[v].max_seq, None when the conversation is clean
    leases,         \* dirty_leases[c, v].lease_token
    consumerState,  \* consumer_state[c, v]: processed_until_seq
    joined,         \* history: last_seq when consumer_state[c, v] was created
    durable,        \* the snapshot row a restart loads
    issued,         \* number of tokens issued under (c, v)
    expiredUpTo,    \* tokens of (c, v) up to this one are past locked_until
    crashes         \* crashes so far

store == <<lastSeq, dirty, leases, consumerState, joined>>
vars == <<lastSeq, dirty, leases, consumerState, joined,
          durable, issued, expiredUpTo, crashes>>

-----------------------------------------------------------------------------
PerConsumer(S) == [Consumers -> [Conversations -> S]]

NoEntries(value) == [c \in Consumers |-> [v \in Conversations |-> value]]

(* PersistedStore::from_inner, restricted to the modelled maps.            *)
Snapshot ==
    [lastSeq |-> lastSeq, dirty |-> dirty, leases |-> leases,
     consumerState |-> consumerState, joined |-> joined]

Init ==
    /\ lastSeq = [v \in Conversations |-> None]
    /\ dirty = [v \in Conversations |-> None]
    /\ leases = NoEntries(NoLease)
    /\ consumerState = NoEntries(None)
    /\ joined = NoEntries(None)
    /\ durable = Snapshot
    /\ issued = NoEntries(0)
    /\ expiredUpTo = NoEntries(0)
    /\ crashes = 0

-----------------------------------------------------------------------------
(* mark_dirty_inner: or_insert the record, or raise max_seq.  None is      *)
(* below every sequence number, so both cases are a maximum.               *)
MarkDirty(v, seq) ==
    dirty' = [dirty EXCEPT ![v] = IF @ < seq THEN seq ELSE @]

(* The last_seq of the conversation record, created with 0 when missing.   *)
CurrentSeq(v) == IF lastSeq[v] = None THEN 0 ELSE lastSeq[v]

(* ensure_conversation_inner: an upload creates the conversation record.   *)
EnsureConversation(v) ==
    /\ lastSeq[v] = None
    /\ lastSeq' = [lastSeq EXCEPT ![v] = 0]
    /\ UNCHANGED <<dirty, leases, consumerState, joined,
                   durable, issued, expiredUpTo, crashes>>

(* Mutant: the conversation is marked dirty one number too far.            *)
RecordMessageMarksNext(v) ==
    /\ CurrentSeq(v) < MaxSeq
    /\ lastSeq' = [lastSeq EXCEPT ![v] = CurrentSeq(v) + 1]
    /\ MarkDirty(v, CurrentSeq(v) + 2)
    /\ UNCHANGED <<leases, consumerState, joined,
                   durable, issued, expiredUpTo, crashes>>

(* record_message_inner and record_whatsapp_message: take the next number  *)
(* of the conversation and mark the conversation dirty up to it.           *)
RecordMessage(v) ==
    /\ CurrentSeq(v) < MaxSeq
    /\ lastSeq' = [lastSeq EXCEPT ![v] = CurrentSeq(v) + 1]
    /\ MarkDirty(v, CurrentSeq(v) + 1)
    /\ UNCHANGED <<leases, consumerState, joined,
                   durable, issued, expiredUpTo, crashes>>

(* A receipt, a dispatch outcome or a finished transcript changes message  *)
(* seq of the conversation and marks the conversation dirty up to seq.     *)
UpdateMessage(v, seq) ==
    /\ seq \in 1..lastSeq[v]
    /\ MarkDirty(v, seq)
    /\ UNCHANGED <<lastSeq, leases, consumerState, joined,
                   durable, issued, expiredUpTo, crashes>>

(* patch_conversation_metadata marks an existing conversation dirty up to  *)
(* its last_seq, which is 0 for a conversation without messages.           *)
PatchConversation(v) ==
    /\ lastSeq[v] # None
    /\ MarkDirty(v, lastSeq[v])
    /\ UNCHANGED <<lastSeq, leases, consumerState, joined,
                   durable, issued, expiredUpTo, crashes>>

-----------------------------------------------------------------------------
Registered(c, v) == consumerState[c][v] # None

Processed(c, v) == IF Registered(c, v) THEN consumerState[c][v] ELSE 0

(* The conversations list_dirty offers to consumer c.                      *)
Listable(c) == {v \in Conversations : dirty[v] # None /\ Processed(c, v) < dirty[v]}

(* list_dirty: the loop stops after limit items of a hash map, so any      *)
(* nonempty part S of the listable conversations can be returned.  Each    *)
(* item gets a new lease, which replaces the consumer's previous one, and  *)
(* registers the consumer for the conversation.                            *)
ListDirty(c, S) ==
    /\ S # {} /\ S \subseteq Listable(c)
    /\ \A v \in S : issued[c][v] < MaxLeases
    /\ issued' = [issued EXCEPT ![c] =
           [v \in Conversations |-> IF v \in S THEN issued[c][v] + 1 ELSE issued[c][v]]]
    /\ leases' = [leases EXCEPT ![c] =
           [v \in Conversations |-> IF v \in S THEN issued[c][v] + 1 ELSE leases[c][v]]]
    /\ consumerState' = [consumerState EXCEPT ![c] =
           [v \in Conversations |-> IF v \in S THEN Processed(c, v) ELSE consumerState[c][v]]]
    /\ joined' = [joined EXCEPT ![c] =
           [v \in Conversations |-> IF v \in S /\ ~Registered(c, v)
                                    THEN lastSeq[v] ELSE joined[c][v]]]
    /\ UNCHANGED <<lastSeq, dirty, durable, expiredUpTo, crashes>>

(* The conditions under which ack_dirty does not return an error.          *)
AckAccepted(c, v, token) ==
    /\ dirty[v] # None
    /\ leases[c][v] # NoLease
    /\ leases[c][v] = token
    /\ expiredUpTo[c][v] < token

(* Mutant: the consumer that acknowledges does not look at the others.     *)
AllDoneIgnoresOthers(c, v) == TRUE

(* ack_dirty's all_registered_consumers_done, after c's own progress has   *)
(* been written.                                                           *)
AllDone(c, v) ==
    \A d \in Consumers \ {c} : Registered(d, v) => consumerState[d][v] >= dirty[v]

(* Mutant: an acknowledged lease stays in the map until it expires.        *)
AckDirtyKeepsLease(c, v, token, seq) ==
    /\ AckAccepted(c, v, token)
    /\ consumerState' = [consumerState EXCEPT ![c][v] = seq]
    /\ dirty' = IF seq >= dirty[v] /\ AllDone(c, v)
                THEN [dirty EXCEPT ![v] = None] ELSE dirty
    /\ UNCHANGED <<lastSeq, leases, joined, durable, issued, expiredUpTo, crashes>>

(* ack_dirty: write the progress as sent, drop the lease, and clear the    *)
(* dirty record when nobody registered is behind its max_seq.              *)
AckDirty(c, v, token, seq) ==
    /\ AckAccepted(c, v, token)
    /\ consumerState' = [consumerState EXCEPT ![c][v] = seq]
    /\ leases' = [leases EXCEPT ![c][v] = NoLease]
    /\ dirty' = IF seq >= dirty[v] /\ AllDone(c, v)
                THEN [dirty EXCEPT ![v] = None] ELSE dirty
    /\ UNCHANGED <<lastSeq, joined, durable, issued, expiredUpTo, crashes>>

(* The wall clock passes locked_until of the oldest live token of (c, v).  *)
Expire(c, v) ==
    /\ expiredUpTo[c][v] < issued[c][v]
    /\ expiredUpTo' = [expiredUpTo EXCEPT ![c][v] = @ + 1]
    /\ UNCHANGED <<lastSeq, dirty, leases, consumerState, joined,
                   durable, issued, crashes>>

-----------------------------------------------------------------------------
(* persist_locked publishes every new store state to a watch channel and a *)
(* background task writes the latest one it sees: intermediate states may  *)
(* be skipped, and the write happens some time after the operation         *)
(* returned.                                                               *)
Persist ==
    /\ durable # Snapshot
    /\ durable' = Snapshot
    /\ UNCHANGED <<lastSeq, dirty, leases, consumerState, joined,
                   issued, expiredUpTo, crashes>>

(* The process dies and a restart loads the snapshot row (into_inner).     *)
Crash ==
    /\ crashes < MaxCrashes
    /\ crashes' = crashes + 1
    /\ lastSeq' = durable.lastSeq
    /\ dirty' = durable.dirty
    /\ leases' = durable.leases
    /\ consumerState' = durable.consumerState
    /\ joined' = durable.joined
    /\ UNCHANGED <<durable, issued, expiredUpTo>>

Next ==
    \/ \E v \in Conversations :
          \/ EnsureConversation(v)
          \/ RecordMessage(v)
          \/ \E seq \in 1..MaxSeq : UpdateMessage(v, seq)
          \/ PatchConversation(v)
    \/ \E c \in Consumers, S \in SUBSET Conversations : ListDirty(c, S)
    \/ \E c \in Consumers, v \in Conversations :
          \/ \E token \in 1..MaxLeases, seq \in AckSeqs : AckDirty(c, v, token, seq)
          \/ Expire(c, v)
    \/ Persist
    \/ Crash

Spec == Init /\ [][Next]_vars

-----------------------------------------------------------------------------
Seqs == 0..MaxSeq

StoreType ==
    [lastSeq : [Conversations -> Seqs \cup {None}],
     dirty : [Conversations -> Seqs \cup {None}],
     leases : PerConsumer(0..MaxLeases),
     consumerState : PerConsumer(Nat \cup {None}),
     joined : PerConsumer(Seqs \cup {None})]

(* Every variable has the shape its declaration says; in particular        *)
(* max_seq never passes the bound on last_seq.                             *)
TypeOK ==
    /\ Snapshot \in StoreType
    /\ durable \in StoreType
    /\ issued \in PerConsumer(0..MaxLeases)
    /\ expiredUpTo \in PerConsumer(0..MaxLeases)
    /\ crashes \in 0..MaxCrashes

(* docs/architecture.md:14, "one consumer cannot clear another consumer's  *)
(* pending work", and task.md:2348, "Dirty ACK nao perde mensagens novas": *)
(* while a message recorded after consumer c registered for v is           *)
(* unprocessed by c, the conversation is dirty up to its newest message,   *)
(* so list_dirty offers it to c.  No acknowledgement of another consumer,  *)
(* no late message update and no crash may end that.                       *)
PendingWorkStaysListed ==
    \A c \in Consumers, v \in Conversations :
        (Registered(c, v) /\ lastSeq[v] > joined[c][v] /\ consumerState[c][v] < lastSeq[v])
            => dirty[v] = lastSeq[v]

(* A stored lease always belongs to unfinished work: the conversation is   *)
(* dirty beyond the holder's progress.  So an unexpired token is never     *)
(* answered with "dirty conversation not found", whatever other consumers  *)
(* acknowledge in between.                                                 *)
LeaseCoversPendingWork ==
    \A c \in Consumers, v \in Conversations :
        leases[c][v] # NoLease =>
            /\ Registered(c, v)
            /\ dirty[v] # None
            /\ consumerState[c][v] < dirty[v]
=============================================================================
