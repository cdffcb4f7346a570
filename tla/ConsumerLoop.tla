---------------------------- MODULE ConsumerLoop ----------------------------
(***************************************************************************)
(* The dirty feed of DirtyConversations together with the backends that    *)
(* poll it the way README.md:1411-1417 tells them to: lease a dirty        *)
(* conversation, read the messages after the last processed sequence       *)
(* number, process and persist them, acknowledge with the lease token and  *)
(* the highest processed number, start again.                              *)
(*                                                                         *)
(* The store gains the messages themselves: log[v][n] is the identity of   *)
(* the message stored with conversation_seq n.  Backends are processes of  *)
(* their own: their cursor survives a crash of RustZap, and they can lose  *)
(* a response, be slower than the lease or restart.                        *)
(***************************************************************************)
EXTENDS DirtyConversations, Sequences

CONSTANTS
    Careless,        \* consumers that do not follow the documented loop
    PageLimit,       \* limit of one cursor read
    MaxRestarts,     \* bound: restarts of each backend
    MaxExpiries,     \* bound: leases that run out
    CarelessLeases   \* bound: leases of each careless consumer

ASSUME LoopAssumption ==
    /\ Careless \subseteq Consumers
    /\ Seqs \subseteq AckSeqs
    /\ PageLimit \in Nat \ {0}
    /\ MaxRestarts \in Nat
    /\ MaxExpiries \in Nat
    /\ CarelessLeases \in 0..MaxLeases

Backends == Consumers \ Careless

VARIABLES
    log,          \* messages_by_conversation[v], as message identities by seq
    durableLog,   \* the same map in the snapshot row
    nextId,       \* identities handed out so far
    cursor,       \* cursor[c][v]: highest seq the backend has persisted
    seen,         \* identities the backend has persisted
    pc,           \* where the backend is in its loop
    held,         \* the item the backend works on: conversation and token
    restarts,     \* restarts of each backend
    expiries      \* leases that ran out

storeVars == <<lastSeq, dirty, leases, consumerState, joined, durable, issued,
               expiredUpTo, crashes>>
messageVars == <<log, durableLog, nextId>>
backendVars == <<cursor, seen, pc, held, restarts>>
loopVars == <<storeVars, messageVars, backendVars, expiries>>

LoopInit ==
    /\ Init
    /\ log = [v \in Conversations |-> <<>>]
    /\ durableLog = log
    /\ nextId = 0
    /\ cursor = NoEntries(0)
    /\ seen = [c \in Consumers |-> {}]
    /\ pc = [c \in Consumers |-> "idle"]
    /\ held = [c \in Consumers |-> [conversation |-> CHOOSE v \in Conversations : TRUE,
                                    token |-> NoLease]]
    /\ restarts = [c \in Consumers |-> 0]
    /\ expiries = 0

-----------------------------------------------------------------------------
(* A message is recorded: the list of the conversation grows with its      *)
(* last_seq, under the same lock.                                          *)
StoreMessage(v) ==
    /\ RecordMessage(v)
    /\ nextId' = nextId + 1
    /\ log' = [log EXCEPT ![v] = Append(@, nextId + 1)]
    /\ UNCHANGED <<durableLog, backendVars, expiries>>

(* A stored message is changed in place (receipt, dispatch, transcript).   *)
ChangeMessage(v, seq) ==
    /\ UpdateMessage(v, seq)
    /\ UNCHANGED <<messageVars, backendVars, expiries>>

(* An upload creates the conversation record, or a patch of its metadata   *)
(* marks it dirty; no message is involved.                                 *)
ChangeConversation(v) ==
    /\ EnsureConversation(v) \/ PatchConversation(v)
    /\ UNCHANGED <<messageVars, backendVars, expiries>>

PersistStore ==
    /\ durable # Snapshot \/ durableLog # log
    /\ durable' = Snapshot
    /\ durableLog' = log
    /\ UNCHANGED <<store, issued, expiredUpTo, crashes, log, nextId,
                   backendVars, expiries>>

CrashStore ==
    /\ Crash
    /\ log' = durableLog
    /\ UNCHANGED <<durableLog, nextId, backendVars, expiries>>

(* The backend is slower than the 60 seconds of its lease.                 *)
LeaseRunsOut(c, v) ==
    /\ expiries < MaxExpiries
    /\ expiries' = expiries + 1
    /\ Expire(c, v)
    /\ UNCHANGED <<messageVars, backendVars>>

-----------------------------------------------------------------------------
(* GET dirty-conversations with limit 1: the backend takes one item.       *)
Lease(c, v) ==
    /\ pc[c] = "idle"
    /\ ListDirty(c, {v})
    /\ pc' = [pc EXCEPT ![c] = "leased"]
    /\ held' = [held EXCEPT ![c] = [conversation |-> v, token |-> issued'[c][v]]]
    /\ UNCHANGED <<messageVars, cursor, seen, restarts, expiries>>

(* list_messages with after_seq: the first PageLimit messages above the    *)
(* cursor, in order.                                                       *)
PageEnd(v, after) ==
    IF Len(log[v]) <= after THEN after
    ELSE IF after + PageLimit < Len(log[v]) THEN after + PageLimit ELSE Len(log[v])

(* Mutant: a short page moves the cursor to the newest message.            *)
ReadPageForgetsRest(c) ==
    LET v == held[c].conversation
        to == PageEnd(v, cursor[c][v]) IN
    /\ pc[c] = "leased"
    /\ pc' = [pc EXCEPT ![c] = "processed"]
    /\ seen' = [seen EXCEPT ![c] = @ \cup {log[v][n] : n \in cursor[c][v] + 1 .. to}]
    /\ cursor' = [cursor EXCEPT ![c][v] = Len(log[v])]
    /\ UNCHANGED <<storeVars, messageVars, held, restarts, expiries>>

(* GET messages?after_seq=cursor; the backend persists what it got and     *)
(* advances its cursor.                                                    *)
ReadPage(c) ==
    LET v == held[c].conversation
        to == PageEnd(v, cursor[c][v]) IN
    /\ pc[c] = "leased"
    /\ pc' = [pc EXCEPT ![c] = "processed"]
    /\ seen' = [seen EXCEPT ![c] = @ \cup {log[v][n] : n \in cursor[c][v] + 1 .. to}]
    /\ cursor' = [cursor EXCEPT ![c][v] = to]
    /\ UNCHANGED <<storeVars, messageVars, held, restarts, expiries>>

(* POST ack with the highest processed seq: accepted, or refused when the  *)
(* lease is expired, replaced or forgotten.  A backend whose response is   *)
(* lost behaves like one that got it: it polls again.                      *)
Acknowledge(c) ==
    LET v == held[c].conversation IN
    /\ pc[c] = "processed"
    /\ pc' = [pc EXCEPT ![c] = "idle"]
    /\ IF AckAccepted(c, v, held[c].token)
       THEN AckDirty(c, v, held[c].token, cursor[c][v])
       ELSE UNCHANGED storeVars
    /\ UNCHANGED <<messageVars, cursor, seen, held, restarts, expiries>>

(* The backend restarts and forgets its lease; its cursor is durable.      *)
Restart(c) ==
    /\ pc[c] # "idle"
    /\ restarts[c] < MaxRestarts
    /\ restarts' = [restarts EXCEPT ![c] = @ + 1]
    /\ pc' = [pc EXCEPT ![c] = "idle"]
    /\ UNCHANGED <<storeVars, messageVars, cursor, seen, held, expiries>>

Backend(c) == (\E v \in Conversations : Lease(c, v)) \/ ReadPage(c) \/ Acknowledge(c)

(* A consumer of the same tenant that reads no messages: it polls with any *)
(* limit and acknowledges its current lease with any number.               *)
CarelessStep(c) ==
    /\ \/ \E S \in SUBSET Conversations :
             /\ \A v \in S : issued[c][v] < CarelessLeases
             /\ ListDirty(c, S)
       \/ \E v \in Conversations, seq \in AckSeqs : AckDirty(c, v, leases[c][v], seq)
    /\ UNCHANGED <<messageVars, backendVars, expiries>>

LoopNext ==
    \/ \E v \in Conversations :
          \/ StoreMessage(v)
          \/ \E seq \in 1..MaxSeq : ChangeMessage(v, seq)
          \/ ChangeConversation(v)
    \/ \E c \in Consumers, v \in Conversations : LeaseRunsOut(c, v)
    \/ \E c \in Backends : Backend(c) \/ Restart(c)
    \/ \E c \in Careless : CarelessStep(c)
    \/ PersistStore
    \/ CrashStore

(* A backend keeps going round its loop; no message, update, expiry,       *)
(* snapshot, crash or restart is assumed to happen.                        *)
Fairness == \A c \in Backends : WF_loopVars(Backend(c))

LoopSpec == LoopInit /\ [][LoopNext]_loopVars /\ Fairness

-----------------------------------------------------------------------------
(* README.md:109, "dirty leases let consumers recover after dropped        *)
(* signals, restarts, or deploys": every message recorded after a backend  *)
(* first leased the conversation is processed by it in the end, although   *)
(* leases run out, backends restart and careless consumers acknowledge     *)
(* whatever they like in between.  A crash of RustZap ends the promise:    *)
(* the message itself may be gone.                                         *)
EveryMessageReachesConsumer ==
    \A c \in Backends, v \in Conversations, n \in 1..MaxSeq :
        (lastSeq[v] >= n /\ Registered(c, v) /\ joined[c][v] < n)
            ~> (cursor[c][v] >= n \/ crashes > 0)

(* README.md:109 again: the messages stored up to a backend's cursor are   *)
(* messages the backend has persisted, so reading after the cursor skips   *)
(* nothing.  It holds until RustZap crashes: a crash forgets messages the  *)
(* snapshot task had not written yet and gives their sequence numbers to   *)
(* other messages, which a cursor that survived never asks for.            *)
CursorCoversStoredMessages ==
    crashes = 0 => \A c \in Backends, v \in Conversations :
        \A n \in 1..cursor[c][v] : n <= Len(log[v]) => log[v][n] \in seen[c]
=============================================================================
