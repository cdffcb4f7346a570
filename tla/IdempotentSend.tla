--------------------------- MODULE IdempotentSend ---------------------------
(***************************************************************************)
(* What the send command promises of its Idempotency-Key, without store,   *)
(* snapshot, outbox, drainer or connection.  A key is bound to one message *)
(* for good, and no two keys to the same one, before anything of it can go *)
(* out.  Only a bound message is sent, once and once more for each fault   *)
(* at the most, and never again after its request was settled.             *)
(* OutboundDelivery implements this.                                       *)
(***************************************************************************)
EXTENDS Naturals

CONSTANTS Keys, Messages, NoMessage

VARIABLES bound,    \* the message of each key, which no crash takes back
          sends,    \* how often WhatsApp accepted each message
          settled,  \* messages whose request is closed
          faults    \* crashes and lost acknowledgements so far

vars == <<bound, sends, settled, faults>>

Init ==
    /\ bound = [k \in Keys |-> NoMessage]
    /\ sends = [m \in Messages |-> 0]
    /\ settled = {}
    /\ faults = 0

(* Any number of new keys get their messages.                              *)
Bind ==
    /\ bound' \in [Keys -> Messages \cup {NoMessage}]
    /\ \A k \in Keys : bound[k] # NoMessage => bound'[k] = bound[k]
    /\ \A k, l \in Keys : (bound'[k] # NoMessage /\ bound'[k] = bound'[l]) => k = l
    /\ UNCHANGED <<sends, settled, faults>>

Open(m) == m \notin settled /\ \E k \in Keys : bound[k] = m

Send(m) ==
    /\ Open(m)
    /\ sends[m] <= faults
    /\ sends' = [sends EXCEPT ![m] = @ + 1]
    /\ UNCHANGED <<bound, settled, faults>>

Settle(m) ==
    /\ Open(m)
    /\ settled' = settled \cup {m}
    /\ UNCHANGED <<bound, sends, faults>>

Fail ==
    /\ faults' = faults + 1
    /\ UNCHANGED <<bound, sends, settled>>

Next == Bind \/ Fail \/ \E m \in Messages : Send(m) \/ Settle(m)

Spec == Init /\ [][Next]_vars
=============================================================================
