---------------------------- MODULE RateLimiter -----------------------------
(***************************************************************************)
(* The in-memory rate limiter (src/src/rate_limit.rs) as send_message      *)
(* (routes.rs) uses it: two checks in a row, the first with the limit per  *)
(* conversation over the keys of the company and of the conversation, the  *)
(* second with the limit per channel over the company's key of another     *)
(* family.  A check reads the clock before it takes the lock, so a request *)
(* that waits for the lock across the minute boundary finds a bucket of a  *)
(* later minute and sets it back to its own.                               *)
(*                                                                         *)
(* The keys of the API key, the address and the project behave as the      *)
(* company's here: one caller of one company.                              *)
(***************************************************************************)
EXTENDS Naturals, Sequences, FiniteSets

CONSTANTS
    Requests,           \* send requests
    Conversations,      \* conversation ids
    ConversationLimit,  \* RATE_LIMIT_SEND_MESSAGE_PER_MINUTE_PER_CONVERSATION
    ChannelLimit,       \* RATE_LIMIT_SEND_MESSAGE_PER_MINUTE_PER_CHANNEL
    MaxMinute           \* bound: minutes that pass

VARIABLES
    clock,      \* the current minute
    bucket,     \* per key: the minute it counts and how many
    request,    \* per request: its conversation, step, the minute it read
    passed      \* history: per key and minute, checks that were passed

vars == <<clock, bucket, request, passed>>

Minutes == 0..MaxMinute
Limited == Conversations \cup {"company", "tenant"}

(* The keys of a request's two checks, in the order they are looked at.    *)
KeysOf(r, check) ==
    IF check = 1 THEN <<"company", request[r].conversation>> ELSE <<"tenant">>
LimitOf(check) == IF check = 1 THEN ConversationLimit ELSE ChannelLimit
CheckOf(r) == IF request[r].step = "first" THEN 1 ELSE 2

Init ==
    /\ clock = 0
    /\ bucket = [k \in Limited |-> [minute |-> 0, count |-> 0]]
    /\ request \in [Requests -> [conversation : Conversations, step : {"first"},
                                 read : {FALSE}, minute : {0}]]
    /\ passed = [k \in Limited |-> [m \in Minutes |-> 0]]

-----------------------------------------------------------------------------
(* Time passes.                                                            *)
Tick ==
    /\ clock < MaxMinute
    /\ clock' = clock + 1
    /\ UNCHANGED <<bucket, request, passed>>

(* A check starts: current_window_minute, before the lock.                 *)
ReadWindow(r) ==
    /\ request[r].step \in {"first", "second"} /\ ~request[r].read
    /\ request' = [request EXCEPT ![r].read = TRUE, ![r].minute = clock]
    /\ UNCHANGED <<clock, bucket, passed>>

(* A bucket as a check of minute m sees it.                                *)
Seen(k, m) == IF bucket[k].minute = m THEN bucket[k] ELSE [minute |-> m, count |-> 0]

(* The keys a check of minute m looks at: up to the first that is full.    *)
Looked(keys, m, limit) ==
    {keys[i] : i \in {j \in DOMAIN keys : \A h \in 1..(j - 1) : Seen(keys[h], m).count < limit}}

(* The check under the lock: looked-at buckets of another minute start     *)
(* over, then every key is counted or, if one is full, none.               *)
Check(r) ==
    LET m == request[r].minute
        limit == LimitOf(CheckOf(r))
        keys == KeysOf(r, CheckOf(r))
        looked == Looked(keys, m, limit)
        passes == \A k \in looked : Seen(k, m).count < limit IN
    /\ request[r].read
    /\ bucket' = [k \in Limited |->
          IF k \notin looked THEN bucket[k]
          ELSE [Seen(k, m) EXCEPT !.count = IF passes THEN @ + 1 ELSE @]]
    /\ passed' = [k \in Limited |-> IF passes /\ k \in looked
                                    THEN [passed[k] EXCEPT ![m] = @ + 1] ELSE passed[k]]
    /\ request' = [request EXCEPT ![r].read = FALSE,
          ![r].step = IF ~passes THEN "refused" ELSE IF @ = "first" THEN "second" ELSE "granted"]
    /\ UNCHANGED clock

Next == Tick \/ \E r \in Requests : ReadWindow(r) \/ Check(r)

Spec == Init /\ [][Next]_vars

-----------------------------------------------------------------------------
(* task.md:2124, RATE_LIMIT_SEND_MESSAGE_PER_MINUTE_PER_CONVERSATION: no   *)
(* key passes more checks in a minute than its limit.                      *)
LimitPerMinute ==
    \A k \in Limited, m \in Minutes :
        passed[k][m] <= (IF k = "tenant" THEN ChannelLimit ELSE ConversationLimit)
=============================================================================
