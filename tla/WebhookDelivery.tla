-------------------------- MODULE WebhookDelivery ---------------------------
(***************************************************************************)
(* Webhook callbacks (src/src/state.rs, secrets.rs): an administrator      *)
(* creates, changes and deletes callbacks while one worker builds its list *)
(* of jobs from the stored events under the store lock,                    *)
(* posts them one by one without it, and records each attempt.  The        *)
(* secrets of the callbacks are encrypted with a master key that a restart *)
(* may change; a callback whose secret cannot be decrypted ends the whole  *)
(* cycle with an error, and records no attempt.                            *)
(***************************************************************************)
EXTENDS Naturals, Sequences, FiniteSets, SequencesExt

CONSTANTS
    MaxEventIds,    \* bound: events
    Callbacks,      \* callback ids
    Keys,           \* master keys
    MaxRetries,     \* WEBHOOK_MAX_RETRIES
    MaxDisturbances \* bound: callback changes, failed posts and restarts

ASSUME WebhookAssumption ==
    /\ MaxEventIds \in Nat /\ MaxRetries \in Nat /\ MaxDisturbances \in Nat
    /\ IsFiniteSet(Callbacks)

EventIds == 1..MaxEventIds

VARIABLES
    eventKinds, \* the stored event list: the kind of each event
    key,        \* the configured master key, or "none"
    deliver,    \* WEBHOOK_DELIVERY_ENABLED with a webhook signal mode
    callbacks,  \* the stored callbacks
    attempts,   \* per callback and event: last attempt, success, due again
    cycle,      \* the worker: jobs left, the answer to the first one
    snapshot,   \* the snapshot row
    received,   \* history: requests that reached the endpoint
    changes, faults

webhookVars == <<eventKinds, key, deliver, callbacks, attempts, cycle, snapshot, received,
                 changes, faults>>

Absent == [exists |-> FALSE, enabled |-> FALSE, secret |-> "none", all |-> FALSE]
Untried == [last |-> 0, success |-> FALSE, due |-> TRUE]
NoCycle == [jobs |-> <<>>, answer |-> "none"]
Pairs == Callbacks \X EventIds

Disturbed == changes + faults < MaxDisturbances
Fault == Disturbed /\ faults' = faults + 1
Change == Disturbed /\ changes' = changes + 1
Store == [events |-> eventKinds, callbacks |-> callbacks, attempts |-> attempts]

(* upgrade_legacy_callback_secrets, when the process starts.               *)
Upgraded(stored, k) ==
    [c \in Callbacks |-> IF stored[c].secret = "legacy" /\ k # "none"
                         THEN [stored[c] EXCEPT !.secret = k] ELSE stored[c]]

WebhookInit ==
    /\ eventKinds = <<>>
    /\ key \in Keys \cup {"none"} /\ deliver \in BOOLEAN
    /\ \E old \in {Absent, [Absent EXCEPT !.exists = TRUE, !.enabled = TRUE, !.secret = "legacy"]} :
          callbacks = Upgraded([c \in Callbacks |-> old], key)
    /\ attempts = [p \in Pairs |-> Untried]
    /\ cycle = NoCycle
    /\ snapshot = Store
    /\ received = [p \in Pairs |-> 0]
    /\ changes = 0 /\ faults = 0

-----------------------------------------------------------------------------
(* push_event_inner: an event of the callbacks' tenant is stored.          *)
AddEvent(kind) ==
    /\ Len(eventKinds) < MaxEventIds
    /\ eventKinds' = Append(eventKinds, kind)
    /\ UNCHANGED <<key, deliver, callbacks, attempts, cycle, snapshot, received, changes, faults>>

(* upsert_callback, with or without a secret of the caller's: a stored one *)
(* is kept, a plaintext one is encrypted, a missing one is generated.      *)
UpsertCallback(c, given, enabled, all) ==
    LET old == callbacks[c].secret
        secret == IF ~given /\ old \in Keys THEN old ELSE key IN
    /\ Change
    /\ secret = "none" => ~given /\ old = "none" /\ ~deliver
    /\ callbacks' = [callbacks EXCEPT ![c] =
          [exists |-> TRUE, enabled |-> enabled, secret |-> secret, all |-> all]]
    /\ UNCHANGED <<eventKinds, key, deliver, attempts, cycle, snapshot, received, faults>>

DeleteCallback(c) ==
    /\ callbacks[c].exists
    /\ Change
    /\ callbacks' = [callbacks EXCEPT ![c] = Absent]
    /\ UNCHANGED <<eventKinds, key, deliver, attempts, cycle, snapshot, received, faults>>

-----------------------------------------------------------------------------
(* callback_subscribes_to_event: "*" or the default, conversation.dirty.   *)
Subscribes(c, e) == eventKinds[e] = "dirty" \/ callbacks[c].all

(* Mutant: one attempt too many.                                           *)
PendingOffByOne(c, e) ==
    LET tried == attempts[<<c, e>>] IN
    /\ callbacks[c].enabled
    /\ Subscribes(c, e)
    /\ ~tried.success
    /\ tried.last = 0 \/ (tried.last <= MaxRetries /\ tried.due)

(* Mutant: an event with an attempt is passed over.                        *)
PendingOnce(c, e) ==
    /\ callbacks[c].enabled
    /\ Subscribes(c, e)
    /\ attempts[<<c, e>>].last = 0

(* What makes a job of callback c and event e.                             *)
Pending(c, e) ==
    LET tried == attempts[<<c, e>>] IN
    /\ callbacks[c].enabled
    /\ Subscribes(c, e)
    /\ ~tried.success
    /\ tried.last = 0 \/ (tried.last < MaxRetries /\ tried.due)

(* The jobs there are, with what the callback and the attempts are now.    *)
PendingJobs ==
    {[callback |-> p[1], event |-> p[2], secret |-> callbacks[p[1]].secret,
      attempt |-> attempts[p].last + 1] :
        p \in {q \in Callbacks \X DOMAIN eventKinds : Pending(q[1], q[2])}}

(* The jobs of a callback come together, in the order of the events.       *)
CallbackByCallback(jobs) ==
    \A i, j \in DOMAIN jobs : (i < j /\ jobs[i].callback = jobs[j].callback) =>
        /\ jobs[i].event < jobs[j].event
        /\ \A k \in i..j : jobs[k].callback = jobs[i].callback

(* pending_webhook_jobs, callback by callback in the order of a hash map.  *)
BuildJobs ==
    /\ deliver
    /\ cycle = NoCycle
    /\ PendingJobs # {}
    /\ \E jobs \in SetToSeqs(PendingJobs) :
          /\ CallbackByCallback(jobs)
          /\ cycle' = [NoCycle EXCEPT !.jobs = jobs]
    /\ UNCHANGED <<eventKinds, key, deliver, callbacks, attempts, snapshot, received, changes,
                   faults>>

(* decrypt_secret: only with the key the secret was encrypted with.        *)
Decrypts(secret) == secret = key /\ key # "none"

Job == Head(cycle.jobs)
PairOf(j) == <<j.callback, j.event>>
Ready == cycle.jobs # <<>> /\ cycle.answer = "none"

(* deliver_webhook_job: the request is signed and answered with success,   *)
(* or it fails before or after the endpoint has got it.                    *)
Post ==
    /\ Ready
    /\ Decrypts(Job.secret)
    /\ \/ /\ received' = [received EXCEPT ![PairOf(Job)] = @ + 1]
          /\ cycle' = [cycle EXCEPT !.answer = "success"]
          /\ UNCHANGED faults
       \/ /\ received' \in {received, [received EXCEPT ![PairOf(Job)] = @ + 1]}
          /\ cycle' = [cycle EXCEPT !.answer = "failed"]
          /\ Fault
    /\ UNCHANGED <<eventKinds, key, deliver, callbacks, attempts, snapshot, changes>>

(* No secret, no key, or a secret of another key: the error leaves the     *)
(* loop of deliver_pending_webhooks_once.                                  *)
AbortCycle ==
    /\ Ready
    /\ ~Decrypts(Job.secret)
    /\ cycle' = NoCycle
    /\ UNCHANGED <<eventKinds, key, deliver, callbacks, attempts, snapshot, received, changes,
                   faults>>

(* Mutant: only failures are recorded.                                     *)
RecordAttemptOfFailure ==
    LET j == Job IN
    /\ cycle.answer # "none"
    /\ attempts' = IF cycle.answer = "success" THEN attempts
                   ELSE [attempts EXCEPT ![PairOf(j)] =
                            [@ EXCEPT !.last = j.attempt, !.due = FALSE]]
    /\ cycle' = [NoCycle EXCEPT !.jobs = Tail(cycle.jobs)]
    /\ UNCHANGED <<eventKinds, key, deliver, callbacks, snapshot, received, changes, faults>>

(* record_webhook_attempt, whatever became of the callback.                *)
RecordAttempt ==
    LET j == Job IN
    /\ cycle.answer # "none"
    /\ attempts' = [attempts EXCEPT ![PairOf(j)] =
          [last |-> j.attempt, success |-> @.success \/ cycle.answer = "success", due |-> FALSE]]
    /\ cycle' = [NoCycle EXCEPT !.jobs = Tail(cycle.jobs)]
    /\ UNCHANGED <<eventKinds, key, deliver, callbacks, snapshot, received, changes, faults>>

(* The delay of next_webhook_retry_at is over.                             *)
RetryDue(c, e) ==
    /\ attempts[<<c, e>>].last > 0
    /\ ~attempts[<<c, e>>].due /\ ~attempts[<<c, e>>].success
    /\ attempts' = [attempts EXCEPT ![<<c, e>>].due = TRUE]
    /\ UNCHANGED <<eventKinds, key, deliver, callbacks, cycle, snapshot, received, changes, faults>>

-----------------------------------------------------------------------------
(* The snapshot task.                                                      *)
Persist ==
    /\ snapshot # Store
    /\ snapshot' = Store
    /\ UNCHANGED <<eventKinds, key, deliver, callbacks, attempts, cycle, received, changes, faults>>

(* The process dies and starts, perhaps with another configuration.        *)
Restart(k, d) ==
    /\ Fault
    /\ eventKinds' = snapshot.events
    /\ key' = k /\ deliver' = d
    /\ callbacks' = Upgraded(snapshot.callbacks, k)
    /\ attempts' = snapshot.attempts
    /\ cycle' = NoCycle
    /\ received' = [p \in Pairs |-> IF p[2] \in DOMAIN snapshot.events THEN received[p] ELSE 0]
    /\ UNCHANGED <<snapshot, changes>>

WorkerStep == BuildJobs \/ Post \/ AbortCycle \/ RecordAttempt

WebhookNext ==
    \/ \E kind \in {"dirty", "other"} : AddEvent(kind)
    \/ \E c \in Callbacks, given, enabled, all \in BOOLEAN : UpsertCallback(c, given, enabled, all)
    \/ \E c \in Callbacks : DeleteCallback(c)
    \/ WorkerStep
    \/ \E c \in Callbacks, e \in EventIds : RetryDue(c, e)
    \/ Persist
    \/ \E k \in Keys \cup {"none"}, d \in BOOLEAN : Restart(k, d)

(* The worker's interval ticks, its posts are answered or time out, and    *)
(* delays end.                                                             *)
WebhookFairness ==
    /\ WF_webhookVars(WorkerStep)
    /\ WF_webhookVars(\E c \in Callbacks, e \in EventIds : RetryDue(c, e))

WebhookSpec == WebhookInit /\ [][WebhookNext]_webhookVars /\ WebhookFairness

-----------------------------------------------------------------------------
(* The first attempt is made even with WEBHOOK_MAX_RETRIES=0.              *)
MaxAttempts == IF MaxRetries = 0 THEN 1 ELSE MaxRetries

(* The values the variables take; no attempt has a number above the limit. *)
WebhookTypeOK ==
    /\ eventKinds \in Seq({"dirty", "other"})
    /\ key \in Keys \cup {"none"} /\ deliver \in BOOLEAN
    /\ callbacks \in [Callbacks -> [exists : BOOLEAN, enabled : BOOLEAN, all : BOOLEAN,
                                    secret : Keys \cup {"none", "legacy"}]]
    /\ attempts \in [Pairs -> [last : 0..MaxAttempts, success : BOOLEAN, due : BOOLEAN]]
    /\ cycle.answer \in {"none", "success", "failed"}
    /\ \A i \in DOMAIN cycle.jobs : cycle.jobs[i].attempt \in 1..MaxAttempts

(* task.md:1822, consumers deduplicate by event_id what repeated deliveries *)
(* bring: an event reaches a callback's endpoint once, and once more only  *)
(* for a lost answer, a failure or a restart, whatever is done to the      *)
(* callback meanwhile.                                                     *)
ReceivedOncePerFault ==
    \A p \in Pairs : received[p] <= 1 + faults

(* The callbacks that end every cycle they are part of.                    *)
Broken == {c \in Callbacks : callbacks[c].enabled /\ ~Decrypts(callbacks[c].secret)}

(* Callback c is to get event e.                                           *)
Owed(c, e) ==
    /\ deliver /\ e \in DOMAIN eventKinds
    /\ callbacks[c].enabled /\ c \notin Broken /\ Subscribes(c, e)

(* task.md:1821, "at-least-once delivery": an event a callback is owed     *)
(* reaches its endpoint, through failures, back-off, restarts and changes  *)
(* of other callbacks, unless its attempts are used up, it is no longer    *)
(* owed, or some callback cannot be signed for.                            *)
OwedIsReceived ==
    \A c \in Callbacks, e \in EventIds :
        Owed(c, e) ~> (\/ received[<<c, e>>] > 0 \/ attempts[<<c, e>>].last = MaxAttempts
                       \/ ~Owed(c, e) \/ Broken # {})
=============================================================================
