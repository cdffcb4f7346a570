--------------------------- MODULE Transcription ----------------------------
(***************************************************************************)
(* Transcripts of audio messages (src/src/state.rs, transcription.rs): an  *)
(* inbound audio or POST .../transcribe queues a request event, one worker *)
(* per process handles the requests in turn, and between its steps, which  *)
(* wait for the object store and for Groq, retention removes messages,     *)
(* media and transcripts, media are deleted, and the process may crash.    *)
(*                                                                         *)
(* A request event becomes durable with the snapshot of the store and is   *)
(* delivered at least once (EventPipeline, OutboundDelivery).  Several     *)
(* deliveries of one message never overlap: the in-memory dispatcher, the  *)
(* Postgres drainer and the Kafka worker each handle one event at a time.  *)
(***************************************************************************)
EXTENDS Naturals, FiniteSets

CONSTANTS
    Messages,       \* inbound audio messages
    MaxRequests,    \* bound: request events
    MaxOps,         \* bound: deletions, removals and policy changes
    MaxFaults       \* bound: failed calls, repeated deliveries, crashes

ASSUME TranscriptionAssumption ==
    MaxRequests \in Nat /\ MaxOps \in Nat /\ MaxFaults \in Nat

VARIABLES
    store,      \* memory: messages, media, transcripts and their text, policy
    snapshot,   \* the metadata_snapshots row
    kind,       \* what the audio turns out to be
    fresh,      \* request events not yet durable, per message
    queue,      \* durable request events waiting, per message
    worker,     \* the worker and the message it is busy with
    sweep,      \* the retention run: the policy and messages it started from
    requests, ops, faults,
    repeated,   \* history: messages whose raw inbound event came twice
    stranded,   \* history: messages whose request ended without an outcome
    raced       \* history: messages removed while being transcribed

vars == <<store, snapshot, kind, fresh, queue, worker, sweep, requests, ops, faults,
          repeated, stranded, raced>>
history == <<repeated, stranded, raced>>
counters == <<requests, ops, faults>>

Statuses == {"none", "pending", "processing", "completed", "failed",
             "skipped_size_limit", "skipped_unsupported_type"}
Skipped == {"skipped_size_limit", "skipped_unsupported_type"}
Open == {"pending", "processing"}
Idle == [step |-> "idle", message |-> "none", allow |-> FALSE]
NoSweep == [step |-> "idle", allow |-> TRUE, messages |-> {}]

Operation == ops < MaxOps /\ ops' = ops + 1
Fault == faults < MaxFaults /\ faults' = faults + 1
Working(m) == worker # Idle /\ worker.message = m

(* What a step of the worker writes: set_transcript_lifecycle, whatever    *)
(* the transcript and the message have become.                             *)
SetLifecycle(m, status) ==
    [store EXCEPT !.transcript[m] = status, !.text = @ \ {m}]

Init ==
    /\ store \in [message : {{}}, media : {[m \in Messages |-> "none"]},
                  transcript : {[m \in Messages |-> "none"]}, text : {{}}, allow : BOOLEAN]
    /\ snapshot = store
    /\ kind \in [Messages -> {"audio", "oversize", "other"}]
    /\ fresh = [m \in Messages |-> 0]
    /\ queue = [m \in Messages |-> 0]
    /\ worker = Idle /\ sweep = NoSweep
    /\ requests = 0 /\ ops = 0 /\ faults = 0
    /\ repeated = {} /\ stranded = {} /\ raced = {}

-----------------------------------------------------------------------------
(* A new pending transcript and its request event.                         *)
Request(m) ==
    /\ requests < MaxRequests
    /\ requests' = requests + 1
    /\ fresh' = [fresh EXCEPT ![m] = @ + 1]

(* An inbound audio message and its stored media; record_inbound_media_    *)
(* object inserts a pending transcript whatever is there, so a second      *)
(* delivery of the raw event starts the transcript over.                   *)
ReceiveAudio(m) ==
    /\ store.transcript[m] = "none" \/ m \in store.message
    /\ IF m \in store.message
       THEN Fault /\ repeated' = repeated \cup {m}
       ELSE UNCHANGED <<faults, repeated>>
    /\ Request(m)
    /\ store' = [SetLifecycle(m, "pending") EXCEPT !.message = @ \cup {m}, !.media[m] = "stored"]
    /\ UNCHANGED <<snapshot, kind, queue, worker, sweep, ops, stranded, raced>>

(* Mutant: the pending transcript is recorded without a request event.     *)
RequestTranscriptSilently(m) ==
    /\ m \in store.message
    /\ store.media[m] # "none" /\ kind[m] # "other"
    /\ store.transcript[m] \in {"none", "failed"}
    /\ store' = SetLifecycle(m, "pending")
    /\ UNCHANGED <<snapshot, kind, fresh, queue, worker, sweep, counters, history>>

(* POST .../transcribe: only a missing or failed transcript is requested   *)
(* again; any other is returned as it is.                                  *)
RequestTranscript(m) ==
    /\ m \in store.message
    /\ store.media[m] # "none" /\ kind[m] # "other"
    /\ store.transcript[m] \in {"none", "failed"}
    /\ Request(m)
    /\ store' = SetLifecycle(m, "pending")
    /\ UNCHANGED <<snapshot, kind, queue, worker, sweep, ops, faults, history>>

(* Mutant: a redelivered request does not look at the transcript.          *)
BeginAgain(m) ==
    /\ worker = Idle /\ queue[m] > 0
    /\ queue' = [queue EXCEPT ![m] = @ - 1]
    /\ worker' = IF m \in store.message /\ store.media[m] # "none"
                 THEN [Idle EXCEPT !.step = "begun", !.message = m] ELSE Idle
    /\ stranded' = IF worker' = Idle /\ store.transcript[m] \in Open
                   THEN stranded \cup {m} ELSE stranded
    /\ UNCHANGED <<store, snapshot, kind, fresh, sweep, counters, repeated, raced>>

(* process_transcription_request up to the media: a message or media that  *)
(* is gone is an error, which ends the delivery and leaves the transcript; *)
(* a finished transcript is returned.                                      *)
Begin(m) ==
    /\ worker = Idle /\ queue[m] > 0
    /\ queue' = [queue EXCEPT ![m] = @ - 1]
    /\ worker' = IF /\ m \in store.message /\ store.media[m] # "none"
                    /\ store.transcript[m] \notin Skipped \cup {"completed"}
                 THEN [Idle EXCEPT !.step = "begun", !.message = m] ELSE Idle
    /\ stranded' = IF worker' = Idle /\ store.transcript[m] \in Open
                   THEN stranded \cup {m} ELSE stranded
    /\ UNCHANGED <<store, snapshot, kind, fresh, sweep, counters, repeated, raced>>

(* The MIME type and size checks, or the processing mark.                  *)
Mark ==
    LET m == worker.message IN
    /\ worker.step = "begun"
    /\ \/ /\ kind[m] = "audio"
          /\ store' = SetLifecycle(m, "processing")
          /\ worker' = [worker EXCEPT !.step = "bytes"]
       \/ /\ kind[m] # "audio"
          /\ store' = SetLifecycle(m, IF kind[m] = "other" THEN "skipped_unsupported_type"
                                      ELSE "skipped_size_limit")
          /\ worker' = Idle
    /\ UNCHANGED <<snapshot, kind, fresh, queue, sweep, counters, history>>

(* The delivery ends with a failed transcript.                             *)
Fail ==
    /\ store' = SetLifecycle(worker.message, "failed")
    /\ worker' = Idle

(* media_blob: the bytes, or none because the media was deleted or removed *)
(* meanwhile, or an error of the object store.                             *)
FetchBytes ==
    /\ worker.step = "bytes"
    /\ \/ /\ store.media[worker.message] = "stored"
          /\ worker' = [worker EXCEPT !.step = "groq"]
          /\ UNCHANGED <<store, faults>>
       \/ store.media[worker.message] # "stored" /\ Fail /\ UNCHANGED faults
       \/ Fault /\ Fail
    /\ UNCHANGED <<snapshot, kind, fresh, queue, sweep, requests, ops, history>>

(* Mutant: the answer for a media that went meanwhile is never taken.      *)
GroqAnswersWhileStored ==
    /\ worker.step = "groq"
    /\ store.media[worker.message] = "stored"
    /\ worker' = [worker EXCEPT !.step = "answer", !.allow = store.allow]
    /\ UNCHANGED <<store, snapshot, kind, fresh, queue, sweep, counters, history>>

(* Groq answers, and the policy is read before the store is locked again.  *)
GroqAnswers ==
    /\ worker.step = "groq"
    /\ worker' = [worker EXCEPT !.step = "answer", !.allow = store.allow]
    /\ UNCHANGED <<store, snapshot, kind, fresh, queue, sweep, counters, history>>

(* transcribe_bytes fails: no key, ffmpeg, transport, timeout, status,     *)
(* body.                                                                   *)
GroqFails ==
    /\ worker.step = "groq"
    /\ Fault
    /\ Fail
    /\ UNCHANGED <<snapshot, kind, fresh, queue, sweep, requests, ops, history>>

(* Mutant: the text is stored whatever the policy said.                    *)
CompleteIgnoresPolicy ==
    /\ worker.step = "answer"
    /\ store' = [store EXCEPT !.transcript[worker.message] = "completed",
                              !.text = @ \cup {worker.message}]
    /\ worker' = Idle
    /\ UNCHANGED <<snapshot, kind, fresh, queue, sweep, counters, history>>

(* set_completed_groq_transcript.                                          *)
Complete ==
    /\ worker.step = "answer"
    /\ store' = [SetLifecycle(worker.message, "completed") EXCEPT
                    !.text = IF worker.allow THEN @ \cup {worker.message} ELSE @]
    /\ worker' = Idle
    /\ UNCHANGED <<snapshot, kind, fresh, queue, sweep, counters, history>>

-----------------------------------------------------------------------------
(* DELETE .../media/{id}: the record stays.                                *)
DeleteMedia(m) ==
    /\ store.media[m] = "stored"
    /\ Operation
    /\ store' = [store EXCEPT !.media[m] = "deleted"]
    /\ UNCHANGED <<snapshot, kind, fresh, queue, worker, sweep, requests, faults, history>>

(* cleanup_expired_temp_media: the record goes too.                        *)
ExpireMedia(m) ==
    /\ store.media[m] = "stored"
    /\ Operation
    /\ store' = [store EXCEPT !.media[m] = "none"]
    /\ UNCHANGED <<snapshot, kind, fresh, queue, worker, sweep, requests, faults, history>>

(* POST .../companies: upsert_company writes the default policy over any   *)
(* other; a policy that denies storage is only ever loaded.                *)
UpsertCompany ==
    /\ ~store.allow
    /\ Operation
    /\ store' = [store EXCEPT !.allow = TRUE]
    /\ UNCHANGED <<snapshot, kind, fresh, queue, worker, sweep, requests, faults, history>>

(* apply_retention_once reads the policy, apply_company_retention the      *)
(* messages M that are too old.                                            *)
BeginRetention(M) ==
    /\ sweep = NoSweep
    /\ M \subseteq store.message
    /\ Operation
    /\ sweep' = [step |-> "bytes", allow |-> store.allow, messages |-> M]
    /\ UNCHANGED <<store, snapshot, kind, fresh, queue, worker, requests, faults, history>>

(* Mutant: the transcripts of removed messages stay.                       *)
FinishRetentionKeepsTranscripts(T) ==
    /\ sweep # NoSweep
    /\ sweep' = NoSweep
    /\ store' = [store EXCEPT
          !.message = @ \ sweep.messages,
          !.media = [m \in Messages |-> IF m \in sweep.messages THEN "none" ELSE @[m]]]
    /\ raced' = raced \cup {m \in sweep.messages \cup T : Working(m)}
    /\ UNCHANGED <<snapshot, kind, fresh, queue, worker, counters, repeated, stranded>>

(* ... then it removes them with their media and transcripts, removes the  *)
(* transcripts T that are too old, and redacts the rest if the policy it   *)
(* started from says so.                                                   *)
FinishRetention(T) ==
    LET gone == sweep.messages \cup T IN
    /\ sweep # NoSweep
    /\ sweep' = NoSweep
    /\ store' = [store EXCEPT
          !.message = @ \ sweep.messages,
          !.media = [m \in Messages |-> IF m \in sweep.messages THEN "none" ELSE @[m]],
          !.transcript = [m \in Messages |-> IF m \in gone THEN "none" ELSE @[m]],
          !.text = IF sweep.allow THEN @ \ gone ELSE {}]
    /\ raced' = raced \cup {m \in gone : Working(m)}
    /\ UNCHANGED <<snapshot, kind, fresh, queue, worker, counters, repeated, stranded>>

-----------------------------------------------------------------------------
(* The bus delivers a request once more: its acknowledgement was lost.     *)
Redeliver(m) ==
    /\ requests > 0 /\ fresh[m] = 0 /\ m \in store.message
    /\ Fault
    /\ queue' = [queue EXCEPT ![m] = @ + 1]
    /\ UNCHANGED <<store, snapshot, kind, fresh, worker, sweep, requests, ops, history>>

(* The snapshot and the request events, in one transaction.                *)
Persist ==
    /\ snapshot # store \/ \E m \in Messages : fresh[m] > 0
    /\ snapshot' = store
    /\ queue' = [m \in Messages |-> queue[m] + fresh[m]]
    /\ fresh' = [m \in Messages |-> 0]
    /\ UNCHANGED <<store, kind, worker, sweep, counters, history>>

(* The process dies; the delivery in progress is repeated.                 *)
Crash ==
    LET left == [m \in Messages |-> queue[m] + (IF Working(m) THEN 1 ELSE 0)] IN
    /\ Fault
    /\ store' = snapshot
    /\ fresh' = [m \in Messages |-> 0]
    /\ queue' = left
    /\ worker' = Idle /\ sweep' = NoSweep
    /\ stranded' = stranded \cup {m \in Messages : snapshot.transcript[m] \in Open /\ left[m] = 0}
    /\ raced' = raced \cup {m \in Messages : snapshot.transcript[m] # "none"
                                             /\ m \notin snapshot.message}
    /\ UNCHANGED <<snapshot, kind, requests, ops, repeated>>

Work == Mark \/ FetchBytes \/ GroqAnswers \/ Complete

Next ==
    \/ \E m \in Messages :
          \/ ReceiveAudio(m) \/ RequestTranscript(m) \/ Begin(m)
          \/ DeleteMedia(m) \/ ExpireMedia(m) \/ Redeliver(m)
    \/ Work \/ GroqFails
    \/ UpsertCompany
    \/ \E M \in SUBSET Messages : BeginRetention(M)
    \/ \E T \in SUBSET Messages : FinishRetention(T)
    \/ Persist
    \/ Crash

(* The snapshot task runs on every change, and the worker's loop goes on:  *)
(* the object store and Groq answer or time out.                           *)
Fairness ==
    /\ WF_vars(Persist)
    /\ WF_vars(Work)
    /\ \A m \in Messages : WF_vars(Begin(m))

Spec == Init /\ [][Next]_vars /\ Fairness

-----------------------------------------------------------------------------
Stores == [message : SUBSET Messages, media : [Messages -> {"none", "stored", "deleted"}],
           transcript : [Messages -> Statuses], text : SUBSET Messages, allow : BOOLEAN]

WorkerType == [step : {"idle", "begun", "bytes", "groq", "answer"},
               message : Messages \cup {"none"}, allow : BOOLEAN]
SweepType == [step : {"idle", "bytes"}, allow : BOOLEAN, messages : SUBSET Messages]

(* The values the variables take; only a completed transcript has a text.  *)
TypeOK ==
    /\ store \in Stores /\ snapshot \in Stores
    /\ \A m \in store.text : store.transcript[m] = "completed"
    /\ \A m \in snapshot.text : snapshot.transcript[m] = "completed"
    /\ kind \in [Messages -> {"audio", "oversize", "other"}]
    /\ fresh \in [Messages -> Nat] /\ queue \in [Messages -> Nat]
    /\ worker \in WorkerType
    /\ worker.step # "idle" => worker.message \in Messages
    /\ worker.step = "idle" => worker = Idle
    /\ sweep \in SweepType
    /\ requests \in 0..MaxRequests /\ ops \in 0..MaxOps /\ faults \in 0..MaxFaults

(* A transcript that waits for an outcome has a request on its way or in   *)
(* progress, whatever was repeated, removed or lost in a crash, so that    *)
(* POST .../transcribe may return it instead of requesting it again.  The  *)
(* exceptions are in `stranded': its media was removed before the worker   *)
(* came to it, or a crash took back the outcome of a finished delivery.    *)
OpenHasDelivery ==
    \A m \in Messages \ stranded : store.transcript[m] \in Open =>
        fresh[m] + queue[m] > 0 \/ Working(m)

(* Retention takes the transcript with its message: none stays behind or   *)
(* comes back, unless the message was removed while it was transcribed.    *)
NoOrphanTranscript ==
    \A m \in Messages \ raced : store.transcript[m] # "none" => m \in store.message

(* docs/task-checks/13-privacy-retention.md:29, "Respeitar                 *)
(* allow_transcript_storage": no text is stored while the policy denies    *)
(* it, in memory or in the snapshot, across policy changes and crashes.    *)
DeniedTextIsNotStored ==
    /\ ~store.allow => store.text = {}
    /\ ~snapshot.allow => snapshot.text = {}

(* A completed transcript keeps its outcome until retention removes it:    *)
(* requests, redeliveries and late failures do not touch it.  A crash may  *)
(* take it back, and a second delivery of the raw inbound event does.      *)
CompletedIsKept ==
    [][\A m \in Messages \ repeated' :
          (store.transcript[m] = "completed" /\ store'.transcript[m] # "completed")
             => (store'.transcript[m] = "none" \/ store' = snapshot)]_vars

(* docs/task-checks/02-groq-stt.md:37, a failure "vira transcript failed   *)
(* sem derrubar worker": every requested transcript gets an outcome, or    *)
(* its message, media or transcript is removed, or it is stranded.         *)
RequestedIsSettled ==
    \A m \in Messages : store.transcript[m] \in Open
        ~> (store.transcript[m] \notin Open \/ m \in stranded)
=============================================================================
