------------------------ MODULE TranscriptionProofs -------------------------
(***************************************************************************)
(* Proofs about Transcription, for every set of messages and every number  *)
(* of requests, removals, failures, repeated deliveries and crashes.       *)
(*                                                                         *)
(* The worker holds a message over two calls that wait for the network,    *)
(* and the properties depend on what stays true of that message and of the *)
(* policy read for it while others change the store.                       *)
(***************************************************************************)
EXTENDS Transcription, TLAPS

(* The message in the worker's hands has no finished transcript, and is    *)
(* there or was removed under it; the policy read for it still holds.      *)
InHand ==
    worker.step # "idle" =>
        /\ store.transcript[worker.message] # "completed"
        /\ worker.message \in store.message \cup raced
        /\ worker.allow => store.allow

IInv ==
    /\ TypeOK
    /\ InHand
    /\ OpenHasDelivery
    /\ NoOrphanTranscript
    /\ DeniedTextIsNotStored
-----------------------------------------------------------------------------
LEMMA IdleType ==
    /\ Idle \in WorkerType /\ Idle.step = "idle" /\ ~Idle.allow
    /\ NoSweep \in SweepType
  BY DEF Idle, WorkerType, NoSweep, SweepType

LEMMA Lifecycle ==
    ASSUME store \in Stores, NEW m \in Messages, NEW st \in Statuses
    PROVE  /\ SetLifecycle(m, st) \in Stores
           /\ SetLifecycle(m, st).message = store.message
           /\ SetLifecycle(m, st).media = store.media
           /\ SetLifecycle(m, st).transcript = [store.transcript EXCEPT ![m] = st]
           /\ SetLifecycle(m, st).text = store.text \ {m}
           /\ SetLifecycle(m, st).allow = store.allow
  BY DEF Stores, SetLifecycle

(* The store in parts.                                                     *)
LEMMA Parts ==
    ASSUME store \in Stores
    PROVE  /\ store.message \subseteq Messages
           /\ store.media \in [Messages -> {"none", "stored", "deleted"}]
           /\ store.transcript \in [Messages -> Statuses]
           /\ store.text \subseteq Messages
           /\ store.allow \in BOOLEAN
  BY DEF Stores

(* The delivery ends with a failed transcript.                             *)
LEMMA FailIInv ==
    ASSUME IInv, worker.step # "idle", Fail, faults' \in 0..MaxFaults,
           UNCHANGED <<snapshot, kind, fresh, queue, sweep, requests, ops, raced, stranded>>
    PROVE  IInv'
<1> TypeOK
  BY DEF IInv
<1>1. /\ worker.message \in Messages /\ "failed" \in Statuses
      /\ store' = SetLifecycle(worker.message, "failed") /\ worker' = Idle
  BY DEF Fail, TypeOK, Statuses
<1>2. /\ store' \in Stores /\ store'.message = store.message /\ store'.allow = store.allow
      /\ store'.transcript = [store.transcript EXCEPT ![worker.message] = "failed"]
      /\ store'.text = store.text \ {worker.message}
  BY <1>1, Lifecycle DEF TypeOK
<1>3. \A k \in store'.text : store'.transcript[k] = "completed"
  BY <1>1, <1>2, Parts DEF TypeOK
<1>4. TypeOK' /\ InHand'
  BY <1>1, <1>2, <1>3, IdleType DEF TypeOK, InHand
<1>5. OpenHasDelivery'
  BY <1>1, <1>2, Parts DEF IInv, TypeOK, OpenHasDelivery, Working, Open
<1>6. NoOrphanTranscript'
  BY <1>1, <1>2, Parts DEF IInv, TypeOK, InHand, NoOrphanTranscript
<1>7. DeniedTextIsNotStored'
  BY <1>2 DEF IInv, DeniedTextIsNotStored
<1> QED
  BY <1>4, <1>5, <1>6, <1>7 DEF IInv

-----------------------------------------------------------------------------
LEMMA NextIInv == IInv /\ [Next]_vars => IInv'
<1> SUFFICES ASSUME IInv, [Next]_vars PROVE IInv'
  OBVIOUS
<1> TypeOK
  BY DEF IInv
<1>1. ASSUME NEW m \in Messages, ReceiveAudio(m) PROVE IInv'
  <2>1. /\ store' \in Stores /\ store'.message = store.message \cup {m}
        /\ store'.allow = store.allow
        /\ store'.transcript = [store.transcript EXCEPT ![m] = "pending"]
        /\ store'.text = store.text \ {m}
    <3>1. "pending" \in Statuses
      BY DEF Statuses
    <3> DEFINE new == SetLifecycle(m, "pending")
    <3>2. /\ new \in Stores /\ new.message = store.message /\ new.allow = store.allow
          /\ new.transcript = [store.transcript EXCEPT ![m] = "pending"]
          /\ new.text = store.text \ {m}
      BY <3>1, Lifecycle DEF TypeOK
    <3>3. store' = [new EXCEPT !.message = @ \cup {m}, !.media[m] = "stored"]
      BY <1>1 DEF ReceiveAudio
    <3> HIDE DEF new
    <3> QED
      BY <3>2, <3>3 DEF Stores
  <2>2. \A k \in store'.text : store'.transcript[k] = "completed"
    BY <2>1, Parts DEF TypeOK
  <2>3. fresh' \in [Messages -> Nat] /\ requests' \in 0..MaxRequests /\ faults' \in 0..MaxFaults
    BY <1>1, TranscriptionAssumption DEF ReceiveAudio, Request, Fault, TypeOK
  <2>4. TypeOK'
    BY <1>1, <2>1, <2>2, <2>3 DEF ReceiveAudio, TypeOK
  <2>5. InHand'
    BY <1>1, <2>1, Parts DEF ReceiveAudio, history, IInv, TypeOK, InHand
  <2>6. OpenHasDelivery'
    BY <1>1, <2>1, Parts DEF ReceiveAudio, Request, history, IInv, TypeOK, OpenHasDelivery,
       Working, Open
  <2>7. NoOrphanTranscript'
    BY <1>1, <2>1, Parts DEF ReceiveAudio, history, IInv, TypeOK, InHand, NoOrphanTranscript,
       Working
  <2>8. DeniedTextIsNotStored'
    BY <1>1, <2>1, Parts DEF ReceiveAudio, IInv, TypeOK, InHand, DeniedTextIsNotStored
  <2> QED
    BY <2>4, <2>5, <2>6, <2>7, <2>8 DEF IInv
<1>2. ASSUME NEW m \in Messages, RequestTranscript(m) PROVE IInv'
  <2>1. /\ store' \in Stores /\ store'.message = store.message /\ store'.allow = store.allow
        /\ store'.transcript = [store.transcript EXCEPT ![m] = "pending"]
        /\ store'.text = store.text \ {m}
    <3>1. "pending" \in Statuses
      BY DEF Statuses
    <3> QED
      BY <1>2, <3>1, Lifecycle DEF RequestTranscript, TypeOK
  <2>2. \A k \in store'.text : store'.transcript[k] = "completed"
    BY <2>1, Parts DEF TypeOK
  <2>3. fresh' \in [Messages -> Nat] /\ requests' \in 0..MaxRequests /\ faults' \in 0..MaxFaults
    BY <1>2, TranscriptionAssumption DEF RequestTranscript, Request, Fault, TypeOK
  <2>4. TypeOK'
    BY <1>2, <2>1, <2>2, <2>3 DEF RequestTranscript, TypeOK
  <2>5. InHand'
    BY <1>2, <2>1, Parts DEF RequestTranscript, history, IInv, TypeOK, InHand
  <2>6. OpenHasDelivery'
    BY <1>2, <2>1, Parts DEF RequestTranscript, Request, history, IInv, TypeOK, OpenHasDelivery,
       Working, Open
  <2>7. NoOrphanTranscript'
    BY <1>2, <2>1, Parts DEF RequestTranscript, history, IInv, TypeOK, InHand,
       NoOrphanTranscript, Working
  <2>8. DeniedTextIsNotStored'
    BY <1>2, <2>1, Parts DEF RequestTranscript, IInv, TypeOK, InHand, DeniedTextIsNotStored
  <2> QED
    BY <2>4, <2>5, <2>6, <2>7, <2>8 DEF IInv
<1>3. ASSUME NEW m \in Messages, Begin(m) PROVE IInv'
  <2>1. queue' \in [Messages -> Nat]
    BY <1>3 DEF Begin, TypeOK
  <2>2. \/ worker' = Idle
        \/ /\ worker' \in WorkerType /\ worker'.step = "begun" /\ worker'.message = m
           /\ ~worker'.allow /\ m \in store.message /\ store.transcript[m] # "completed"
    BY <1>3, IdleType DEF Begin, WorkerType
  <2>3. TypeOK'
    BY <1>3, <2>1, <2>2, IdleType DEF Begin, TypeOK, counters
  <2>4. InHand'
    BY <1>3, <2>2, IdleType DEF Begin, InHand
  <2>5. OpenHasDelivery'
    BY <1>3, <2>2, Parts DEF Begin, history, IInv, TypeOK, OpenHasDelivery, Working, Open
  <2>6. NoOrphanTranscript'
    BY <1>3, <2>2, Parts DEF Begin, history, IInv, TypeOK, InHand, NoOrphanTranscript, Working
  <2>7. DeniedTextIsNotStored'
    BY <1>3, <2>2, Parts DEF Begin, IInv, TypeOK, InHand, DeniedTextIsNotStored
  <2> QED
    BY <2>3, <2>4, <2>5, <2>6, <2>7 DEF IInv
<1>4. ASSUME NEW m \in Messages, DeleteMedia(m) PROVE IInv'
  <2>1. store' \in Stores /\ UNCHANGED <<store.message, store.allow, store.transcript, store.text>>
    BY <1>4 DEF DeleteMedia, TypeOK, Stores
  <2>2. TypeOK'
    BY <1>4, <2>1, TranscriptionAssumption DEF DeleteMedia, Operation, TypeOK
  <2>3. InHand'
    BY <1>4, <2>1, Parts DEF DeleteMedia, history, IInv, TypeOK, InHand
  <2>4. OpenHasDelivery'
    BY <1>4, <2>1, Parts DEF DeleteMedia, history, IInv, TypeOK, OpenHasDelivery, Working, Open
  <2>5. NoOrphanTranscript'
    BY <1>4, <2>1, Parts DEF DeleteMedia, history, IInv, TypeOK, InHand, NoOrphanTranscript, Working
  <2>6. DeniedTextIsNotStored'
    BY <1>4, <2>1, Parts DEF DeleteMedia, IInv, TypeOK, InHand, DeniedTextIsNotStored
  <2> QED
    BY <2>2, <2>3, <2>4, <2>5, <2>6 DEF IInv
<1>5. ASSUME NEW m \in Messages, ExpireMedia(m) PROVE IInv'
  <2>1. store' \in Stores /\ UNCHANGED <<store.message, store.allow, store.transcript, store.text>>
    BY <1>5 DEF ExpireMedia, TypeOK, Stores
  <2>2. TypeOK'
    BY <1>5, <2>1, TranscriptionAssumption DEF ExpireMedia, Operation, TypeOK
  <2>3. InHand'
    BY <1>5, <2>1, Parts DEF ExpireMedia, history, IInv, TypeOK, InHand
  <2>4. OpenHasDelivery'
    BY <1>5, <2>1, Parts DEF ExpireMedia, history, IInv, TypeOK, OpenHasDelivery, Working, Open
  <2>5. NoOrphanTranscript'
    BY <1>5, <2>1, Parts DEF ExpireMedia, history, IInv, TypeOK, InHand, NoOrphanTranscript, Working
  <2>6. DeniedTextIsNotStored'
    BY <1>5, <2>1, Parts DEF ExpireMedia, IInv, TypeOK, InHand, DeniedTextIsNotStored
  <2> QED
    BY <2>2, <2>3, <2>4, <2>5, <2>6 DEF IInv
<1>6. ASSUME NEW m \in Messages, Redeliver(m) PROVE IInv'
  <2>1. queue' \in [Messages -> Nat] /\ faults' \in 0..MaxFaults
    BY <1>6, TranscriptionAssumption DEF Redeliver, Fault, TypeOK
  <2>2. TypeOK'
    BY <1>6, <2>1 DEF Redeliver, TypeOK
  <2>3. InHand'
    BY <1>6, Parts DEF Redeliver, history, IInv, TypeOK, InHand
  <2>4. OpenHasDelivery'
    BY <1>6, Parts DEF Redeliver, history, IInv, TypeOK, OpenHasDelivery, Working, Open
  <2>5. NoOrphanTranscript'
    BY <1>6, Parts DEF Redeliver, history, IInv, TypeOK, InHand, NoOrphanTranscript, Working
  <2>6. DeniedTextIsNotStored'
    BY <1>6, Parts DEF Redeliver, IInv, TypeOK, InHand, DeniedTextIsNotStored
  <2> QED
    BY <2>2, <2>3, <2>4, <2>5, <2>6 DEF IInv
<1>7. CASE Mark
  <2>1. PICK st \in {"processing", "skipped_unsupported_type", "skipped_size_limit"} :
           /\ store' = SetLifecycle(worker.message, st)
           /\ \/ st = "processing" /\ worker' = [worker EXCEPT !.step = "bytes"]
              \/ st # "processing" /\ worker' = Idle
    BY <1>7 DEF Mark
  <2>2. worker.message \in Messages /\ worker.step # "idle" /\ st \in Statuses
    BY <1>7 DEF Mark, TypeOK, Statuses
  <2>3. /\ store' \in Stores /\ store'.message = store.message /\ store'.allow = store.allow
        /\ store'.transcript = [store.transcript EXCEPT ![worker.message] = st]
        /\ store'.text = store.text \ {worker.message}
    BY <2>1, <2>2, Lifecycle DEF TypeOK
  <2>4. worker' \in WorkerType /\ (worker'.step # "idle" => worker'.message \in Messages)
    BY <2>1, <2>2, IdleType DEF TypeOK, WorkerType
  <2>5. worker'.step = "idle" => worker' = Idle
    BY <2>1 DEF TypeOK, WorkerType
  <2>6. \A k \in store'.text : store'.transcript[k] = "completed"
    BY <2>2, <2>3, Parts DEF TypeOK
  <2>7. TypeOK'
    BY <1>7, <2>3, <2>4, <2>5, <2>6 DEF Mark, TypeOK, counters
  <2>8. InHand'
    <3>1. CASE worker' = Idle
      BY <3>1, IdleType DEF InHand
    <3>2. CASE st = "processing" /\ worker' = [worker EXCEPT !.step = "bytes"]
      <4>1. worker'.message = worker.message /\ worker'.allow = worker.allow
        BY <3>2 DEF TypeOK, WorkerType
      <4>2. store'.transcript[worker.message] = "processing" /\ raced' = raced
        BY <1>7, <2>2, <2>3, <3>2, Parts DEF Mark, history, TypeOK
      <4> QED
        BY <2>2, <2>3, <4>1, <4>2 DEF IInv, InHand
    <3> QED
      BY <2>1, <3>1, <3>2
  <2>9. OpenHasDelivery'
    <3> SUFFICES ASSUME NEW m \in Messages \ stranded, store'.transcript[m] \in Open
                 PROVE  fresh[m] + queue[m] > 0 \/ Working(m)'
      BY <1>7 DEF Mark, history, OpenHasDelivery
    <3>1. CASE m = worker.message
      <4>1. store'.transcript[m] = st
        BY <2>2, <2>3, <3>1, Parts DEF TypeOK
      <4>2. worker'.message = m /\ worker'.step = "bytes"
        BY <2>1, <3>1, <4>1 DEF Open, TypeOK, WorkerType
      <4> QED
        BY <4>2, IdleType DEF Working
    <3>2. CASE m # worker.message
      <4>1. store.transcript[m] \in Open /\ ~Working(m)
        BY <2>2, <2>3, <3>2, Parts DEF TypeOK, Working
      <4> QED
        BY <4>1 DEF IInv, OpenHasDelivery
    <3> QED
      BY <3>1, <3>2
  <2>10. NoOrphanTranscript'
    BY <1>7, <2>1, <2>2, <2>3, Parts DEF Mark, history, IInv, TypeOK, InHand, NoOrphanTranscript,
       Working
  <2>11. DeniedTextIsNotStored'
    BY <1>7, <2>1, <2>2, <2>3, Parts DEF Mark, IInv, TypeOK, InHand, DeniedTextIsNotStored
  <2> QED
    BY <2>7, <2>8, <2>9, <2>10, <2>11 DEF IInv
<1>8. CASE FetchBytes
  <2>1. worker.message \in Messages /\ worker.step # "idle" /\ "failed" \in Statuses
    BY <1>8 DEF FetchBytes, TypeOK, Statuses
  <2>2. /\ faults' \in 0..MaxFaults
        /\ UNCHANGED <<snapshot, kind, fresh, queue, sweep, requests, ops, raced, stranded>>
    BY <1>8, TranscriptionAssumption DEF FetchBytes, Fault, TypeOK, history
  <2>3. CASE store' = store /\ worker' = [worker EXCEPT !.step = "groq"]
    <3>1. /\ worker' \in WorkerType /\ worker'.step = "groq"
          /\ worker'.message = worker.message /\ worker'.allow = worker.allow
      BY <2>3 DEF TypeOK, WorkerType
    <3>2. TypeOK'
      BY <2>1, <2>2, <2>3, <3>1 DEF TypeOK
    <3>3. InHand'
      BY <2>1, <2>2, <2>3, <3>1 DEF IInv, InHand
    <3>4. \A m \in Messages : Working(m) => Working(m)'
      BY <3>1, IdleType DEF Working
    <3>5. OpenHasDelivery'
      BY <2>2, <2>3, <3>4 DEF IInv, OpenHasDelivery
    <3>6. NoOrphanTranscript' /\ DeniedTextIsNotStored'
      BY <2>2, <2>3 DEF IInv, NoOrphanTranscript, DeniedTextIsNotStored
    <3> QED
      BY <3>2, <3>3, <3>5, <3>6 DEF IInv
  <2>4. CASE Fail
    BY <2>1, <2>2, <2>4, FailIInv
  <2> QED
    BY <1>8, <2>3, <2>4 DEF FetchBytes
<1>9. CASE GroqAnswers
  <2>1. /\ worker' \in WorkerType /\ worker'.step = "answer" /\ worker'.message = worker.message
        /\ worker.message \in Messages
    BY <1>9, Parts DEF GroqAnswers, TypeOK, WorkerType
  <2>2. TypeOK'
    BY <1>9, <2>1 DEF GroqAnswers, TypeOK, counters
  <2>3. InHand'
    BY <1>9, <2>1, Parts DEF GroqAnswers, history, IInv, TypeOK, InHand
  <2>4. OpenHasDelivery'
    <3>1. \A m \in Messages : Working(m) => Working(m)'
      BY <2>1, IdleType DEF Working
    <3> QED
      BY <1>9, <3>1 DEF GroqAnswers, history, IInv, OpenHasDelivery
  <2>5. NoOrphanTranscript'
    BY <1>9, <2>1, Parts DEF GroqAnswers, history, IInv, TypeOK, InHand, NoOrphanTranscript, Working
  <2>6. DeniedTextIsNotStored'
    BY <1>9, <2>1, Parts DEF GroqAnswers, IInv, TypeOK, InHand, DeniedTextIsNotStored
  <2> QED
    BY <2>2, <2>3, <2>4, <2>5, <2>6 DEF IInv
<1>10. CASE Complete
  <2> DEFINE new == SetLifecycle(worker.message, "completed")
  <2>1. /\ worker.message \in Messages /\ worker.step = "answer" /\ "completed" \in Statuses
        /\ worker' = Idle
        /\ store' = [new EXCEPT !.text = IF worker.allow THEN @ \cup {worker.message} ELSE @]
    BY <1>10 DEF Complete, TypeOK, Statuses
  <2>2. /\ new \in Stores /\ new.message = store.message /\ new.allow = store.allow
        /\ new.transcript = [store.transcript EXCEPT ![worker.message] = "completed"]
        /\ new.text = store.text \ {worker.message}
    BY <2>1, Lifecycle DEF TypeOK
  <2> HIDE DEF new
  <2>3. /\ store' \in Stores /\ store'.message = store.message /\ store'.allow = store.allow
        /\ store'.transcript = [store.transcript EXCEPT ![worker.message] = "completed"]
        /\ store'.text \subseteq store.text \cup {worker.message}
        /\ ~worker.allow => store'.text \subseteq store.text
    BY <2>1, <2>2 DEF Stores
  <2>4. \A k \in store'.text : store'.transcript[k] = "completed"
    BY <2>1, <2>3, Parts DEF TypeOK
  <2>5. TypeOK'
    BY <1>10, <2>1, <2>3, <2>4, IdleType DEF Complete, TypeOK, counters
  <2>6. InHand'
    BY <2>1, IdleType DEF InHand
  <2>7. OpenHasDelivery'
    BY <1>10, <2>1, <2>3, Parts DEF Complete, history, IInv, TypeOK, OpenHasDelivery, Working, Open
  <2>8. NoOrphanTranscript'
    BY <1>10, <2>1, <2>3, Parts DEF Complete, history, IInv, TypeOK, InHand, NoOrphanTranscript,
       Working
  <2>9. DeniedTextIsNotStored'
    BY <1>10, <2>1, <2>3, Parts DEF Complete, IInv, TypeOK, InHand, DeniedTextIsNotStored
  <2> QED
    BY <2>5, <2>6, <2>7, <2>8, <2>9 DEF IInv
<1>11. CASE GroqFails
  BY <1>11, TranscriptionAssumption, FailIInv DEF GroqFails, Fault, TypeOK, history
<1>12. CASE UpsertCompany
  <2>1. /\ store' \in Stores /\ UNCHANGED <<store.message, store.transcript, store.text>>
        /\ store'.allow
    BY <1>12 DEF UpsertCompany, TypeOK, Stores
  <2>2. TypeOK'
    BY <1>12, <2>1, TranscriptionAssumption DEF UpsertCompany, Operation, TypeOK
  <2>3. InHand'
    BY <1>12, <2>1, Parts DEF UpsertCompany, history, IInv, TypeOK, InHand
  <2>4. OpenHasDelivery'
    BY <1>12, <2>1, Parts DEF UpsertCompany, history, IInv, TypeOK, OpenHasDelivery, Working, Open
  <2>5. NoOrphanTranscript'
    BY <1>12, <2>1, Parts DEF UpsertCompany, history, IInv, TypeOK, InHand, NoOrphanTranscript,
       Working
  <2>6. DeniedTextIsNotStored'
    BY <1>12, <2>1, Parts DEF UpsertCompany, IInv, TypeOK, InHand, DeniedTextIsNotStored
  <2> QED
    BY <2>2, <2>3, <2>4, <2>5, <2>6 DEF IInv
<1>13. ASSUME NEW M \in SUBSET Messages, BeginRetention(M) PROVE IInv'
  <2>1. sweep' \in SweepType /\ ops' \in 0..MaxOps
    BY <1>13, Parts, TranscriptionAssumption DEF BeginRetention, TypeOK, SweepType, Operation
  <2>2. TypeOK'
    BY <1>13, <2>1 DEF BeginRetention, TypeOK
  <2>3. InHand'
    BY <1>13, Parts DEF BeginRetention, history, IInv, TypeOK, InHand
  <2>4. OpenHasDelivery'
    BY <1>13, Parts DEF BeginRetention, history, IInv, TypeOK, OpenHasDelivery, Working, Open
  <2>5. NoOrphanTranscript'
    BY <1>13, Parts DEF BeginRetention, history, IInv, TypeOK, InHand, NoOrphanTranscript, Working
  <2>6. DeniedTextIsNotStored'
    BY <1>13, Parts DEF BeginRetention, IInv, TypeOK, InHand, DeniedTextIsNotStored
  <2> QED
    BY <2>2, <2>3, <2>4, <2>5, <2>6 DEF IInv
<1>14. ASSUME NEW T \in SUBSET Messages, FinishRetention(T) PROVE IInv'
  <2> DEFINE gone == sweep.messages \cup T
  <2>1. /\ store' \in Stores /\ store'.message = store.message \ sweep.messages
        /\ store'.allow = store.allow
        /\ store'.transcript =
              [m \in Messages |-> IF m \in gone THEN "none" ELSE store.transcript[m]]
        /\ store'.text \subseteq store.text \ gone
    BY <1>14 DEF FinishRetention, TypeOK, Stores, Statuses, SweepType
  <2>2. \A k \in store'.text : store'.transcript[k] = "completed"
    BY <2>1, Parts DEF TypeOK
  <2>3. TypeOK'
    BY <1>14, <2>1, <2>2, IdleType DEF FinishRetention, TypeOK, counters
  <2>4. InHand'
    <3> SUFFICES ASSUME worker.step # "idle"
                 PROVE  /\ store'.transcript[worker.message] # "completed"
                        /\ worker.message \in store'.message \cup raced'
                        /\ worker.allow => store'.allow
      BY <1>14 DEF FinishRetention, InHand
    <3>1. worker.message \in Messages /\ Working(worker.message)
      BY IdleType DEF TypeOK, Working
    <3>2. worker.message \in store'.message \cup raced'
      BY <1>14, <2>1, <3>1 DEF FinishRetention, IInv, InHand
    <3> QED
      BY <2>1, <3>1, <3>2, Parts DEF IInv, InHand
  <2>5. OpenHasDelivery'
    BY <1>14, <2>1, Parts DEF FinishRetention, history, IInv, TypeOK, OpenHasDelivery, Working, Open
  <2>6. NoOrphanTranscript'
    BY <1>14, <2>1, Parts DEF FinishRetention, history, IInv, TypeOK, InHand, NoOrphanTranscript,
       Working
  <2>7. DeniedTextIsNotStored'
    BY <1>14, <2>1, Parts DEF FinishRetention, IInv, TypeOK, InHand, DeniedTextIsNotStored
  <2> QED
    BY <2>3, <2>4, <2>5, <2>6, <2>7 DEF IInv
<1>15. CASE Persist
  <2>1. queue' \in [Messages -> Nat] /\ fresh' \in [Messages -> Nat]
    BY <1>15 DEF Persist, TypeOK
  <2>2. TypeOK'
    BY <1>15, <2>1 DEF Persist, TypeOK, counters
  <2>3. InHand'
    BY <1>15, Parts DEF Persist, history, IInv, TypeOK, InHand
  <2>4. OpenHasDelivery'
    BY <1>15, Parts DEF Persist, history, IInv, TypeOK, OpenHasDelivery, Working, Open
  <2>5. NoOrphanTranscript'
    BY <1>15, Parts DEF Persist, history, IInv, TypeOK, InHand, NoOrphanTranscript, Working
  <2>6. DeniedTextIsNotStored'
    BY <1>15, Parts DEF Persist, IInv, TypeOK, InHand, DeniedTextIsNotStored
  <2> QED
    BY <2>2, <2>3, <2>4, <2>5, <2>6 DEF IInv
<1>16. CASE Crash
  <2>1. store' = snapshot /\ snapshot' = snapshot /\ worker' = Idle /\ Idle.step = "idle"
    BY <1>16, IdleType DEF Crash
  <2>2. /\ queue' \in [Messages -> Nat] /\ fresh' \in [Messages -> Nat]
        /\ faults' \in 0..MaxFaults
    BY <1>16, TranscriptionAssumption DEF Crash, Fault, TypeOK
  <2>3. TypeOK'
    BY <1>16, <2>1, <2>2, IdleType DEF Crash, TypeOK
  <2>4. InHand'
    BY <1>16, <2>1, Parts DEF Crash, history, IInv, TypeOK, InHand
  <2>5. OpenHasDelivery'
    BY <1>16, <2>1, Parts DEF Crash, history, IInv, TypeOK, OpenHasDelivery, Working, Open
  <2>6. NoOrphanTranscript'
    BY <1>16, <2>1, Parts DEF Crash, history, IInv, TypeOK, InHand, NoOrphanTranscript, Working
  <2>7. DeniedTextIsNotStored'
    BY <1>16, <2>1, Parts DEF Crash, IInv, TypeOK, InHand, DeniedTextIsNotStored
  <2> QED
    BY <2>3, <2>4, <2>5, <2>6, <2>7 DEF IInv
<1>17. CASE UNCHANGED vars
  BY <1>17 DEF vars, IInv, TypeOK, InHand, OpenHasDelivery, NoOrphanTranscript,
               DeniedTextIsNotStored, Working
<1> QED
  BY <1>1, <1>2, <1>3, <1>4, <1>5, <1>6, <1>7, <1>8, <1>9, <1>10, <1>11, <1>12,
     <1>13, <1>14, <1>15, <1>16, <1>17
     DEF Next, Work

LEMMA InitIInv == Init => IInv
<1> SUFFICES ASSUME Init PROVE IInv
  OBVIOUS
<1>1. /\ store.message = {} /\ store.text = {} /\ store.transcript = [m \in Messages |-> "none"]
      /\ store.media = [m \in Messages |-> "none"] /\ store.allow \in BOOLEAN
      /\ snapshot = store
  BY DEF Init
<1>2. store \in Stores
  BY DEF Init, Stores, Statuses
<1>3. TypeOK
  BY <1>1, <1>2, IdleType, TranscriptionAssumption DEF Init, TypeOK
<1>4. InHand
  BY IdleType DEF Init, InHand
<1>5. OpenHasDelivery /\ NoOrphanTranscript /\ DeniedTextIsNotStored
  BY <1>1 DEF OpenHasDelivery, NoOrphanTranscript, DeniedTextIsNotStored, Open
<1> QED
  BY <1>3, <1>4, <1>5 DEF IInv

LEMMA Invariance == Spec => []IInv
  BY InitIInv, NextIInv, PTL DEF Spec

-----------------------------------------------------------------------------
(* A request that POST .../transcribe may decline to repeat is on its way: *)
(* between record_inbound_media_object, the snapshot, the bus, the worker, *)
(* retention and a crash no pending transcript is left without a delivery, *)
(* but for the ones `stranded' names.                                      *)
THEOREM OpenTranscriptsHaveADelivery == Spec => []OpenHasDelivery
<1>1. IInv => OpenHasDelivery
  BY DEF IInv
<1> QED
  BY <1>1, Invariance, PTL

(* apply_company_retention leaves no transcript without its message, and   *)
(* neither a late answer of Groq nor a restart brings one back, unless the *)
(* message was removed while the worker had it.                            *)
THEOREM NoTranscriptIsOrphaned == Spec => []NoOrphanTranscript
<1>1. IInv => NoOrphanTranscript
  BY DEF IInv
<1> QED
  BY <1>1, Invariance, PTL

(* No text of a transcript is in memory or in the snapshot while the       *)
(* policy denies it, although process_transcription_request reads the      *)
(* policy before it locks the store to write the text.                     *)
THEOREM DeniedTextIsNeverStored == Spec => []DeniedTextIsNotStored
<1>1. IInv => DeniedTextIsNotStored
  BY DEF IInv
<1> QED
  BY <1>1, Invariance, PTL

(* set_transcript_lifecycle checks nothing, and yet no step turns a        *)
(* completed transcript into another outcome: the worker only ever holds a *)
(* message whose transcript is not completed.                              *)
THEOREM CompletedTranscriptsAreKept == Spec => CompletedIsKept
<1> DEFINE Kept == \A m \in Messages \ repeated' :
                (store.transcript[m] = "completed" /\ store'.transcript[m] # "completed")
                    => (store'.transcript[m] = "none" \/ store' = snapshot)
<1>1. IInv /\ [Next]_vars => [Kept]_vars
  <2> SUFFICES ASSUME IInv, Next, NEW m \in Messages \ repeated',
                      store.transcript[m] = "completed", store'.transcript[m] # "completed"
               PROVE  store'.transcript[m] = "none" \/ store' = snapshot
    OBVIOUS
  <2>0. TypeOK
    BY DEF IInv
  <2>1. store.transcript \in [Messages -> Statuses] /\ store' # store
    BY <2>0, Parts DEF TypeOK
  <2>2. ASSUME NEW k \in Messages, NEW st \in Statuses, store' = SetLifecycle(k, st),
               store.transcript[k] # "completed"
        PROVE  FALSE
    <3>1. store'.transcript = [store.transcript EXCEPT ![k] = st]
      BY <2>0, <2>2, Lifecycle DEF TypeOK
    <3> QED
      BY <2>1, <2>2, <3>1
  <2>3. worker.step # "idle" =>
          worker.message \in Messages /\ store.transcript[worker.message] # "completed"
    BY <2>0 DEF IInv, InHand, TypeOK
  <2>4. ASSUME NEW k \in Messages, ReceiveAudio(k) PROVE FALSE
    <3>1. k # m
      BY <2>4 DEF ReceiveAudio
    <3> DEFINE new == SetLifecycle(k, "pending")
    <3>2. new \in Stores /\ new.transcript = [store.transcript EXCEPT ![k] = "pending"]
      <4>1. "pending" \in Statuses
        BY DEF Statuses
      <4> QED
        BY <2>0, <4>1, Lifecycle DEF TypeOK
    <3>3. store' = [new EXCEPT !.message = @ \cup {k}, !.media[k] = "stored"]
      BY <2>4 DEF ReceiveAudio
    <3> HIDE DEF new
    <3>4. store'.transcript = new.transcript
      BY <3>2, <3>3 DEF Stores
    <3> QED
      BY <2>1, <3>1, <3>2, <3>4
  <2>5. ASSUME NEW k \in Messages, RequestTranscript(k) PROVE FALSE
    BY <2>2, <2>5 DEF RequestTranscript, Statuses
  <2>6. ASSUME NEW k \in Messages,
               Begin(k) \/ DeleteMedia(k) \/ ExpireMedia(k) \/ Redeliver(k)
        PROVE  FALSE
    BY <2>0, <2>1, <2>6 DEF Begin, DeleteMedia, ExpireMedia, Redeliver, TypeOK, Stores
  <2>7. CASE Mark
    BY <2>2, <2>3, <2>7 DEF Mark, Statuses
  <2>8. CASE FetchBytes \/ GroqFails
    BY <2>1, <2>2, <2>3, <2>8 DEF FetchBytes, GroqFails, Fail, Statuses
  <2>9. CASE Complete
    <3> DEFINE new == SetLifecycle(worker.message, "completed")
    <3>1. worker.message \in Messages /\ "completed" \in Statuses
          /\ store' = [new EXCEPT !.text = IF worker.allow THEN @ \cup {worker.message} ELSE @]
      BY <2>3, <2>9 DEF Complete, Statuses
    <3>2. new \in Stores
          /\ new.transcript = [store.transcript EXCEPT ![worker.message] = "completed"]
      BY <2>0, <3>1, Lifecycle DEF TypeOK
    <3> HIDE DEF new
    <3>3. store'.transcript = new.transcript
      BY <3>1, <3>2 DEF Stores
    <3> QED
      BY <2>1, <3>2, <3>3
  <2>10. CASE GroqAnswers \/ UpsertCompany \/ Persist
    BY <2>0, <2>1, <2>10 DEF GroqAnswers, UpsertCompany, Persist, TypeOK, Stores
  <2>11. ASSUME NEW M \in SUBSET Messages, BeginRetention(M) PROVE FALSE
    BY <2>1, <2>11 DEF BeginRetention
  <2>12. ASSUME NEW T \in SUBSET Messages, FinishRetention(T)
         PROVE  store'.transcript[m] = "none"
    <3>1. store'.transcript = [k \in Messages |-> IF k \in sweep.messages \cup T THEN "none"
                                                   ELSE store.transcript[k]]
      BY <2>0, <2>12 DEF FinishRetention, TypeOK, Stores
    <3> QED
      BY <3>1
  <2>13. CASE Crash
    BY <2>13 DEF Crash
  <2> QED
    BY <2>4, <2>5, <2>6, <2>7, <2>8, <2>9, <2>10, <2>11, <2>12, <2>13 DEF Next, Work
<1> QED
  BY <1>1, Invariance, PTL DEF Spec, CompletedIsKept

=============================================================================
