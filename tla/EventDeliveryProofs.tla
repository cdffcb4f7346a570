------------------------ MODULE EventDeliveryProofs -------------------------
(***************************************************************************)
(* Proofs about the two ways an event leaves the process without Kafka:    *)
(* EventStream, for every number of sessions, slots, events and crashes,   *)
(* and, in the second half, WebhookDelivery, for every finite set of       *)
(* callbacks, any master keys, retry limit, events and disturbances.       *)
(*                                                                         *)
(* NoSilentGap is not inductive: an event between the two halves of        *)
(* push_event is not stored yet, so nothing is said of it until it is, and *)
(* a session that has not subscribed must already have kept its place in   *)
(* the channel.  Gapless says both.                                        *)
(***************************************************************************)
EXTENDS EventStream, WebhookDelivery, FiniteSetTheorems, TLAPS

SessionType ==
    [state : {"closed", "connected", "subscribed"}, pos : Nat \ {0},
     seen : SUBSET Events, told : SUBSET Events, before : SUBSET Events, missed : SUBSET Events]

StreamType ==
    /\ kind \in [Events -> Kinds]
    /\ sent \in Seq(Events) /\ events \in Seq(Events) /\ saved \in Seq(Events)
    /\ inflight \subseteq Events
    /\ session \in [Sessions -> SessionType]
    /\ \A s \in Sessions : session[s].pos <= Len(sent) + 1

InChannel(s, e) == \E i \in session[s].pos..Len(sent) : sent[i] = e
Told(s, e) == e \in session[s].seen \cup session[s].told \cup session[s].missed

(* A connected session has every event that is not stored yet ahead of it, *)
(* but for those sent before it connected; a subscribed one has got, has   *)
(* been told of, or has ahead of it every event, stored or not.            *)
Gapless(s) ==
    /\ session[s].state = "connected" =>
          \A e \in inflight : Own(e) => e \in session[s].before \/ InChannel(s, e)
    /\ session[s].state = "subscribed" =>
          \A e \in ToSet(events) \cup inflight : Own(e) => Told(s, e) \/ InChannel(s, e)

IInv == StreamType /\ \A s \in Sessions : Gapless(s)
-----------------------------------------------------------------------------
LEMMA ToSetAppend ==
    ASSUME NEW S, NEW q \in Seq(S), NEW e \in S
    PROVE  /\ Append(q, e) \in Seq(S) /\ Len(Append(q, e)) = Len(q) + 1
           /\ ToSet(Append(q, e)) = ToSet(q) \cup {e}
           /\ Append(q, e)[Len(q) + 1] = e
           /\ \A i \in 1..Len(q) : Append(q, e)[i] = q[i]
<1>1. /\ Append(q, e) \in Seq(S) /\ Len(Append(q, e)) = Len(q) + 1
      /\ Append(q, e)[Len(q) + 1] = e
      /\ \A i \in 1..Len(q) : Append(q, e)[i] = q[i]
  OBVIOUS
<1>2. DOMAIN q = 1..Len(q) /\ DOMAIN Append(q, e) = 1..(Len(q) + 1) /\ Len(q) \in Nat
  OBVIOUS
<1>3. ToSet(Append(q, e)) = ToSet(q) \cup {e}
  <2>1. \A x \in ToSet(q) : x \in ToSet(Append(q, e))
    BY <1>1, <1>2 DEF ToSet
  <2>2. e \in ToSet(Append(q, e))
    BY <1>1, <1>2 DEF ToSet
  <2>3. ASSUME NEW x \in ToSet(Append(q, e)) PROVE x \in ToSet(q) \cup {e}
    <3>1. PICK i \in 1..(Len(q) + 1) : x = Append(q, e)[i]
      BY <1>2, <2>3 DEF ToSet
    <3>2. CASE i = Len(q) + 1
      BY <1>1, <3>1, <3>2
    <3>3. CASE i \in 1..Len(q)
      BY <1>1, <1>2, <3>1, <3>3 DEF ToSet
    <3> QED
      BY <1>2, <3>1, <3>2, <3>3
  <2> QED
    BY <2>1, <2>2, <2>3
<1> QED
  BY <1>1, <1>3

LEMMA Bounds ==
    ASSUME StreamType
    PROVE  /\ Len(sent) \in Nat /\ Oldest \in 1..(Len(sent) + 1)
           /\ Len(sent) > 0 => Oldest <= Len(sent)
  BY StreamAssumption DEF StreamType, Oldest

LEMMA ToSetType == StreamType => ToSet(events) \subseteq Events /\ ToSet(sent) \subseteq Events
  BY DEF StreamType, ToSet

LEMMA ClosedType == Closed \in SessionType /\ Closed.state = "closed" /\ Closed.pos = 1
  BY DEF Closed, SessionType

LEMMA SkippedType ==
    ASSUME StreamType, NEW p \in Nat \ {0}, p <= Len(sent) + 1
    PROVE  Skipped(p) \subseteq Events
<1> SUFFICES ASSUME NEW i \in p..(Oldest - 1) PROVE sent[i] \in Events
  BY DEF Skipped
<1>1. i \in 1..Len(sent)
  BY Bounds
<1> QED
  BY <1>1 DEF StreamType

(* A push: the event is the last of the channel, and so ahead of everyone. *)
LEMMA PushGapless ==
    ASSUME IInv, NEW k \in Kinds, NEW n \in Events,
           kind' = [kind EXCEPT ![n] = k], sent' = Append(sent, n),
           \/ events' = Append(events, n) /\ inflight' = inflight
           \/ events' = events /\ inflight' = inflight \cup {n},
           UNCHANGED <<saved, session>>
    PROVE  IInv'
<1>1. StreamType /\ Len(sent) \in Nat
  BY Bounds DEF IInv
<1>2. /\ sent' \in Seq(Events) /\ Len(sent') = Len(sent) + 1
      /\ sent'[Len(sent) + 1] = n
      /\ \A i \in 1..Len(sent) : sent'[i] = sent[i]
  BY <1>1, ToSetAppend DEF StreamType
<1>3. events' \in Seq(Events)
      /\ ToSet(events') \cup inflight' = ToSet(events) \cup inflight \cup {n}
  <2>1. CASE events' = Append(events, n) /\ inflight' = inflight
    BY <1>1, <2>1, ToSetAppend DEF StreamType
  <2>2. CASE events' = events /\ inflight' = inflight \cup {n}
    BY <1>1, <2>2 DEF StreamType
  <2> QED
    BY <2>1, <2>2
<1>4. StreamType'
  BY <1>1, <1>2, <1>3 DEF StreamType, SessionType
<1>5. \A e \in Events \ {n} : Own(e)' <=> Own(e)
  BY <1>1 DEF Own, StreamType
<1>6. ASSUME NEW s \in Sessions PROVE Gapless(s)'
  <2>1. session[s].pos \in 1..(Len(sent) + 1)
    BY <1>1 DEF StreamType, SessionType
  <2>2. InChannel(s, n)'
    BY <1>1, <1>2, <2>1 DEF InChannel
  <2>3. \A e : InChannel(s, e) => InChannel(s, e)'
    BY <1>1, <1>2, <2>1 DEF InChannel
  <2>4. \A e : Told(s, e)' <=> Told(s, e)
    BY DEF Told
  <2>5. Gapless(s)
    BY DEF IInv
  <2>6. inflight' \subseteq inflight \cup {n}
    OBVIOUS
  <2>7. ToSet(events) \cup inflight \subseteq Events
    BY <1>1, ToSetType DEF StreamType
  <2>8. session'[s].state = "connected" =>
          \A e \in inflight' : Own(e)' => e \in session'[s].before \/ InChannel(s, e)'
    BY <1>5, <2>2, <2>3, <2>5, <2>6, <2>7 DEF Gapless
  <2>9. session'[s].state = "subscribed" =>
          \A e \in ToSet(events') \cup inflight' : Own(e)' => Told(s, e)' \/ InChannel(s, e)'
    BY <1>3, <1>5, <2>2, <2>3, <2>4, <2>5, <2>7 DEF Gapless
  <2> QED
    BY <2>8, <2>9 DEF Gapless
<1> QED
  BY <1>4, <1>6 DEF IInv

(* A step of one session: the others keep what they have.                  *)
LEMMA SessionStep ==
    ASSUME IInv, NEW s \in Sessions, NEW new \in SessionType, new.pos <= Len(sent) + 1,
           session' = [session EXCEPT ![s] = new],
           UNCHANGED <<kind, sent, inflight, events, saved>>,
           Gapless(s)'
    PROVE  IInv'
<1>1. StreamType'
  BY DEF IInv, StreamType
<1>2. ASSUME NEW t \in Sessions \ {s} PROVE Gapless(t)'
  <2>1. session'[t] = session[t] /\ Gapless(t)
    BY DEF IInv, StreamType
  <2>2. \A e : (InChannel(t, e)' <=> InChannel(t, e)) /\ (Told(t, e)' <=> Told(t, e))
               /\ (Own(e)' <=> Own(e))
    BY <2>1 DEF InChannel, Told, Own
  <2> QED
    BY <2>1, <2>2 DEF Gapless
<1> QED
  BY <1>1, <1>2 DEF IInv

-----------------------------------------------------------------------------
LEMMA InitIInv == Init => IInv
<1> SUFFICES ASSUME Init PROVE IInv
  OBVIOUS
<1>1. StreamType
  BY ClosedType DEF Init, StreamType, Kinds
<1>2. ASSUME NEW s \in Sessions PROVE Gapless(s)
  BY ClosedType DEF Init, Gapless
<1> QED
  BY <1>1, <1>2 DEF IInv

LEMMA NextIInv == IInv /\ [Next]_vars => IInv'
<1> SUFFICES ASSUME IInv, [Next]_vars PROVE IInv'
  OBVIOUS
<1>1. ASSUME NEW k \in Kinds, PushEventInner(k) PROVE IInv'
  BY <1>1, PushGapless DEF PushEventInner
<1>2. ASSUME NEW k \in Kinds, PushEvent(k) PROVE IInv'
  BY <1>2, PushGapless DEF PushEvent
<1>3. ASSUME NEW e \in Events, StoreEvent(e) PROVE IInv'
  <2>1. /\ events' \in Seq(Events) /\ inflight' \subseteq inflight
        /\ ToSet(events') \cup inflight' = ToSet(events) \cup inflight
    BY <1>3, ToSetAppend DEF StoreEvent, IInv, StreamType
  <2>2. StreamType'
    BY <1>3, <2>1 DEF StoreEvent, IInv, StreamType
  <2>3. ASSUME NEW s \in Sessions PROVE Gapless(s)'
    <3>1. \A f : (InChannel(s, f)' <=> InChannel(s, f)) /\ (Told(s, f)' <=> Told(s, f))
                 /\ (Own(f)' <=> Own(f))
      BY <1>3 DEF StoreEvent, InChannel, Told, Own
    <3>2. Gapless(s) /\ session' = session
      BY <1>3 DEF StoreEvent, IInv
    <3> QED
      BY <2>1, <3>1, <3>2 DEF Gapless
  <2> QED
    BY <2>2, <2>3 DEF IInv
<1>4. ASSUME NEW s \in Sessions, Connect(s) PROVE IInv'
  <2> DEFINE new == [Closed EXCEPT !.state = "connected", !.pos = Len(sent) + 1,
                                   !.before = inflight]
  <2>1. new \in SessionType /\ new.pos <= Len(sent) + 1
    <3>1. Len(sent) + 1 \in Nat \ {0} /\ inflight \subseteq Events
      BY Bounds DEF IInv, StreamType
    <3>2. new \in SessionType /\ new.pos = Len(sent) + 1
      BY <3>1, ClosedType DEF SessionType
    <3> QED
      BY <3>1, <3>2
  <2>2. session' = [session EXCEPT ![s] = new] /\ UNCHANGED <<kind, sent, inflight, events, saved>>
    BY <1>4 DEF Connect
  <2>3. session'[s].state = "connected" /\ session'[s].before = inflight'
    BY <2>2 DEF IInv, StreamType, Closed
  <2>4. Gapless(s)'
    BY <2>3 DEF Gapless
  <2> QED
    BY <2>1, <2>2, <2>4, SessionStep
<1>5. ASSUME NEW s \in Sessions, Subscribe(s) PROVE IInv'
  <2> DEFINE old == session[s]
             own == {e \in ToSet(events) : Own(e)}
             new == [old EXCEPT !.state = "subscribed", !.seen = @ \cup own,
                                !.missed = @ \cup (old.before \cap inflight)]
  <2>1. old \in SessionType /\ old.pos <= Len(sent) + 1 /\ own \subseteq Events
    BY ToSetType DEF IInv, StreamType
  <2>2. /\ new \in SessionType /\ new.pos = old.pos /\ new.state = "subscribed"
        /\ new.seen = old.seen \cup own /\ new.told = old.told
        /\ new.missed = old.missed \cup (old.before \cap inflight)
    <3> HIDE DEF old, own
    <3> QED
      BY <2>1 DEF SessionType
  <2>3. session' = [session EXCEPT ![s] = new] /\ UNCHANGED <<kind, sent, inflight, events, saved>>
    BY <1>5 DEF Subscribe, IInv, StreamType, SessionType
  <2>4. session'[s] = new
    BY <2>3 DEF IInv, StreamType
  <2>5. Gapless(s) /\ old.state \in {"connected", "subscribed"}
    BY <1>5, <2>1 DEF IInv, Subscribe, SessionType
  <2>6. ASSUME NEW e \in ToSet(events') \cup inflight', Own(e)'
        PROVE  Told(s, e)' \/ InChannel(s, e)'
    <3>1. Own(e) /\ e \in ToSet(events) \cup inflight
      BY <2>3, <2>6 DEF Own
    <3>2. InChannel(s, e) => InChannel(s, e)'
      BY <2>2, <2>3, <2>4 DEF InChannel
    <3>3. Told(s, e) \/ e \in own \/ e \in old.before \cap inflight => Told(s, e)'
      BY <2>2, <2>4 DEF Told
    <3> QED
      BY <2>5, <3>1, <3>2, <3>3 DEF Gapless
  <2>7. Gapless(s)'
    BY <2>2, <2>4, <2>6 DEF Gapless
  <2> QED
    BY <2>1, <2>2, <2>3, <2>7, SessionStep
<1>6. ASSUME NEW s \in Sessions, Receive(s) PROVE IInv'
  <2> DEFINE old == session[s]
             p == old.pos
             got == IF p >= Oldest /\ Own(sent[p]) THEN {sent[p]} ELSE {}
             next == IF p < Oldest THEN Oldest ELSE p + 1
             new == [old EXCEPT !.pos = next, !.told = @ \cup Skipped(p), !.seen = @ \cup got]
  <2>1. old \in SessionType /\ p \in 1..Len(sent) /\ old.state = "subscribed"
    BY <1>6 DEF Receive, IInv, StreamType, SessionType
  <2>2. got \subseteq Events /\ Skipped(p) \subseteq Events /\ next \in 1..(Len(sent) + 1)
        /\ next \in Nat \ {0} /\ next <= Len(sent) + 1
    BY <2>1, Bounds, SkippedType DEF IInv, StreamType
  <2>3. /\ new \in SessionType /\ new.pos = next /\ new.state = "subscribed"
        /\ new.seen = old.seen \cup got /\ new.told = old.told \cup Skipped(p)
        /\ new.missed = old.missed
    <3> HIDE DEF old, got, next, p
    <3> QED
      BY <2>1, <2>2 DEF SessionType
  <2>4. session' = [session EXCEPT ![s] = new] /\ UNCHANGED <<kind, sent, inflight, events, saved>>
    BY <1>6, <2>1 DEF Receive, IInv, StreamType, SessionType
  <2>5. session'[s] = new /\ Gapless(s)
    BY <2>4 DEF IInv, StreamType
  <2>6. ASSUME NEW e \in ToSet(events') \cup inflight', Own(e)'
        PROVE  Told(s, e)' \/ InChannel(s, e)'
    <3>1. Own(e) /\ e \in ToSet(events) \cup inflight
      BY <2>4, <2>6 DEF Own
    <3>2. CASE Told(s, e)
      BY <2>3, <2>5, <3>2 DEF Told
    <3>3. CASE InChannel(s, e)
      <4>1. PICK i \in p..Len(sent) : sent[i] = e
        BY <3>3 DEF InChannel
      <4>2. CASE i >= next
        <5>1. i \in session'[s].pos..Len(sent')
          BY <2>2, <2>3, <2>4, <2>5, <4>2
        <5> QED
          BY <2>4, <4>1, <5>1 DEF InChannel
      <4>3. CASE i < next
        <5>1. e \in got \cup Skipped(p)
          BY <2>1, <2>2, <3>1, <4>1, <4>3, Bounds DEF Skipped, IInv
        <5> QED
          BY <2>3, <2>5, <5>1 DEF Told
      <4> QED
        BY <2>1, <2>2, <4>2, <4>3
    <3> QED
      BY <2>1, <2>5, <3>1, <3>2, <3>3 DEF Gapless
  <2>7. Gapless(s)'
    BY <2>3, <2>5, <2>6 DEF Gapless
  <2> QED
    BY <2>2, <2>3, <2>4, <2>7, SessionStep
<1>7. ASSUME NEW s \in Sessions, Disconnect(s) PROVE IInv'
  <2>1. session' = [session EXCEPT ![s] = Closed]
        /\ UNCHANGED <<kind, sent, inflight, events, saved>>
    BY <1>7 DEF Disconnect
  <2>2. Gapless(s)'
    BY <2>1, ClosedType DEF Gapless, IInv, StreamType
  <2>3. Closed.pos <= Len(sent) + 1
    BY ClosedType, Bounds DEF IInv
  <2> QED
    BY <2>1, <2>2, <2>3, ClosedType, SessionStep
<1>8. ASSUME UNCHANGED <<kind, sent, inflight, events, session>>, saved' \in Seq(Events)
      PROVE  IInv'
  BY <1>8 DEF IInv, StreamType, Gapless, InChannel, Told, Own
<1>9. CASE Dispatch \/ HandleWork \/ PersistEvents \/ UNCHANGED vars
  BY <1>8, <1>9 DEF Dispatch, HandleWork, PersistEvents, vars, IInv, StreamType
<1>10. CASE Crash
  <2>1. StreamType'
    BY <1>10, ClosedType DEF Crash, IInv, StreamType
  <2>2. ASSUME NEW s \in Sessions PROVE Gapless(s)'
    BY <1>10, ClosedType DEF Crash, Gapless
  <2> QED
    BY <2>1, <2>2 DEF IInv
<1> QED
  BY <1>1, <1>2, <1>3, <1>4, <1>5, <1>6, <1>7, <1>9, <1>10 DEF Next

(* Whatever the sessions, the two halves of push_event, the snapshot task, *)
(* the dispatcher and crashes do, and however small the broadcast channel  *)
(* is: a subscribed WebSocket session has got every stored event of its    *)
(* tenant, has it ahead of it, or is told of the gap, but for the event    *)
(* that was half pushed both when it connected and when it subscribed.     *)
THEOREM NoGapGoesUntold == Spec => []NoSilentGap
<1>1. IInv => NoSilentGap
  BY DEF IInv, Gapless, Told, InChannel, NoSilentGap
<1> QED
  BY <1>1, InitIInv, NextIInv, PTL DEF Spec

-----------------------------------------------------------------------------
(***************************************************************************)
(* WebhookDelivery.  That an event is received once per fault is about the *)
(* worker's list of jobs, which was built from attempts that may have been *)
(* recorded since: no two jobs of a cycle are of the same callback and     *)
(* event, and the jobs that are left are of pairs without a success.  What *)
(* the endpoint has got beyond the number of faults is one request, whose  *)
(* success the worker holds or has recorded; a restart may forget it, and  *)
(* is a fault itself.                                                      *)
(***************************************************************************)
EventLists == {q \in Seq({"dirty", "other"}) : Len(q) <= MaxEventIds}
CallbackType ==
    [exists : BOOLEAN, enabled : BOOLEAN, all : BOOLEAN, secret : Keys \cup {"none", "legacy"}]
AttemptType == [last : 0..MaxAttempts, success : BOOLEAN, due : BOOLEAN]
JobType ==
    [callback : Callbacks, event : 1..MaxEventIds, secret : Keys \cup {"none", "legacy"},
     attempt : 1..MaxAttempts]

WebhookType ==
    /\ eventKinds \in EventLists
    /\ key \in Keys \cup {"none"} /\ deliver \in BOOLEAN
    /\ callbacks \in [Callbacks -> CallbackType]
    /\ attempts \in [Pairs -> AttemptType]
    /\ snapshot \in [events : EventLists, callbacks : [Callbacks -> CallbackType],
                  attempts : [Pairs -> AttemptType]]
    /\ cycle \in [jobs : Seq(JobType), answer : {"none", "success", "failed"}]
    /\ received \in [Pairs -> Nat]
    /\ faults \in Nat

(* The jobs left are of different pairs, and none of them has succeeded.   *)
JobsAreOpen(jobs) ==
    /\ \A i, j \in 1..Len(jobs) : PairOf(jobs[i]) = PairOf(jobs[j]) => i = j
    /\ \A i \in 1..Len(jobs) : ~attempts[PairOf(jobs[i])].success

(* The event has reached the endpoint and the worker knows or has recorded *)
(* it.                                                                     *)
Answered(p) ==
    \/ attempts[p].success
    \/ cycle.answer = "success" /\ PairOf(cycle.jobs[1]) = p

WebhookInv ==
    /\ WebhookType
    /\ cycle.answer # "none" => cycle.jobs # <<>>
    /\ JobsAreOpen(cycle.jobs)
    /\ \A p \in Pairs : received[p] <= faults \/ (received[p] <= 1 + faults /\ Answered(p))

LEMMA AbsentType == Absent \in CallbackType
  BY DEF Absent, CallbackType

LEMMA UpgradedType ==
    ASSUME NEW cs \in [Callbacks -> CallbackType], NEW k \in Keys \cup {"none"}
    PROVE  Upgraded(cs, k) \in [Callbacks -> CallbackType]
<1>1. ASSUME NEW c \in Callbacks PROVE Upgraded(cs, k)[c] \in CallbackType
  <2>1. cs[c] \in CallbackType /\ [cs[c] EXCEPT !.secret = k] \in CallbackType
    BY DEF CallbackType
  <2> QED
    BY <2>1 DEF Upgraded
<1> QED
  BY <1>1 DEF Upgraded

LEMMA WebhookStart == WebhookInit => WebhookInv
<1> SUFFICES ASSUME WebhookInit PROVE WebhookInv
  OBVIOUS
<1>1. MaxAttempts \in Nat
  BY WebhookAssumption DEF MaxAttempts
<1>2. eventKinds \in EventLists /\ key \in Keys \cup {"none"} /\ deliver \in BOOLEAN
  BY WebhookAssumption DEF WebhookInit, EventLists
<1>3. callbacks \in [Callbacks -> CallbackType]
  <2>1. PICK old \in {Absent, [Absent EXCEPT !.exists = TRUE, !.enabled = TRUE,
                                                            !.secret = "legacy"]} :
            callbacks = Upgraded([c \in Callbacks |-> old], key)
    BY DEF WebhookInit
  <2>2. [Absent EXCEPT !.exists = TRUE, !.enabled = TRUE, !.secret = "legacy"]
            \in CallbackType
    BY DEF Absent, CallbackType
  <2>3. old \in CallbackType
    BY <2>1, <2>2, AbsentType
  <2>4. [c \in Callbacks |-> old] \in [Callbacks -> CallbackType]
    BY <2>3
  <2> QED
    BY <1>2, <2>1, <2>4, UpgradedType
<1>4. Untried \in AttemptType /\ attempts = [p \in Pairs |-> Untried]
  BY <1>1 DEF WebhookInit, Pairs, EventIds, Untried, AttemptType
<1>5. attempts \in [Pairs -> AttemptType]
  BY <1>4
<1>6. snapshot = [events |-> eventKinds, callbacks |-> callbacks, attempts |-> attempts]
  BY DEF WebhookInit, Store
<1>7. cycle = [jobs |-> <<>>, answer |-> "none"]
  BY DEF WebhookInit, NoCycle
<1>8. <<>> \in Seq(JobType) /\ Len(<<>>) = 0
  OBVIOUS
<1>9. received = [p \in Pairs |-> 0] /\ faults = 0
  BY DEF WebhookInit, Pairs, EventIds
<1>10. cycle.jobs = <<>> /\ cycle.answer = "none"
       /\ cycle \in [jobs : Seq(JobType), answer : {"none", "success", "failed"}]
  BY <1>7, <1>8
<1>11. WebhookType
  BY <1>2, <1>3, <1>5, <1>6, <1>9, <1>10 DEF WebhookType
<1>12. JobsAreOpen(cycle.jobs)
  BY <1>8, <1>10 DEF JobsAreOpen
<1> QED
  BY <1>9, <1>10, <1>11, <1>12 DEF WebhookInv

(* A step that leaves the deliveries alone.                                *)
LEMMA WebhookKeeps ==
    ASSUME WebhookInv, WebhookType', UNCHANGED <<cycle, received, faults>>,
           \A p \in Pairs : attempts'[p].success = attempts[p].success
    PROVE  WebhookInv'
<1>1. cycle.jobs \in Seq(JobType)
  BY DEF WebhookInv, WebhookType
<1>2. \A i \in 1..Len(cycle.jobs) : PairOf(cycle.jobs[i]) \in Pairs
  <2> SUFFICES ASSUME NEW i \in 1..Len(cycle.jobs) PROVE PairOf(cycle.jobs[i]) \in Pairs
    OBVIOUS
  <2>1. cycle.jobs[i] \in JobType
    BY <1>1
  <2> QED
    BY <2>1 DEF JobType, PairOf, Pairs, EventIds
<1>3. JobsAreOpen(cycle.jobs)'
  BY <1>2 DEF WebhookInv, JobsAreOpen
<1>4. \A p \in Pairs : Answered(p) => Answered(p)'
  BY DEF Answered
<1> QED
  BY <1>3, <1>4 DEF WebhookInv

(* pending_webhook_jobs makes one job for each pair that is still owed a   *)
(* delivery, below the limit.                                              *)
LEMMA PendingJob ==
    ASSUME WebhookType, NEW j \in PendingJobs
    PROVE  /\ j \in JobType /\ ~attempts[PairOf(j)].success
           /\ j.secret = callbacks[j.callback].secret
           /\ j.attempt = attempts[PairOf(j)].last + 1
<1>1. PICK p \in Callbacks \X DOMAIN eventKinds :
          /\ Pending(p[1], p[2])
          /\ j = [callback |-> p[1], event |-> p[2], secret |-> callbacks[p[1]].secret,
                  attempt |-> attempts[p].last + 1]
  BY DEF PendingJobs
<1>2. p[2] \in 1..MaxEventIds /\ p[1] \in Callbacks /\ p = <<p[1], p[2]>>
  BY <1>1, WebhookAssumption DEF WebhookType, EventLists
<1>3. p \in Pairs /\ PairOf(j) = p
  BY <1>1, <1>2 DEF Pairs, PairOf, EventIds
<1>4. attempts[p] \in AttemptType /\ callbacks[p[1]] \in CallbackType
  BY <1>2, <1>3 DEF WebhookType
<1>5. ~attempts[p].success /\ (attempts[p].last = 0 \/ attempts[p].last < MaxRetries)
  BY <1>1, <1>2 DEF Pending
<1>6. attempts[p].last + 1 \in 1..MaxAttempts
  BY <1>4, <1>5, WebhookAssumption DEF AttemptType, MaxAttempts
<1>7. callbacks[p[1]].secret \in Keys \cup {"none", "legacy"}
  BY <1>4 DEF CallbackType
<1> QED
  BY <1>1, <1>2, <1>3, <1>5, <1>6, <1>7 DEF JobType

LEMMA PendingJobsFinite ==
    ASSUME WebhookType
    PROVE  Cardinality(PendingJobs) \in Nat
<1> DEFINE D == Callbacks \X DOMAIN eventKinds
           Q == {q \in D : Pending(q[1], q[2])}
           f == [p \in Q |->
                   [callback |-> p[1], event |-> p[2], secret |-> callbacks[p[1]].secret,
                    attempt |-> attempts[p].last + 1]]
<1>1. DOMAIN eventKinds = 1..Len(eventKinds) /\ Len(eventKinds) \in Nat
  BY DEF WebhookType, EventLists
<1>2. IsFiniteSet(1..Len(eventKinds))
  BY <1>1, FS_Interval
<1>3. IsFiniteSet(D)
  BY <1>1, <1>2, FS_Product, WebhookAssumption
<1>4. IsFiniteSet(Q)
  BY <1>3, FS_Subset
<1>5. PendingJobs = {f[p] : p \in Q}
  BY DEF PendingJobs
<1>6. f \in Surjection(Q, PendingJobs)
  BY <1>5 DEF Surjection
<1> HIDE DEF f, Q
<1> QED
  BY <1>4, <1>6, FS_Surjection, FS_CardinalityType

LEMMA WebhookBuild ==
    ASSUME WebhookInv, BuildJobs PROVE WebhookInv'
<1>1. WebhookType
  BY DEF WebhookInv
<1>2. PICK jobs \in SetToSeqs(PendingJobs) :
          cycle' = [NoCycle EXCEPT !.jobs = jobs]
  BY DEF BuildJobs
<1>3. cycle = NoCycle /\ PendingJobs # {}
      /\ UNCHANGED <<eventKinds, key, deliver, callbacks, attempts, snapshot, received, faults>>
  BY DEF BuildJobs
<1>4. PICK n \in Nat : n = Cardinality(PendingJobs)
  BY <1>1, PendingJobsFinite
<1>5. /\ jobs \in [1..n -> PendingJobs]
      /\ \A i, j \in 1..n : i # j => jobs[i] # jobs[j]
  BY <1>2, <1>4 DEF SetToSeqs
<1>6. \A i \in 1..n : /\ jobs[i] \in JobType /\ ~attempts[PairOf(jobs[i])].success
                      /\ jobs[i].secret = callbacks[jobs[i].callback].secret
                      /\ jobs[i].attempt = attempts[PairOf(jobs[i])].last + 1
  BY <1>1, <1>5, PendingJob
<1>7. jobs \in Seq(JobType) /\ Len(jobs) = n
  <2>1. jobs \in [1..n -> JobType]
    BY <1>5, <1>6
  <2> QED
    BY <2>1
<1>8. cycle' = [jobs |-> jobs, answer |-> "none"] /\ cycle.answer = "none"
  BY <1>2, <1>3 DEF NoCycle
<1>9. WebhookType'
  BY <1>1, <1>3, <1>7, <1>8 DEF WebhookType
<1>10. ASSUME NEW i \in 1..n, NEW j \in 1..n,
              PairOf(jobs[i]) = PairOf(jobs[j])
       PROVE  i = j
  <2>1. jobs[i].callback = jobs[j].callback /\ jobs[i].event = jobs[j].event
    BY <1>10 DEF PairOf
  <2>2. jobs[i].secret = jobs[j].secret /\ jobs[i].attempt = jobs[j].attempt
    BY <1>6, <1>10, <2>1
  <2>3. jobs[i] \in JobType /\ jobs[j] \in JobType
    BY <1>6
  <2>4. jobs[i] = jobs[j]
    BY <2>1, <2>2, <2>3 DEF JobType
  <2> QED
    BY <1>5, <2>4
<1>11. JobsAreOpen(cycle.jobs)'
  <2>1. cycle'.jobs = jobs /\ attempts' = attempts
    BY <1>3, <1>8
  <2> QED
    BY <1>6, <1>7, <1>10, <2>1 DEF JobsAreOpen
<1>12. \A p \in Pairs : ~Answered(p) \/ Answered(p)'
  BY <1>3, <1>8 DEF Answered
<1> QED
  BY <1>3, <1>8, <1>9, <1>11, <1>12 DEF WebhookInv

LEMMA FirstJob ==
    ASSUME WebhookInv, cycle.jobs # <<>>
    PROVE  /\ Job = cycle.jobs[1] /\ Job \in JobType
           /\ 1 \in 1..Len(cycle.jobs) /\ PairOf(Job) \in Pairs
           /\ ~attempts[PairOf(Job)].success
<1>1. cycle.jobs \in Seq(JobType) /\ JobsAreOpen(cycle.jobs)
  BY DEF WebhookInv, WebhookType
<1>2. Job = cycle.jobs[1] /\ 1 \in 1..Len(cycle.jobs)
  BY <1>1 DEF Job
<1>3. Job \in JobType
  BY <1>1, <1>2
<1>4. PairOf(Job) \in Pairs
  BY <1>3 DEF JobType, Pairs, PairOf, EventIds
<1> QED
  BY <1>1, <1>2, <1>3, <1>4 DEF JobsAreOpen

(* A request for a pair that has not succeeded: the endpoint has had at    *)
(* most as many as there were faults.                                      *)
LEMMA WebhookPost ==
    ASSUME WebhookInv, Post PROVE WebhookInv'
<1>1. /\ cycle.jobs # <<>> /\ cycle.answer = "none"
      /\ UNCHANGED <<eventKinds, key, deliver, callbacks, attempts, snapshot>>
  BY DEF Post, Ready
<1>2. PICK p \in Pairs : p = PairOf(Job) /\ p = PairOf(cycle.jobs[1])
                         /\ ~attempts[p].success
  BY <1>1, FirstJob
<1>3. received[p] <= faults /\ received \in [Pairs -> Nat] /\ faults \in Nat
  BY <1>1, <1>2 DEF WebhookInv, WebhookType, Answered
<1>4. cycle \in [jobs : Seq(JobType), answer : {"none", "success", "failed"}]
  BY DEF WebhookInv, WebhookType
<1> DEFINE more == [received EXCEPT ![p] = @ + 1]
<1>5. PICK a \in {"success", "failed"} :
          /\ cycle' = [cycle EXCEPT !.answer = a]
          /\ \/ a = "success" /\ received' = more /\ faults' = faults
             \/ a = "failed" /\ received' \in {received, more} /\ faults' = faults + 1
  BY <1>2 DEF Post, Fault
<1>6. /\ cycle'.jobs = cycle.jobs /\ cycle'.answer = a
      /\ cycle' \in [jobs : Seq(JobType), answer : {"none", "success", "failed"}]
  BY <1>4, <1>5
<1>7. more \in [Pairs -> Nat] /\ more[p] = received[p] + 1
      /\ \A q \in Pairs : q # p => more[q] = received[q]
  BY <1>3
<1> HIDE DEF more
<1>8. WebhookType'
  BY <1>1, <1>3, <1>5, <1>6, <1>7 DEF WebhookInv, WebhookType
<1>9. JobsAreOpen(cycle.jobs)'
  BY <1>1, <1>6 DEF WebhookInv, JobsAreOpen
<1>10. ASSUME NEW q \in Pairs
       PROVE  (received[q] <= faults \/ (received[q] <= 1 + faults /\ Answered(q)))'
  <2>1. received[q] <= faults \/ (received[q] <= 1 + faults /\ attempts[q].success)
    BY <1>1 DEF WebhookInv, Answered
  <2>2. received[q] \in Nat /\ received'[q] \in Nat /\ attempts' = attempts
    BY <1>1, <1>3, <1>5, <1>7
  <2>3. CASE received'[q] = received[q]
    BY <1>3, <1>5, <2>1, <2>2, <2>3 DEF Answered
  <2>4. CASE received'[q] # received[q]
    <3>1. q = p /\ received'[q] = received[q] + 1
      BY <1>5, <1>7, <2>4
    <3>2. CASE a = "success"
      <4>1. Answered(q)'
        BY <1>2, <1>6, <3>1, <3>2 DEF Answered
      <4> QED
        BY <1>3, <1>5, <3>1, <3>2, <4>1
    <3>3. CASE a = "failed"
      BY <1>3, <1>5, <3>1, <3>3
    <3> QED
      BY <3>2, <3>3
  <2> QED
    BY <2>3, <2>4
<1> QED
  BY <1>1, <1>6, <1>8, <1>9, <1>10 DEF WebhookInv

(* record_webhook_attempt: the pair is done with, the other jobs are open  *)
(* as before.                                                              *)
LEMMA WebhookRecord ==
    ASSUME WebhookInv, RecordAttempt PROVE WebhookInv'
<1>1. /\ cycle.answer \in {"success", "failed"} /\ cycle.jobs # <<>>
      /\ UNCHANGED <<eventKinds, key, deliver, callbacks, snapshot, received, faults>>
  BY DEF RecordAttempt, WebhookInv, WebhookType
<1>2. PICK p \in Pairs : p = PairOf(Job) /\ p = PairOf(cycle.jobs[1])
                         /\ ~attempts[p].success
  BY <1>1, FirstJob
<1>3. Job \in JobType /\ attempts \in [Pairs -> AttemptType]
  BY <1>1, FirstJob DEF WebhookInv, WebhookType
<1>5. attempts[p] \in AttemptType /\ attempts[p].success = FALSE
  BY <1>2, <1>3 DEF AttemptType
<1>6. PICK new \in AttemptType :
          /\ attempts' = [attempts EXCEPT ![p] = new]
          /\ new.success <=> (cycle.answer = "success")
  <2>1. attempts' = [attempts EXCEPT ![p] = [last |-> Job.attempt,
             success |-> @.success \/ cycle.answer = "success", due |-> FALSE]]
    BY <1>2 DEF RecordAttempt
  <2>2. Job.attempt \in 0..MaxAttempts
    BY <1>3 DEF JobType
  <2>3. CASE cycle.answer = "success"
    <3>1. attempts' = [attempts EXCEPT ![p] =
              [last |-> Job.attempt, success |-> TRUE, due |-> FALSE]]
      BY <2>1, <2>3
    <3>2. [last |-> Job.attempt, success |-> TRUE, due |-> FALSE] \in AttemptType
      BY <2>2 DEF AttemptType
    <3> WITNESS [last |-> Job.attempt, success |-> TRUE, due |-> FALSE] \in AttemptType
    <3> QED
      BY <2>3, <3>1
  <2>4. CASE cycle.answer = "failed"
    <3>1. attempts' = [attempts EXCEPT ![p] =
              [last |-> Job.attempt, success |-> FALSE, due |-> FALSE]]
      BY <1>5, <2>1, <2>4
    <3>2. [last |-> Job.attempt, success |-> FALSE, due |-> FALSE] \in AttemptType
      BY <2>2 DEF AttemptType
    <3> WITNESS [last |-> Job.attempt, success |-> FALSE, due |-> FALSE] \in AttemptType
    <3> QED
      BY <2>4, <3>1
  <2> QED
    BY <1>1, <2>3, <2>4
<1>7. /\ attempts' \in [Pairs -> AttemptType]
      /\ attempts'[p].success <=> (cycle.answer = "success")
      /\ \A q \in Pairs : q # p => attempts'[q] = attempts[q]
  BY <1>3, <1>6
<1>8. PICK jobs \in Seq(JobType) : jobs = cycle.jobs
  BY DEF WebhookInv, WebhookType
<1>9. /\ Tail(jobs) \in Seq(JobType) /\ Len(Tail(jobs)) = Len(jobs) - 1 /\ Len(jobs) \in Nat \ {0}
      /\ \A i \in 1..(Len(jobs) - 1) : Tail(jobs)[i] = jobs[i + 1]
  BY <1>1, <1>8
<1>10. cycle' = [jobs |-> Tail(jobs), answer |-> "none"]
  BY <1>8 DEF RecordAttempt, NoCycle
<1>11. WebhookType'
  BY <1>1, <1>7, <1>9, <1>10 DEF WebhookInv, WebhookType
<1>12. ASSUME NEW i \in 1..(Len(jobs) - 1)
       PROVE  /\ i + 1 \in 1..Len(jobs) /\ PairOf(jobs[i + 1]) \in Pairs
              /\ PairOf(jobs[i + 1]) # p
              /\ ~attempts[PairOf(jobs[i + 1])].success
  <2>1. i + 1 \in 1..Len(jobs) /\ 1 \in 1..Len(jobs) /\ i + 1 # 1
    BY <1>9
  <2>2. jobs[i + 1] \in JobType
    BY <2>1
  <2>3. PairOf(jobs[i + 1]) \in Pairs
    BY <2>2 DEF JobType, PairOf, Pairs, EventIds
  <2>4. JobsAreOpen(jobs)
    BY <1>8 DEF WebhookInv
  <2> QED
    BY <1>2, <1>8, <2>1, <2>3, <2>4 DEF JobsAreOpen
<1>13. JobsAreOpen(cycle.jobs)'
  <2>1. cycle'.jobs = Tail(jobs)
    BY <1>10
  <2>2. ASSUME NEW i \in 1..(Len(jobs) - 1)
        PROVE  ~attempts'[PairOf(Tail(jobs)[i])].success
    BY <1>7, <1>9, <1>12
  <2>3. ASSUME NEW i \in 1..(Len(jobs) - 1), NEW j \in 1..(Len(jobs) - 1),
               PairOf(Tail(jobs)[i]) = PairOf(Tail(jobs)[j])
        PROVE  i = j
    <3>1. i + 1 \in 1..Len(jobs) /\ j + 1 \in 1..Len(jobs)
      BY <1>12
    <3>2. PairOf(jobs[i + 1]) = PairOf(jobs[j + 1])
      BY <1>9, <2>3
    <3>3. i + 1 = j + 1
      BY <1>8, <3>1, <3>2 DEF WebhookInv, JobsAreOpen
    <3> QED
      BY <3>3
  <2> QED
    BY <1>9, <2>1, <2>2, <2>3 DEF JobsAreOpen
<1>14. ASSUME NEW q \in Pairs, Answered(q) PROVE Answered(q)'
  <2>1. CASE q = p
    BY <1>5, <1>7, <1>14, <2>1 DEF Answered
  <2>2. CASE q # p
    BY <1>2, <1>7, <1>14, <2>2 DEF Answered
  <2> QED
    BY <2>1, <2>2
<1> QED
  BY <1>1, <1>10, <1>11, <1>13, <1>14 DEF WebhookInv

LEMMA WebhookRestart ==
    ASSUME WebhookInv, NEW k \in Keys \cup {"none"}, NEW d \in BOOLEAN,
           Restart(k, d)
    PROVE  WebhookInv'
<1>1. /\ snapshot.events \in EventLists /\ snapshot.callbacks \in [Callbacks -> CallbackType]
      /\ snapshot.attempts \in [Pairs -> AttemptType] /\ faults \in Nat
      /\ received \in [Pairs -> Nat]
  BY DEF WebhookInv, WebhookType
<1>2. /\ eventKinds' = snapshot.events /\ key' = k /\ deliver' = d /\ attempts' = snapshot.attempts
      /\ callbacks' = Upgraded(snapshot.callbacks, k) /\ snapshot' = snapshot
      /\ faults' = faults + 1 /\ cycle' = [jobs |-> <<>>, answer |-> "none"]
  BY DEF Restart, Fault, NoCycle
<1>3. /\ received' \in [Pairs -> Nat]
      /\ \A p \in Pairs : received'[p] = received[p] \/ received'[p] = 0
  BY <1>1 DEF Restart, Pairs, EventIds
<1>4. callbacks' \in [Callbacks -> CallbackType]
  BY <1>1, <1>2, UpgradedType
<1>5. <<>> \in Seq(JobType) /\ Len(<<>>) = 0
  OBVIOUS
<1>6. WebhookType'
  BY <1>1, <1>2, <1>3, <1>4, <1>5 DEF WebhookInv, WebhookType
<1>7. cycle'.jobs = <<>> /\ cycle'.answer = "none"
  BY <1>2
<1>8. JobsAreOpen(cycle.jobs)'
  BY <1>5, <1>7 DEF JobsAreOpen
<1>9. \A p \in Pairs : received'[p] <= faults'
  <2> SUFFICES ASSUME NEW p \in Pairs PROVE received'[p] <= faults'
    OBVIOUS
  <2>1. received[p] <= 1 + faults /\ received[p] \in Nat
    BY <1>1 DEF WebhookInv
  <2> QED
    BY <1>1, <1>2, <1>3, <2>1
<1> QED
  BY <1>6, <1>7, <1>8, <1>9 DEF WebhookInv

LEMMA WebhookStep ==
    ASSUME WebhookInv, [WebhookNext]_webhookVars PROVE WebhookInv'
<1>1. WebhookType
  BY DEF WebhookInv
<1> DEFINE Quiet == UNCHANGED <<cycle, received, faults>>
<1>2. ASSUME NEW n \in {"dirty", "other"}, AddEvent(n) PROVE WebhookInv'
  <2>1. Quiet /\ UNCHANGED <<key, deliver, callbacks, attempts, snapshot>>
    BY <1>2 DEF AddEvent
  <2>2. eventKinds' \in EventLists
    BY <1>1, <1>2, WebhookAssumption DEF AddEvent, WebhookType, EventLists
  <2>3. WebhookType'
    BY <1>1, <2>1, <2>2 DEF WebhookType
  <2> QED
    BY <2>1, <2>3, WebhookKeeps
<1>3. ASSUME NEW c \in Callbacks, NEW given \in BOOLEAN, NEW enabled \in BOOLEAN,
             NEW all \in BOOLEAN, UpsertCallback(c, given, enabled, all)
      PROVE  WebhookInv'
  <2>1. Quiet /\ UNCHANGED <<eventKinds, key, deliver, attempts, snapshot>>
    BY <1>3 DEF UpsertCallback
  <2>2. PICK s \in Keys \cup {"none"} : callbacks' = [callbacks EXCEPT ![c] =
            [exists |-> TRUE, enabled |-> enabled, secret |-> s, all |-> all]]
    BY <1>1, <1>3 DEF UpsertCallback, WebhookType
  <2>3. [exists |-> TRUE, enabled |-> enabled, secret |-> s, all |-> all] \in CallbackType
    BY DEF CallbackType
  <2>4. WebhookType'
    BY <1>1, <2>1, <2>2, <2>3 DEF WebhookType
  <2> QED
    BY <2>1, <2>4, WebhookKeeps
<1>4. ASSUME NEW c \in Callbacks, DeleteCallback(c) PROVE WebhookInv'
  <2>1. Quiet /\ UNCHANGED <<eventKinds, key, deliver, attempts, snapshot>>
        /\ callbacks' = [callbacks EXCEPT ![c] = Absent]
    BY <1>4 DEF DeleteCallback
  <2>2. WebhookType'
    BY <1>1, <2>1, AbsentType DEF WebhookType
  <2> QED
    BY <2>1, <2>2, WebhookKeeps
<1>5. CASE AbortCycle
  <2>1. /\ UNCHANGED <<eventKinds, key, deliver, callbacks, attempts, snapshot, received, faults>>
        /\ cycle' = [jobs |-> <<>>, answer |-> "none"] /\ cycle.answer = "none"
    BY <1>5 DEF AbortCycle, NoCycle, Ready
  <2>2. <<>> \in Seq(JobType) /\ Len(<<>>) = 0 /\ cycle'.jobs = <<>> /\ cycle'.answer = "none"
    BY <2>1
  <2>3. WebhookType'
    BY <1>1, <2>1, <2>2 DEF WebhookType
  <2>4. JobsAreOpen(cycle.jobs)'
    BY <2>2 DEF JobsAreOpen
  <2>5. \A p \in Pairs : Answered(p) => Answered(p)'
    BY <2>1 DEF Answered
  <2> QED
    BY <2>1, <2>2, <2>3, <2>4, <2>5 DEF WebhookInv
<1>6. ASSUME NEW c \in Callbacks, NEW e \in 1..MaxEventIds, RetryDue(c, e)
      PROVE  WebhookInv'
  <2>1. Quiet /\ UNCHANGED <<eventKinds, key, deliver, callbacks, snapshot>>
        /\ attempts' = [attempts EXCEPT ![<<c, e>>].due = TRUE]
    BY <1>6 DEF RetryDue
  <2>2. attempts \in [Pairs -> AttemptType]
    BY <1>1 DEF WebhookType
  <2>3. PICK p \in Pairs : p = <<c, e>>
    BY DEF Pairs, EventIds
  <2>4. attempts' = [attempts EXCEPT ![p] = [attempts[p] EXCEPT !.due = TRUE]]
    BY <2>1, <2>3
  <2>5. PICK new \in AttemptType : new = [attempts[p] EXCEPT !.due = TRUE]
                                   /\ new.success = attempts[p].success
    <3>1. attempts[p] \in AttemptType
      BY <2>2
    <3>2. [attempts[p] EXCEPT !.due = TRUE] \in AttemptType
          /\ [attempts[p] EXCEPT !.due = TRUE].success = attempts[p].success
      BY <3>1 DEF AttemptType
    <3> QED
      BY <3>2
  <2>6. attempts' \in [Pairs -> AttemptType]
        /\ \A q \in Pairs : attempts'[q].success = attempts[q].success
    BY <2>2, <2>4, <2>5
  <2>7. WebhookType'
    BY <1>1, <2>1, <2>6 DEF WebhookType
  <2> QED
    BY <2>1, <2>6, <2>7, WebhookKeeps
<1>7. CASE Persist
  <2>1. Quiet /\ UNCHANGED <<eventKinds, key, deliver, callbacks, attempts>>
        /\ snapshot' = [events |-> eventKinds, callbacks |-> callbacks, attempts |-> attempts]
    BY <1>7 DEF Persist, Store
  <2>2. WebhookType'
    BY <1>1, <2>1 DEF WebhookType
  <2> QED
    BY <2>1, <2>2, WebhookKeeps
<1>8. CASE UNCHANGED webhookVars
  <2>1. Quiet /\ UNCHANGED <<eventKinds, key, deliver, callbacks, attempts, snapshot>>
    BY <1>8 DEF webhookVars
  <2>2. WebhookType'
    BY <1>1, <2>1 DEF WebhookType
  <2> QED
    BY <2>1, <2>2, WebhookKeeps
<1> QED
  BY <1>2, <1>3, <1>4, <1>5, <1>6, <1>7, <1>8, WebhookBuild, WebhookPost, WebhookRecord,
     WebhookRestart DEF WebhookNext, WorkerStep, EventIds

LEMMA WebhookInductive == WebhookSpec => []WebhookInv
<1>1. WebhookInit => WebhookInv
  BY WebhookStart
<1>2. WebhookInv /\ [WebhookNext]_webhookVars => WebhookInv'
  BY WebhookStep
<1> QED
  BY <1>1, <1>2, PTL DEF WebhookSpec

(* No attempt is made beyond WEBHOOK_MAX_RETRIES, or beyond the first when *)
(* it is 0, through restarts, failures and changes of the callbacks.       *)
THEOREM WebhookTypeCorrect == WebhookSpec => []WebhookTypeOK
<1>1. WebhookInv => WebhookTypeOK
  <2> SUFFICES ASSUME WebhookInv PROVE WebhookTypeOK
    OBVIOUS
  <2> USE DEF WebhookInv, WebhookType
  <2>1. eventKinds \in Seq({"dirty", "other"}) /\ key \in Keys \cup {"none"} /\ deliver \in BOOLEAN
    BY DEF EventLists
  <2>2. /\ callbacks \in [Callbacks -> [exists : BOOLEAN, enabled : BOOLEAN, all : BOOLEAN,
                                        secret : Keys \cup {"none", "legacy"}]]
        /\ attempts \in [Pairs ->
              [last : 0..MaxAttempts, success : BOOLEAN, due : BOOLEAN]]
    BY DEF CallbackType, AttemptType, Pairs, EventIds
  <2>3. cycle.answer \in {"none", "success", "failed"} /\ cycle.jobs \in Seq(JobType)
    OBVIOUS
  <2>4. \A i \in DOMAIN cycle.jobs : cycle.jobs[i].attempt \in 1..MaxAttempts
    <3> SUFFICES ASSUME NEW i \in DOMAIN cycle.jobs
                 PROVE  cycle.jobs[i].attempt \in 1..MaxAttempts
      OBVIOUS
    <3>1. cycle.jobs[i] \in JobType
      BY <2>3
    <3> QED
      BY <3>1 DEF JobType
  <2> QED
    BY <2>1, <2>2, <2>3, <2>4 DEF WebhookTypeOK
<1> QED
  BY <1>1, WebhookInductive, PTL

(* An event reaches an endpoint at most once more than there were lost     *)
(* answers, failures and restarts.                                         *)
THEOREM WebhookReceivedOncePerFault == WebhookSpec => []ReceivedOncePerFault
<1>1. WebhookInv => ReceivedOncePerFault
  BY DEF WebhookInv, WebhookType, ReceivedOncePerFault, Pairs, EventIds
<1> QED
  BY <1>1, WebhookInductive, PTL
=============================================================================
