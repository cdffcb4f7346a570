---------------------------- MODULE EventStream -----------------------------
(***************************************************************************)
(* The in-memory event stream (src/src/state.rs, routes.rs): every event   *)
(* goes to a bounded broadcast channel and to the stored event list, and   *)
(* WebSocket sessions and the in-memory work dispatcher read the channel   *)
(* at their own pace.  A receiver that falls more than Slots events behind *)
(* loses the oldest ones and is told how many.                             *)
(*                                                                         *)
(* push_event_inner sends and stores under the store lock.  push_event     *)
(* sends first and takes the lock afterwards, so an event can be in the    *)
(* channel and not yet in the list.                                        *)
(***************************************************************************)
EXTENDS Naturals, Sequences, FiniteSets, SequencesExt

CONSTANTS
    Sessions,       \* WebSocket connections
    Slots,          \* capacity of the broadcast channel, 1024 in the code
    MaxEvents,      \* bound: events
    MaxConnects,    \* bound: WebSocket connections opened
    MaxCrashes      \* bound: crashes

ASSUME StreamAssumption ==
    /\ Slots \in Nat \ {0}
    /\ MaxEvents \in Nat
    /\ MaxConnects \in Nat
    /\ MaxCrashes \in Nat

Events == 1..MaxEvents

VARIABLES
    kind,       \* what each event is
    sent,       \* the broadcast channel: everything sent since the start
    inflight,   \* events sent and not yet stored
    events,     \* the stored event list
    saved,      \* the list in the snapshot
    lost,       \* history: events that a crash took back
    session,    \* the WebSocket sessions
    connects,   \* WebSocket connections opened so far
    dispatcher, \* the in-memory work dispatcher
    crashes

vars == <<kind, sent, inflight, events, saved, lost, session, connects, dispatcher, crashes>>

(* "signal" and "work" are events of the tenant the sessions and callbacks *)
(* belong to; "work" is outbound.send.requested or                         *)
(* audio.transcription.requested.                                          *)
Kinds == {"signal", "work", "foreign"}
Own(e) == kind[e] # "foreign"

Closed == [state |-> "closed", pos |-> 1, seen |-> {}, told |-> {}, before |-> {}, missed |-> {}]
FreshDispatcher == [pos |-> 1, busy |-> 0, handled |-> {}, skipped |-> {}]

Init ==
    /\ kind = [e \in Events |-> "foreign"]
    /\ sent = <<>> /\ inflight = {} /\ events = <<>> /\ saved = <<>> /\ lost = {}
    /\ session = [s \in Sessions |-> Closed] /\ connects = 0
    /\ dispatcher = FreshDispatcher /\ crashes = 0

Pushed == ToSet(sent) \cup ToSet(events) \cup lost
NextEvent == Cardinality(Pushed) + 1

-----------------------------------------------------------------------------
(* push_event_inner: channel and list under one lock.                      *)
PushEventInner(k) ==
    /\ NextEvent \in Events
    /\ kind' = [kind EXCEPT ![NextEvent] = k]
    /\ sent' = Append(sent, NextEvent)
    /\ events' = Append(events, NextEvent)
    /\ UNCHANGED <<inflight, saved, lost, session, connects, dispatcher, crashes>>

(* push_event, first half: the channel, without the lock.                  *)
PushEvent(k) ==
    /\ NextEvent \in Events
    /\ kind' = [kind EXCEPT ![NextEvent] = k]
    /\ sent' = Append(sent, NextEvent)
    /\ inflight' = inflight \cup {NextEvent}
    /\ UNCHANGED <<events, saved, lost, session, connects, dispatcher, crashes>>

(* push_event, second half: the list, under the lock.                      *)
StoreEvent(e) ==
    /\ e \in inflight
    /\ inflight' = inflight \ {e}
    /\ events' = Append(events, e)
    /\ UNCHANGED <<kind, sent, saved, lost, session, connects, dispatcher, crashes>>

-----------------------------------------------------------------------------
(* A receiver at position p: the positions it has lost, and the oldest one *)
(* it can still read.                                                      *)
Oldest == IF Len(sent) > Slots THEN Len(sent) - Slots + 1 ELSE 1
Skipped(p) == {sent[i] : i \in p..(Oldest - 1)}

(* websocket_session starts with a receiver of its own.                    *)
Connect(s) ==
    /\ session[s].state = "closed"
    /\ connects < MaxConnects
    /\ connects' = connects + 1
    /\ session' = [session EXCEPT ![s] = [Closed EXCEPT !.state = "connected",
                       !.pos = Len(sent) + 1, !.before = inflight]]
    /\ UNCHANGED <<kind, sent, inflight, events, saved, lost, dispatcher, crashes>>

(* A subscribe request: the answer carries the tenant's stored events.     *)
Subscribe(s) ==
    /\ session[s].state # "closed"
    /\ session' = [session EXCEPT ![s].state = "subscribed",
                       ![s].seen = @ \cup {e \in ToSet(events) : Own(e)},
                       ![s].missed = @ \cup (session[s].before \cap inflight)]
    /\ UNCHANGED <<kind, sent, inflight, events, saved, lost, connects, dispatcher, crashes>>

(* Mutant: a lagging receiver goes on without an events.lagged message.    *)
ReceiveSilently(s) ==
    LET p == session[s].pos IN
    /\ session[s].state = "subscribed"
    /\ p <= Len(sent)
    /\ session' = [session EXCEPT
          ![s].pos = IF p < Oldest THEN Oldest ELSE p + 1,
          ![s].seen = IF p >= Oldest /\ Own(sent[p]) THEN @ \cup {sent[p]} ELSE @]
    /\ UNCHANGED <<kind, sent, inflight, events, saved, lost, connects, dispatcher, crashes>>

(* A subscribed session reads the channel: one event, or the notice that   *)
(* it has lagged.                                                          *)
Receive(s) ==
    LET p == session[s].pos IN
    /\ session[s].state = "subscribed"
    /\ p <= Len(sent)
    /\ session' = [session EXCEPT
          ![s].pos = IF p < Oldest THEN Oldest ELSE p + 1,
          ![s].told = @ \cup Skipped(p),
          ![s].seen = IF p >= Oldest /\ Own(sent[p]) THEN @ \cup {sent[p]} ELSE @]
    /\ UNCHANGED <<kind, sent, inflight, events, saved, lost, connects, dispatcher, crashes>>

(* The client closes the socket, or a send to it fails.                    *)
Disconnect(s) ==
    /\ session[s].state # "closed"
    /\ session' = [session EXCEPT ![s] = Closed]
    /\ UNCHANGED <<kind, sent, inflight, events, saved, lost, connects, dispatcher, crashes>>

-----------------------------------------------------------------------------
(* Mutant: the dispatcher's loop ends when it has lagged.                  *)
DispatchUntilLagged ==
    LET p == dispatcher.pos IN
    /\ dispatcher.busy = 0
    /\ p <= Len(sent) /\ p >= Oldest
    /\ dispatcher' = [dispatcher EXCEPT
          !.pos = p + 1,
          !.busy = IF kind[sent[p]] = "work" THEN sent[p] ELSE 0]
    /\ UNCHANGED <<kind, sent, inflight, events, saved, lost, session, connects, crashes>>

(* The in-memory dispatcher takes the next event from the channel, and     *)
(* claims it if it is work; a lagging one skips what it lost.              *)
Dispatch ==
    LET p == dispatcher.pos IN
    /\ dispatcher.busy = 0
    /\ p <= Len(sent)
    /\ dispatcher' = [dispatcher EXCEPT
          !.pos = IF p < Oldest THEN Oldest ELSE p + 1,
          !.skipped = @ \cup Skipped(p),
          !.busy = IF p >= Oldest /\ kind[sent[p]] = "work" THEN sent[p] ELSE 0]
    /\ UNCHANGED <<kind, sent, inflight, events, saved, lost, session, connects, crashes>>

(* handle_internal_work_event returns, with or without an error: the event *)
(* is not handled again.                                                   *)
HandleWork ==
    /\ dispatcher.busy # 0
    /\ dispatcher' = [dispatcher EXCEPT !.busy = 0, !.handled = @ \cup {dispatcher.busy}]
    /\ UNCHANGED <<kind, sent, inflight, events, saved, lost, session, connects, crashes>>

(* The snapshot task.                                                      *)
PersistEvents ==
    /\ saved # events
    /\ saved' = events
    /\ UNCHANGED <<kind, sent, inflight, events, lost, session, connects, dispatcher, crashes>>

(* The process dies: channel, sessions, dispatcher and the claims go; the  *)
(* list goes back to the saved one.  Nothing dispatches what it holds.     *)
Crash ==
    /\ crashes < MaxCrashes
    /\ crashes' = crashes + 1
    /\ sent' = <<>> /\ inflight' = {}
    /\ events' = saved
    /\ lost' = Pushed \ ToSet(saved)
    /\ session' = [s \in Sessions |-> Closed]
    /\ dispatcher' = [FreshDispatcher EXCEPT !.handled = dispatcher.handled,
                          !.skipped = Pushed \ dispatcher.handled]
    /\ UNCHANGED <<kind, saved, connects>>

Next ==
    \/ \E k \in Kinds : PushEventInner(k)
    \/ \E k \in Kinds \ {"work"} : PushEvent(k)
    \/ \E e \in Events : StoreEvent(e)
    \/ \E s \in Sessions : Connect(s) \/ Subscribe(s) \/ Receive(s) \/ Disconnect(s)
    \/ Dispatch \/ HandleWork
    \/ PersistEvents
    \/ Crash

(* The dispatcher's task runs, and its handlers return.                    *)
Fairness == WF_vars(Dispatch \/ HandleWork)

Spec == Init /\ [][Next]_vars /\ Fairness

-----------------------------------------------------------------------------
(* The values the variables take.                                          *)
TypeOK ==
    /\ kind \in [Events -> Kinds]
    /\ sent \in Seq(Events) /\ events \in Seq(Events) /\ saved \in Seq(Events)
    /\ inflight \subseteq Events /\ lost \subseteq Events
    /\ \A s \in Sessions : session[s].pos \in 1..(Len(sent) + 1)
    /\ dispatcher.pos \in 1..(Len(sent) + 1)
    /\ Len(events) = Cardinality(ToSet(events))

(* README.md:1097-1106, a session that lags is told and "must then recover *)
(* through REST": a subscribed session has got every stored event of its   *)
(* tenant, still finds it in the channel, or is told that it skipped some. *)
(* The one hole: a session that both connects and subscribes while an      *)
(* event is between the two halves of push_event gets it neither way.      *)
NoSilentGap ==
    \A s \in Sessions : session[s].state = "subscribed" =>
        \A e \in ToSet(events) : Own(e) =>
            \/ e \in session[s].seen \cup session[s].told \cup session[s].missed
            \/ \E i \in session[s].pos..Len(sent) : sent[i] = e

(* Every work event is handled by the dispatcher, unless it fell out of    *)
(* the channel or the process died first.                                  *)
WorkIsHandled ==
    \A e \in Events : (e \in ToSet(sent) /\ kind[e] = "work")
        ~> (e \in dispatcher.handled \cup dispatcher.skipped)
=============================================================================
