----------------------------- MODULE EventQueue -----------------------------
(***************************************************************************)
(* What the event pipeline promises, without snapshots, rows, locks,       *)
(* offsets or tasks: a durable queue that hands out each event at least    *)
(* once.  An event is saved before anyone may see it, its handler runs     *)
(* only until it is done, it is done only after a run, and an event that   *)
(* cannot be delivered is parked for an operator.  Nothing is ever taken   *)
(* back: a saved, done or parked event stays so.  EventPipeline implements *)
(* this.                                                                   *)
(***************************************************************************)
EXTENDS Naturals

CONSTANT Events

VARIABLES saved,   \* events a crash cannot lose
          runs,    \* how often the handler of each event was run
          done,    \* events that will not be handed out again
          parked   \* events an operator can find among the dead letters

vars == <<saved, runs, done, parked>>

Init ==
    /\ saved = {}
    /\ runs = [e \in Events |-> 0]
    /\ done = {}
    /\ parked = {}

Save(E) ==
    /\ saved' = saved \cup E
    /\ UNCHANGED <<runs, done, parked>>

HandOut(e) ==
    /\ e \in saved \ done
    /\ runs' = [runs EXCEPT ![e] = @ + 1]
    /\ UNCHANGED <<saved, done, parked>>

Finish(e) ==
    /\ e \in saved \ done
    /\ runs[e] > 0
    /\ done' = done \cup {e}
    /\ UNCHANGED <<saved, runs, parked>>

Park(e) ==
    /\ e \in saved
    /\ parked' = parked \cup {e}
    /\ UNCHANGED <<saved, runs, done>>

Next ==
    \/ \E E \in SUBSET Events : Save(E)
    \/ \E e \in Events : HandOut(e) \/ Finish(e) \/ Park(e)

Spec == Init /\ [][Next]_vars
=============================================================================
