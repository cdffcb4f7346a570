----------------------- MODULE ChannelLifecycleProofs -----------------------
(***************************************************************************)
(* Proofs about ChannelLifecycle, for every number of operator calls and   *)
(* faults.                                                                 *)
(*                                                                         *)
(* None of the three invariants is inductive.  That a start never replaces *)
(* a running client holds because starts exclude each other and nothing    *)
(* else makes a client run.  That dead session files stay marked, and that *)
(* a connected client's files are saved, rest on what ties the files, the  *)
(* client and the start in progress together: files that are still         *)
(* attached hold the credentials that were read from them, and whoever     *)
(* lost them started while a wipe was already decided.                     *)
(***************************************************************************)
EXTENDS ChannelLifecycle, TLAPS

(* Some connect has gone past its look at the status without a reset, or   *)
(* past its wipe.                                                          *)
PastReset == \E k \in Callers :
                call[k] \in {"take", "qr", "status", "desire", "start", "build"}

(* While start_channel awaits, it is alone and no client runs.             *)
StartIsAlone ==
    \A k \in Callers : call[k] = "build" =>
        /\ ~Live
        /\ \A j \in Callers : call[j] = "build" => j = k

(* Whoever has the session files open knows what is in them: a wipe        *)
(* detaches a start in progress and a running client.                      *)
FilesMatch(creds, attached) ==
    IF attached THEN session = creds ELSE session = "none"

OpenedMatches == (\E k \in Callers : call[k] = "build") => FilesMatch(opened.creds, opened.attached)
ClientMatches == Live => FilesMatch(client.creds, client.attached)

(* A wipe whose client is stopped has only the files left to remove.       *)
FilesGoNext == wipes.wipe > 0 \/ \E k \in Callers : call[k] = "wipe"

(* A start that overlaps a decided wipe is marked, and so is every client  *)
(* that comes up between the stop and the wipe; only the marked can have   *)
(* lost their files.                                                       *)
RacedOrAttached ==
    /\ \A k \in Callers : call[k] = "build" =>
          opened.raced \/ (opened.attached /\ ~WipeAhead)
    /\ Live => client.raced \/ (client.attached /\ ~FilesGoNext)

(* Dead files are marked; once a connect is past its reset, or a client    *)
(* runs, the flag is the only mark, because both overwrite the status.     *)
DeadIsMarked ==
    session = "dead" =>
        \/ forgotten
        \/ intent.needs_session_reset
        \/ Resetting
        \/ channel.status = "logged_out" /\ ~Live /\ ~PastReset

(* A connected client has live credentials.                                *)
ConnectedIsPaired == client.phase = "connected" => client.creds = "paired"

IInv ==
    /\ TypeOK
    /\ OneClient
    /\ StartIsAlone
    /\ OpenedMatches
    /\ ClientMatches
    /\ RacedOrAttached
    /\ DeadIsMarked
    /\ ConnectedIsPaired

-----------------------------------------------------------------------------
(* The records the actions write are of their types.                       *)
LEMMA RecordTypes ==
    /\ NoClient \in ClientType /\ NoIntent \in IntentType
    /\ TypeOK => /\ Reconciled \in ChannelType /\ AfterDisconnected \in ChannelType
                 /\ [opened EXCEPT !.attached = FALSE] \in OpenedType
<1>1. NoClient \in ClientType /\ NoIntent \in IntentType
  BY DEF NoClient, NoIntent, ClientType, IntentType, Credentials
<1> SUFFICES ASSUME TypeOK
             PROVE  /\ Reconciled \in ChannelType /\ AfterDisconnected \in ChannelType
                    /\ [opened EXCEPT !.attached = FALSE] \in OpenedType
  BY <1>1
<1>2. Reconciled \in ChannelType
  BY DEF TypeOK, Reconciled, ChannelType, Statuses
<1>3. AfterDisconnected \in ChannelType
  BY DEF TypeOK, AfterDisconnected, ChannelType, Statuses
<1>4. [opened EXCEPT !.attached = FALSE] \in OpenedType
  BY DEF TypeOK, OpenedType
<1> QED
  BY <1>2, <1>3, <1>4

LEMMA InitTypeOK == Init => TypeOK
<1> SUFFICES ASSUME Init PROVE TypeOK
  OBVIOUS
<1>1. channel \in ChannelType
  BY DEF Init, ChannelType, Statuses
<1>2. call \in [Callers -> Steps]
  BY DEF Init, Callers, Steps
<1>3. opened \in OpenedType
  BY DEF Init, NotOpened, OpenedType, Credentials
<1>4. session \in Credentials \cup {"none"}
  BY DEF Init, Credentials
<1>5. intent \in IntentType /\ client \in ClientType
  BY RecordTypes DEF Init
<1>6. ops \in 0..MaxOps /\ faults \in 0..MaxFaults
  BY ChannelAssumption DEF Init
<1>7. gaveUp \in BOOLEAN /\ forgotten \in BOOLEAN
  BY Zenon DEF Init
<1>8. wipes \in WipesType
  BY DEF Init, NoWipes, WipesType
<1> QED
  BY <1>1, <1>2, <1>3, <1>4, <1>5, <1>6, <1>7, <1>8 DEF Init, TypeOK

LEMMA NextTypeOK == TypeOK /\ [Next]_vars => TypeOK'
<1> SUFFICES ASSUME TypeOK, [Next]_vars PROVE TypeOK'
  OBVIOUS
<1> USE ChannelAssumption, RecordTypes DEF TypeOK, calls, tasks, history
<1>1. CASE CreateChannel
  <2>1. channel' \in ChannelType
    BY <1>1 DEF CreateChannel, ChannelType, Statuses
  <2> QED
    BY <1>1, <2>1 DEF CreateChannel
<1>2. CASE GetChannel
  BY <1>2 DEF GetChannel
<1>3. CASE GetQr
  <2>1. channel' \in ChannelType
    BY <1>3 DEF GetQr, ChannelType, Statuses
  <2> QED
    BY <1>3, <2>1 DEF GetQr
<1>4. CASE QrExpires
  <2>1. channel' \in ChannelType
    BY <1>4 DEF QrExpires, ChannelType, Statuses
  <2> QED
    BY <1>4, <2>1 DEF QrExpires
<1>5. CASE Connect
  <2>1. call' \in [Callers -> Steps]
    BY <1>5 DEF Connect, Callers, Steps
  <2>2. ops' \in 0..MaxOps /\ faults' \in 0..MaxFaults
    BY <1>5 DEF Connect, Operation
  <2> QED
    BY <1>5, <2>1, <2>2 DEF Connect
<1>6. CASE Disconnect
  <2>1. intent' \in IntentType
    BY <1>6 DEF Disconnect, IntentType
  <2>2. ops' \in 0..MaxOps /\ faults' \in 0..MaxFaults
    BY <1>6 DEF Disconnect, Operation
  <2> QED
    BY <1>6, <2>1, <2>2 DEF Disconnect
<1>7. CASE DisconnectStops
  <2>1. gaveUp' \in BOOLEAN
    BY <1>7, Zenon DEF DisconnectStops, StopRegardless
  <2> QED
    BY <1>7, <2>1 DEF DisconnectStops, StopRegardless
<1>8. CASE DisconnectShows
  <2>1. channel' \in ChannelType
    BY <1>8 DEF DisconnectShows, ChannelType, Statuses
  <2>2. forgotten' \in BOOLEAN
    BY <1>8, Zenon DEF DisconnectShows
  <2> QED
    BY <1>8, <2>1, <2>2 DEF DisconnectShows
<1>9. ASSUME NEW k \in Callers, ConnectChecks(k) PROVE TypeOK'
  <2>1. call' \in [Callers -> Steps]
    BY <1>9 DEF ConnectChecks, Steps
  <2> QED
    BY <1>9, <2>1 DEF ConnectChecks
<1>10. ASSUME NEW k \in Callers, ReadStatus(k) PROVE TypeOK'
  <2>1. call' \in [Callers -> Steps]
    BY <1>10 DEF ReadStatus, Steps
  <2> QED
    BY <1>10, <2>1 DEF ReadStatus
<1>11. ASSUME NEW k \in Callers, TakeReset(k) PROVE TypeOK'
  <2>1. call' \in [Callers -> Steps]
    BY <1>11 DEF TakeReset, Steps
  <2>2. intent' \in IntentType
    BY <1>11 DEF TakeReset, IntentType
  <2>3. opened' \in OpenedType
    BY <1>11 DEF TakeReset, OvertakeStart, OpenedType
  <2> QED
    BY <1>11, <2>1, <2>2, <2>3 DEF TakeReset
<1>12. ASSUME NEW k \in Callers, ResetStops(k) PROVE TypeOK'
  <2>1. call' \in [Callers -> Steps]
    BY <1>12 DEF ResetStops, Steps
  <2> QED
    BY <1>12, <2>1 DEF ResetStops
<1>13. ASSUME NEW k \in Callers, ResetWipes(k) PROVE TypeOK'
  <2>1. call' \in [Callers -> Steps]
    BY <1>13 DEF ResetWipes, Steps
  <2>2. client' \in ClientType
    BY <1>13 DEF ResetWipes, Wipe, ClientType
  <2>3. session' \in Credentials \cup {"none"}
    BY <1>13 DEF ResetWipes, Wipe
  <2>4. opened' \in OpenedType
    BY <1>13 DEF ResetWipes, Wipe
  <2>5. forgotten' \in BOOLEAN
    BY <1>13, Zenon DEF ResetWipes, Wipe
  <2> QED
    BY <1>13, <2>1, <2>2, <2>3, <2>4, <2>5 DEF ResetWipes
<1>14. ASSUME NEW k \in Callers, ShowConnecting(k) PROVE TypeOK'
  <2>1. call' \in [Callers -> Steps]
    BY <1>14 DEF ShowConnecting, Steps
  <2>2. channel' \in ChannelType
    BY <1>14 DEF ShowConnecting, ChannelType, Statuses
  <2> QED
    BY <1>14, <2>1, <2>2 DEF ShowConnecting
<1>15. ASSUME NEW k \in Callers, SetDesired(k) PROVE TypeOK'
  <2>1. call' \in [Callers -> Steps]
    BY <1>15 DEF SetDesired, Steps
  <2>2. intent' \in IntentType
    BY <1>15 DEF SetDesired, IntentType
  <2> QED
    BY <1>15, <2>1, <2>2 DEF SetDesired
<1>16. ASSUME NEW k \in Callers, StartChannel(k) PROVE TypeOK'
  <2>1. session' \in Credentials \cup {"none"}
    BY <1>16 DEF StartChannel, Credentials
  <2>2. opened' \in OpenedType
    <3>1. CASE Live
      BY <1>16, <3>1 DEF StartChannel
    <3>2. CASE ~Live
      <4>1. session' \in Credentials
        BY <1>16, <3>2 DEF StartChannel, Credentials
      <4>2. opened' = [creds |-> session', attached |-> TRUE, raced |-> WipeAhead]
        BY <1>16, <3>2 DEF StartChannel
      <4>3. WipeAhead \in BOOLEAN
        BY Zenon DEF WipeAhead
      <4> QED
        BY <4>1, <4>2, <4>3, Zenon DEF OpenedType
    <3> QED
      BY <3>1, <3>2
  <2>3. call' \in [Callers -> Steps]
    BY <1>16 DEF StartChannel, Steps
  <2> QED
    BY <1>16, <2>1, <2>2, <2>3 DEF StartChannel
<1>17. ASSUME NEW k \in Callers, BuildClient(k) PROVE TypeOK'
  <2>1. client' \in ClientType
    BY <1>17 DEF BuildClient, ClientType, OpenedType
  <2>2. orphans' \in Nat
    BY <1>17 DEF BuildClient
  <2>3. call' \in [Callers -> Steps]
    BY <1>17 DEF BuildClient, Steps
  <2> QED
    BY <1>17, <2>1, <2>2, <2>3 DEF BuildClient
<1>18. ASSUME NEW k \in Callers, BuildFails(k) PROVE TypeOK'
  <2>1. call' \in [Callers -> Steps]
    BY <1>18 DEF BuildFails, Steps
  <2>2. ops' \in 0..MaxOps /\ faults' \in 0..MaxFaults
    BY <1>18 DEF BuildFails, Fault
  <2>3. gaveUp' \in BOOLEAN
    BY <1>18, Zenon DEF BuildFails, Live
  <2> QED
    BY <1>18, <2>1, <2>2, <2>3 DEF BuildFails
<1>19. CASE PairingQrCode
  <2>1. channel' \in ChannelType
    BY <1>19 DEF PairingQrCode, ChannelType, Statuses
  <2> QED
    BY <1>19, <2>1 DEF PairingQrCode
<1>20. CASE Connected
  <2>1. channel' \in ChannelType
    BY <1>20 DEF Connected, ChannelType, Statuses
  <2>2. intent' \in IntentType
    BY <1>20 DEF Connected, IntentType
  <2>3. client' \in ClientType
    BY <1>20 DEF Connected, ClientType, Credentials
  <2>4. session' \in Credentials \cup {"none"}
    BY <1>20 DEF Connected, Credentials
  <2> QED
    BY <1>20, <2>1, <2>2, <2>3, <2>4 DEF Connected
<1>21. CASE Disconnected
  <2>1. client' \in ClientType
    BY <1>21 DEF Disconnected, ClientType, Credentials
  <2>2. ops' \in 0..MaxOps /\ faults' \in 0..MaxFaults
    BY <1>21 DEF Disconnected, Fault
  <2> QED
    BY <1>21, <2>1, <2>2 DEF Disconnected
<1>22. CASE LoggedOut
  <2>1. channel' \in ChannelType
    BY <1>22 DEF LoggedOut, ChannelType, Statuses
  <2>2. intent' \in IntentType
    BY <1>22 DEF LoggedOut, MarkLoggedOut, IntentType
  <2>3. client' \in ClientType
    BY <1>22 DEF LoggedOut, InvalidateCredentials, ClientType, Credentials
  <2>4. session' \in Credentials \cup {"none"}
    BY <1>22 DEF LoggedOut, InvalidateCredentials, Credentials
  <2>5. ops' \in 0..MaxOps /\ faults' \in 0..MaxFaults
    BY <1>22 DEF LoggedOut, InvalidateCredentials, Fault
  <2>6. forgotten' \in BOOLEAN
    BY <1>22, Zenon DEF LoggedOut, InvalidateCredentials
  <2>7. wipes' \in WipesType
    BY <1>22 DEF LoggedOut, WipesType
  <2> QED
    BY <1>22, <2>1, <2>2, <2>3, <2>4, <2>5, <2>6, <2>7 DEF LoggedOut
<1>23. CASE ConnectFailureLoggedOut
  <2>1. channel' \in ChannelType
    BY <1>23 DEF ConnectFailureLoggedOut, ChannelType, Statuses
  <2>2. intent' \in IntentType
    BY <1>23 DEF ConnectFailureLoggedOut, MarkLoggedOut, IntentType
  <2>3. client' \in ClientType
    BY <1>23 DEF ConnectFailureLoggedOut, InvalidateCredentials, ClientType, Credentials
  <2>4. session' \in Credentials \cup {"none"}
    BY <1>23 DEF ConnectFailureLoggedOut, InvalidateCredentials, Credentials
  <2>5. ops' \in 0..MaxOps /\ faults' \in 0..MaxFaults
    BY <1>23 DEF ConnectFailureLoggedOut, InvalidateCredentials, Fault
  <2>6. forgotten' \in BOOLEAN
    BY <1>23, Zenon DEF ConnectFailureLoggedOut, InvalidateCredentials
  <2> QED
    BY <1>23, <2>1, <2>2, <2>3, <2>4, <2>5, <2>6 DEF ConnectFailureLoggedOut
<1>24. CASE ConnectFailure
  <2>1. channel' \in ChannelType
    BY <1>24 DEF ConnectFailure, ChannelType, Statuses
  <2>2. ops' \in 0..MaxOps /\ faults' \in 0..MaxFaults
    BY <1>24 DEF ConnectFailure, Fault
  <2> QED
    BY <1>24, <2>1, <2>2 DEF ConnectFailure
<1>25. CASE BotStops
  <2>1. client' \in ClientType
    BY <1>25 DEF BotStops, ClientType, Credentials
  <2>2. ops' \in 0..MaxOps /\ faults' \in 0..MaxFaults
    BY <1>25 DEF BotStops, Fault
  <2> QED
    BY <1>25, <2>1, <2>2 DEF BotStops
<1>26. CASE RuntimeStopped
  <2>1. client' \in ClientType
    BY <1>26 DEF RuntimeStopped, ClientType, Credentials
  <2> QED
    BY <1>26, <2>1 DEF RuntimeStopped
<1>27. CASE TimerFires
  <2>1. call' \in [Callers -> Steps]
    BY <1>27 DEF TimerFires, Callers, Steps
  <2> QED
    BY <1>27, <2>1 DEF TimerFires
<1>28. CASE WipeWakes
  <2>1. wipes' \in WipesType
    <3>1. wipes.asleep - 1 \in Nat /\ wipes.stop + 1 \in Nat /\ wipes \in WipesType
      BY <1>28 DEF WipeWakes, WipesType
    <3>2. wipes' = [wipes EXCEPT !.asleep = wipes.asleep - 1]
          \/ wipes' = [wipes EXCEPT !.asleep = wipes.asleep - 1, !.stop = wipes.stop + 1]
      BY <1>28 DEF WipeWakes
    <3> QED
      BY <3>1, <3>2 DEF WipesType
  <2>2. opened' \in OpenedType
    BY <1>28 DEF WipeWakes, OvertakeStart, OpenedType
  <2> QED
    BY <1>28, <2>1, <2>2 DEF WipeWakes
<1>29. CASE WipeStops
  <2>1. wipes' \in WipesType
    <3>1. wipes.stop - 1 \in Nat /\ wipes.wipe + 1 \in Nat /\ wipes \in WipesType
      BY <1>29 DEF WipeStops, WipesType
    <3>2. wipes' = [wipes EXCEPT !.stop = wipes.stop - 1, !.wipe = wipes.wipe + 1]
      BY <1>29 DEF WipeStops
    <3> QED
      BY <3>1, <3>2 DEF WipesType
  <2>2. gaveUp' \in BOOLEAN
    BY <1>29, Zenon DEF WipeStops, StopRegardless
  <2> QED
    BY <1>29, <2>1, <2>2 DEF WipeStops, StopRegardless
<1>30. CASE DelayedWipe
  <2>1. wipes' \in WipesType
    BY <1>30 DEF DelayedWipe, WipesType
  <2>2. client' \in ClientType
    BY <1>30 DEF DelayedWipe, Wipe, ClientType
  <2>3. session' \in Credentials \cup {"none"}
    BY <1>30 DEF DelayedWipe, Wipe
  <2>4. opened' \in OpenedType
    BY <1>30 DEF DelayedWipe, Wipe
  <2>5. forgotten' \in BOOLEAN
    BY <1>30, Zenon DEF DelayedWipe, Wipe
  <2> QED
    BY <1>30, <2>1, <2>2, <2>3, <2>4, <2>5 DEF DelayedWipe
<1>31. CASE Persist
  BY <1>31 DEF Persist
<1>32. CASE Crash
  <2>1. channel' \in ChannelType
    BY <1>32 DEF Crash, ChannelType, Statuses
  <2>2. opened' \in OpenedType
    BY <1>32 DEF Crash, NotOpened, OpenedType, Credentials
  <2>3. call' \in [Callers -> Steps]
    BY <1>32 DEF Crash, Callers, Steps
  <2>4. ops' \in 0..MaxOps /\ faults' \in 0..MaxFaults
    BY <1>32 DEF Crash, Fault
  <2>5. wipes' \in WipesType
    BY <1>32 DEF Crash, NoWipes, WipesType
  <2>6. forgotten' \in BOOLEAN
    BY <1>32, Zenon DEF Crash
  <2> QED
    BY <1>32, <2>1, <2>2, <2>3, <2>4, <2>5, <2>6 DEF Crash
<1>33. CASE UNCHANGED vars
  BY <1>33 DEF vars
<1> QED
  BY <1>1, <1>2, <1>3, <1>4, <1>5, <1>6, <1>7, <1>8, <1>9, <1>10, <1>11, <1>12,
     <1>13, <1>14, <1>15, <1>16, <1>17, <1>18, <1>19, <1>20, <1>21, <1>22, <1>23,
     <1>24, <1>25, <1>26, <1>27, <1>28, <1>29, <1>30, <1>31, <1>32, <1>33
     DEF Next, ConnectSteps, DisconnectSteps, WipeSteps, ClientEvents
-----------------------------------------------------------------------------
(* Every step keeps the invariant.                                         *)
LEMMA NextStart ==
    (TypeOK /\ OneClient /\ StartIsAlone /\ [Next]_vars)
        => (OneClient /\ StartIsAlone)'
<1> SUFFICES ASSUME TypeOK, OneClient, StartIsAlone, [Next]_vars
             PROVE  (OneClient /\ StartIsAlone)'
  OBVIOUS
<1> USE DEF TypeOK, ChannelType, IntentType, ClientType, OpenedType, calls, tasks, history,
            Live, OneClient, StartIsAlone
<1>1. CASE CreateChannel
  BY <1>1 DEF CreateChannel
<1>2. CASE GetChannel
  BY <1>2 DEF GetChannel, Reconciled
<1>3. CASE GetQr
  BY <1>3 DEF GetQr, Reconciled
<1>4. CASE QrExpires
  BY <1>4 DEF QrExpires
<1>5. CASE Connect
  BY <1>5 DEF Connect, Operation
<1>6. CASE Disconnect
  BY <1>6 DEF Disconnect, Operation, Reconciled
<1>7. CASE DisconnectStops
  BY <1>7 DEF DisconnectStops, StopRegardless, NoClient
<1>8. CASE DisconnectShows
  BY <1>8 DEF DisconnectShows
<1>9. ASSUME NEW k \in Callers, ConnectChecks(k) PROVE (OneClient /\ StartIsAlone)'
  BY <1>9 DEF ConnectChecks, Reconciled, NoClient
<1>10. ASSUME NEW k \in Callers, ReadStatus(k) PROVE (OneClient /\ StartIsAlone)'
  BY <1>10 DEF ReadStatus
<1>11. ASSUME NEW k \in Callers, TakeReset(k) PROVE (OneClient /\ StartIsAlone)'
  BY <1>11 DEF TakeReset, OvertakeStart
<1>12. ASSUME NEW k \in Callers, ResetStops(k) PROVE (OneClient /\ StartIsAlone)'
  BY <1>12 DEF ResetStops, NoClient
<1>13. ASSUME NEW k \in Callers, ResetWipes(k) PROVE (OneClient /\ StartIsAlone)'
  BY <1>13 DEF ResetWipes, Wipe
<1>14. ASSUME NEW k \in Callers, ShowConnecting(k) PROVE (OneClient /\ StartIsAlone)'
  BY <1>14 DEF ShowConnecting
<1>15. ASSUME NEW k \in Callers, SetDesired(k) PROVE (OneClient /\ StartIsAlone)'
  BY <1>15 DEF SetDesired
<1>16. ASSUME NEW k \in Callers, StartChannel(k) PROVE (OneClient /\ StartIsAlone)'
  BY <1>16 DEF StartChannel, NoClient
<1>17. ASSUME NEW k \in Callers, BuildClient(k) PROVE (OneClient /\ StartIsAlone)'
  BY <1>17 DEF BuildClient
<1>18. ASSUME NEW k \in Callers, BuildFails(k) PROVE (OneClient /\ StartIsAlone)'
  BY <1>18 DEF BuildFails
<1>19. CASE PairingQrCode
  BY <1>19 DEF PairingQrCode
<1>20. CASE Connected
  BY <1>20 DEF Connected
<1>21. CASE Disconnected
  BY <1>21 DEF Disconnected, AfterDisconnected
<1>22. CASE LoggedOut
  BY <1>22 DEF LoggedOut, InvalidateCredentials, MarkLoggedOut
<1>23. CASE ConnectFailureLoggedOut
  BY <1>23 DEF ConnectFailureLoggedOut, InvalidateCredentials, MarkLoggedOut
<1>24. CASE ConnectFailure
  BY <1>24 DEF ConnectFailure
<1>25. CASE BotStops
  BY <1>25 DEF BotStops, AfterDisconnected
<1>26. CASE RuntimeStopped
  BY <1>26 DEF RuntimeStopped
<1>27. CASE TimerFires
  BY <1>27 DEF TimerFires, Callers
<1>28. CASE WipeWakes
  BY <1>28 DEF WipeWakes, OvertakeStart
<1>29. CASE WipeStops
  BY <1>29 DEF WipeStops, StopRegardless, NoClient
<1>30. CASE DelayedWipe
  BY <1>30 DEF DelayedWipe, Wipe
<1>31. CASE Persist
  BY <1>31 DEF Persist
<1>32. CASE Crash
  BY <1>32 DEF Crash, NoIntent, NoClient, NoWipes, NotOpened
<1>33. CASE UNCHANGED vars
  BY <1>33 DEF vars
<1> QED
  BY <1>1, <1>2, <1>3, <1>4, <1>5, <1>6, <1>7, <1>8, <1>9, <1>10, <1>11, <1>12,
     <1>13, <1>14, <1>15, <1>16, <1>17, <1>18, <1>19, <1>20, <1>21, <1>22, <1>23,
     <1>24, <1>25, <1>26, <1>27, <1>28, <1>29, <1>30, <1>31, <1>32, <1>33
     DEF Next, ConnectSteps, DisconnectSteps, WipeSteps, ClientEvents

LEMMA NextFiles ==
    (TypeOK /\ StartIsAlone /\ OpenedMatches /\ ClientMatches /\ [Next]_vars)
        => (OpenedMatches /\ ClientMatches)'
<1> SUFFICES ASSUME TypeOK, StartIsAlone, OpenedMatches, ClientMatches, [Next]_vars
             PROVE  (OpenedMatches /\ ClientMatches)'
  OBVIOUS
<1> USE DEF TypeOK, ChannelType, IntentType, ClientType, OpenedType, calls, tasks, history,
            Live, StartIsAlone, OpenedMatches, ClientMatches, FilesMatch
<1>1. CASE CreateChannel
  BY <1>1 DEF CreateChannel
<1>2. CASE GetChannel
  BY <1>2 DEF GetChannel, Reconciled
<1>3. CASE GetQr
  BY <1>3 DEF GetQr, Reconciled
<1>4. CASE QrExpires
  BY <1>4 DEF QrExpires
<1>5. CASE Connect
  BY <1>5 DEF Connect, Operation
<1>6. CASE Disconnect
  BY <1>6 DEF Disconnect, Operation, Reconciled
<1>7. CASE DisconnectStops
  BY <1>7 DEF DisconnectStops, StopRegardless, NoClient
<1>8. CASE DisconnectShows
  BY <1>8 DEF DisconnectShows
<1>9. ASSUME NEW k \in Callers, ConnectChecks(k) PROVE (OpenedMatches /\ ClientMatches)'
  BY <1>9 DEF ConnectChecks, Reconciled, NoClient
<1>10. ASSUME NEW k \in Callers, ReadStatus(k) PROVE (OpenedMatches /\ ClientMatches)'
  BY <1>10 DEF ReadStatus
<1>11. ASSUME NEW k \in Callers, TakeReset(k) PROVE (OpenedMatches /\ ClientMatches)'
  BY <1>11 DEF TakeReset, OvertakeStart
<1>12. ASSUME NEW k \in Callers, ResetStops(k) PROVE (OpenedMatches /\ ClientMatches)'
  BY <1>12 DEF ResetStops, NoClient
<1>13. ASSUME NEW k \in Callers, ResetWipes(k) PROVE (OpenedMatches /\ ClientMatches)'
  BY <1>13 DEF ResetWipes, Wipe
<1>14. ASSUME NEW k \in Callers, ShowConnecting(k) PROVE (OpenedMatches /\ ClientMatches)'
  BY <1>14 DEF ShowConnecting
<1>15. ASSUME NEW k \in Callers, SetDesired(k) PROVE (OpenedMatches /\ ClientMatches)'
  BY <1>15 DEF SetDesired
<1>16. ASSUME NEW k \in Callers, StartChannel(k) PROVE (OpenedMatches /\ ClientMatches)'
  BY <1>16 DEF StartChannel, NoClient
<1>17. ASSUME NEW k \in Callers, BuildClient(k) PROVE (OpenedMatches /\ ClientMatches)'
  BY <1>17 DEF BuildClient
<1>18. ASSUME NEW k \in Callers, BuildFails(k) PROVE (OpenedMatches /\ ClientMatches)'
  BY <1>18 DEF BuildFails
<1>19. CASE PairingQrCode
  BY <1>19 DEF PairingQrCode
<1>20. CASE Connected
  BY <1>20 DEF Connected
<1>21. CASE Disconnected
  BY <1>21 DEF Disconnected, AfterDisconnected
<1>22. CASE LoggedOut
  BY <1>22 DEF LoggedOut, InvalidateCredentials, MarkLoggedOut
<1>23. CASE ConnectFailureLoggedOut
  BY <1>23 DEF ConnectFailureLoggedOut, InvalidateCredentials, MarkLoggedOut
<1>24. CASE ConnectFailure
  BY <1>24 DEF ConnectFailure
<1>25. CASE BotStops
  BY <1>25 DEF BotStops, AfterDisconnected
<1>26. CASE RuntimeStopped
  BY <1>26 DEF RuntimeStopped
<1>27. CASE TimerFires
  BY <1>27 DEF TimerFires, Callers
<1>28. CASE WipeWakes
  BY <1>28 DEF WipeWakes, OvertakeStart
<1>29. CASE WipeStops
  BY <1>29 DEF WipeStops, StopRegardless, NoClient
<1>30. CASE DelayedWipe
  BY <1>30 DEF DelayedWipe, Wipe
<1>31. CASE Persist
  BY <1>31 DEF Persist
<1>32. CASE Crash
  BY <1>32 DEF Crash, NoIntent, NoClient, NoWipes, NotOpened
<1>33. CASE UNCHANGED vars
  BY <1>33 DEF vars
<1> QED
  BY <1>1, <1>2, <1>3, <1>4, <1>5, <1>6, <1>7, <1>8, <1>9, <1>10, <1>11, <1>12,
     <1>13, <1>14, <1>15, <1>16, <1>17, <1>18, <1>19, <1>20, <1>21, <1>22, <1>23,
     <1>24, <1>25, <1>26, <1>27, <1>28, <1>29, <1>30, <1>31, <1>32, <1>33
     DEF Next, ConnectSteps, DisconnectSteps, WipeSteps, ClientEvents

LEMMA NextRaced ==
    (TypeOK /\ StartIsAlone /\ RacedOrAttached /\ [Next]_vars)
        => (RacedOrAttached)'
<1> SUFFICES ASSUME TypeOK, StartIsAlone, RacedOrAttached, [Next]_vars
             PROVE  (RacedOrAttached)'
  OBVIOUS
<1> USE DEF TypeOK, ChannelType, IntentType, ClientType, OpenedType, calls, tasks, history,
            Live, StartIsAlone, RacedOrAttached, WipesType, WipeAhead, Resetting, FilesGoNext
<1>1. CASE CreateChannel
  BY <1>1 DEF CreateChannel
<1>2. CASE GetChannel
  BY <1>2 DEF GetChannel, Reconciled
<1>3. CASE GetQr
  BY <1>3 DEF GetQr, Reconciled
<1>4. CASE QrExpires
  BY <1>4 DEF QrExpires
<1>5. CASE Connect
  BY <1>5 DEF Connect, Operation
<1>6. CASE Disconnect
  BY <1>6 DEF Disconnect, Operation, Reconciled
<1>7. CASE DisconnectStops
  BY <1>7 DEF DisconnectStops, StopRegardless, NoClient
<1>8. CASE DisconnectShows
  BY <1>8 DEF DisconnectShows
<1>9. ASSUME NEW k \in Callers, ConnectChecks(k) PROVE (RacedOrAttached)'
  BY <1>9 DEF ConnectChecks, Reconciled, NoClient
<1>10. ASSUME NEW k \in Callers, ReadStatus(k) PROVE (RacedOrAttached)'
  BY <1>10 DEF ReadStatus
<1>11. ASSUME NEW k \in Callers, TakeReset(k) PROVE (RacedOrAttached)'
  BY <1>11 DEF TakeReset, OvertakeStart
<1>12. ASSUME NEW k \in Callers, ResetStops(k) PROVE (RacedOrAttached)'
  BY <1>12 DEF ResetStops, NoClient
<1>13. ASSUME NEW k \in Callers, ResetWipes(k) PROVE (RacedOrAttached)'
  BY <1>13 DEF ResetWipes, Wipe
<1>14. ASSUME NEW k \in Callers, ShowConnecting(k) PROVE (RacedOrAttached)'
  BY <1>14 DEF ShowConnecting
<1>15. ASSUME NEW k \in Callers, SetDesired(k) PROVE (RacedOrAttached)'
  BY <1>15 DEF SetDesired
<1>16. ASSUME NEW k \in Callers, StartChannel(k) PROVE (RacedOrAttached)'
  <2>1. CASE Live
    BY <1>16, <2>1 DEF StartChannel
  <2>2. CASE ~Live
    <3>1. opened'.attached = TRUE /\ opened'.raced = WipeAhead
      BY <1>16, <2>2 DEF StartChannel
    <3>2. ~Live' /\ wipes' = wipes
      BY <1>16, <2>2 DEF StartChannel, NoClient
    <3>3. \A j \in Callers : call'[j] \in {"stop", "wipe"} => call[j] \in {"stop", "wipe"}
      BY <1>16, <2>2 DEF StartChannel
    <3>4. WipeAhead' => WipeAhead
      BY <3>2, <3>3
    <3>5. opened'.raced \/ (opened'.attached /\ ~WipeAhead')
      BY <3>1, <3>4
    <3> QED
      BY <3>2, <3>5
  <2> QED
    BY <2>1, <2>2
<1>17. ASSUME NEW k \in Callers, BuildClient(k) PROVE (RacedOrAttached)'
  BY <1>17 DEF BuildClient
<1>18. ASSUME NEW k \in Callers, BuildFails(k) PROVE (RacedOrAttached)'
  BY <1>18 DEF BuildFails
<1>19. CASE PairingQrCode
  BY <1>19 DEF PairingQrCode
<1>20. CASE Connected
  BY <1>20 DEF Connected
<1>21. CASE Disconnected
  BY <1>21 DEF Disconnected, AfterDisconnected
<1>22. CASE LoggedOut
  BY <1>22 DEF LoggedOut, InvalidateCredentials, MarkLoggedOut
<1>23. CASE ConnectFailureLoggedOut
  BY <1>23 DEF ConnectFailureLoggedOut, InvalidateCredentials, MarkLoggedOut
<1>24. CASE ConnectFailure
  BY <1>24 DEF ConnectFailure
<1>25. CASE BotStops
  BY <1>25 DEF BotStops, AfterDisconnected
<1>26. CASE RuntimeStopped
  BY <1>26 DEF RuntimeStopped
<1>27. CASE TimerFires
  BY <1>27 DEF TimerFires, Callers
<1>28. CASE WipeWakes
  BY <1>28 DEF WipeWakes, OvertakeStart
<1>29. CASE WipeStops
  BY <1>29 DEF WipeStops, StopRegardless, NoClient
<1>30. CASE DelayedWipe
  BY <1>30 DEF DelayedWipe, Wipe
<1>31. CASE Persist
  BY <1>31 DEF Persist
<1>32. CASE Crash
  BY <1>32 DEF Crash, NoIntent, NoClient, NoWipes, NotOpened
<1>33. CASE UNCHANGED vars
  BY <1>33 DEF vars
<1> QED
  BY <1>1, <1>2, <1>3, <1>4, <1>5, <1>6, <1>7, <1>8, <1>9, <1>10, <1>11, <1>12,
     <1>13, <1>14, <1>15, <1>16, <1>17, <1>18, <1>19, <1>20, <1>21, <1>22, <1>23,
     <1>24, <1>25, <1>26, <1>27, <1>28, <1>29, <1>30, <1>31, <1>32, <1>33
     DEF Next, ConnectSteps, DisconnectSteps, WipeSteps, ClientEvents

LEMMA NextDead ==
    (/\ TypeOK /\ StartIsAlone /\ OpenedMatches /\ ClientMatches /\ DeadIsMarked
     /\ ConnectedIsPaired /\ [Next]_vars)
        => (DeadIsMarked /\ ConnectedIsPaired)'
<1> SUFFICES ASSUME TypeOK, StartIsAlone, OpenedMatches, ClientMatches, DeadIsMarked,
                    ConnectedIsPaired, [Next]_vars
             PROVE  (DeadIsMarked /\ ConnectedIsPaired)'
  OBVIOUS
<1> USE DEF TypeOK, ChannelType, IntentType, ClientType, OpenedType, calls, tasks, history,
            Live, StartIsAlone, OpenedMatches, ClientMatches, FilesMatch, DeadIsMarked,
            ConnectedIsPaired, PastReset, Resetting
<1>1. CASE CreateChannel
  BY <1>1 DEF CreateChannel
<1>2. CASE GetChannel
  BY <1>2 DEF GetChannel, Reconciled
<1>3. CASE GetQr
  BY <1>3 DEF GetQr, Reconciled
<1>4. CASE QrExpires
  BY <1>4 DEF QrExpires
<1>5. CASE Connect
  BY <1>5 DEF Connect, Operation
<1>6. CASE Disconnect
  BY <1>6 DEF Disconnect, Operation, Reconciled
<1>7. CASE DisconnectStops
  BY <1>7 DEF DisconnectStops, StopRegardless, NoClient
<1>8. CASE DisconnectShows
  BY <1>8 DEF DisconnectShows
<1>9. ASSUME NEW k \in Callers, ConnectChecks(k) PROVE (DeadIsMarked /\ ConnectedIsPaired)'
  BY <1>9 DEF ConnectChecks, Reconciled, NoClient
<1>10. ASSUME NEW k \in Callers, ReadStatus(k) PROVE (DeadIsMarked /\ ConnectedIsPaired)'
  BY <1>10 DEF ReadStatus
<1>11. ASSUME NEW k \in Callers, TakeReset(k) PROVE (DeadIsMarked /\ ConnectedIsPaired)'
  BY <1>11 DEF TakeReset, OvertakeStart
<1>12. ASSUME NEW k \in Callers, ResetStops(k) PROVE (DeadIsMarked /\ ConnectedIsPaired)'
  BY <1>12 DEF ResetStops, NoClient
<1>13. ASSUME NEW k \in Callers, ResetWipes(k) PROVE (DeadIsMarked /\ ConnectedIsPaired)'
  BY <1>13 DEF ResetWipes, Wipe
<1>14. ASSUME NEW k \in Callers, ShowConnecting(k) PROVE (DeadIsMarked /\ ConnectedIsPaired)'
  BY <1>14 DEF ShowConnecting
<1>15. ASSUME NEW k \in Callers, SetDesired(k) PROVE (DeadIsMarked /\ ConnectedIsPaired)'
  BY <1>15 DEF SetDesired
<1>16. ASSUME NEW k \in Callers, StartChannel(k) PROVE (DeadIsMarked /\ ConnectedIsPaired)'
  BY <1>16 DEF StartChannel, NoClient
<1>17. ASSUME NEW k \in Callers, BuildClient(k) PROVE (DeadIsMarked /\ ConnectedIsPaired)'
  BY <1>17 DEF BuildClient
<1>18. ASSUME NEW k \in Callers, BuildFails(k) PROVE (DeadIsMarked /\ ConnectedIsPaired)'
  BY <1>18 DEF BuildFails
<1>19. CASE PairingQrCode
  BY <1>19 DEF PairingQrCode
<1>20. CASE Connected
  BY <1>20 DEF Connected
<1>21. CASE Disconnected
  BY <1>21 DEF Disconnected, AfterDisconnected
<1>22. CASE LoggedOut
  BY <1>22 DEF LoggedOut, InvalidateCredentials, MarkLoggedOut
<1>23. CASE ConnectFailureLoggedOut
  BY <1>23 DEF ConnectFailureLoggedOut, InvalidateCredentials, MarkLoggedOut
<1>24. CASE ConnectFailure
  BY <1>24 DEF ConnectFailure
<1>25. CASE BotStops
  BY <1>25 DEF BotStops, AfterDisconnected
<1>26. CASE RuntimeStopped
  BY <1>26 DEF RuntimeStopped
<1>27. CASE TimerFires
  BY <1>27 DEF TimerFires, Callers
<1>28. CASE WipeWakes
  BY <1>28 DEF WipeWakes, OvertakeStart
<1>29. CASE WipeStops
  BY <1>29 DEF WipeStops, StopRegardless, NoClient
<1>30. CASE DelayedWipe
  BY <1>30 DEF DelayedWipe, Wipe
<1>31. CASE Persist
  BY <1>31 DEF Persist
<1>32. CASE Crash
  BY <1>32 DEF Crash, NoIntent, NoClient, NoWipes, NotOpened
<1>33. CASE UNCHANGED vars
  BY <1>33 DEF vars
<1> QED
  BY <1>1, <1>2, <1>3, <1>4, <1>5, <1>6, <1>7, <1>8, <1>9, <1>10, <1>11, <1>12,
     <1>13, <1>14, <1>15, <1>16, <1>17, <1>18, <1>19, <1>20, <1>21, <1>22, <1>23,
     <1>24, <1>25, <1>26, <1>27, <1>28, <1>29, <1>30, <1>31, <1>32, <1>33
     DEF Next, ConnectSteps, DisconnectSteps, WipeSteps, ClientEvents

LEMMA InitIInv == Init => IInv
<1> SUFFICES ASSUME Init PROVE IInv
  OBVIOUS
<1>1. TypeOK
  BY InitTypeOK
<1>2. ~Live /\ (\A k \in Callers : call[k] \in {"idle", "called"})
  BY DEF Init, Live, NoClient
<1>3. session # "dead" /\ client.phase # "connected" /\ orphans = 0
  BY DEF Init, NoIntent, NoClient
<1> QED
  BY <1>1, <1>2, <1>3 DEF IInv, OneClient, StartIsAlone, OpenedMatches, ClientMatches,
     RacedOrAttached, DeadIsMarked, ConnectedIsPaired

LEMMA NextIInv == IInv /\ [Next]_vars => IInv'
  BY NextTypeOK, NextStart, NextFiles, NextRaced, NextDead DEF IInv

(* The inductive invariant holds throughout.                               *)
LEMMA Invariance == Spec => []IInv
  BY InitIInv, NextIInv, PTL DEF Spec

-----------------------------------------------------------------------------
(* whatsapp.rs:440: however operator, bootstrap and reconnect timer race   *)
(* through connect_channel, start_channel never inserts a client over one  *)
(* that still runs.                                                        *)
THEOREM NeverTwoClients == Spec => []OneClient
<1>1. IInv => OneClient
  BY DEF IInv
<1> QED
  BY Invariance, <1>1, PTL

(* whatsapp.rs:268: session files whose credentials WhatsApp invalidated   *)
(* stay marked for a wipe by needs_session_reset or the logged_out status, *)
(* or are being wiped, unless a crash lost the mark.                       *)
THEOREM DeadSessionsStayFlagged == Spec => []DeadSessionIsFlagged
<1>1. IInv => DeadSessionIsFlagged
  BY DEF IInv, DeadIsMarked, DeadSessionIsFlagged
<1> QED
  BY Invariance, <1>1, PTL

(* The delayed wipe of a logout and the reset of a connect never take the  *)
(* session files of a connected client, unless its start overlapped the    *)
(* wipe: each stops the client before it removes the files.                *)
THEOREM ConnectedSessionsAreSaved == Spec => []ConnectedSessionIsSaved
<1>1. IInv => ConnectedSessionIsSaved
  BY DEF IInv, ConnectedSessionIsSaved, ClientMatches, FilesMatch, RacedOrAttached,
     ConnectedIsPaired, Live
<1> QED
  BY Invariance, <1>1, PTL
=============================================================================
