-------------------------- MODULE ChannelLifecycle --------------------------
(***************************************************************************)
(* One WhatsApp channel of RustZap: the status and the QR code the API     *)
(* shows (src/src/state.rs), the WhatsappManager that owns the client, its *)
(* reconnect intent and the session files (src/src/whatsapp.rs).           *)
(*                                                                         *)
(* connect_channel runs concurrently for the operator, for a reconnect     *)
(* timer and, before the server listens, for the bootstrap.  It, the       *)
(* disconnect and the delayed wipe after a logout are split wherever they  *)
(* release one lock and take the next.  The client reports events; its     *)
(* task, the reconnect timer and the delayed wipes are tasks of their own. *)
(* Events are handled in the process that gets them (no Kafka worker in    *)
(* between); each handler is one step.  Times (QR life, 1 s wipe delay, 5  *)
(* to 300 s back-off, 2 s margin of an active QR code) are abstracted to   *)
(* "some time later".  The whatsapp-rust client is external.               *)
(***************************************************************************)
EXTENDS Naturals

CONSTANTS
    MaxOps,      \* bound: operator calls of connect and disconnect
    MaxFaults    \* bound: drops, logouts, stops, failed starts and crashes

ASSUME ChannelAssumption == MaxOps \in Nat /\ MaxFaults \in Nat

VARIABLES
    channel,    \* memory: status and QR entry of the channel
    snapshot,   \* the metadata_snapshots row
    intent,     \* WhatsappManager.intents
    client,     \* WhatsappManager.supervisors and the task of its client
    orphans,    \* live client tasks that are no longer in supervisors
    session,    \* the session files: none, blank, paired or dead
    opened,     \* what the start in progress opened
    call,       \* where each caller is in connect_channel
    closing,    \* where the operator is in disconnect_channel
    timers,     \* reconnect timers that sleep
    wipes,      \* delayed wipes: how many sleep, will stop, will wipe
    gaveUp,     \* history: the last connect ended, or was overtaken, without a client
    forgotten,  \* history: a crash, or a disconnect after it, lost the logout
    ops, faults \* bounded counters

vars == <<channel, snapshot, intent, client, orphans, session, opened, call,
          closing, timers, wipes, gaveUp, forgotten, ops, faults>>
calls == <<call, closing>>
tasks == <<timers, wipes>>
history == <<gaveUp, forgotten>>

Callers == {"operator", "timer", "bootstrap"}
Statuses == {"absent", "disconnected", "connecting", "waiting_qr", "connected", "logged_out"}
Credentials == {"blank", "paired", "dead"}
NoClient == [phase |-> "none", creds |-> "blank", attached |-> FALSE, raced |-> FALSE]
NotOpened == [creds |-> "blank", attached |-> FALSE, raced |-> FALSE]
NoIntent == [desired |-> FALSE, needs_session_reset |-> FALSE, has_connected |-> FALSE]

NoWipes == [asleep |-> 0, stop |-> 0, wipe |-> 0]

(* is_channel_active: the task has not finished.                           *)
Live == client.phase \in {"up", "connected", "ending"}

(* The server listens once bootstrap_existing_sessions has returned.       *)
Serving == call["bootstrap"] = "idle"
Operation == Serving /\ ops < MaxOps /\ ops' = ops + 1
Fault == faults < MaxFaults /\ faults' = faults + 1

(* A new installation, or a restart that finds session files.              *)
Init ==
    /\ \/ /\ session = "none"
          /\ channel = [status |-> "absent", qr |-> "none"]
          /\ call = [k \in Callers |-> "idle"]
       \/ /\ session = "paired"
          /\ channel \in [status : {"connected", "disconnected"}, qr : {"none", "fresh"}]
          /\ call = [k \in Callers |-> IF k = "bootstrap" THEN "called" ELSE "idle"]
    /\ snapshot = channel
    /\ intent = NoIntent
    /\ client = NoClient
    /\ orphans = 0
    /\ opened = NotOpened
    /\ closing = "idle"
    /\ timers = 0 /\ wipes = NoWipes
    /\ gaveUp = FALSE /\ forgotten = FALSE
    /\ ops = 0 /\ faults = 0

-----------------------------------------------------------------------------
(* create_channel: an existing channel keeps its status.                   *)
CreateChannel ==
    /\ Serving
    /\ channel.status = "absent"
    /\ channel' = [channel EXCEPT !.status = "disconnected"]
    /\ UNCHANGED <<snapshot, intent, client, orphans, session, opened, calls, tasks,
                   history, ops, faults>>

(* reconcile_channel_runtime_status: connected without a connected client  *)
(* becomes disconnected, and the QR entry is replaced.                     *)
Reconciled ==
    IF channel.status = "connected" /\ client.phase # "connected"
    THEN [status |-> "disconnected", qr |-> "none"] ELSE channel

(* channel_for_company, as every read of the channel does it.              *)
GetChannel ==
    /\ Serving
    /\ channel' = Reconciled
    /\ UNCHANGED <<snapshot, intent, client, orphans, session, opened, calls, tasks,
                   history, ops, faults>>

(* qr: an expired code is dropped, and a pairing that waited for it ends.  *)
GetQr ==
    /\ Serving
    /\ Reconciled.status # "connected"
    /\ channel' = IF Reconciled.qr = "expired"
                  THEN [status |-> IF Reconciled.status \in {"connecting", "waiting_qr"}
                                   THEN "disconnected" ELSE Reconciled.status,
                        qr |-> "none"]
                  ELSE Reconciled
    /\ UNCHANGED <<snapshot, intent, client, orphans, session, opened, calls, tasks,
                   history, ops, faults>>

QrExpires ==
    /\ channel.qr = "fresh"
    /\ channel' = [channel EXCEPT !.qr = "expired"]
    /\ UNCHANGED <<snapshot, intent, client, orphans, session, opened, calls, tasks,
                   history, ops, faults>>

-----------------------------------------------------------------------------
(* An operator calls connect_channel.                                      *)
Connect ==
    /\ channel.status # "absent"
    /\ call["operator"] = "idle"
    /\ Operation
    /\ call' = [call EXCEPT !["operator"] = "called"]
    /\ UNCHANGED <<channel, snapshot, intent, client, orphans, session, opened, closing,
                   tasks, history, faults>>

(* connect_channel, up to the QR checks: a connected channel and an active *)
(* QR code are answered at once; an expired code stops its client.  The    *)
(* reconciliation inside channel_for_company leaves "connected" only beside *)
(* a connected client, so that mark_connected has nothing left to change.  *)
ConnectChecks(k) ==
    /\ call[k] = "called"
    /\ channel' = Reconciled
    /\ \/ /\ Reconciled.status = "connected" \/ Reconciled.qr = "fresh"
          /\ call' = [call EXCEPT ![k] = "idle"]
          /\ gaveUp' = ~Live
          /\ UNCHANGED client
       \/ /\ Reconciled.status # "connected" /\ Reconciled.qr # "fresh"
          /\ call' = [call EXCEPT ![k] = "reset"]
          /\ client' = IF Reconciled.qr = "expired" THEN NoClient ELSE client
          /\ UNCHANGED gaveUp
    /\ UNCHANGED <<snapshot, intent, orphans, session, opened, closing, tasks, forgotten,
                   ops, faults>>

(* A caller has taken the reset flag, or seen the logout, and has not yet  *)
(* removed the files.                                                      *)
Resetting == \E k \in Callers : call[k] \in {"stop", "wipe"}

(* A wipe is decided and not yet carried out.                              *)
WipeAhead == Resetting \/ wipes.stop > 0 \/ wipes.wipe > 0

(* A start in progress when a wipe is decided may lose its files to it.    *)
OvertakeStart == opened' = [opened EXCEPT !.raced = TRUE]

(* wipe_session_files: a client or a start that has the files open goes on *)
(* with files that are no longer there.                                    *)
Wipe ==
    /\ session' = "none"
    /\ opened' = [opened EXCEPT !.attached = FALSE]
    /\ client' = [client EXCEPT !.attached = FALSE]
    /\ forgotten' = FALSE

(* connect_channel reads the status.                                       *)
ReadStatus(k) ==
    /\ call[k] = "reset"
    /\ call' = [call EXCEPT ![k] = IF channel.status = "logged_out"
                                   THEN "take_logged_out" ELSE "take"]
    /\ UNCHANGED <<channel, snapshot, intent, client, orphans, session, opened, closing,
                   tasks, history, ops, faults>>

(* Mutant: the flag is taken but only the status looked at.                *)
TakeResetIgnoresFlag(k) ==
    /\ call[k] \in {"take", "take_logged_out"}
    /\ intent' = [intent EXCEPT !.needs_session_reset = FALSE]
    /\ \/ /\ call[k] = "take_logged_out"
          /\ call' = [call EXCEPT ![k] = "stop"]
          /\ OvertakeStart
       \/ /\ call[k] = "take"
          /\ call' = [call EXCEPT ![k] = "qr"]
          /\ UNCHANGED opened
    /\ UNCHANGED <<channel, snapshot, client, orphans, session, closing, tasks, history,
                   ops, faults>>

(* take_needs_session_reset || logged_out.                                 *)
TakeReset(k) ==
    /\ call[k] \in {"take", "take_logged_out"}
    /\ intent' = [intent EXCEPT !.needs_session_reset = FALSE]
    /\ \/ /\ intent.needs_session_reset \/ call[k] = "take_logged_out"
          /\ call' = [call EXCEPT ![k] = "stop"]
          /\ OvertakeStart
       \/ /\ ~intent.needs_session_reset /\ call[k] = "take"
          /\ call' = [call EXCEPT ![k] = "qr"]
          /\ UNCHANGED opened
    /\ UNCHANGED <<channel, snapshot, client, orphans, session, closing, tasks, history,
                   ops, faults>>

(* The reset stops the client ...                                          *)
ResetStops(k) ==
    /\ call[k] = "stop"
    /\ call' = [call EXCEPT ![k] = "wipe"]
    /\ client' = NoClient
    /\ UNCHANGED <<channel, snapshot, intent, orphans, session, opened, closing, tasks,
                   history, ops, faults>>

(* ... and wipes its files.                                                *)
ResetWipes(k) ==
    /\ call[k] = "wipe"
    /\ call' = [call EXCEPT ![k] = "qr"]
    /\ Wipe
    /\ UNCHANGED <<channel, snapshot, intent, orphans, closing, tasks, gaveUp, ops, faults>>

(* set_qr and, under the lock taken anew, set_channel_status.              *)
ShowConnecting(k) ==
    /\ \/ /\ call[k] = "qr"
          /\ channel' = [channel EXCEPT !.qr = "none"]
          /\ call' = [call EXCEPT ![k] = "status"]
       \/ /\ call[k] = "status"
          /\ channel' = [channel EXCEPT !.status = "connecting"]
          /\ call' = [call EXCEPT ![k] = "desire"]
    /\ UNCHANGED <<snapshot, intent, client, orphans, session, opened, closing, tasks,
                   history, ops, faults>>

(* set_desired(true).                                                      *)
SetDesired(k) ==
    /\ call[k] = "desire"
    /\ intent' = [intent EXCEPT !.desired = TRUE]
    /\ call' = [call EXCEPT ![k] = "start"]
    /\ UNCHANGED <<channel, snapshot, client, orphans, session, opened, closing, tasks,
                   history, ops, faults>>

(* Mutant: start_channel without its lock.                                 *)
StartChannelUnlocked(k) ==
    /\ call[k] = "start"
    /\ ~Live
    /\ call' = [call EXCEPT ![k] = "build"]
    /\ client' = NoClient
    /\ session' = IF session = "none" THEN "blank" ELSE session
    /\ opened' = [creds |-> session', attached |-> TRUE, raced |-> WipeAhead]
    /\ UNCHANGED <<channel, snapshot, intent, orphans, closing, tasks, history, ops, faults>>

(* start_channel: one start at a time; a live client is left alone, a      *)
(* finished one removed and the session files opened.                      *)
StartChannel(k) ==
    /\ call[k] = "start"
    /\ \A j \in Callers : call[j] # "build"
    /\ \/ /\ Live
          /\ call' = [call EXCEPT ![k] = "idle"]
          /\ UNCHANGED <<client, session, opened>>
       \/ /\ ~Live
          /\ call' = [call EXCEPT ![k] = "build"]
          /\ client' = NoClient
          /\ session' = IF session = "none" THEN "blank" ELSE session
          /\ opened' = [creds |-> session', attached |-> TRUE, raced |-> WipeAhead]
    /\ UNCHANGED <<channel, snapshot, intent, orphans, closing, tasks, history, ops, faults>>

(* start_channel after its awaits: the task is spawned and inserted,       *)
(* whatever happened to the intent meanwhile.                              *)
BuildClient(k) ==
    /\ call[k] = "build"
    /\ call' = [call EXCEPT ![k] = "idle"]
    /\ orphans' = IF Live THEN orphans + 1 ELSE orphans
    /\ client' = [phase |-> "up", creds |-> opened.creds, attached |-> opened.attached,
                  raced |-> opened.raced]
    /\ gaveUp' = FALSE
    /\ UNCHANGED <<channel, snapshot, intent, session, opened, closing, tasks, forgotten,
                   ops, faults>>

(* The session cannot be opened or the bot cannot be built: the caller     *)
(* gets an error, a reconnect timer only logs it.  Or the operator's       *)
(* request is dropped at an await of start_channel.                        *)
BuildFails(k) ==
    /\ call[k] = "build" \/ (k = "operator" /\ call[k] = "start")
    /\ Fault
    /\ call' = [call EXCEPT ![k] = "idle"]
    /\ gaveUp' = ~Live
    /\ UNCHANGED <<channel, snapshot, intent, client, orphans, session, opened, closing,
                   tasks, forgotten, ops>>

(* disconnect_channel_for_company: the intent, ...                         *)
Disconnect ==
    /\ channel.status # "absent"
    /\ closing = "idle"
    /\ Operation
    /\ channel' = Reconciled
    /\ intent' = [intent EXCEPT !.desired = FALSE]
    /\ closing' = "stop"
    /\ UNCHANGED <<snapshot, client, orphans, session, opened, call, tasks, history, faults>>

(* stop_channel of a task that decided to before a connect set the intent  *)
(* again: nobody restarts the client.                                      *)
StopRegardless ==
    /\ client' = NoClient
    /\ gaveUp' = (gaveUp \/ (Live /\ intent.desired))

(* ... the client ...                                                      *)
DisconnectStops ==
    /\ closing = "stop"
    /\ closing' = "status"
    /\ StopRegardless
    /\ UNCHANGED <<channel, snapshot, intent, orphans, session, opened, call, tasks,
                   forgotten, ops, faults>>

(* ... and the status.                                                     *)
DisconnectShows ==
    /\ closing = "status"
    /\ closing' = "idle"
    /\ channel' = [channel EXCEPT !.status = "disconnected"]
    /\ forgotten' = (forgotten \/ (session = "dead" /\ ~intent.needs_session_reset))
    /\ UNCHANGED <<snapshot, intent, client, orphans, session, opened, call, tasks, gaveUp,
                   ops, faults>>

-----------------------------------------------------------------------------
(* The events of the client, and what process_whatsapp_event does.         *)

(* PairingQrCode of a client without credentials.                          *)
PairingQrCode ==
    /\ client.phase = "up" /\ client.creds = "blank"
    /\ channel' = [status |-> "waiting_qr", qr |-> "fresh"]
    /\ UNCHANGED <<snapshot, intent, client, orphans, session, opened, calls, tasks,
                   history, ops, faults>>

(* Connected, by pairing or with stored credentials: the QR entry stays.   *)
Connected ==
    /\ client.phase = "up" /\ client.creds # "dead"
    /\ client.creds = "blank" => channel.qr = "fresh"
    /\ client' = [client EXCEPT !.phase = "connected", !.creds = "paired"]
    /\ session' = IF client.attached THEN "paired" ELSE session
    /\ intent' = [intent EXCEPT !.has_connected = TRUE]
    /\ channel' = [channel EXCEPT !.status = "connected"]
    /\ UNCHANGED <<snapshot, orphans, opened, calls, tasks, history, ops, faults>>

(* What the Disconnected handler does to the status.                       *)
AfterDisconnected ==
    IF channel.status = "logged_out" THEN channel
    ELSE [channel EXCEPT !.status = "disconnected"]

(* The network drops; the client itself reconnects later.                  *)
Disconnected ==
    /\ client.phase = "connected"
    /\ Fault
    /\ client' = [client EXCEPT !.phase = "up"]
    /\ channel' = AfterDisconnected
    /\ UNCHANGED <<snapshot, intent, orphans, session, opened, calls, tasks, history, ops>>

(* set_desired(false) and mark_needs_session_reset.                        *)
MarkLoggedOut == intent' = [desired |-> FALSE, needs_session_reset |-> TRUE,
                            has_connected |-> FALSE]

(* WhatsApp invalidated the credentials of the client.                     *)
InvalidateCredentials ==
    /\ client.phase \in {"up", "connected"} /\ client.creds # "blank"
    /\ Fault
    /\ client' = [client EXCEPT !.phase = "up", !.creds = "dead"]
    /\ session' = IF client.attached THEN "dead" ELSE session
    /\ forgotten' = FALSE

(* LoggedOut: the wipe is left to a task of its own.                       *)
LoggedOut ==
    /\ InvalidateCredentials
    /\ MarkLoggedOut
    /\ channel' = [channel EXCEPT !.status = "logged_out"]
    /\ wipes' = [wipes EXCEPT !.asleep = @ + 1]
    /\ UNCHANGED <<snapshot, orphans, opened, calls, timers, gaveUp, ops>>

(* Diagnostic channel.connect_failure with a logout reason: no wipe task.  *)
ConnectFailureLoggedOut ==
    /\ InvalidateCredentials
    /\ MarkLoggedOut
    /\ channel' = [status |-> "logged_out", qr |-> "none"]
    /\ UNCHANGED <<snapshot, orphans, opened, calls, tasks, gaveUp, ops>>

(* Diagnostic channel.connect_failure with any other reason.               *)
ConnectFailure ==
    /\ client.phase = "up"
    /\ Fault
    /\ channel' = [status |-> "disconnected", qr |-> "none"]
    /\ UNCHANGED <<snapshot, intent, client, orphans, session, opened, calls, tasks,
                   history, ops>>

(* bot.run ends: the task reports Disconnected ...                         *)
BotStops ==
    /\ client.phase \in {"up", "connected"}
    /\ Fault
    /\ client' = [client EXCEPT !.phase = "ending"]
    /\ channel' = AfterDisconnected
    /\ UNCHANGED <<snapshot, intent, orphans, session, opened, calls, tasks, history, ops>>

(* Mutant: the reconnect is scheduled only for a channel shown connected.  *)
RuntimeStoppedReadsStatus ==
    /\ client.phase = "ending"
    /\ client' = [client EXCEPT !.phase = "ended"]
    /\ timers' = IF intent.desired /\ channel.status = "connected" THEN timers + 1 ELSE timers
    /\ UNCHANGED <<channel, snapshot, intent, orphans, session, opened, calls, wipes,
                   history, ops, faults>>

(* ... and Diagnostic channel.runtime_stopped, which schedules a reconnect *)
(* when should_reconnect, and finishes.                                    *)
RuntimeStopped ==
    /\ client.phase = "ending"
    /\ client' = [client EXCEPT !.phase = "ended"]
    /\ timers' = IF intent.desired /\ intent.has_connected THEN timers + 1 ELSE timers
    /\ UNCHANGED <<channel, snapshot, intent, orphans, session, opened, calls, wipes,
                   history, ops, faults>>

-----------------------------------------------------------------------------
(* The reconnect timer wakes up.                                           *)
TimerFires ==
    /\ timers > 0 /\ call["timer"] = "idle"
    /\ timers' = timers - 1
    /\ call' = IF intent.desired /\ ~Live THEN [call EXCEPT !["timer"] = "called"] ELSE call
    /\ UNCHANGED <<channel, snapshot, intent, client, orphans, session, opened, closing, wipes,
                   history, ops, faults>>

(* Mutant: the delayed wipe neither looks at the intent nor stops.         *)
WipeWakesAlways ==
    /\ wipes.asleep > 0
    /\ wipes' = [wipes EXCEPT !.asleep = @ - 1, !.wipe = @ + 1]
    /\ OvertakeStart
    /\ UNCHANGED <<channel, snapshot, intent, client, orphans, session, calls, timers,
                   history, ops, faults>>

(* The delayed wipe wakes up: a channel that is desired again is left      *)
(* alone, ...                                                              *)
WipeWakes ==
    /\ wipes.asleep > 0
    /\ \/ /\ intent.desired
          /\ wipes' = [wipes EXCEPT !.asleep = @ - 1]
          /\ UNCHANGED opened
       \/ /\ ~intent.desired
          /\ wipes' = [wipes EXCEPT !.asleep = @ - 1, !.stop = @ + 1]
          /\ OvertakeStart
    /\ UNCHANGED <<channel, snapshot, intent, client, orphans, session, calls, timers,
                   history, ops, faults>>

(* ... else its client is stopped ...                                      *)
WipeStops ==
    /\ wipes.stop > 0
    /\ wipes' = [wipes EXCEPT !.stop = @ - 1, !.wipe = @ + 1]
    /\ StopRegardless
    /\ UNCHANGED <<channel, snapshot, intent, orphans, session, opened, calls, timers,
                   forgotten, ops, faults>>

(* ... and its files removed, whatever the intent is by then.              *)
DelayedWipe ==
    /\ wipes.wipe > 0
    /\ wipes' = [wipes EXCEPT !.wipe = @ - 1]
    /\ Wipe
    /\ UNCHANGED <<channel, snapshot, intent, orphans, calls, timers, gaveUp, ops, faults>>

Persist ==
    /\ snapshot # channel
    /\ snapshot' = channel
    /\ UNCHANGED <<channel, intent, client, orphans, session, opened, calls, tasks,
                   history, ops, faults>>

(* The process dies; bootstrap_existing_sessions connects every channel    *)
(* discover_session_channels finds files of, creating it if need be.       *)
Crash ==
    /\ Fault
    /\ channel' = IF session # "none" /\ snapshot.status = "absent"
                  THEN [snapshot EXCEPT !.status = "disconnected"] ELSE snapshot
    /\ intent' = NoIntent
    /\ client' = NoClient
    /\ orphans' = 0
    /\ opened' = NotOpened
    /\ call' = [k \in Callers |-> IF k = "bootstrap" /\ session # "none"
                                  THEN "called" ELSE "idle"]
    /\ closing' = "idle"
    /\ timers' = 0 /\ wipes' = NoWipes
    /\ forgotten' = (session = "dead" /\ snapshot.status # "logged_out")
    /\ UNCHANGED <<snapshot, session, gaveUp, ops>>

ConnectSteps(k) ==
    \/ ConnectChecks(k) \/ ReadStatus(k) \/ TakeReset(k) \/ ResetStops(k) \/ ResetWipes(k)
    \/ ShowConnecting(k) \/ SetDesired(k) \/ StartChannel(k) \/ BuildClient(k)

DisconnectSteps == DisconnectStops \/ DisconnectShows
WipeSteps == WipeWakes \/ WipeStops \/ DelayedWipe

ClientEvents ==
    \/ PairingQrCode \/ Connected \/ Disconnected \/ LoggedOut
    \/ ConnectFailureLoggedOut \/ ConnectFailure \/ BotStops

Next ==
    \/ CreateChannel \/ GetChannel \/ GetQr \/ QrExpires
    \/ Connect \/ Disconnect \/ DisconnectSteps
    \/ \E k \in Callers : ConnectSteps(k) \/ BuildFails(k)
    \/ ClientEvents
    \/ RuntimeStopped \/ TimerFires \/ WipeSteps
    \/ Persist \/ Crash

(* Calls in progress, the client's task and the sleeping tasks run on;     *)
(* nothing else need happen.                                               *)
Fairness ==
    /\ \A k \in Callers : WF_vars(ConnectSteps(k))
    /\ WF_vars(DisconnectSteps)
    /\ WF_vars(RuntimeStopped)
    /\ WF_vars(TimerFires)
    /\ WF_vars(WipeSteps)

Spec == Init /\ [][Next]_vars /\ Fairness

-----------------------------------------------------------------------------
ChannelType == [status : Statuses, qr : {"none", "fresh", "expired"}]
IntentType == [desired : BOOLEAN, needs_session_reset : BOOLEAN, has_connected : BOOLEAN]
ClientType == [phase : {"none", "up", "connected", "ending", "ended"},
               creds : Credentials, attached : BOOLEAN, raced : BOOLEAN]
OpenedType == [creds : Credentials, attached : BOOLEAN, raced : BOOLEAN]
Steps == {"idle", "called", "reset", "take", "take_logged_out", "stop", "wipe", "qr", "status",
          "desire", "start", "build"}
WipesType == [asleep : Nat, stop : Nat, wipe : Nat]

(* The values the variables take.                                          *)
TypeOK ==
    /\ channel \in ChannelType /\ snapshot \in ChannelType
    /\ intent \in IntentType
    /\ client \in ClientType
    /\ orphans \in Nat
    /\ session \in Credentials \cup {"none"}
    /\ opened \in OpenedType
    /\ call \in [Callers -> Steps]
    /\ closing \in {"idle", "stop", "status"}
    /\ timers \in Nat /\ wipes \in WipesType
    /\ gaveUp \in BOOLEAN /\ forgotten \in BOOLEAN
    /\ ops \in 0..MaxOps /\ faults \in 0..MaxFaults

(* whatsapp.rs:440, "one lock prevents duplicate pairing clients": no      *)
(* start ever replaces a client that still runs, however connects, stops,  *)
(* timers and wipes interleave.                                            *)
OneClient == orphans = 0

(* whatsapp.rs:268, credentials that WhatsApp invalidated "must be wiped   *)
(* before the next pairing attempt": files with dead credentials are       *)
(* always marked for a wipe by the flag or the status, or about to be      *)
(* wiped by a connect that took the flag, whichever connects, starts and   *)
(* client events are under way.  The flag does not survive a crash; then   *)
(* the status is the only mark, and one that was not saved, or that a      *)
(* later disconnect overwrites, is lost.                                   *)
DeadSessionIsFlagged ==
    session = "dead" => \/ intent.needs_session_reset
                        \/ channel.status = "logged_out"
                        \/ Resetting
                        \/ forgotten

(* A connected client's credentials are in the session files, so a restart *)
(* resumes the session, whatever logouts, resets and delayed wipes went    *)
(* before.  The one exception is a client whose start overlapped a wipe    *)
(* that was already decided: nothing orders is_desired, stop_channel and   *)
(* wipe_session_files of one task and start_channel of another, although   *)
(* state.rs:2628 means to leave a fresh pairing session alone.             *)
ConnectedSessionIsSaved ==
    client.phase = "connected" /\ ~client.raced => session = "paired"

(* whatsapp.rs:266, "keep the channel up, respawn on runtime death": a     *)
(* channel that was connected and is still desired gets a client again,    *)
(* unless the one attempt its timer makes is refused, or a disconnect or   *)
(* delayed wipe that a connect overtook stops the client all the same.     *)
DroppedChannelComesBack ==
    (intent.desired /\ intent.has_connected /\ ~Live)
        ~> (Live \/ ~intent.desired \/ ~intent.has_connected \/ gaveUp)
=============================================================================
