---------------------------- MODULE ClockReceiver ----------------------------
(***************************************************************************)
(* Sync mode: the MIDI input callback and the receiver thread of           *)
(* midi_clock/mod.rs, the PulseTracker of midi_clock/tracker.rs, and the   *)
(* device that sends the clock, on top of Engine.                          *)
(*                                                                         *)
(* Time passes in units, a few to a pulse.  Threads are prompt: they get   *)
(* all their work done between two units, in any order.  A late wake-up of *)
(* the receiver shows as a short gap between two pulses, since pulses are  *)
(* stamped when they are handled.                                          *)
(***************************************************************************)
EXTENDS Engine

CONSTANTS
  Window,        \* pulse intervals the tracker averages over: 24
  FirstTimeout,  \* the receive timeout without an average: one second
  Long,          \* the device's pulse interval
  Short,         \* the interval after a pulse that was handled late
  ShortFirst,    \* whether the first interval after a Start may be short
  ForwardingEnabled,  \* whether clock messages are relayed to the output
  GapCap,        \* bound: longer intervals count as this
  InboxBound     \* bound on the messages on their way to the receiver

ClockMessage == {"Pulse", "Start", "Continue", "Stop", "SongPosition"}

ASSUME ReceiverAssumption ==
  /\ {Window, FirstTimeout, Long, Short, GapCap, InboxBound} \subseteq Nat \ {0}
  /\ Short < Long /\ Long < GapCap /\ Long < FirstTimeout
  /\ Window >= 2 /\ None \notin Projects \cup ClockMessage
  /\ ShortFirst \in BOOLEAN /\ ForwardingEnabled \in BOOLEAN

VARIABLES
  device,        \* whether its pulses come: "off", "pulsing"
  sincePulse,    \* time since the device's last pulse
  owed,          \* intervals that may not be short yet
  fresh,         \* history: the device has not been silent since a Start
  relaying,      \* the ClockMessage in the callback's hands, or None
  inbox,         \* ClockMessages the callback has sent to the receiver
  history,       \* the tracker's pulses, by their age, the oldest first
  waited,        \* time since recv_timeout was called
  clockState,    \* SyncClockState
  bpm,           \* the tracked tempo, as its pulse interval, or None
  step,          \* where the receiver is: "Receive", "Send", "ForwardStop"
  sending,       \* the command it is about to send to the engine
  unclocked,     \* history: since the loss, a Continue and nothing else to count
  downstream,    \* what the last message relayed to the output port said
  raced          \* history: a message was in the callback during a loss

deviceVars == <<device, sincePulse, owed, fresh>>
receiverVars == <<clockState, bpm, step, sending, unclocked>>
outputVars == <<downstream, raced>>
vars == <<engineVars, deviceVars, relaying, inbox, history, waited, receiverVars,
          outputVars>>

SyncClockState == {"Waiting", "Tracking", "Lost"}

-----------------------------------------------------------------------------
(* PulseTracker.                                                           *)

CapAt(n) == IF n < GapCap THEN n ELSE GapCap

(* Mutant: the window grows.                                               *)
UpdateUnbounded == history' = Append(history, 0)

Update ==
  LET extended == Append(history, 0)
  IN  history' = IF Len(extended) > Window + 1 THEN Tail(extended) ELSE extended

(* Mutant: a Start goes on with the pulses there are.                      *)
ResetForgotten == UNCHANGED history

Reset == history' = <<>>

Established == Len(history) >= 2

(* The intervals between the pulses add up to the age of the first one     *)
(* over the last one.                                                      *)
TotalOf(h) == h[1] - h[Len(h)]
AverageOf(h) == TotalOf(h) \div (Len(h) - 1)

(* Mutant: the margin over the last interval alone.                        *)
TimeoutFromLast ==
  IF Established
    THEN (7 * (history[Len(history) - 1] - history[Len(history)])) \div 2
    ELSE FirstTimeout

(* timeout_duration: 3.5 times the average interval.                       *)
TimeoutDuration ==
  IF Established THEN (7 * TotalOf(history)) \div (2 * (Len(history) - 1))
                 ELSE FirstTimeout

(* Time passes; after the longest interval it no longer counts.            *)
Aged(h) ==
  IF h = <<>> \/ h[Len(h)] >= GapCap THEN h ELSE [i \in 1 .. Len(h) |-> h[i] + 1]

-----------------------------------------------------------------------------
(* The device, and the callback that runs for each message it sends: relay *)
(* to the output port, then send to the receiver.                          *)

(* A loss has been declared and not yet told to everyone.                  *)
Losing == clockState = "Lost" /\ step # "Receive" /\ sending \in {"SyncStop", "None"}

(* Mutant: a Continue is not relayed.                                      *)
RelayWithoutContinue(m) ==
  /\ relaying = None /\ Len(inbox) < InboxBound
  /\ relaying' = m
  /\ downstream' = CASE ForwardingEnabled /\ m = "Start" -> "rolling"
                     [] ForwardingEnabled /\ m = "Stop" -> "stopped"
                     [] OTHER -> downstream
  /\ raced' = (raced \/ Losing)
  /\ UNCHANGED <<engineVars, inbox, history, waited, receiverVars>>

Relay(m) ==
  /\ relaying = None /\ Len(inbox) < InboxBound
  /\ relaying' = m
  /\ downstream' = CASE ForwardingEnabled /\ m \in {"Start", "Continue"} -> "rolling"
                     [] ForwardingEnabled /\ m = "Stop" -> "stopped"
                     [] OTHER -> downstream
  /\ raced' = (raced \/ Losing)
  /\ UNCHANGED <<engineVars, inbox, history, waited, receiverVars>>

(* The callback's tx.send.                                                 *)
Deliver ==
  /\ relaying # None
  /\ inbox' = Append(inbox, relaying)
  /\ relaying' = None
  /\ UNCHANGED <<engineVars, deviceVars, history, waited, receiverVars, outputVars>>

DevicePulse ==
  /\ sincePulse >= (IF device = "pulsing" /\ owed = 0 THEN Short ELSE Long)
  /\ device' = "pulsing"
  /\ sincePulse' = 0
  /\ owed' = CASE device = "pulsing" /\ sincePulse < Long -> 1
               [] owed > 0 -> owed - 1
               [] OTHER -> 0
  /\ UNCHANGED fresh
  /\ Relay("Pulse")

(* A device may start or continue without sending a single pulse after it. *)
DeviceStart ==
  /\ owed' = IF ShortFirst THEN 0 ELSE 2
  /\ fresh' = TRUE
  /\ UNCHANGED <<device, sincePulse>>
  /\ Relay("Start")

DeviceContinue ==
  /\ UNCHANGED deviceVars
  /\ Relay("Continue")

DeviceStop ==
  /\ UNCHANGED deviceVars
  /\ Relay("Stop")

DeviceLocate ==
  /\ UNCHANGED deviceVars
  /\ Relay("SongPosition")

(* Paused by its user, switched off or unplugged: pulses cease.            *)
DeviceSilent ==
  /\ device = "pulsing"
  /\ device' = "off"
  /\ fresh' = FALSE
  /\ UNCHANGED <<sincePulse, owed>>
  /\ UNCHANGED <<engineVars, relaying, inbox, history, waited, receiverVars, outputVars>>

DeviceStep ==
  \/ DevicePulse \/ DeviceStart \/ DeviceContinue \/ DeviceStop \/ DeviceLocate
  \/ DeviceSilent

-----------------------------------------------------------------------------
(* run_receiver.  Its writes of the shared state and bpm are one action:   *)
(* only status reads them.                                                 *)

Receive(m) ==
  /\ step = "Receive" /\ inbox # <<>> /\ Head(inbox) = m
  /\ inbox' = Tail(inbox)
  /\ waited' = 0
  /\ UNCHANGED <<engineVars, deviceVars, relaying, outputVars>>

ToEngine(command) == step' = "Send" /\ sending' = command
Nothing == UNCHANGED <<step, sending>>

(* Mutant: a pulse does not end a loss.                                    *)
ReceivePulseWhileLost ==
  /\ Receive("Pulse")
  /\ Update
  /\ unclocked' = FALSE
  /\ clockState' = IF clockState = "Waiting" THEN "Tracking" ELSE clockState
  /\ LET interval == IF Len(history') < 2 THEN 0 ELSE AverageOf(history')
     IN  IF interval > 0 THEN bpm' = interval /\ ToEngine("SyncBpmUpdate")
                         ELSE UNCHANGED bpm /\ Nothing

ReceivePulse ==
  /\ Receive("Pulse")
  /\ Update
  /\ unclocked' = FALSE
  /\ clockState' = "Tracking"
  /\ LET interval == IF Len(history') < 2 THEN 0 ELSE AverageOf(history')
     IN  IF interval > 0 THEN bpm' = interval /\ ToEngine("SyncBpmUpdate")
                         ELSE UNCHANGED bpm /\ Nothing

ReceiveStart ==
  /\ Receive("Start")
  /\ Reset
  /\ clockState' = "Tracking"
  /\ bpm' = None
  /\ unclocked' = FALSE
  /\ ToEngine("SyncStart")

(* "Only reject Continue when no clock was ever established at all."       *)
ReceiveContinue ==
  /\ Receive("Continue")
  /\ IF Established THEN ToEngine("SyncContinue") ELSE Nothing
  /\ unclocked' = (unclocked \/ (Established /\ clockState = "Lost"))
  /\ UNCHANGED <<history, clockState, bpm>>

(* Mutant: the tempo survives a Stop.                                      *)
ReceiveStopKeepsBpm ==
  /\ Receive("Stop")
  /\ clockState' = "Waiting"
  /\ unclocked' = FALSE
  /\ ToEngine("SyncStop")
  /\ UNCHANGED <<history, bpm>>

ReceiveStop ==
  /\ Receive("Stop")
  /\ clockState' = "Waiting"
  /\ bpm' = None
  /\ unclocked' = FALSE
  /\ ToEngine("SyncStop")
  /\ UNCHANGED history

ReceiveLocate ==
  /\ Receive("SongPosition")
  /\ ToEngine("SyncSongPosition")
  /\ UNCHANGED <<history, clockState, bpm, unclocked>>

(* Mutant: only a clock that is being tracked can be lost.                 *)
ReceiveTimeoutWhileTracking ==
  /\ step = "Receive" /\ inbox = <<>> /\ waited >= TimeoutDuration
  /\ waited' = 0
  /\ IF clockState = "Tracking"
       THEN /\ clockState' = "Lost" /\ bpm' = None /\ ToEngine("SyncStop")
            /\ raced' = (raced \/ relaying # None)
            /\ UNCHANGED unclocked
       ELSE UNCHANGED <<receiverVars, raced>>
  /\ UNCHANGED <<engineVars, deviceVars, relaying, inbox, history, downstream>>

ReceiveTimeout ==
  /\ step = "Receive" /\ inbox = <<>> /\ waited >= TimeoutDuration
  /\ waited' = 0
  /\ IF clockState # "Lost"
       THEN /\ clockState' = "Lost" /\ bpm' = None /\ ToEngine("SyncStop")
            /\ raced' = (raced \/ relaying # None)
            /\ UNCHANGED unclocked
       ELSE UNCHANGED <<receiverVars, raced>>
  /\ UNCHANGED <<engineVars, deviceVars, relaying, inbox, history, downstream>>

SendToEngine ==
  /\ step = "Send"
  /\ Send(sending)
  /\ step' = IF sending = "SyncStop" /\ clockState = "Lost" THEN "ForwardStop" ELSE "Receive"
  /\ sending' = "None"
  /\ UNCHANGED <<deviceVars, relaying, inbox, history, waited, clockState, bpm,
                 unclocked, outputVars>>

(* "Nothing was received to relay, so send an explicit Stop of our own."   *)
ForwardStop ==
  /\ step = "ForwardStop"
  /\ downstream' = IF ForwardingEnabled THEN "stopped" ELSE downstream
  /\ step' = "Receive"
  /\ UNCHANGED <<engineVars, deviceVars, relaying, inbox, history, waited,
                 clockState, bpm, sending, unclocked, raced>>

ReceiverStep ==
  \/ ReceivePulse \/ ReceiveStart \/ ReceiveContinue \/ ReceiveStop \/ ReceiveLocate
  \/ ReceiveTimeout \/ SendToEngine \/ ForwardStop

-----------------------------------------------------------------------------
Idle == relaying = None /\ inbox = <<>> /\ step = "Receive"
Drained == Idle /\ queue = <<>> /\ phase = "Ready"

PlayerThread ==
  /\ EngineStep
  /\ UNCHANGED <<deviceVars, relaying, inbox, history, waited, receiverVars, outputVars>>

(* create-project; the other requests are Daemon's.                        *)
LoadProject ==
  /\ \E p \in Projects : SetActive(p)
  /\ UNCHANGED <<deviceVars, relaying, inbox, history, waited, receiverVars, outputVars>>

(* A device that sends pulses is not late with one.                        *)
Tick ==
  /\ Drained
  /\ waited < TimeoutDuration
  /\ device = "pulsing" => sincePulse < Long
  /\ sincePulse' = CapAt(sincePulse + 1)
  /\ history' = Aged(history)
  /\ waited' = waited + 1
  /\ UNCHANGED <<engineVars, device, owed, fresh, relaying, inbox, receiverVars,
                 outputVars>>

Init ==
  /\ EngineInit
  /\ device = "off" /\ sincePulse = GapCap /\ owed = 2 /\ fresh = FALSE
  /\ relaying = None /\ inbox = <<>>
  /\ history = <<>>
  /\ waited = 0
  /\ clockState = "Waiting" /\ bpm = None
  /\ step = "Receive" /\ sending = "None" /\ unclocked = FALSE
  /\ downstream = "stopped"
  /\ raced = FALSE

Next == DeviceStep \/ Deliver \/ ReceiverStep \/ PlayerThread \/ LoadProject \/ Tick

Spec == Init /\ [][Next]_vars

(* The callback ends, both threads are scheduled, and time passes once     *)
(* they have nothing left to do.  (The player receives while it plays: its *)
(* project has events.)                                                    *)
Fairness ==
  WF_vars(Deliver) /\ WF_vars(ReceiverStep) /\ WF_vars(PlayerThread) /\ WF_vars(Tick)
FairSpec == Spec /\ Fairness

-----------------------------------------------------------------------------
TypeOK ==
  /\ EngineTypeOK
  /\ device \in {"off", "pulsing"}
  /\ sincePulse \in 0 .. GapCap /\ owed \in 0 .. 2
  /\ relaying \in ClockMessage \cup {None} /\ inbox \in Seq(ClockMessage)
  /\ history \in Seq(0 .. (Window + 1) * GapCap) /\ Len(history) <= Window + 1
  /\ clockState \in SyncClockState
  /\ bpm \in 0 .. GapCap \cup {None}
  /\ step \in {"Receive", "Send", "ForwardStop"}
  /\ sending \in LoopCommand \cup {"None"}
  /\ downstream \in {"stopped", "rolling"}
  /\ raced \in BOOLEAN /\ fresh \in BOOLEAN /\ unclocked \in BOOLEAN

(* A tempo is published only while the clock is tracked, and only from     *)
(* pulses since the last Start ("bpm is omitted entirely whenever no live  *)
(* tempo estimate is currently available").                                *)
BpmOnlyWhileTracking ==
  bpm # None => clockState = "Tracking" /\ Established

(* A clock that has gone silent and been declared lost does not leave the  *)
(* loop playing, whichever start, continue or stop came before the loss.   *)
(* (A Continue that comes after it, with no pulse to follow, does: the     *)
(* receiver accepts it, and a loss is not declared twice.)                 *)
SilencePausesLoop ==
  clockState = "Lost" /\ ~unclocked /\ Drained => state # "Running"

(* "One anomalously short gap must not collapse the timeout window and     *)
(* falsely declare the clock lost on the very next, perfectly on-time      *)
(* pulse": a clock that has resumed and is on time is not lost.            *)
ClockHeld ==
  device = "pulsing" /\ Idle => clockState # "Lost"

(* What is chained to the output port rolls while the loop plays, unless a *)
(* message met the receiver in the middle of declaring the clock lost.     *)
(* Without forwarding the receiver never writes to the output port.        *)
SlavesFollowLoop ==
  /\ ForwardingEnabled /\ Drained /\ ~raced /\ state = "Running" => downstream = "rolling"
  /\ ~ForwardingEnabled => downstream = "stopped"

(* A Start begins the tempo afresh: what the clock did before it, or the   *)
(* silence before it, has no say in the tempo after it.                    *)
TempoFresh ==
  fresh /\ Idle /\ bpm # None => bpm <= Long

(* When the device is gone for good and no message is on its way any more, *)
(* the loop comes to rest: a timeout that each of the messages has put off *)
(* comes at last, whatever was sent last and in whatever state the clock   *)
(* was.  The one exception is a Continue that came after the clock had     *)
(* been declared lost already, with no pulse, Start or Stop after it: it   *)
(* plays on, with no clock, and no second loss is declared.                *)
SilenceNoticed ==
  (<>[](device = "off") /\ <>[][~DeviceStep]_vars) => <>[](state # "Running" \/ unclocked)

=============================================================================
