--------------------------- MODULE ClockTransport ---------------------------
(***************************************************************************)
(* What propeller-clock promises to the devices on its MIDI port: the      *)
(* transport as MIDI 1.0 defines it for a clock master.                    *)
(***************************************************************************)
EXTENDS Naturals

CONSTANTS
  Positions,     \* the song positions a seek may name
  TickModulus    \* pulses are counted modulo this

VARIABLES
  transport,     \* what the devices do: "stopped", "paused", "rolling"
  ticks,         \* Timing Clocks since the last Start
  located        \* the position the last Song Position Pointer named

transportVars == <<transport, ticks, located>>

TransportInit == transport = "stopped" /\ ticks = 0 /\ located = 0

(* 0xFA, from the top, at any time.                                        *)
StartFromTop == transport' = "rolling" /\ ticks' = 0 /\ located' = 0

(* 0xF8 only while the devices roll.                                       *)
TimingClock ==
  /\ transport = "rolling"
  /\ ticks' = (ticks + 1) % TickModulus
  /\ UNCHANGED <<transport, located>>

(* 0xFC and 0xFB: a pause that resumes where it was.                       *)
PauseThere == transport = "rolling" /\ transport' = "paused" /\ UNCHANGED <<ticks, located>>
ContinueThere == transport = "paused" /\ transport' = "rolling" /\ UNCHANGED <<ticks, located>>

StopForGood ==
  /\ transport \in {"rolling", "paused"}
  /\ transport' = "stopped" /\ ticks' = 0 /\ located' = 0

(* 0xF2 only while the devices are stopped.                                *)
Locate ==
  /\ transport = "stopped"
  /\ \E p \in Positions : located' = p
  /\ UNCHANGED <<transport, ticks>>

TransportNext ==
  StartFromTop \/ TimingClock \/ PauseThere \/ ContinueThere \/ StopForGood \/ Locate

TransportSpec == TransportInit /\ [][TransportNext]_transportVars

=============================================================================
