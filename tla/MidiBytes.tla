----------------------------- MODULE MidiBytes ------------------------------
(***************************************************************************)
(* The bytes between propeller, propeller-clock and the devices on their   *)
(* ports: the encoders of midi_port.rs and of propeller-clock's midi.rs,   *)
(* and the reading of an input in midi_clock/mod.rs.                       *)
(*                                                                         *)
(* A byte is a number below 256; `|` of a status byte and a channel below  *)
(* 16 is their sum, & 0x7F the remainder by 128, >> 7 the quotient.        *)
(***************************************************************************)
EXTENDS Integers, Sequences

Byte == 0 .. 255
SevenBits == 0 .. 127
FourteenBits == 0 .. 16383
Channels == 1 .. 16

Low(value) == value % 128
High(value) == (value \div 128) % 128

NoteOnBytes(channel, pitch, velocity) == <<144 + (channel - 1), pitch, velocity>>
NoteOffBytes(channel, pitch) == <<128 + (channel - 1), pitch, 0>>
ProgramChangeBytes(channel, program) == <<192 + (channel - 1), program>>

(* Mutant: the two halves of the value are swapped.                        *)
PitchBendBytesSwapped(channel, value) ==
  <<224 + (channel - 1), High(value), Low(value)>>

PitchBendBytes(channel, value) ==
  <<224 + (channel - 1), Low(value), High(value)>>

SongPositionBytes(position) == <<242, Low(position), High(position)>>

(* ClockMessage                                                            *)
Plain(kind) == [kind |-> kind]
Located(position) == [kind |-> "SongPosition", position |-> position]
Realtime == {Plain("Pulse"), Plain("Start"), Plain("Continue"), Plain("Stop")}
ClockMessage == Realtime \cup {Located(p) : p \in FourteenBits}
NoMessage == Plain("None")

ClockTickBytes == <<248>>
ClockStartBytes == <<250>>
ClockContinueBytes == <<251>>
ClockStopBytes == <<252>>

ClassifyClockMessage(bytes) ==
  CASE bytes = <<248>> -> Plain("Pulse")
    [] bytes = <<250>> -> Plain("Start")
    [] bytes = <<251>> -> Plain("Continue")
    [] bytes = <<252>> -> Plain("Stop")
    [] Len(bytes) = 3 /\ bytes[1] = 242 ->
         Located(Low(bytes[3]) * 128 + Low(bytes[2]))
    [] OTHER -> NoMessage

(* What forward_clock_message, and propeller-clock, send for a message.    *)
ClockBytes(m) ==
  CASE m.kind = "Pulse" -> ClockTickBytes
    [] m.kind = "Start" -> ClockStartBytes
    [] m.kind = "Continue" -> ClockContinueBytes
    [] m.kind = "Stop" -> ClockStopBytes
    [] m.kind = "SongPosition" -> SongPositionBytes(m.position)

(* forward_clock_message: what is relayed of an input, nothing if it is    *)
(* not a clock message.                                                    *)
ForwardClockMessage(bytes) ==
  LET m == ClassifyClockMessage(bytes)
  IN  IF m = NoMessage THEN <<>> ELSE ClockBytes(m)

=============================================================================
