----------------------------- MODULE LoopEvents -----------------------------
(***************************************************************************)
(* The event list of one pass of the loop, as build_loop_events and        *)
(* advance_loop of player.rs compute it from a validated project.          *)
(*                                                                         *)
(* A project is a song (loop length, notes, pitch bends) played at a       *)
(* tempo.  An event list is a SET of events: the code sorts its vector     *)
(* with sort_unstable_by_key on (tick, priority), so events with the same  *)
(* key have no order the code relies on, and the next event to fire is any *)
(* minimal one.  Velocities and names are left out.                        *)
(***************************************************************************)
EXTENDS Integers

CONSTANTS
  Songs,          \* the songs that clients upload
  LoopDuration,   \* [Songs -> ticks]: header.loop_duration
  Notes,          \* [Songs -> sets of notes], over all tracks of the song
  Bends,          \* [Songs -> sets of pitch bends], over all tracks
  Bpms,           \* the whole BPM values that clients upload
  PulseTicks,     \* ticks between two MIDI clock pulses (20 in the code)
  TickModulus,    \* 2^64: ticks are u64
  Center          \* the pitch-bend value of a wheel at rest (8192)

Note == [channel : Nat, start : Nat, duration : Nat \ {0}, pitch : Nat]
Bend == [channel : Nat, tick : Nat, value : Nat]

(* What validate() lets into the store: a loop that is not empty, notes    *)
(* that start inside it and end within two loops, bends inside it.         *)
ASSUME SongAssumption ==
  \A s \in Songs :
    /\ LoopDuration[s] \in Nat \ {0}
    /\ \A n \in Notes[s] :
         /\ n \in Note
         /\ n.start < LoopDuration[s]
         /\ n.start + n.duration <= 2 * LoopDuration[s]
    /\ \A b \in Bends[s] : b \in Bend /\ b.tick < LoopDuration[s]

ASSUME TickAssumption ==
  /\ PulseTicks \in Nat \ {0}
  /\ TickModulus \in Nat \ {0}
  /\ \A s \in Songs : 2 * LoopDuration[s] < TickModulus
  /\ Bpms \subseteq Nat
  /\ Center \in Nat

Project == [song : Songs, bpm : Bpms]

Kinds == {"NoteOff", "PitchBend", "NoteOn", "ClockPulse"}

(* data is a pitch for a note, the wheel position for a bend.              *)
Event == [tick : Nat, kind : Kinds, channel : Nat, data : Nat]

LoopEvent(tick, kind, channel, data) ==
  [tick |-> tick, kind |-> kind, channel |-> channel, data |-> data]

Priority == [NoteOff |-> 0, PitchBend |-> 1, NoteOn |-> 2, ClockPulse |-> 3]

Precedes(e, f) ==
  \/ e.tick < f.tick
  \/ e.tick = f.tick /\ Priority[e.kind] < Priority[f.kind]

(* The events that may stand first in the sorted list.                     *)
NextEvents(events) == {e \in events : \A f \in events : ~Precedes(f, e)}

(* Mutant: no filter, a pass is resumed from its top.                      *)
FromTop(events, tick) == events

(* The events at or after a position (the filter of do_sync_continue and   *)
(* locate_song_position).                                                  *)
From(events, tick) == {e \in events : e.tick >= tick}

OffTick(n) == n.start + n.duration

NoteOn(n) == LoopEvent(n.start, "NoteOn", n.channel, n.pitch)
NoteOff(n) == LoopEvent(OffTick(n), "NoteOff", n.channel, n.pitch)

NoteOns(s) == {NoteOn(n) : n \in Notes[s]}

(* Mutant: the last tick counts as part of the next pass.                  *)
OverflowsOnLastTick(n, s) == OffTick(n) >= LoopDuration[s]

(* A NoteOff on the last tick of the loop (off = duration) still belongs   *)
(* to this pass; only a later one overflows into the next pass.            *)
Overflows(n, s) == OffTick(n) > LoopDuration[s]

NoteOffs(s) == {NoteOff(n) : n \in {m \in Notes[s] : ~Overflows(m, s)}}
Overflow(s) == {NoteOff(n) : n \in {m \in Notes[s] : Overflows(m, s)}}

BendEvents(s) == {LoopEvent(b.tick, "PitchBend", b.channel, b.value) : b \in Bends[s]}
BendChannels(s) == {b.channel : b \in Bends[s]}

Pulses(duration) ==
  {LoopEvent(t, "ClockPulse", 0, 0) :
     t \in {u \in 0 .. (duration - 1) : u % PulseTicks = 0}}

(* Mutant: the carried NoteOffs are forgotten.                             *)
PassEventsWithoutCarry(s, carried, clocked) ==
  NoteOns(s) \cup NoteOffs(s) \cup BendEvents(s)
     \cup (IF clocked THEN Pulses(LoopDuration[s]) ELSE {})

(* The list of a pass over song s, with the NoteOffs carried over from the *)
(* previous pass.                                                          *)
PassEvents(s, carried, clocked) ==
  carried \cup NoteOns(s) \cup NoteOffs(s) \cup BendEvents(s)
          \cup (IF clocked THEN Pulses(LoopDuration[s]) ELSE {})

(* Absolute overflow ticks as offsets into the next pass: tick - ld in u64 *)
(* arithmetic.                                                             *)
Rebase(overflow, duration) ==
  {[e EXCEPT !.tick = (e.tick - duration) % TickModulus] : e \in overflow}

=============================================================================
