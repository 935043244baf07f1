----------------------------- MODULE Validation -----------------------------
(***************************************************************************)
(* Projects as clients write them and as the store holds them: what serde  *)
(* accepts (types.rs), the conversion of a track (handler.rs), validate    *)
(* (validation.rs) and the way back to JSON.                               *)
(*                                                                         *)
(* A project on the wire and one in the store have the same shape; on the  *)
(* wire a note is <<start, duration, pitch, velocity>> of u32s, in the     *)
(* store pitch and velocity are u8s.  Track names are left out.            *)
(***************************************************************************)
EXTENDS Integers, Sequences, FiniteSetsExt, Functions

CONSTANTS
  U8,     \* 2^8
  U32     \* 2^32; a smaller one in an instance

ASSUME WidthAssumption == U8 \in Nat \ {0} /\ U32 \in Nat \ {0} /\ U8 <= U32

Fits(width) == 0 .. (width - 1)

(* A project as JSON has it: any numbers.                                  *)
WireTrack == [channel : Int, instrument : Int,
              notes : Seq(Int \X Int \X Int \X Int), bends : Seq(Int \X Int)]
WireProject == [header : [bpm : Int, loopDuration : Int], tracks : Seq(WireTrack)]

(* serde_json: a number that does not fit its field is an error.           *)
Deserialized(w) ==
  /\ w.header.bpm \in Fits(U32) /\ w.header.loopDuration \in Fits(U32)
  /\ \A t \in Range(w.tracks) :
       /\ t.channel \in Fits(U8) /\ t.instrument \in Fits(U8)
       /\ \A n \in Range(t.notes) : \A i \in 1 .. 4 : n[i] \in Fits(U32)
       /\ \A b \in Range(t.bends) : \A i \in 1 .. 2 : b[i] \in Fits(U32)

Each(seq, Op(_)) == [i \in DOMAIN seq |-> Op(seq[i])]

Note(n) == [start |-> n[1], duration |-> n[2], pitch |-> n[3] % U8, velocity |-> n[4] % U8]
PitchBend(b) == [tick |-> b[1], value |-> b[2]]

(* Mutant: duration and pitch are read from the wrong places of the tuple. *)
WireTrackSwapped(t) ==
  [channel |-> t.channel, instrument |-> t.instrument,
   notes |-> Each(t.notes, LAMBDA n : Note(<<n[1], n[3], n[2], n[4]>>)),
   bends |-> Each(t.bends, PitchBend)]

WireTrackToDomain(t) ==
  [channel |-> t.channel, instrument |-> t.instrument,
   notes |-> Each(t.notes, Note), bends |-> Each(t.bends, PitchBend)]

BuildDomainProject(w) == [header |-> w.header, tracks |-> Each(w.tracks, WireTrackToDomain)]

TrackToJson(t) ==
  [channel |-> t.channel, instrument |-> t.instrument,
   notes |-> Each(t.notes, LAMBDA n : <<n.start, n.duration, n.pitch, n.velocity>>),
   bends |-> Each(t.bends, LAMBDA b : <<b.tick, b.value>>)]

ProjectToJson(p) == [header |-> p.header, tracks |-> Each(p.tracks, TrackToJson)]

-----------------------------------------------------------------------------
(* validate: a chain of checks, each of which returns the fault it finds.  *)
(* A fault says where it was found.                                        *)

Fault(kind, track, item) == [kind |-> kind, track |-> track, item |-> item]
Valid == Fault("Ok", 0, 0)
Unless(ok, fault) == IF ok THEN Valid ELSE fault

(* The early return: of the outcomes of checks, the first that is a fault. *)
FirstFault(outcomes) ==
  LET faults == {i \in DOMAIN outcomes : outcomes[i] # Valid}
  IN  IF faults = {} THEN Valid ELSE outcomes[Min(faults)]

HeaderFault(h) ==
  FirstFault(<<Unless(h.bpm >= 20 /\ h.bpm <= 300, Fault("BpmOutOfRange", 0, 0)),
               Unless(h.loopDuration # 0, Fault("LoopDurationZero", 0, 0))>>)

NoteFault(n, duration, ti, ni) ==
  FirstFault(<<Unless(n.duration # 0, Fault("NoteDurationZero", ti, ni)),
               Unless(n.start < duration, Fault("NoteStartTickOutOfRange", ti, ni)),
               Unless(n.start + n.duration <= 2 * duration,
                      Fault("NoteDurationExceedsLimit", ti, ni))>>)

BendFault(b, duration, ti, ei) ==
  FirstFault(<<Unless(b.value <= 16383, Fault("PitchBendValueOutOfRange", ti, ei)),
               Unless(b.tick < duration, Fault("PitchBendTickOutOfRange", ti, ei))>>)

NotesFault(t, duration, ti) ==
  FirstFault([ni \in DOMAIN t.notes |-> NoteFault(t.notes[ni], duration, ti, ni)])
BendsFault(t, duration, ti) ==
  FirstFault([ei \in DOMAIN t.bends |-> BendFault(t.bends[ei], duration, ti, ei)])

(* Mutant: the bends are looked at before the notes.                       *)
TrackFaultBendsFirst(t, duration, ti) ==
  FirstFault(<<Unless(t.channel \in 1 .. 16, Fault("InvalidMidiChannel", ti, 0)),
               Unless(t.instrument <= 127, Fault("InvalidMidiInstrument", ti, 0)),
               BendsFault(t, duration, ti), NotesFault(t, duration, ti)>>)

TrackFault(t, duration, ti) ==
  FirstFault(<<Unless(t.channel \in 1 .. 16, Fault("InvalidMidiChannel", ti, 0)),
               Unless(t.instrument <= 127, Fault("InvalidMidiInstrument", ti, 0)),
               NotesFault(t, duration, ti), BendsFault(t, duration, ti)>>)

TracksFault(p) ==
  FirstFault([ti \in DOMAIN p.tracks |-> TrackFault(p.tracks[ti], p.header.loopDuration, ti)])

Validate(p) == FirstFault(<<HeaderFault(p.header), TracksFault(p)>>)

-----------------------------------------------------------------------------
(* What makes a project playable, without an order.                        *)

GoodHeader(h) == h.bpm \in 20 .. 300 /\ h.loopDuration > 0
GoodNote(n, duration) ==
  n.duration > 0 /\ n.start < duration /\ n.start + n.duration <= 2 * duration
GoodBend(b, duration) == b.value <= 16383 /\ b.tick < duration
GoodNotes(t, duration) == \A n \in Range(t.notes) : GoodNote(n, duration)
GoodTrack(t, duration) ==
  /\ t.channel \in 1 .. 16 /\ t.instrument \in 0 .. 127
  /\ GoodNotes(t, duration)
  /\ \A b \in Range(t.bends) : GoodBend(b, duration)

Playable(p) ==
  GoodHeader(p.header) /\ \A t \in Range(p.tracks) : GoodTrack(t, p.header.loopDuration)

=============================================================================
