-------------------------------- MODULE Wire --------------------------------
(***************************************************************************)
(* The data that passes through the daemon: from the JSON of a client to   *)
(* the store and back, and from the store to the bytes on the output port; *)
(* next to it the clock bytes from the sync port to the output port.       *)
(* Interleavings are the matter of Daemon and Player: here a request is    *)
(* one step.                                                               *)
(***************************************************************************)
EXTENDS Validation, MidiBytes

CONSTANTS
  None,
  Uploads,      \* the projects clients send
  Tempi,        \* the tempi they set
  Inputs        \* what comes in on the sync port

(* The receiver's port delivers whole messages: of the clock, or others.   *)
Delivered ==
  {ClockBytes(m) : m \in ClockMessage}
    \cup {b \in Seq(Byte) : b # <<>> /\ b[1] \notin {242, 248, 250, 251, 252}}

ASSUME WireAssumption ==
  /\ Uploads \subseteq WireProject
  /\ Tempi \subseteq Fits(U32)
  /\ \A bytes \in Inputs : bytes \in Delivered

VARIABLES
  active, pending,   \* ProjectStore
  last               \* history: the request or message handled last

vars == <<active, pending, last>>

Handled(what, with, outcome) == last' = [what |-> what, with |-> with, outcome |-> outcome]
KeepStore == UNCHANGED <<active, pending>>

-----------------------------------------------------------------------------
Malformed(w) ==
  /\ ~Deserialized(w)
  /\ Handled("malformed", w, "UnknownCommand")
  /\ KeepStore

(* set_pending and, for create-project, commit_pending.                    *)
CreateProject(w) ==
  /\ Deserialized(w)
  /\ LET p == BuildDomainProject(w)
         e == Validate(p)
     IN  /\ IF e = Valid THEN active' = p /\ pending' = None ELSE KeepStore
         /\ Handled("create-project", w, e)

ModifyProject(w) ==
  /\ Deserialized(w)
  /\ LET p == BuildDomainProject(w)
         e == Validate(p)
     IN  /\ pending' = IF e = Valid THEN p ELSE pending
         /\ Handled("modify-project", w, e)
  /\ UNCHANGED active

(* The range is checked before the project is rebuilt.                     *)
SetBpm(bpm) ==
  /\ IF bpm \in 20 .. 300
       THEN /\ pending' = IF active = None THEN pending ELSE [active EXCEPT !.header.bpm = bpm]
            /\ Handled("set-bpm", bpm, Valid)
       ELSE /\ UNCHANGED pending
            /\ Handled("set-bpm", bpm, Fault("BpmOutOfRange", 0, 0))
  /\ UNCHANGED active

(* A loop boundary.                                                        *)
CommitPending ==
  /\ pending # None
  /\ active' = pending /\ pending' = None
  /\ last' = None

ClearProject ==
  /\ active' = None /\ pending' = None
  /\ last' = None

(* What the client prints of the answer is the two projects, as they came. *)
Shown(p) == IF p = None THEN None ELSE ProjectToJson(p)

GetProject ==
  /\ Handled("project", None, [current |-> Shown(active), pending |-> Shown(pending)])
  /\ KeepStore

(* SharedMidiOutput: the player and the receiver's callback share the      *)
(* port, one whole message at a time.                                      *)
Sends(what, with, bytes) == Handled(what, with, bytes) /\ KeepStore

(* The player sends an event of the active project.  A bend's value is a   *)
(* u16 by now.                                                             *)
Play ==
  /\ active # None
  /\ \E t \in Range(active.tracks) :
       \/ Sends("program", t, ProgramChangeBytes(t.channel, t.instrument))
       \/ \E n \in Range(t.notes) :
            \/ Sends("note-on", [channel |-> t.channel, note |-> n],
                     NoteOnBytes(t.channel, n.pitch, n.velocity))
            \/ Sends("note-off", [channel |-> t.channel, note |-> n],
                     NoteOffBytes(t.channel, n.pitch))
       \/ \E b \in Range(t.bends) :
            Sends("bend", [channel |-> t.channel, bend |-> b],
                  PitchBendBytes(t.channel, b.value))

(* The input callback of the receiver.                                     *)
Relay(bytes) == Sends("relay", bytes, ForwardClockMessage(bytes))

Init == active = None /\ pending = None /\ last = None

Next ==
  \/ \E w \in Uploads : Malformed(w) \/ CreateProject(w) \/ ModifyProject(w)
  \/ \E bpm \in Tempi : SetBpm(bpm)
  \/ CommitPending \/ ClearProject \/ GetProject \/ Play
  \/ \E bytes \in Inputs : Relay(bytes)

Spec == Init /\ [][Next]_vars

-----------------------------------------------------------------------------
(* What is in the store, put there by whatever request, can be played (it  *)
(* meets what LoopEvents assumes of a song), and a client that downloads   *)
(* it and uploads it again gets the same project: pitch and velocity are   *)
(* cut to eight bits once and not again.                                   *)
StoreSound ==
  \A p \in {active, pending} \ {None} :
    /\ Playable(p)
    /\ Deserialized(ProjectToJson(p))
    /\ BuildDomainProject(ProjectToJson(p)) = p

(* The fault e is the first one of the uploaded project w.                  *)
ReportsFirst(w, e) ==
  LET p == BuildDomainProject(w)
      d == p.header.loopDuration
      t == p.tracks[e.track]
      InNotes == {"NoteDurationZero", "NoteStartTickOutOfRange", "NoteDurationExceedsLimit"}
      InBends == {"PitchBendValueOutOfRange", "PitchBendTickOutOfRange"}
  IN  /\ e = Valid <=> Playable(p)
      /\ e.kind = "LoopDurationZero" => p.header.bpm \in 20 .. 300
      /\ e.track > 0 =>
           /\ GoodHeader(p.header) /\ ~GoodTrack(t, d)
           /\ \A i \in 1 .. (e.track - 1) : GoodTrack(p.tracks[i], d)
      /\ e.kind \in InNotes \cup InBends => t.channel \in 1 .. 16 /\ t.instrument <= 127
      /\ e.kind \in InNotes =>
           /\ ~GoodNote(t.notes[e.item], d)
           /\ \A i \in 1 .. (e.item - 1) : GoodNote(t.notes[i], d)
           /\ e.kind # "NoteDurationZero" => t.notes[e.item].duration > 0
           /\ e.kind = "NoteDurationExceedsLimit" => t.notes[e.item].start < d
      /\ e.kind \in InBends =>
           /\ GoodNotes(t, d) /\ ~GoodBend(t.bends[e.item], d)
           /\ \A i \in 1 .. (e.item - 1) : GoodBend(t.bends[i], d)

(* An upload is refused exactly if it is not playable, and for its first   *)
(* fault in document order: the header ("check LoopDurationZero before any *)
(* track"), then track by track, its notes ("per-note order") before its   *)
(* bends ("only after all of this track's notes pass").                    *)
FirstFaultReported ==
  last # None /\ last.what \in {"create-project", "modify-project"} =>
    ReportsFirst(last.with, last.outcome)

(* A listener on the output port reads what was meant, and the clock on    *)
(* the sync port and nothing else passes to the output port as it came.    *)
(* A pitch or a velocity above 127 is not checked by the code and makes    *)
(* no message; those notes are left out.                                   *)
BytesUnderstood ==
  last # None =>
    LET out == last.outcome
        channel == (out[1] % 16) + 1
    IN  CASE last.what = "note-on" /\ last.with.note.pitch <= 127 /\ last.with.note.velocity <= 127 ->
               /\ out[1] \div 16 = 9 /\ channel = last.with.channel
               /\ <<out[2], out[3]>> = <<last.with.note.pitch, last.with.note.velocity>>
          [] last.what = "note-off" /\ last.with.note.pitch <= 127 ->
               /\ out[1] \div 16 = 8 /\ channel = last.with.channel
               /\ out[2] = last.with.note.pitch
          [] last.what = "program" ->
               out[1] \div 16 = 12 /\ channel = last.with.channel /\ out[2] = last.with.instrument
          [] last.what = "bend" ->
               /\ out[1] \div 16 = 14 /\ channel = last.with.channel
               /\ out[2] <= 127 /\ out[3] <= 127
               /\ out[2] + 128 * out[3] = last.with.bend.value
          [] last.what = "relay" ->
               out = IF last.with[1] \in {242, 248, 250, 251, 252} THEN last.with ELSE <<>>
          [] OTHER -> TRUE

=============================================================================
