--------------------------- MODULE WireProofs -------------------------------
(***************************************************************************)
(* For every project, message and value: an upload is refused for its      *)
(* first fault or stored as it was sent, the store holds only projects     *)
(* that can be played, and what goes over a MIDI cable is understood at    *)
(* its other end.                                                          *)
(***************************************************************************)
EXTENDS Wire, SequenceTheorems, WellFoundedInduction, NaturalsInduction, TLAPS

LEMMA HalvesAreSevenBits ==
  ASSUME NEW v \in Nat
  PROVE  Low(v) \in SevenBits /\ High(v) \in SevenBits
  BY DEF Low, High, SevenBits

LEMMA HalvesMakeTheWhole ==
  ASSUME NEW v \in FourteenBits
  PROVE  High(v) * 128 + Low(v) = v
  BY DEF Low, High, FourteenBits

LEMMA FourteenBitsAre ==
  ASSUME NEW v \in Int
  PROVE  v \in FourteenBits <=> (0 <= v /\ v <= 16383)
  BY DEF FourteenBits

LEMMA LowOfSevenBits ==
  ASSUME NEW v \in SevenBits
  PROVE  Low(v) = v
  BY DEF Low, SevenBits

(* A Song Position Pointer of propeller-clock, or of a relay, arrives as   *)
(* the position that was sent.                                             *)
THEOREM SongPositionUnderstood ==
  ASSUME NEW p \in FourteenBits
  PROVE  ClassifyClockMessage(SongPositionBytes(p)) = Located(p)
<1> DEFINE b == SongPositionBytes(p)
<1>1. b = <<242, Low(p), High(p)>> /\ Len(b) = 3 /\ b[1] = 242 /\ b[2] = Low(p) /\ b[3] = High(p)
  BY DEF SongPositionBytes
<1>2. b # <<248>> /\ b # <<250>> /\ b # <<251>> /\ b # <<252>>
  BY <1>1
<1>3. p \in Nat
  BY DEF FourteenBits
<1>4. Low(b[3]) * 128 + Low(b[2]) = p
  BY <1>1, <1>3, HalvesAreSevenBits, LowOfSevenBits, HalvesMakeTheWhole
<1>5. QED
  BY <1>1, <1>2, <1>4 DEF ClassifyClockMessage

(* Every clock message is heard as itself: what propeller-clock sends, and *)
(* what a receiver relays, means the same to the next receiver.            *)
THEOREM ClockMessagesUnderstood ==
  ASSUME NEW m \in ClockMessage
  PROVE  ClassifyClockMessage(ClockBytes(m)) = m
<1>1. CASE m \in Realtime
  BY <1>1 DEF Realtime, Plain, ClockBytes, ClassifyClockMessage,
              ClockTickBytes, ClockStartBytes, ClockContinueBytes, ClockStopBytes
<1>2. CASE m \notin Realtime
  <2>1. PICK p \in FourteenBits : m = Located(p)
    BY <1>2 DEF ClockMessage
  <2>2. ClockBytes(m) = SongPositionBytes(p)
    BY <2>1 DEF Located, ClockBytes
  <2>3. QED
    BY <2>1, <2>2, SongPositionUnderstood
<1>3. QED
  BY <1>1, <1>2

(* The relay of a clock message is the message, byte for byte.             *)
THEOREM RelayIsFaithful ==
  ASSUME NEW m \in ClockMessage
  PROVE  ForwardClockMessage(ClockBytes(m)) = ClockBytes(m)
<1>1. m # NoMessage
  BY DEF ClockMessage, Realtime, Plain, Located, NoMessage
<1>2. QED
  BY <1>1, ClockMessagesUnderstood DEF ForwardClockMessage

(* Notes, program changes and bends that come in on the sync port are not  *)
(* taken for the clock, and not relayed.                                   *)
THEOREM VoiceMessagesIgnored ==
  ASSUME NEW c \in Channels, NEW x \in Byte, NEW y \in Byte, NEW v \in Nat
  PROVE  /\ ForwardClockMessage(NoteOnBytes(c, x, y)) = <<>>
         /\ ForwardClockMessage(NoteOffBytes(c, x)) = <<>>
         /\ ForwardClockMessage(ProgramChangeBytes(c, x)) = <<>>
         /\ ForwardClockMessage(PitchBendBytes(c, v)) = <<>>
<1> USE DEF ForwardClockMessage, ClassifyClockMessage, Channels
<1>1. ForwardClockMessage(NoteOnBytes(c, x, y)) = <<>>
  BY DEF NoteOnBytes
<1>2. ForwardClockMessage(NoteOffBytes(c, x)) = <<>>
  BY DEF NoteOffBytes
<1>3. ForwardClockMessage(ProgramChangeBytes(c, x)) = <<>>
  BY DEF ProgramChangeBytes
<1>4. ForwardClockMessage(PitchBendBytes(c, v)) = <<>>
  BY DEF PitchBendBytes
<1>5. QED
  BY <1>1, <1>2, <1>3, <1>4

(* A bend that passed validation is sent as two data bytes that give its   *)
(* value back.                                                             *)
THEOREM BendsExact ==
  ASSUME NEW c \in Channels, NEW v \in FourteenBits
  PROVE  LET b == PitchBendBytes(c, v)
         IN  /\ b[2] \in SevenBits /\ b[3] \in SevenBits
             /\ b[3] * 128 + b[2] = v
<1>1. v \in Nat
  BY DEF FourteenBits
<1>2. /\ PitchBendBytes(c, v)[2] = Low(v)
      /\ PitchBendBytes(c, v)[3] = High(v)
  BY DEF PitchBendBytes
<1>3. QED
  BY <1>1, <1>2, HalvesAreSevenBits, HalvesMakeTheWhole

-----------------------------------------------------------------------------
(* What the store holds: integers that fit their fields.                   *)

StoredNote == [start : Fits(U32), duration : Fits(U32), pitch : Fits(U8), velocity : Fits(U8)]
StoredBend == [tick : Fits(U32), value : Fits(U32)]
StoredTrack == [channel : Fits(U8), instrument : Fits(U8),
                notes : Seq(StoredNote), bends : Seq(StoredBend)]
StoredProject == [header : [bpm : Fits(U32), loopDuration : Fits(U32)],
                  tracks : Seq(StoredTrack)]

(* A sequence converted element by element.                                *)
LEMMA Converted ==
  ASSUME NEW S, NEW R, NEW s \in Seq(S), NEW r,
         DOMAIN r = DOMAIN s, r = [i \in DOMAIN s |-> r[i]],
         \A i \in DOMAIN s : r[i] \in R
  PROVE  r \in Seq(R)
<1>1. Len(s) \in Nat /\ DOMAIN s = 1 .. Len(s)
  BY LenProperties
<1>2. r \in [1 .. Len(s) -> R]
  BY <1>1
<1> QED
  BY <1>1, <1>2, SeqDef

LEMMA CutToEightBits ==
  ASSUME NEW v \in Fits(U32)
  PROVE  v % U8 \in Fits(U8)
BY WidthAssumption DEF Fits

LEMMA EightBitsKept ==
  ASSUME NEW v \in Fits(U8)
  PROVE  v % U8 = v /\ v \in Fits(U32)
BY WidthAssumption DEF Fits

LEMMA TrackStored ==
  ASSUME NEW t \in WireTrack,
         t.channel \in Fits(U8), t.instrument \in Fits(U8),
         \A n \in Range(t.notes) : \A i \in 1 .. 4 : n[i] \in Fits(U32),
         \A b \in Range(t.bends) : \A i \in 1 .. 2 : b[i] \in Fits(U32)
  PROVE  WireTrackToDomain(t) \in StoredTrack
<1> DEFINE notes == [i \in DOMAIN t.notes |-> Note(t.notes[i])]
           bends == [i \in DOMAIN t.bends |-> PitchBend(t.bends[i])]
<1>1. WireTrackToDomain(t) = [channel |-> t.channel, instrument |-> t.instrument,
                              notes |-> notes, bends |-> bends]
  BY DEF WireTrackToDomain, Each
<1>2. \A i \in DOMAIN t.notes : notes[i] \in StoredNote
  <2> TAKE i \in DOMAIN t.notes
  <2>1. \A k \in 1 .. 4 : t.notes[i][k] \in Fits(U32)
    BY DEF Range
  <2>2. /\ t.notes[i][1] \in Fits(U32) /\ t.notes[i][2] \in Fits(U32)
        /\ t.notes[i][3] % U8 \in Fits(U8) /\ t.notes[i][4] % U8 \in Fits(U8)
    BY <2>1, CutToEightBits
  <2> QED
    BY <2>2 DEF Note, StoredNote
<1>3. \A i \in DOMAIN t.bends : bends[i] \in StoredBend
  <2> TAKE i \in DOMAIN t.bends
  <2>1. \A k \in 1 .. 2 : t.bends[i][k] \in Fits(U32)
    BY DEF Range
  <2> QED
    BY <2>1 DEF PitchBend, StoredBend
<1>4. notes \in Seq(StoredNote)
  <2>1. t.notes \in Seq(Int \X Int \X Int \X Int)
    BY DEF WireTrack
  <2> QED
    BY <1>2, <2>1, Converted
<1>5. bends \in Seq(StoredBend)
  <2>1. t.bends \in Seq(Int \X Int)
    BY DEF WireTrack
  <2> QED
    BY <1>3, <2>1, Converted
<1> HIDE DEF notes, bends
<1> QED
  BY <1>1, <1>4, <1>5 DEF StoredTrack

LEMMA UploadStored ==
  ASSUME NEW w \in WireProject, Deserialized(w)
  PROVE  BuildDomainProject(w) \in StoredProject
<1> DEFINE tracks == [i \in DOMAIN w.tracks |-> WireTrackToDomain(w.tracks[i])]
<1>0. w.tracks \in Seq(WireTrack)
  BY DEF WireProject
<1>1. BuildDomainProject(w) = [header |-> w.header, tracks |-> tracks]
  BY DEF BuildDomainProject, Each
<1>2. \A i \in DOMAIN w.tracks : tracks[i] \in StoredTrack
  <2> TAKE i \in DOMAIN w.tracks
  <2>1. w.tracks[i] \in WireTrack
    BY <1>0, LenProperties
  <2>2. w.tracks[i] \in Range(w.tracks)
    BY DEF Range
  <2> QED
    BY <2>1, <2>2, TrackStored DEF Deserialized
<1>3. tracks \in Seq(StoredTrack)
  <2> DEFINE s == w.tracks
  <2>1. s \in Seq(WireTrack) /\ DOMAIN tracks = DOMAIN s /\ \A i \in DOMAIN s : tracks[i] \in StoredTrack
    BY <1>0, <1>2
  <2>2. tracks = [i \in DOMAIN s |-> tracks[i]]
    OBVIOUS
  <2> HIDE DEF tracks, s
  <2> QED
    BY <2>1, <2>2, Converted
<1>4. w.header \in [bpm : Fits(U32), loopDuration : Fits(U32)]
  BY DEF WireProject, Deserialized
<1> HIDE DEF tracks
<1> QED
  BY <1>1, <1>3, <1>4 DEF StoredProject

(* The way back to JSON and into the store again.                          *)
LEMMA SameSequence ==
  ASSUME NEW S, NEW s \in Seq(S), NEW r,
         DOMAIN r = DOMAIN s, r = [i \in DOMAIN s |-> r[i]],
         \A i \in DOMAIN s : r[i] = s[i]
  PROVE  r = s
<1>1. s \in [1 .. Len(s) -> S] /\ DOMAIN s = 1 .. Len(s)
  BY LenProperties
<1>2. s = [i \in DOMAIN s |-> s[i]]
  BY <1>1
<1> QED
  BY <1>2

LEMMA NoteRoundTrip ==
  ASSUME NEW n \in StoredNote
  PROVE  /\ Note(<<n.start, n.duration, n.pitch, n.velocity>>) = n
         /\ \A i \in 1 .. 4 : <<n.start, n.duration, n.pitch, n.velocity>>[i] \in Fits(U32)
<1>1. /\ n.start \in Fits(U32) /\ n.duration \in Fits(U32)
      /\ n.pitch \in Fits(U8) /\ n.velocity \in Fits(U8)
      /\ n = [start |-> n.start, duration |-> n.duration, pitch |-> n.pitch,
              velocity |-> n.velocity]
  BY DEF StoredNote
<1>2. /\ n.pitch % U8 = n.pitch /\ n.velocity % U8 = n.velocity
      /\ n.pitch \in Fits(U32) /\ n.velocity \in Fits(U32)
  BY <1>1, EightBitsKept
<1>3. Note(<<n.start, n.duration, n.pitch, n.velocity>>) = n
  BY <1>1, <1>2 DEF Note
<1> QED
  BY <1>1, <1>2, <1>3

LEMMA BendRoundTrip ==
  ASSUME NEW b \in StoredBend
  PROVE  /\ PitchBend(<<b.tick, b.value>>) = b
         /\ \A i \in 1 .. 2 : <<b.tick, b.value>>[i] \in Fits(U32)
BY DEF StoredBend, PitchBend

LEMMA TrackRoundTrip ==
  ASSUME NEW t \in StoredTrack
  PROVE  /\ WireTrackToDomain(TrackToJson(t)) = t
         /\ LET j == TrackToJson(t)
            IN  /\ j.channel \in Fits(U8) /\ j.instrument \in Fits(U8)
                /\ \A n \in Range(j.notes) : \A i \in 1 .. 4 : n[i] \in Fits(U32)
                /\ \A b \in Range(j.bends) : \A i \in 1 .. 2 : b[i] \in Fits(U32)
<1> DEFINE notes == t.notes
           bends == t.bends
           noteJson(n) == <<n.start, n.duration, n.pitch, n.velocity>>
           bendJson(b) == <<b.tick, b.value>>
           jNotes == [i \in DOMAIN notes |-> noteJson(notes[i])]
           jBends == [i \in DOMAIN bends |-> bendJson(bends[i])]
           rNotes == [i \in DOMAIN notes |-> Note(jNotes[i])]
           rBends == [i \in DOMAIN bends |-> PitchBend(jBends[i])]
<1>1. /\ notes \in Seq(StoredNote) /\ \A i \in DOMAIN notes : notes[i] \in StoredNote
      /\ bends \in Seq(StoredBend) /\ \A i \in DOMAIN bends : bends[i] \in StoredBend
  BY LenProperties DEF StoredTrack
<1>2. \A i \in DOMAIN notes : /\ rNotes[i] = notes[i]
                              /\ \A k \in 1 .. 4 : jNotes[i][k] \in Fits(U32)
  BY <1>1, NoteRoundTrip
<1>3. \A i \in DOMAIN bends : /\ rBends[i] = bends[i]
                              /\ \A k \in 1 .. 2 : jBends[i][k] \in Fits(U32)
  BY <1>1, BendRoundTrip
<1>4. rNotes = notes
  BY <1>1, <1>2, SameSequence
<1>5. rBends = bends
  BY <1>1, <1>3, SameSequence
<1>6. TrackToJson(t) = [channel |-> t.channel, instrument |-> t.instrument,
                        notes |-> jNotes, bends |-> jBends]
  BY DEF TrackToJson, Each
<1>7. WireTrackToDomain(TrackToJson(t))
        = [channel |-> t.channel, instrument |-> t.instrument,
           notes |-> rNotes, bends |-> rBends]
  BY <1>6 DEF WireTrackToDomain, Each
<1>8. t = [channel |-> t.channel, instrument |-> t.instrument,
           notes |-> notes, bends |-> bends]
      /\ t.channel \in Fits(U8) /\ t.instrument \in Fits(U8)
  BY DEF StoredTrack
<1>9. /\ \A n \in Range(jNotes) : \A i \in 1 .. 4 : n[i] \in Fits(U32)
      /\ \A b \in Range(jBends) : \A i \in 1 .. 2 : b[i] \in Fits(U32)
  BY <1>2, <1>3 DEF Range
<1> HIDE DEF notes, bends, jNotes, jBends, rNotes, rBends
<1> QED
  BY <1>4, <1>5, <1>6, <1>7, <1>8, <1>9

LEMMA ProjectRoundTrip ==
  ASSUME NEW p \in StoredProject
  PROVE  Deserialized(ProjectToJson(p)) /\ BuildDomainProject(ProjectToJson(p)) = p
<1> DEFINE tracks == p.tracks
           json == [i \in DOMAIN tracks |-> TrackToJson(tracks[i])]
           again == [i \in DOMAIN tracks |-> WireTrackToDomain(json[i])]
<1>1. tracks \in Seq(StoredTrack) /\ \A i \in DOMAIN tracks : tracks[i] \in StoredTrack
  BY LenProperties DEF StoredProject
<1>2. \A i \in DOMAIN tracks : again[i] = tracks[i]
  BY <1>1, TrackRoundTrip
<1>3. again = tracks
  BY <1>1, <1>2, SameSequence
<1>4. ProjectToJson(p) = [header |-> p.header, tracks |-> json]
  BY DEF ProjectToJson, Each
<1>5. BuildDomainProject(ProjectToJson(p)) = [header |-> p.header, tracks |-> again]
  BY <1>4 DEF BuildDomainProject, Each
<1>6. /\ p = [header |-> p.header, tracks |-> tracks]
      /\ p.header.bpm \in Fits(U32) /\ p.header.loopDuration \in Fits(U32)
  BY DEF StoredProject
<1>7. \A j \in Range(json) :
        /\ j.channel \in Fits(U8) /\ j.instrument \in Fits(U8)
        /\ \A n \in Range(j.notes) : \A i \in 1 .. 4 : n[i] \in Fits(U32)
        /\ \A b \in Range(j.bends) : \A i \in 1 .. 2 : b[i] \in Fits(U32)
  <2> TAKE j \in Range(json)
  <2>1. PICK i \in DOMAIN tracks : j = TrackToJson(tracks[i])
    BY DEF Range
  <2> QED
    BY <1>1, <2>1, TrackRoundTrip
<1>8. Deserialized(ProjectToJson(p))
  BY <1>4, <1>6, <1>7 DEF Deserialized
<1> HIDE DEF tracks, json, again
<1> QED
  BY <1>3, <1>5, <1>6, <1>8

-----------------------------------------------------------------------------
(* validate: the first fault in document order, if there is one.           *)

LEMMA Least ==
  ASSUME NEW ticks \in SUBSET Nat, ticks # {}
  PROVE  Min(ticks) \in ticks /\ \A u \in ticks : Min(ticks) <= u
<1> DEFINE Less == {ss \in Nat \X Nat : ss[1] < ss[2]}
<1>1. IsWellFoundedOn(Less, Nat)
  <2>1. OpToRel(<, Nat) = Less
    BY Zenon DEF OpToRel
  <2> QED
    BY <2>1, NatLessThanWellFounded, Zenon
<1>2. \E t \in ticks : \A u \in ticks : t <= u
  <2> HIDE DEF Less
  <2>1. PICK t \in ticks : \A u \in ticks : <<u, t>> \notin Less
    BY <1>1, WFMin
  <2>2. ASSUME NEW u \in ticks PROVE t <= u
    <3>1. u < t => <<u, t>> \in Less
      BY DEF Less
    <3> QED
      BY <2>1, <3>1
  <2> QED
    BY <2>2
<1> QED
  BY <1>2 DEF Min

LEMMA FirstFaultIs ==
  ASSUME NEW s, DOMAIN s \subseteq Nat
  PROVE  \/ FirstFault(s) = Valid /\ \A i \in DOMAIN s : s[i] = Valid
         \/ \E k \in DOMAIN s : /\ FirstFault(s) = s[k] /\ s[k] # Valid
                                /\ \A i \in DOMAIN s : i < k => s[i] = Valid
<1> DEFINE faults == {i \in DOMAIN s : s[i] # Valid}
<1>1. CASE faults = {}
  BY <1>1 DEF FirstFault
<1>2. CASE faults # {}
  <2>1. Min(faults) \in faults /\ \A u \in faults : Min(faults) <= u
    BY <1>2, Least
  <2>2. FirstFault(s) = s[Min(faults)]
    BY <1>2 DEF FirstFault
  <2>3. \A i \in DOMAIN s : i < Min(faults) => s[i] = Valid
    BY <2>1
  <2> QED
    BY <2>1, <2>2, <2>3
<1> QED
  BY <1>1, <1>2

LEMMA FirstOfTwo ==
  ASSUME NEW a, NEW b
  PROVE  FirstFault(<<a, b>>) = IF a # Valid THEN a ELSE b
<1> DEFINE s == <<a, b>>
<1>1. DOMAIN s = {1, 2} /\ s[1] = a /\ s[2] = b
  OBVIOUS
<1> HIDE DEF s
<1> QED
  BY <1>1, FirstFaultIs DEF s

LEMMA FirstOfThree ==
  ASSUME NEW a, NEW b, NEW c
  PROVE  FirstFault(<<a, b, c>>) = IF a # Valid THEN a ELSE IF b # Valid THEN b ELSE c
<1> DEFINE s == <<a, b, c>>
<1>1. DOMAIN s = 1 .. 3 /\ s[1] = a /\ s[2] = b /\ s[3] = c
  OBVIOUS
<1> HIDE DEF s
<1> QED
  BY <1>1, FirstFaultIs DEF s

LEMMA FirstOfFour ==
  ASSUME NEW a, NEW b, NEW c, NEW d
  PROVE  FirstFault(<<a, b, c, d>>) = IF a # Valid THEN a ELSE IF b # Valid THEN b
                                      ELSE IF c # Valid THEN c ELSE d
<1> DEFINE s == <<a, b, c, d>>
<1>1. DOMAIN s = 1 .. 4 /\ s[1] = a /\ s[2] = b /\ s[3] = c /\ s[4] = d
  OBVIOUS
<1> HIDE DEF s
<1> QED
  BY <1>1, FirstFaultIs DEF s

NoteKinds == {"NoteDurationZero", "NoteStartTickOutOfRange", "NoteDurationExceedsLimit"}
BendKinds == {"PitchBendValueOutOfRange", "PitchBendTickOutOfRange"}

LEMMA NoteVerdict ==
  ASSUME NEW n \in StoredNote, NEW d \in Fits(U32), NEW ti, NEW ni
  PROVE  LET e == NoteFault(n, d, ti, ni)
         IN  \/ e = Valid /\ GoodNote(n, d)
             \/ /\ e # Valid /\ ~GoodNote(n, d)
                /\ e.track = ti /\ e.item = ni /\ e.kind \in NoteKinds
                /\ e.kind # "NoteDurationZero" => n.duration > 0
                /\ e.kind = "NoteDurationExceedsLimit" => n.start < d
<1>1. n.duration \in Nat /\ n.start \in Nat /\ d \in Nat
  BY WidthAssumption DEF StoredNote, Fits
<1> DEFINE a == Unless(n.duration # 0, Fault("NoteDurationZero", ti, ni))
           b == Unless(n.start < d, Fault("NoteStartTickOutOfRange", ti, ni))
           c == Unless(n.start + n.duration <= 2 * d, Fault("NoteDurationExceedsLimit", ti, ni))
<1>2. NoteFault(n, d, ti, ni) = IF a # Valid THEN a ELSE IF b # Valid THEN b ELSE c
  BY FirstOfThree DEF NoteFault
<1> QED
  BY <1>1, <1>2 DEF Unless, Fault, Valid, GoodNote, NoteKinds

LEMMA BendVerdict ==
  ASSUME NEW b \in StoredBend, NEW d \in Fits(U32), NEW ti, NEW ei
  PROVE  LET e == BendFault(b, d, ti, ei)
         IN  \/ e = Valid /\ GoodBend(b, d)
             \/ /\ e # Valid /\ ~GoodBend(b, d)
                /\ e.track = ti /\ e.item = ei /\ e.kind \in BendKinds
<1>1. b.value \in Nat /\ b.tick \in Nat /\ d \in Nat
  BY WidthAssumption DEF StoredBend, Fits
<1> DEFINE x == Unless(b.value <= 16383, Fault("PitchBendValueOutOfRange", ti, ei))
           y == Unless(b.tick < d, Fault("PitchBendTickOutOfRange", ti, ei))
<1>2. BendFault(b, d, ti, ei) = IF x # Valid THEN x ELSE y
  BY FirstOfTwo DEF BendFault
<1> QED
  BY <1>1, <1>2 DEF Unless, Fault, Valid, GoodBend, BendKinds

LEMMA NotesVerdict ==
  ASSUME NEW t \in StoredTrack, NEW d \in Fits(U32), NEW ti
  PROVE  LET e == NotesFault(t, d, ti)
         IN  \/ e = Valid /\ GoodNotes(t, d)
             \/ /\ e # Valid /\ ~GoodNotes(t, d)
                /\ e.track = ti /\ e.kind \in NoteKinds
                /\ e.item \in DOMAIN t.notes /\ ~GoodNote(t.notes[e.item], d)
                /\ \A i \in 1 .. (e.item - 1) : GoodNote(t.notes[i], d)
                /\ e.kind # "NoteDurationZero" => t.notes[e.item].duration > 0
                /\ e.kind = "NoteDurationExceedsLimit" => t.notes[e.item].start < d
<1> DEFINE s == [ni \in DOMAIN t.notes |-> NoteFault(t.notes[ni], d, ti, ni)]
           e == NotesFault(t, d, ti)
<1>1. /\ Len(t.notes) \in Nat /\ DOMAIN t.notes = 1 .. Len(t.notes)
      /\ \A i \in DOMAIN t.notes : t.notes[i] \in StoredNote
  BY LenProperties DEF StoredTrack
<1>2. \A i \in DOMAIN t.notes :
        \/ s[i] = Valid /\ GoodNote(t.notes[i], d)
        \/ /\ s[i] # Valid /\ ~GoodNote(t.notes[i], d)
           /\ s[i].track = ti /\ s[i].item = i /\ s[i].kind \in NoteKinds
           /\ s[i].kind # "NoteDurationZero" => t.notes[i].duration > 0
           /\ s[i].kind = "NoteDurationExceedsLimit" => t.notes[i].start < d
  BY <1>1, NoteVerdict
<1>3. DOMAIN s = DOMAIN t.notes /\ DOMAIN s \subseteq Nat /\ e = FirstFault(s)
  BY <1>1 DEF NotesFault
<1> HIDE DEF s, e
<1>4. \/ e = Valid /\ \A i \in DOMAIN s : s[i] = Valid
      \/ \E k \in DOMAIN s : /\ e = s[k] /\ s[k] # Valid
                             /\ \A i \in DOMAIN s : i < k => s[i] = Valid
  BY <1>3, FirstFaultIs
<1>5. CASE e = Valid /\ \A i \in DOMAIN s : s[i] = Valid
  BY <1>2, <1>3, <1>5 DEF GoodNotes, Range, e
<1>6. ASSUME NEW k \in DOMAIN s, e = s[k], s[k] # Valid,
             \A i \in DOMAIN s : i < k => s[i] = Valid
      PROVE  /\ e # Valid /\ ~GoodNotes(t, d)
             /\ e.track = ti /\ e.kind \in NoteKinds
             /\ e.item \in DOMAIN t.notes /\ ~GoodNote(t.notes[e.item], d)
             /\ \A i \in 1 .. (e.item - 1) : GoodNote(t.notes[i], d)
             /\ e.kind # "NoteDurationZero" => t.notes[e.item].duration > 0
             /\ e.kind = "NoteDurationExceedsLimit" => t.notes[e.item].start < d
  <2>1. k \in DOMAIN t.notes /\ e.item = k /\ ~GoodNote(t.notes[k], d)
    BY <1>2, <1>3, <1>6
  <2>2. \A i \in 1 .. (k - 1) : GoodNote(t.notes[i], d)
    BY <1>1, <1>2, <1>3, <1>6, <2>1
  <2>3. ~GoodNotes(t, d)
    BY <2>1 DEF GoodNotes, Range
  <2> QED
    BY <1>2, <1>3, <1>6, <2>1, <2>2, <2>3
<1> QED
  BY <1>4, <1>5, <1>6 DEF e

LEMMA BendsVerdict ==
  ASSUME NEW t \in StoredTrack, NEW d \in Fits(U32), NEW ti
  PROVE  LET e == BendsFault(t, d, ti)
         IN  \/ e = Valid /\ \A b \in Range(t.bends) : GoodBend(b, d)
             \/ /\ e # Valid /\ ~GoodTrack(t, d)
                /\ e.track = ti /\ e.kind \in BendKinds
                /\ e.item \in DOMAIN t.bends /\ ~GoodBend(t.bends[e.item], d)
                /\ \A i \in 1 .. (e.item - 1) : GoodBend(t.bends[i], d)
<1> DEFINE s == [ei \in DOMAIN t.bends |-> BendFault(t.bends[ei], d, ti, ei)]
           e == BendsFault(t, d, ti)
<1>1. /\ Len(t.bends) \in Nat /\ DOMAIN t.bends = 1 .. Len(t.bends)
      /\ \A i \in DOMAIN t.bends : t.bends[i] \in StoredBend
  BY LenProperties DEF StoredTrack
<1>2. \A i \in DOMAIN t.bends :
        \/ s[i] = Valid /\ GoodBend(t.bends[i], d)
        \/ /\ s[i] # Valid /\ ~GoodBend(t.bends[i], d)
           /\ s[i].track = ti /\ s[i].item = i /\ s[i].kind \in BendKinds
  BY <1>1, BendVerdict
<1>3. DOMAIN s = DOMAIN t.bends /\ DOMAIN s \subseteq Nat /\ e = FirstFault(s)
  BY <1>1 DEF BendsFault
<1> HIDE DEF s, e
<1>4. \/ e = Valid /\ \A i \in DOMAIN s : s[i] = Valid
      \/ \E k \in DOMAIN s : /\ e = s[k] /\ s[k] # Valid
                             /\ \A i \in DOMAIN s : i < k => s[i] = Valid
  BY <1>3, FirstFaultIs
<1>5. CASE e = Valid /\ \A i \in DOMAIN s : s[i] = Valid
  BY <1>2, <1>3, <1>5 DEF Range, e
<1>6. ASSUME NEW k \in DOMAIN s, e = s[k], s[k] # Valid,
             \A i \in DOMAIN s : i < k => s[i] = Valid
      PROVE  /\ e # Valid /\ ~GoodTrack(t, d)
             /\ e.track = ti /\ e.kind \in BendKinds
             /\ e.item \in DOMAIN t.bends /\ ~GoodBend(t.bends[e.item], d)
             /\ \A i \in 1 .. (e.item - 1) : GoodBend(t.bends[i], d)
  <2>1. k \in DOMAIN t.bends /\ e.item = k /\ ~GoodBend(t.bends[k], d)
    BY <1>2, <1>3, <1>6
  <2>2. \A i \in 1 .. (k - 1) : GoodBend(t.bends[i], d)
    BY <1>1, <1>2, <1>3, <1>6, <2>1
  <2>3. ~GoodTrack(t, d)
    BY <2>1 DEF GoodTrack, Range
  <2> QED
    BY <1>2, <1>3, <1>6, <2>1, <2>2, <2>3
<1> QED
  BY <1>4, <1>5, <1>6 DEF e

(* What a fault says of the track it names.                                *)
FaultOf(e, t, d) ==
  /\ ~GoodTrack(t, d)
  /\ e.kind # "LoopDurationZero"
  /\ e.kind \in NoteKinds \cup BendKinds => t.channel \in 1 .. 16 /\ t.instrument <= 127
  /\ e.kind \in NoteKinds =>
       /\ ~GoodNote(t.notes[e.item], d)
       /\ \A i \in 1 .. (e.item - 1) : GoodNote(t.notes[i], d)
       /\ e.kind # "NoteDurationZero" => t.notes[e.item].duration > 0
       /\ e.kind = "NoteDurationExceedsLimit" => t.notes[e.item].start < d
  /\ e.kind \in BendKinds =>
       /\ GoodNotes(t, d) /\ ~GoodBend(t.bends[e.item], d)
       /\ \A i \in 1 .. (e.item - 1) : GoodBend(t.bends[i], d)

LEMMA TrackVerdict ==
  ASSUME NEW t \in StoredTrack, NEW d \in Fits(U32), NEW ti
  PROVE  LET e == TrackFault(t, d, ti)
         IN  \/ e = Valid /\ GoodTrack(t, d)
             \/ e # Valid /\ e.track = ti /\ FaultOf(e, t, d)
<1> DEFINE a == Unless(t.channel \in 1 .. 16, Fault("InvalidMidiChannel", ti, 0))
           b == Unless(t.instrument <= 127, Fault("InvalidMidiInstrument", ti, 0))
           n == NotesFault(t, d, ti)
           w == BendsFault(t, d, ti)
           e == TrackFault(t, d, ti)
<1>1. e = IF a # Valid THEN a ELSE IF b # Valid THEN b ELSE IF n # Valid THEN n ELSE w
  BY FirstOfFour DEF TrackFault
<1>2. t.instrument \in Nat
  BY WidthAssumption DEF StoredTrack, Fits
<1>3. CASE a # Valid
  <2>1. e = Fault("InvalidMidiChannel", ti, 0) /\ t.channel \notin 1 .. 16
    BY <1>1, <1>3 DEF Unless
  <2> QED
    BY <2>1 DEF Fault, Valid, FaultOf, GoodTrack, NoteKinds, BendKinds
<1>4. CASE a = Valid /\ b # Valid
  <2>1. e = Fault("InvalidMidiInstrument", ti, 0) /\ ~(t.instrument <= 127)
    BY <1>1, <1>4 DEF Unless
  <2> QED
    BY <1>2, <2>1 DEF Fault, Valid, FaultOf, GoodTrack, NoteKinds, BendKinds
<1>5. ASSUME a = Valid, b = Valid PROVE t.channel \in 1 .. 16 /\ t.instrument \in 0 .. 127
  BY <1>2, <1>5 DEF Unless, Fault, Valid
<1> HIDE DEF a, b, n, w, e
<1>6. CASE a = Valid /\ b = Valid /\ n # Valid
  <2>1. e = n
    BY <1>1, <1>6
  <2>2. /\ ~GoodNotes(t, d) /\ n.track = ti /\ n.kind \in NoteKinds
        /\ ~GoodNote(t.notes[n.item], d)
        /\ \A i \in 1 .. (n.item - 1) : GoodNote(t.notes[i], d)
        /\ n.kind # "NoteDurationZero" => t.notes[n.item].duration > 0
        /\ n.kind = "NoteDurationExceedsLimit" => t.notes[n.item].start < d
    BY <1>6, NotesVerdict DEF n
  <2>3. n.kind \notin BendKinds /\ n.kind # "LoopDurationZero"
    BY <2>2 DEF NoteKinds, BendKinds
  <2>4. ~GoodTrack(t, d)
    BY <2>2 DEF GoodTrack
  <2>5. FaultOf(e, t, d)
    BY <1>2, <1>5, <1>6, <2>1, <2>2, <2>3, <2>4 DEF FaultOf
  <2> QED
    BY <1>6, <2>1, <2>2, <2>5 DEF e
<1>7. CASE a = Valid /\ b = Valid /\ n = Valid
  <2>1. e = w /\ GoodNotes(t, d)
    BY <1>1, <1>7, NotesVerdict DEF n
  <2>2. CASE w = Valid
    <3>1. \A x \in Range(t.bends) : GoodBend(x, d)
      BY <2>2, BendsVerdict DEF w
    <3> QED
      BY <1>5, <1>7, <2>1, <2>2, <3>1 DEF GoodTrack, e
  <2>3. CASE w # Valid
    <3>1. /\ ~GoodTrack(t, d) /\ w.track = ti /\ w.kind \in BendKinds
          /\ ~GoodBend(t.bends[w.item], d)
          /\ \A i \in 1 .. (w.item - 1) : GoodBend(t.bends[i], d)
      BY <2>3, BendsVerdict DEF w
    <3>2. w.kind \notin NoteKinds /\ w.kind # "LoopDurationZero"
      BY <3>1 DEF NoteKinds, BendKinds
    <3>3. FaultOf(e, t, d)
      BY <1>2, <1>5, <1>7, <2>1, <3>1, <3>2 DEF FaultOf
    <3> QED
      BY <2>1, <2>3, <3>1, <3>3 DEF e
  <2> QED
    BY <2>2, <2>3
<1> QED
  BY <1>3, <1>4, <1>6, <1>7

LEMMA TracksVerdict ==
  ASSUME NEW p \in StoredProject
  PROVE  LET e == TracksFault(p)
             d == p.header.loopDuration
         IN  \/ e = Valid /\ \A t \in Range(p.tracks) : GoodTrack(t, d)
             \/ /\ e # Valid /\ e.track \in DOMAIN p.tracks /\ e.track > 0
                /\ FaultOf(e, p.tracks[e.track], d)
                /\ \A i \in 1 .. (e.track - 1) : GoodTrack(p.tracks[i], d)
<1> DEFINE d == p.header.loopDuration
           s == [ti \in DOMAIN p.tracks |-> TrackFault(p.tracks[ti], d, ti)]
           e == TracksFault(p)
<1>1. /\ Len(p.tracks) \in Nat /\ DOMAIN p.tracks = 1 .. Len(p.tracks)
      /\ \A i \in DOMAIN p.tracks : p.tracks[i] \in StoredTrack
      /\ d \in Fits(U32)
  BY LenProperties DEF StoredProject
<1>2. e = FirstFault(s)
  BY DEF TracksFault
<1> HIDE DEF d, e
<1>3. \A i \in DOMAIN p.tracks :
        \/ s[i] = Valid /\ GoodTrack(p.tracks[i], d)
        \/ s[i] # Valid /\ s[i].track = i /\ FaultOf(s[i], p.tracks[i], d)
  BY <1>1, TrackVerdict
<1>4. DOMAIN s = DOMAIN p.tracks /\ DOMAIN s \subseteq Nat
  BY <1>1
<1> HIDE DEF s
<1>5. \/ e = Valid /\ \A i \in DOMAIN s : s[i] = Valid
      \/ \E k \in DOMAIN s : /\ e = s[k] /\ s[k] # Valid
                             /\ \A i \in DOMAIN s : i < k => s[i] = Valid
  BY <1>2, <1>4, FirstFaultIs
<1>6. CASE e = Valid /\ \A i \in DOMAIN s : s[i] = Valid
  <2>1. \A t \in Range(p.tracks) : GoodTrack(t, d)
    BY <1>3, <1>4, <1>6 DEF Range, FaultOf
  <2> QED
    BY <1>6, <2>1 DEF e, d
<1>7. ASSUME NEW k \in DOMAIN s, e = s[k], s[k] # Valid,
             \A i \in DOMAIN s : i < k => s[i] = Valid
      PROVE  /\ e # Valid /\ e.track \in DOMAIN p.tracks /\ e.track > 0
             /\ FaultOf(e, p.tracks[e.track], d)
             /\ \A i \in 1 .. (e.track - 1) : GoodTrack(p.tracks[i], d)
  <2>1. k \in DOMAIN p.tracks /\ e.track = k /\ FaultOf(e, p.tracks[k], d) /\ k > 0
    BY <1>1, <1>3, <1>4, <1>7
  <2>2. \A i \in 1 .. (k - 1) : GoodTrack(p.tracks[i], d)
    BY <1>1, <1>3, <1>4, <1>7, <2>1
  <2> QED
    BY <1>7, <2>1, <2>2
<1> QED
  BY <1>5, <1>6, <1>7 DEF e, d

(* The verdict on an upload that fits its fields.                          *)
LEMMA Verdict ==
  ASSUME NEW p \in StoredProject
  PROVE  LET e == Validate(p)
             d == p.header.loopDuration
         IN  \/ e = Valid /\ Playable(p)
             \/ /\ e # Valid /\ ~Playable(p) /\ e.track = 0
                /\ e.kind \in {"BpmOutOfRange", "LoopDurationZero"}
                /\ e.kind = "LoopDurationZero" => p.header.bpm \in 20 .. 300
             \/ /\ e # Valid /\ ~Playable(p) /\ e.track > 0
                /\ GoodHeader(p.header) /\ FaultOf(e, p.tracks[e.track], d)
                /\ \A i \in 1 .. (e.track - 1) : GoodTrack(p.tracks[i], d)
<1> DEFINE a == Unless(p.header.bpm >= 20 /\ p.header.bpm <= 300, Fault("BpmOutOfRange", 0, 0))
           b == Unless(p.header.loopDuration # 0, Fault("LoopDurationZero", 0, 0))
           h == HeaderFault(p.header)
           e == Validate(p)
<1>1. p.header.bpm \in Nat /\ p.header.loopDuration \in Nat
  BY WidthAssumption DEF StoredProject, Fits
<1>2. h = IF a # Valid THEN a ELSE b
  BY FirstOfTwo DEF HeaderFault
<1>3. e = IF h # Valid THEN h ELSE TracksFault(p)
  BY FirstOfTwo DEF Validate
<1>4. CASE h # Valid
  <2>1. /\ ~GoodHeader(p.header) /\ h.track = 0
        /\ h.kind \in {"BpmOutOfRange", "LoopDurationZero"}
        /\ h.kind = "LoopDurationZero" => p.header.bpm \in 20 .. 300
    BY <1>1, <1>2, <1>4 DEF Unless, Fault, Valid, GoodHeader
  <2> QED
    BY <1>3, <1>4, <2>1 DEF Playable
<1>5. CASE h = Valid
  <2>1. GoodHeader(p.header) /\ e = TracksFault(p)
    BY <1>1, <1>2, <1>3, <1>5 DEF Unless, Fault, Valid, GoodHeader
  <2> HIDE DEF e
  <2>2. CASE e = Valid
    BY <2>1, <2>2, TracksVerdict DEF Playable, e
  <2>3. CASE e # Valid
    <3>1. /\ e.track \in DOMAIN p.tracks /\ e.track > 0
          /\ FaultOf(e, p.tracks[e.track], p.header.loopDuration)
          /\ \A i \in 1 .. (e.track - 1) : GoodTrack(p.tracks[i], p.header.loopDuration)
      BY <2>1, <2>3, TracksVerdict
    <3>2. ~Playable(p)
      BY <3>1 DEF Playable, FaultOf, Range
    <3> QED
      BY <2>1, <2>3, <3>1, <3>2 DEF e
  <2> QED
    BY <2>2, <2>3
<1> QED
  BY <1>4, <1>5

-----------------------------------------------------------------------------
(* The store.                                                              *)

Sound == {p \in StoredProject : Playable(p)}

StoreInv ==
  /\ active = None \/ active \in Sound
  /\ pending = None \/ pending \in Sound

LEMMA AcceptedIsSound ==
  ASSUME NEW w \in Uploads, Deserialized(w), Validate(BuildDomainProject(w)) = Valid
  PROVE  BuildDomainProject(w) \in Sound
BY WireAssumption, UploadStored, Verdict DEF Sound

LEMMA RetimedIsSound ==
  ASSUME NEW p \in Sound, NEW bpm \in 20 .. 300, bpm \in Fits(U32)
  PROVE  [p EXCEPT !.header.bpm = bpm] \in Sound
<1> DEFINE q == [p EXCEPT !.header.bpm = bpm]
<1>1. p \in StoredProject /\ Playable(p)
  BY DEF Sound
<1>2. q = [header |-> [bpm |-> bpm, loopDuration |-> p.header.loopDuration],
           tracks |-> p.tracks]
  BY <1>1 DEF StoredProject
<1>3. q \in StoredProject
  BY <1>1, <1>2 DEF StoredProject
<1>4. q.header.bpm = bpm /\ q.header.loopDuration = p.header.loopDuration /\ q.tracks = p.tracks
  BY <1>2
<1>5. Playable(q)
  BY <1>1, <1>4 DEF Playable, GoodHeader
<1> QED
  BY <1>3, <1>5 DEF Sound

LEMMA StoreInvariant == Spec => []StoreInv
<1>1. Init => StoreInv
  BY DEF Init, StoreInv
<1>2. StoreInv /\ [Next]_vars => StoreInv'
  <2> SUFFICES ASSUME StoreInv, [Next]_vars PROVE StoreInv'
    OBVIOUS
  <2>1. ASSUME NEW w \in Uploads, CreateProject(w) \/ ModifyProject(w) PROVE StoreInv'
    BY <2>1, AcceptedIsSound DEF CreateProject, ModifyProject, KeepStore, StoreInv
  <2>2. ASSUME NEW bpm \in Tempi, SetBpm(bpm) PROVE StoreInv'
    <3>1. bpm \in Fits(U32)
      BY WireAssumption
    <3> QED
      BY <2>2, <3>1, RetimedIsSound DEF SetBpm, StoreInv
  <2>3. CASE CommitPending \/ ClearProject
    BY <2>3 DEF CommitPending, ClearProject, StoreInv
  <2>4. CASE UNCHANGED <<active, pending>>
    BY <2>4 DEF StoreInv
  <2>5. ASSUME NEW w \in Uploads, Malformed(w) PROVE UNCHANGED <<active, pending>>
    BY <2>5 DEF Malformed, KeepStore
  <2>6. ASSUME NEW bytes \in Inputs, Relay(bytes) PROVE UNCHANGED <<active, pending>>
    BY <2>6 DEF Relay, Sends, KeepStore
  <2>7. GetProject \/ Play \/ UNCHANGED vars => UNCHANGED <<active, pending>>
    BY DEF GetProject, Play, Sends, KeepStore, vars
  <2> QED
    BY <2>1, <2>2, <2>3, <2>4, <2>5, <2>6, <2>7 DEF Next
<1> QED
  BY <1>1, <1>2, PTL DEF Spec

(* Whatever clients upload, however big its numbers, what is in the store  *)
(* is playable, and comes back as the same project when a client downloads *)
(* it and uploads it again.                                                *)
THEOREM StoreIsSound == Spec => []StoreSound
<1>1. StoreInv => StoreSound
  <2> SUFFICES ASSUME StoreInv, NEW p \in {active, pending} \ {None}
               PROVE  /\ Playable(p)
                      /\ Deserialized(ProjectToJson(p))
                      /\ BuildDomainProject(ProjectToJson(p)) = p
    BY DEF StoreSound
  <2>1. p \in StoredProject /\ Playable(p)
    BY DEF StoreInv, Sound
  <2> QED
    BY <2>1, ProjectRoundTrip
<1> QED
  BY <1>1, StoreInvariant, PTL

-----------------------------------------------------------------------------
(* The answers.                                                            *)

LEMMA AnsweredWith ==
  ASSUME NEW w \in Uploads, Deserialized(w), NEW what,
         last' = [what |-> what, with |-> w, outcome |-> Validate(BuildDomainProject(w))]
  PROVE  FirstFaultReported'
<1> DEFINE p == BuildDomainProject(w)
           e == Validate(p)
           d == p.header.loopDuration
           t == p.tracks[e.track]
<1>1. p \in StoredProject
  BY WireAssumption, UploadStored
<1>2. last'.with = w /\ last'.outcome = e
  OBVIOUS
<1> HIDE DEF p, e
<1>3. \/ e = Valid /\ Playable(p)
      \/ /\ e # Valid /\ ~Playable(p) /\ e.track = 0
         /\ e.kind \in {"BpmOutOfRange", "LoopDurationZero"}
         /\ e.kind = "LoopDurationZero" => p.header.bpm \in 20 .. 300
      \/ /\ e # Valid /\ ~Playable(p) /\ e.track > 0
         /\ GoodHeader(p.header) /\ FaultOf(e, t, d)
         /\ \A i \in 1 .. (e.track - 1) : GoodTrack(p.tracks[i], d)
  BY <1>1, Verdict DEF e
<1> HIDE DEF t, d
<1>4. /\ e = Valid <=> Playable(p)
      /\ e.kind = "LoopDurationZero" => p.header.bpm \in 20 .. 300
      /\ e.track > 0 =>
           /\ GoodHeader(p.header) /\ ~GoodTrack(t, d)
           /\ \A i \in 1 .. (e.track - 1) : GoodTrack(p.tracks[i], d)
      /\ e.kind \in NoteKinds \cup BendKinds => FaultOf(e, t, d)
  BY <1>3 DEF Valid, Fault, FaultOf, NoteKinds, BendKinds
<1> QED
  BY <1>2, <1>4 DEF FirstFaultReported, ReportsFirst, FaultOf, NoteKinds, BendKinds, p, e, t, d

(* An upload is refused exactly if it is not playable, and the answer      *)
(* names its first fault in document order, for projects with any number   *)
(* of tracks, notes and bends.                                             *)
THEOREM RefusedForItsFirstFault == Spec => []FirstFaultReported
<1>1. Init => FirstFaultReported
  BY DEF Init, FirstFaultReported
<1>2. FirstFaultReported /\ [Next]_vars => FirstFaultReported'
  <2> SUFFICES ASSUME FirstFaultReported, [Next]_vars PROVE FirstFaultReported'
    OBVIOUS
  <2>1. ASSUME NEW w \in Uploads, CreateProject(w) \/ ModifyProject(w)
        PROVE  FirstFaultReported'
    BY <2>1, AnsweredWith DEF CreateProject, ModifyProject, Handled
  <2>2. CASE \/ last' = None
             \/ last'.what \notin {"create-project", "modify-project"}
    BY <2>2 DEF FirstFaultReported
  <2>3. CASE UNCHANGED last
    BY <2>3 DEF FirstFaultReported
  <2>4. ASSUME NEW w \in Uploads, Malformed(w)
        PROVE  last'.what \notin {"create-project", "modify-project"}
    BY <2>4 DEF Malformed, Handled
  <2>5. ASSUME NEW bpm \in Tempi, SetBpm(bpm)
        PROVE  last'.what \notin {"create-project", "modify-project"}
    BY <2>5 DEF SetBpm, Handled
  <2>6. ASSUME NEW bytes \in Inputs, Relay(bytes)
        PROVE  last'.what \notin {"create-project", "modify-project"}
    BY <2>6 DEF Relay, Sends, Handled
  <2>7. GetProject \/ Play => last'.what \notin {"create-project", "modify-project"}
    BY DEF GetProject, Play, Sends, Handled
  <2>8. CommitPending \/ ClearProject => last' = None
    BY DEF CommitPending, ClearProject
  <2>9. UNCHANGED vars => UNCHANGED last
    BY DEF vars
  <2> QED
    BY <2>1, <2>2, <2>3, <2>4, <2>5, <2>6, <2>7, <2>8, <2>9 DEF Next
<1> QED
  BY <1>1, <1>2, PTL DEF Spec

-----------------------------------------------------------------------------
(* The bytes.                                                              *)

LEMMA PlayUnderstood ==
  ASSUME StoreInv, Play
  PROVE  BytesUnderstood'
<1>1. PICK t \in Range(active.tracks) :
        \/ Sends("program", t, ProgramChangeBytes(t.channel, t.instrument))
        \/ \E n \in Range(t.notes) :
             \/ Sends("note-on", [channel |-> t.channel, note |-> n],
                      NoteOnBytes(t.channel, n.pitch, n.velocity))
             \/ Sends("note-off", [channel |-> t.channel, note |-> n],
                      NoteOffBytes(t.channel, n.pitch))
        \/ \E b \in Range(t.bends) :
             Sends("bend", [channel |-> t.channel, bend |-> b],
                   PitchBendBytes(t.channel, b.value))
  BY DEF Play
<1>2. active \in StoredProject /\ Playable(active)
  BY DEF Play, StoreInv, Sound
<1>3. t.channel \in 1 .. 16 /\ \A b \in Range(t.bends) : b.value <= 16383
  BY <1>2 DEF Playable, GoodTrack, GoodBend
<1>4. t \in StoredTrack
  BY <1>2, LenProperties DEF StoredProject, Range
<1>5. CASE Sends("program", t, ProgramChangeBytes(t.channel, t.instrument))
  <2> DEFINE out == ProgramChangeBytes(t.channel, t.instrument)
  <2>1. out[1] \div 16 = 12 /\ (out[1] % 16) + 1 = t.channel /\ out[2] = t.instrument
    BY <1>3 DEF ProgramChangeBytes
  <2> HIDE DEF out
  <2>2. last' = [what |-> "program", with |-> t, outcome |-> out]
    BY <1>5 DEF Sends, Handled, out
  <2> QED
    BY <2>1, <2>2 DEF BytesUnderstood
<1>6. ASSUME NEW n \in Range(t.notes),
             Sends("note-on", [channel |-> t.channel, note |-> n],
                   NoteOnBytes(t.channel, n.pitch, n.velocity))
      PROVE  BytesUnderstood'
  <2> DEFINE out == NoteOnBytes(t.channel, n.pitch, n.velocity)
  <2>1. /\ out[1] \div 16 = 9 /\ (out[1] % 16) + 1 = t.channel
        /\ <<out[2], out[3]>> = <<n.pitch, n.velocity>>
    BY <1>3 DEF NoteOnBytes
  <2> HIDE DEF out
  <2>2. last' = [what |-> "note-on", with |-> [channel |-> t.channel, note |-> n],
                 outcome |-> out]
    BY <1>6 DEF Sends, Handled, out
  <2> QED
    BY <2>1, <2>2 DEF BytesUnderstood
<1>7. ASSUME NEW n \in Range(t.notes),
             Sends("note-off", [channel |-> t.channel, note |-> n],
                   NoteOffBytes(t.channel, n.pitch))
      PROVE  BytesUnderstood'
  <2> DEFINE out == NoteOffBytes(t.channel, n.pitch)
  <2>1. out[1] \div 16 = 8 /\ (out[1] % 16) + 1 = t.channel /\ out[2] = n.pitch
    BY <1>3 DEF NoteOffBytes
  <2> HIDE DEF out
  <2>2. last' = [what |-> "note-off", with |-> [channel |-> t.channel, note |-> n],
                 outcome |-> out]
    BY <1>7 DEF Sends, Handled, out
  <2> QED
    BY <2>1, <2>2 DEF BytesUnderstood
<1>8. ASSUME NEW b \in Range(t.bends),
             Sends("bend", [channel |-> t.channel, bend |-> b],
                   PitchBendBytes(t.channel, b.value))
      PROVE  BytesUnderstood'
  <2> DEFINE out == PitchBendBytes(t.channel, b.value)
  <2>1. b.value \in FourteenBits
    <3>1. t.bends \in Seq(StoredBend)
      BY <1>3, <1>4 DEF StoredTrack
    <3>2. PICK i \in DOMAIN t.bends : b = t.bends[i]
      BY DEF Range
    <3>3. b \in StoredBend /\ b.value <= 16383
      BY <1>3, <3>1, <3>2, LenProperties
    <3>4. b.value \in 0 .. U32 - 1
      BY <3>3 DEF StoredBend, Fits
    <3>5. b.value \in Nat
      BY <3>4, WidthAssumption
    <3> QED
      BY <3>3, <3>5, FourteenBitsAre
  <2>2. out[1] \div 16 = 14 /\ (out[1] % 16) + 1 = t.channel
    BY <1>3 DEF PitchBendBytes
  <2>3. out[2] <= 127 /\ out[3] <= 127 /\ out[2] + 128 * out[3] = b.value
    BY <1>3, <2>1, BendsExact DEF Channels, SevenBits, PitchBendBytes, Low, High
  <2> HIDE DEF out
  <2>4. last' = [what |-> "bend", with |-> [channel |-> t.channel, bend |-> b],
                 outcome |-> out]
    BY <1>8 DEF Sends, Handled, out
  <2> QED
    BY <2>2, <2>3, <2>4 DEF BytesUnderstood
<1> QED
  BY <1>1, <1>5, <1>6, <1>7, <1>8

LEMMA RelayUnderstood ==
  ASSUME NEW bytes \in Inputs, Relay(bytes)
  PROVE  BytesUnderstood'
<1>1. bytes \in Delivered
  BY WireAssumption
<1>2. ForwardClockMessage(bytes)
        = IF bytes[1] \in {242, 248, 250, 251, 252} THEN bytes ELSE <<>>
  <2>1. CASE \E m \in ClockMessage : bytes = ClockBytes(m)
    <3>1. PICK m \in ClockMessage : bytes = ClockBytes(m)
      BY <2>1
    <3>2. bytes[1] \in {242, 248, 250, 251, 252}
      BY <3>1 DEF ClockMessage, Realtime, Plain, Located, ClockBytes, ClockTickBytes,
                  ClockStartBytes, ClockContinueBytes, ClockStopBytes, SongPositionBytes
    <3> QED
      BY <3>1, <3>2, RelayIsFaithful
  <2>2. CASE bytes \in Seq(Byte) /\ bytes[1] \notin {242, 248, 250, 251, 252}
    BY <2>2 DEF ForwardClockMessage, ClassifyClockMessage
  <2> QED
    BY <1>1, <2>1, <2>2 DEF Delivered
<1>3. last' = [what |-> "relay", with |-> bytes, outcome |-> ForwardClockMessage(bytes)]
  BY DEF Relay, Sends, Handled
<1> QED
  BY <1>2, <1>3 DEF BytesUnderstood

(* A device on the output port reads the notes, programs and bends of the  *)
(* stored project as they were meant, and of what comes in on the sync     *)
(* port the clock passes, byte for byte, and nothing else.                 *)
THEOREM BytesAreUnderstood == Spec => []BytesUnderstood
<1>1. Init => BytesUnderstood
  BY DEF Init, BytesUnderstood
<1>2. StoreInv /\ BytesUnderstood /\ [Next]_vars => BytesUnderstood'
  <2> SUFFICES ASSUME StoreInv, BytesUnderstood, [Next]_vars PROVE BytesUnderstood'
    OBVIOUS
  <2> DEFINE Silent == {"malformed", "create-project", "modify-project", "set-bpm", "project"}
  <2>1. CASE last' = None \/ last'.what \in Silent
    BY <2>1 DEF BytesUnderstood
  <2>2. CASE UNCHANGED last
    BY <2>2 DEF BytesUnderstood
  <2>3. ASSUME NEW w \in Uploads, Malformed(w) \/ CreateProject(w) \/ ModifyProject(w)
        PROVE  last'.what \in Silent
    BY <2>3 DEF Malformed, CreateProject, ModifyProject, Handled
  <2>4. ASSUME NEW bpm \in Tempi, SetBpm(bpm) PROVE last'.what \in Silent
    BY <2>4 DEF SetBpm, Handled
  <2>5. GetProject => last'.what \in Silent
    BY DEF GetProject, Handled
  <2>6. CommitPending \/ ClearProject => last' = None
    BY DEF CommitPending, ClearProject
  <2>7. UNCHANGED vars => UNCHANGED last
    BY DEF vars
  <2> QED
    BY <2>1, <2>2, <2>3, <2>4, <2>5, <2>6, <2>7, PlayUnderstood, RelayUnderstood DEF Next
<1> QED
  BY <1>1, <1>2, StoreInvariant, PTL DEF Spec

=============================================================================
