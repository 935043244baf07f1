------------------------------- MODULE MCWire -------------------------------
(***************************************************************************)
(* A small instance of Wire: headers and tracks at and beyond each limit.  *)
(***************************************************************************)
EXTENDS Wire

Header(bpm, duration) == [bpm |-> bpm, loopDuration |-> duration]
Track(channel, instrument, notes, bends) ==
  [channel |-> channel, instrument |-> instrument, notes |-> notes, bends |-> bends]

Plain1 == <<0, 2, 60, 100>>
Ringing == <<1, 3, 300, 127>>       \* ends with the second pass; pitch cut to 44

Good == {Track(1, 0, <<Plain1>>, <<<<0, 8192>>>>),
         Track(16, 127, <<Ringing, Plain1>>, <<<<1, 16383>>, <<0, 0>>>>)}

Faulty ==
  {Track(0, 128, <<Plain1>>, <<>>),
   Track(17, 0, <<>>, <<>>),
   Track(1, 128, <<Plain1>>, <<>>),
   Track(1, 0, <<<<2, 0, 60, 1>>>>, <<>>),
   Track(1, 0, <<Plain1, <<2, 1, 60, 1>>>>, <<<<0, 16384>>>>),
   Track(1, 0, <<<<1, 4, 60, 1>>, <<0, 0, 60, 1>>>>, <<>>),
   Track(1, 0, <<Plain1>>, <<<<2, 16384>>>>),
   Track(1, 0, <<>>, <<<<0, 0>>, <<2, 1>>>>),
   Track(256, 0, <<>>, <<>>),
   Track(1, 0, <<<<0, 1, 60, U32>>>>, <<>>)}

Upload(header, tracks) == [header |-> header, tracks |-> tracks]

(* Header faults, alone and with others; one track and two in a short      *)
(* loop; one track in a loop so long that twice its length overflows.      *)
MCUploads ==
  {Upload(Header(bpm, d), <<t>>) : bpm \in {19, 301}, d \in {0, 2}, t \in Good}
    \cup {Upload(Header(20, 0), <<t>>) : t \in Good \cup Faulty}
    \cup {Upload(Header(20, 2), <<t>>) : t \in Good \cup Faulty}
    \cup {Upload(Header(20, 2), <<t, u>>) : t \in Good \cup Faulty, u \in Faulty}
    \cup {Upload(Header(300, U32 \div 2), <<t>>) : t \in Faulty}
    \cup {Upload(Header(20, 2), <<>>)}

MCInputs ==
  {ClockTickBytes, ClockStartBytes, ClockContinueBytes, ClockStopBytes,
   SongPositionBytes(0), SongPositionBytes(129), SongPositionBytes(16383),
   NoteOnBytes(1, 60, 100), PitchBendBytes(3, 8192), <<254>>, <<255>>}

=============================================================================
