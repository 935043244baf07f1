------------------------------ MODULE MCPlayer ------------------------------
(***************************************************************************)
(* Small instances of Player.  One model tick stands for twenty ticks of   *)
(* the code, so a pulse falls on every tick.                               *)
(***************************************************************************)
EXTENDS Player

(* pad: its note rings into the next pass, its bend leaves the wheel off   *)
(* centre.  stab: a shorter loop, a note that ends exactly with it, a bend *)
(* on the same channel.  riff: no bend.  rest: no events at all.           *)
MCLoopDuration == [pad |-> 2, stab |-> 1, riff |-> 1, rest |-> 1]

MCNotes ==
  [pad  |-> {[channel |-> 1, start |-> 1, duration |-> 3, pitch |-> 60]},
   stab |-> {[channel |-> 1, start |-> 0, duration |-> 1, pitch |-> 62]},
   riff |-> {[channel |-> 2, start |-> 0, duration |-> 2, pitch |-> 64]},
   rest |-> {}]

MCBends ==
  [pad  |-> {[channel |-> 1, tick |-> 0, value |-> 1]},
   stab |-> {[channel |-> 1, tick |-> 0, value |-> 0]},
   riff |-> {},
   rest |-> {}]

Plain(names) == [name : names, arg : {0}]

StandaloneCommands == Plain({"Start", "Stop"})
ClockCommands == Plain({"ClockStart", "ClockPause", "ClockResume", "ClockStop"})
LocalCommands == StandaloneCommands \cup ClockCommands
SyncCommands ==
  Plain({"SyncStart", "SyncContinue", "SyncStop"})
    \cup {[name |-> "SyncSongPosition", arg |-> 1]}
    \cup {[name |-> "SyncBpmUpdate", arg |-> 1304]}

=============================================================================
