---------------------------- MODULE MCClockEngine ----------------------------
(***************************************************************************)
(* A small instance of ClockConsole: the two slowest tempos, neither a     *)
(* multiple of the other, the console and a command line beside it.        *)
(***************************************************************************)
EXTENDS ClockConsole, TLC

MCInterval == (20 :> 3) @@ (21 :> 2)

MCRequests ==
  [console |-> {},
   shell |-> {Ask("halt", None), Ask("stop", None), Ask("bpm", 301), Ask("seek", 1), Ask("seek", 16384)}]

=============================================================================
