------------------------------ MODULE MCTiming ------------------------------
(***************************************************************************)
(* A small instance of Timing: a song at two tempi, set-bpm away from each *)
(* other, whose events leave the end of the loop silent.                   *)
(***************************************************************************)
EXTENDS Timing

Song(bpm) == [length |-> 3, ticks |-> {0, 1}, tempo |-> 10 * bpm]

MCProjects == {Song(60), Song(120)}
MCInterval == [t \in {600, 1200} |-> 1200 \div t]

=============================================================================
