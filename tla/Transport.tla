----------------------------- MODULE Transport ------------------------------
(***************************************************************************)
(* What the loop engine promises of its transport, without threads,        *)
(* channels, stores or event lists: the state machine of                   *)
(* docs/internals.md ("Player State Machine"), what the published position *)
(* does in each transition (docs/json-socket-interface.md, "Position       *)
(* response fields") and that every way out of Running leaves no note      *)
(* sounding.  Player implements it.                                        *)
(***************************************************************************)
EXTENDS Naturals

CONSTANT Sounds   \* what can sound: the pairs of a channel and a pitch

VARIABLES
  state,      \* Stopped, Waiting, Running or Paused
  tick,       \* position in the pass
  loops,      \* passes completed since playback started
  sounding    \* the notes that sound

vars == <<state, tick, loops, sounding>>

Init == state = "Stopped" /\ tick = 0 /\ loops = 0 /\ sounding = {}

(* A start command, or a project turning up for a waiting one.             *)
Begin ==
  /\ state \in {"Stopped", "Waiting"}
  /\ state' = "Running"
  /\ tick' \in {0, tick}
  /\ loops' \in {0, loops}
  /\ UNCHANGED sounding

Wait == state = "Stopped" /\ state' = "Waiting" /\ UNCHANGED <<tick, loops, sounding>>

(* Only in Running do notes start, and does the position move by itself.   *)
Play ==
  /\ state = "Running" /\ state' = "Running"
  /\ tick' \in Nat
  /\ sounding' \subseteq Sounds
  /\ UNCHANGED loops

EndPass ==
  /\ state = "Running" /\ state' = "Running"
  /\ tick' = 0
  /\ loops' = loops + 1
  /\ UNCHANGED sounding

Pause ==
  /\ state = "Running" /\ state' = "Paused"
  /\ sounding' = {}
  /\ UNCHANGED <<tick, loops>>

Resume == state = "Paused" /\ state' = "Running" /\ UNCHANGED <<tick, loops, sounding>>

(* External MIDI Start: from the top, also out of a pause.                 *)
Restart ==
  /\ state \in {"Running", "Paused"} /\ state' \in {state, "Running"}
  /\ tick' = 0 /\ loops' = 0 /\ sounding' = {}

(* A Song Position Pointer moves the position of a loop at rest.           *)
Locate ==
  /\ state \in {"Stopped", "Paused"}
  /\ tick' \in Nat
  /\ UNCHANGED <<state, loops, sounding>>

Stop ==
  /\ state # "Stopped" /\ state' = "Stopped"
  /\ tick' = 0 /\ loops' = 0 /\ sounding' = {}

Next ==
  \/ Begin \/ Wait \/ Play \/ EndPass \/ Pause \/ Resume \/ Restart
  \/ Locate \/ Stop

Spec == Init /\ [][Next]_vars

=============================================================================
