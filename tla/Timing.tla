------------------------------- MODULE Timing -------------------------------
(***************************************************************************)
(* When the player fires its events: the anchor from which the Scheduler   *)
(* computes every deadline, moved by starts, pauses, tempo changes and the *)
(* boundaries of the loop (scheduler.rs and its callers in player.rs).     *)
(*                                                                         *)
(* Player abstracts a deadline to "passed or not"; here time is a number   *)
(* and a pass is the set of ticks at which it has events.  The thread may  *)
(* be late by any amount, for now may run on while it is enabled.          *)
(* Relocation (Song Position, Continue while running) is left to Player:   *)
(* it ends in the Resume below with another set of ticks.                  *)
(***************************************************************************)
EXTENDS Integers, FiniteSetsExt

CONSTANTS
  None,          \* Option::None
  Projects,      \* the projects clients upload: [length, ticks, tempo]
  SyncTempi,     \* tempi measured by the MIDI clock receiver
  Interval,      \* [tempo (tenths of a BPM) -> duration of a tick]
  StartLatency,  \* START_LATENCY_MICROS
  TimeBound,     \* bound on now
  PassBound      \* bound on loop_count

VARIABLES
  now,
  state,         \* Stopped, Paused, or Running: about to Build or to Play
  anchor,        \* when tick 0 of the pass is (or was) due
  tempo,         \* the scheduler's rate, in tenths of a BPM
  duration,      \* loop_duration: the length of the pass
  due,           \* ticks of the events not fired yet
  carry,         \* ticks of the NoteOffs carried into the next pass
  loopCount,
  staged,        \* pending_sync_bpm
  active, pending

vars == <<now, state, anchor, tempo, duration, due, carry, loopCount, staged,
          active, pending>>

Rounded(t) == ((t + 5) \div 10) * 10

Deadline(tick) == anchor + tick * Interval[tempo]

(* The first event of a list; 0 if there is none.                          *)
First(ticks) == IF ticks = {} THEN 0 ELSE Min(ticks)

Init ==
  /\ now = 0
  /\ state = "Stopped"
  /\ anchor = 0
  /\ active \in Projects
  /\ tempo = active.tempo
  /\ duration = 0
  /\ due = {}
  /\ carry = {}
  /\ loopCount = 0
  /\ staged = None
  /\ pending = None

(* A start, or a restart by 0xFA, which takes no new tempo.                *)
Start ==
  /\ state = "Stopped"
  /\ state' = "Build"
  /\ tempo' = active.tempo
  /\ anchor' = now + StartLatency
  /\ UNCHANGED <<now, duration, due, carry, loopCount, staged, active, pending>>

Restart ==
  /\ state \in {"Play", "Paused"}
  /\ state' = "Build"
  /\ anchor' = now + StartLatency
  /\ carry' = {}
  /\ loopCount' = 0
  /\ UNCHANGED <<now, tempo, duration, due, staged, active, pending>>

(* play_events applies a staged tempo before it waits for an event.        *)
Play(ticks) ==
  /\ state' = "Play"
  /\ due' = ticks
  /\ IF ticks # {} /\ staged # None
       THEN tempo' = staged /\ staged' = None
       ELSE UNCHANGED <<tempo, staged>>

(* NoteOffs past the end of the pass are carried; carry re-bases those of  *)
(* the last pass by its length.                                            *)
Build ==
  /\ state = "Build"
  /\ duration' = active.length
  /\ Play(carry \cup {t \in active.ticks : t <= active.length})
  /\ carry' = {t - active.length : t \in {u \in active.ticks : u > active.length}}
  /\ UNCHANGED <<now, anchor, loopCount, active, pending>>

Fire ==
  /\ state = "Play"
  /\ due # {}
  /\ now >= Deadline(First(due))
  /\ due' = due \ {First(due)}
  /\ UNCHANGED <<now, state, anchor, tempo, duration, carry, loopCount, staged,
                 active, pending>>

(* update_bpm_precise for a measured tempo, update_bpm for a project's.     *)
NextTempo(p) ==
  IF staged # None THEN staged
  ELSE IF p.tempo # Rounded(tempo) THEN p.tempo ELSE tempo

(* advance_loop: the anchor moves on by one pass at the old rate, then the *)
(* tempo of the next pass is chosen: a staged external tempo keeps the     *)
(* anchor, a project of another tempo moves it to this moment.             *)
Advance ==
  /\ state = "Play"
  /\ due = {}
  /\ loopCount < PassBound
  /\ state' = "Build"
  /\ loopCount' = loopCount + 1
  /\ active' = IF pending # None THEN pending ELSE active
  /\ pending' = None
  /\ staged' = None
  /\ tempo' = NextTempo(active')
  /\ anchor' = IF staged = None /\ active'.tempo # Rounded(tempo)
                 THEN now
                 ELSE Deadline(duration)
  /\ UNCHANGED <<now, duration, due, carry>>

(* A measured tempo: applied during the wait for an event, staged when     *)
(* there is none to wait for.                                              *)
SyncTempo(t) ==
  /\ state \in {"Stopped", "Play", "Paused"}
  /\ IF state = "Play" /\ due # {}
       THEN tempo' = t /\ UNCHANGED staged
       ELSE staged' = t /\ UNCHANGED tempo
  /\ UNCHANGED <<now, state, anchor, duration, due, carry, loopCount, active,
                 pending>>

Pause ==
  /\ state = "Play"
  /\ state' = "Paused"
  /\ UNCHANGED <<now, anchor, tempo, duration, due, carry, loopCount, staged,
                 active, pending>>

(* resume_anchor puts the next event at this moment, at the old rate.      *)
Resume ==
  /\ state = "Paused"
  /\ anchor' = now - First(due) * Interval[tempo]
  /\ Play(due)
  /\ UNCHANGED <<now, duration, carry, loopCount, active, pending>>

Stop ==
  /\ state \in {"Play", "Paused"}
  /\ state' = "Stopped"
  /\ carry' = {}
  /\ loopCount' = 0
  /\ UNCHANGED <<now, anchor, tempo, duration, due, staged, active, pending>>

Create(p) ==
  /\ active' = p
  /\ pending' = None
  /\ UNCHANGED <<now, state, anchor, tempo, duration, due, carry, loopCount,
                 staged>>

Modify(p) ==
  /\ pending' = p
  /\ UNCHANGED <<now, state, anchor, tempo, duration, due, carry, loopCount,
                 staged, active>>

Tick ==
  /\ now < TimeBound
  /\ now' = now + 1
  /\ UNCHANGED <<state, anchor, tempo, duration, due, carry, loopCount, staged,
                 active, pending>>

Next ==
  \/ Start \/ Restart \/ Build \/ Fire \/ Advance
  \/ Pause \/ Resume \/ Stop \/ Tick
  \/ \E t \in SyncTempi : SyncTempo(t)
  \/ \E p \in Projects : Create(p) \/ Modify(p)

Spec == Init /\ [][Next]_vars

-----------------------------------------------------------------------------
(* What the code gives the constants, and the case in which no tempo ever  *)
(* changes: hypotheses of the theorem in TimingProofs.                     *)
TimingConstants ==
  /\ Projects \subseteq [length : Nat, ticks : SUBSET Nat, tempo : Nat]
  /\ \A p \in Projects : Interval[p.tempo] \in Nat
  /\ StartLatency \in Nat

OneTempo ==
  /\ SyncTempi = {}
  /\ \A p, q \in Projects : p.tempo = q.tempo
  /\ \A p \in Projects : Rounded(p.tempo) = p.tempo

(* Properties                                                              *)

(* A pass is finished before the next one begins: at a loop boundary       *)
(* (advance_loop) tick 0 of the new pass is not due before the whole       *)
(* length of the old one, its silent end included, has gone by, although   *)
(* advance_loop runs as soon as the last event has fired.                  *)
PassesFinish ==
  [][loopCount' > loopCount => anchor' >= Deadline(duration)]_vars

=============================================================================
