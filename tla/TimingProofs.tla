---------------------------- MODULE TimingProofs ----------------------------
(***************************************************************************)
(* Where no tempo changes, every pass of the loop has its full length, for *)
(* all songs, tick rates and delays of the thread.                         *)
(***************************************************************************)
EXTENDS Timing, TLAPS, NaturalsInduction, WellFoundedInduction

(* The events of a pass are at ticks, so the first of them is at one.      *)
LEMMA FirstIsATick ==
  ASSUME NEW ticks \in SUBSET Nat
  PROVE  First(ticks) \in Nat
<1>1. CASE ticks = {}
  BY <1>1 DEF First
<1>2. CASE ticks # {}
  <2> DEFINE Less == {ss \in Nat \X Nat : ss[1] < ss[2]}
  <2>1. IsWellFoundedOn(Less, Nat)
    <3>1. OpToRel(<, Nat) = Less
      BY Zenon DEF OpToRel
    <3>2. QED
      BY <3>1, NatLessThanWellFounded, Zenon
  <2>2. \E t \in ticks : \A u \in ticks : t <= u
    <3> HIDE DEF Less
    <3>1. PICK t \in ticks : \A u \in ticks : <<u, t>> \notin Less
      BY <1>2, <2>1, WFMin
    <3>2. ASSUME NEW u \in ticks PROVE t <= u
      <4>1. u < t => <<u, t>> \in Less
        BY DEF Less
      <4>2. QED
        BY <3>1, <4>1
    <3>3. QED
      BY <3>2
  <2>3. Min(ticks) \in ticks
    BY <2>2 DEF Min
  <2>4. QED
    BY <1>2, <2>3 DEF First
<1>3. QED
  BY <1>1, <1>2

(* The inductive invariant: times and ticks are numbers, and the scheduler *)
(* keeps to the tempo of the project, which nothing else sets.             *)
Steady ==
  /\ now \in Nat
  /\ anchor \in Int
  /\ duration \in Nat
  /\ due \in SUBSET Nat
  /\ carry \in SUBSET Nat
  /\ loopCount \in Nat
  /\ staged = None
  /\ active \in Projects
  /\ pending \in Projects \cup {None}
  /\ tempo = active.tempo

LEMMA SteadyInit ==
  ASSUME TimingConstants
  PROVE  Init => Steady
  BY DEF TimingConstants, Init, Steady

(* A tick number times the length of a tick is a length of time.           *)
LEMMA DeadlineType ==
  ASSUME TimingConstants, Steady, NEW t \in Nat
  PROVE  /\ Interval[tempo] \in Nat
         /\ t * Interval[tempo] \in Nat
         /\ Deadline(t) \in Int
<1>1. Interval[tempo] \in Nat
  BY DEF TimingConstants, Steady
<1>2. t * Interval[tempo] \in Nat
  BY <1>1
<1>3. QED
  BY <1>1, <1>2 DEF Deadline, Steady

(* At a boundary the anchor moves on by exactly the length of the pass.    *)
LEMMA AdvanceIsOnTime ==
  ASSUME TimingConstants, OneTempo, Steady, Advance
  PROVE  /\ active' \in Projects
         /\ tempo' = active'.tempo
         /\ anchor' = Deadline(duration)
<1>1. active' \in Projects
  BY DEF Advance, NextTempo, Steady
<1>2. active'.tempo = tempo /\ Rounded(tempo) = tempo
  BY <1>1 DEF OneTempo, Steady
<1>3. QED
  BY <1>1, <1>2 DEF Advance, NextTempo, Steady

LEMMA SteadyNext ==
  ASSUME TimingConstants, OneTempo, Steady, [Next]_vars
  PROVE  Steady'
<1> USE DEF Steady
<1>1. CASE Start
  BY <1>1 DEF Start, TimingConstants
<1>2. CASE Restart
  BY <1>2 DEF Restart, TimingConstants
<1>3. CASE Build
  <2>1. active.length \in Nat /\ active.ticks \in SUBSET Nat
    BY DEF TimingConstants
  <2>2. {t - active.length : t \in {u \in active.ticks : u > active.length}} \subseteq Nat
    BY <2>1
  <2>3. carry' \in SUBSET Nat /\ due' \in SUBSET Nat /\ duration' \in Nat
    BY <1>3, <2>1, <2>2 DEF Build, Play
  <2>4. QED
    BY <1>3, <2>3 DEF Build, Play
<1>4. CASE Fire
  BY <1>4 DEF Fire
<1>5. CASE Advance
  <2>1. Deadline(duration) \in Int
    BY DeadlineType
  <2>2. QED
    BY <1>5, <2>1, AdvanceIsOnTime DEF Advance
<1>6. CASE Pause
  BY <1>6 DEF Pause
<1>7. CASE Resume
  <2>1. First(due) \in Nat
    BY FirstIsATick
  <2>2. anchor' \in Int
    BY <1>7, <2>1, DeadlineType DEF Resume
  <2>3. QED
    BY <1>7, <2>2 DEF Resume, Play
<1>8. CASE Stop
  BY <1>8 DEF Stop
<1>9. CASE Tick
  BY <1>9 DEF Tick
<1>10. CASE \E t \in SyncTempi : SyncTempo(t)
  BY <1>10 DEF OneTempo
<1>11. CASE \E p \in Projects : Create(p) \/ Modify(p)
  <2>1. PICK p \in Projects : Create(p) \/ Modify(p)
    BY <1>11
  <2>2. CASE Create(p)
    BY <2>2 DEF Create, OneTempo
  <2>3. CASE Modify(p)
    BY <2>3 DEF Modify
  <2>4. QED
    BY <2>1, <2>2, <2>3
<1>12. CASE UNCHANGED vars
  BY <1>12 DEF vars
<1>13. QED
  BY <1>1, <1>2, <1>3, <1>4, <1>5, <1>6, <1>7, <1>8, <1>9, <1>10, <1>11, <1>12
  DEF Next

(* Only advance_loop counts a pass.                                        *)
LEMMA OnlyAdvanceCounts ==
  ASSUME TimingConstants, OneTempo, Steady, Next, loopCount' > loopCount
  PROVE  Advance
<1>1. loopCount' # loopCount /\ ~(0 > loopCount) /\ ~(loopCount > loopCount)
  BY DEF Steady
<1>2. QED
  BY <1>1 DEF Next, Start, Restart, Build, Fire, Pause, Resume, Stop, Tick,
              SyncTempo, Create, Modify

(* While a pass is played, its deadlines stay where they are, and at the   *)
(* boundary the next pass is anchored at the end of this one, not earlier  *)
(* and not later.  Only a start, a restart or a resume sets an anchor anew. *)
BoundariesOnTime ==
  [][/\ loopCount' > loopCount => anchor' = Deadline(duration)
     /\ state \in {"Build", "Play"} /\ state' = "Play" => UNCHANGED <<anchor, tempo>>]_vars

(* If nothing ever changes the tempo (one tempo in all projects, no MIDI   *)
(* clock, hence no set-bpm and no sync mode), each boundary comes after    *)
(* the whole length of the pass, its silent end included, and exactly      *)
(* then, however late advance_loop runs and whatever projects follow each  *)
(* other.  This is about boundaries alone: a pause in the silent end of a  *)
(* bar is within the pass that follows, and the resume plays that pass at  *)
(* once (handle_running), so the rest of the bar is skipped all the same.  *)
THEOREM SteadyTempoFinishesPasses ==
  ASSUME TimingConstants, OneTempo
  PROVE  Spec => PassesFinish /\ BoundariesOnTime
<1>1. ASSUME Steady, Next
      PROVE  loopCount' > loopCount => anchor' = Deadline(duration) /\ anchor' \in Int
  <2> SUFFICES ASSUME loopCount' > loopCount
               PROVE  anchor' = Deadline(duration) /\ anchor' \in Int
    OBVIOUS
  <2>1. Advance
    BY <1>1, OnlyAdvanceCounts
  <2>2. QED
    BY <1>1, <2>1, AdvanceIsOnTime, DeadlineType DEF Steady
<1>2. ASSUME Steady, Next, state \in {"Build", "Play"}, state' = "Play"
      PROVE  UNCHANGED <<anchor, tempo>>
  <2>1. Restart \/ Start \/ Advance \/ Pause \/ Resume \/ Stop => FALSE
    BY <1>2 DEF Restart, Start, Advance, Pause, Resume, Stop
  <2>2. ~\E t \in SyncTempi : SyncTempo(t)
    BY DEF OneTempo
  <2>3. QED
    BY <1>2, <2>1, <2>2 DEF Next, Build, Play, Fire, Tick, Create, Modify, Steady
<1>3. Steady /\ [Next]_vars => [loopCount' > loopCount => anchor' >= Deadline(duration)]_vars
  <2> SUFFICES ASSUME Steady, Next, loopCount' > loopCount
               PROVE  anchor' >= Deadline(duration)
    OBVIOUS
  <2>1. QED
    BY <1>1
<1>4. Steady /\ [Next]_vars =>
        [/\ loopCount' > loopCount => anchor' = Deadline(duration)
         /\ state \in {"Build", "Play"} /\ state' = "Play" => UNCHANGED <<anchor, tempo>>]_vars
  BY <1>1, <1>2
<1>5. QED
  BY <1>3, <1>4, SteadyInit, SteadyNext, PTL DEF Spec, PassesFinish, BoundariesOnTime

=============================================================================
