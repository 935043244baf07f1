---------------------------- MODULE PlayerSafety ----------------------------
(***************************************************************************)
(* Player for all songs, tempi, command alphabets and bounds.              *)
(*                                                                         *)
(* First every variable keeps its type, with the lemmas on event lists     *)
(* this rests on.  Then one inductive invariant per promise, each resting  *)
(* on those before it: TransportInv (the transport), PassInv (the pass in  *)
(* hand: position and carry-over), NoteInv (sounding notes), WheelInv      *)
(* (pitch wheels) and SongInv (program changes).                           *)
(*                                                                         *)
(* The last four hold under hypotheses on what clients do: NoClear,        *)
(* NoLocates, NoJumps, SameChannels and NoCreate.                          *)
(***************************************************************************)
EXTENDS Player, TLAPS

-----------------------------------------------------------------------------
(* Event lists are sets of events.                                         *)

LEMMA PulsesType ==
  ASSUME NEW d \in Nat
  PROVE  Pulses(d) \subseteq Event
BY DEF Pulses, LoopEvent, Event, Kinds

LEMMA NotesType ==
  ASSUME NEW s \in Songs
  PROVE  /\ NoteOns(s) \subseteq Event
         /\ NoteOffs(s) \subseteq Event
         /\ Overflow(s) \subseteq Event
BY SongAssumption
DEF NoteOns, NoteOffs, Overflow, NoteOn, NoteOff, OffTick, LoopEvent, Event, Kinds, Note

LEMMA BendsType ==
  ASSUME NEW s \in Songs
  PROVE  BendEvents(s) \subseteq Event
BY SongAssumption DEF BendEvents, LoopEvent, Event, Kinds, Bend

LEMMA PassEventsType ==
  ASSUME NEW s \in Songs, NEW carried \in SUBSET Event, NEW clocked \in BOOLEAN
  PROVE  PassEvents(s, carried, clocked) \subseteq Event
<1>1. LoopDuration[s] \in Nat
  BY SongAssumption
<1>2. Pulses(LoopDuration[s]) \subseteq Event
  BY <1>1, PulsesType
<1> QED
  BY <1>2, NotesType, BendsType DEF PassEvents

(* Re-basing an overflow leaves the kind, channel and pitch of each event. *)
LEMMA RebaseType ==
  ASSUME NEW overflow \in SUBSET Event, NEW d \in Nat
  PROVE  Rebase(overflow, d) \subseteq Event
<1> SUFFICES ASSUME NEW e \in overflow
             PROVE  [e EXCEPT !.tick = (e.tick - d) % TickModulus] \in Event
  BY DEF Rebase
<1>1. PICK t \in Nat, k \in Kinds, c \in Nat, x \in Nat :
        e = [tick |-> t, kind |-> k, channel |-> c, data |-> x]
  BY DEF Event
<1>2. (t - d) % TickModulus \in Nat
  BY TickAssumption
<1>3. [e EXCEPT !.tick = (e.tick - d) % TickModulus]
        = [tick |-> (t - d) % TickModulus, kind |-> k, channel |-> c, data |-> x]
  BY <1>1
<1> QED
  BY <1>2, <1>3 DEF Event

-----------------------------------------------------------------------------
(* The channel hands out commands, and keeps a sequence of them.           *)

LEMMA PopType ==
  ASSUME queue \in Seq(Command), queue # <<>>
  PROVE  /\ Tail(queue) \in Seq(Command)
         /\ Head(queue).name \in CommandNames
         /\ Head(queue).arg \in Nat
<1>1. Head(queue) \in Command /\ Tail(queue) \in Seq(Command)
  OBVIOUS
<1> QED
  BY <1>1 DEF Command

(* What Return and Goto leave in the control variables.                    *)
LEMMA ReturnType ==
  ASSUME NEW s \in States, Return(s)
  PROVE  state' \in States /\ pc' \in Locations /\ call' \in Calls
BY DEF Return, States, Locations, Calls

(* The song of a project is one of the songs, with a loop that is not      *)
(* empty.                                                                  *)
LEMMA ProjectType ==
  ASSUME NEW p \in Project
  PROVE  /\ p.song \in Songs /\ p.bpm \in Nat
         /\ LoopDuration[p.song] \in Nat \ {0}
BY SongAssumption, TickAssumption DEF Project

LEMMA RemainderType ==
  ASSUME NEW t \in Nat, NEW d \in Nat \ {0}
  PROVE  t % d \in Nat
OBVIOUS

LEMMA ContextType ==
  ASSUME NEW events \in SUBSET Event, NEW d \in Nat \ {0}
  PROVE  /\ Context(events, d).events \subseteq Event
         /\ Context(events, d).loopDuration \in Nat \ {0}
BY DEF Context

(* A context is not the absence of one.                                    *)
LEMMA ContextExists ==
  ASSUME NEW events \in SUBSET Event, NEW d \in Nat
  PROVE  Context(events, d) # None
BY EnvironmentAssumption DEF Context

-----------------------------------------------------------------------------
LEMMA InitTyped == Init => TypeOK
<1> SUFFICES ASSUME Init PROVE TypeOK
  OBVIOUS
<1>1. queue \in Seq(Command)
  BY DEF Init
<1>2. state \in States /\ pc \in Locations /\ call \in Calls
  BY DEF Init, States, Locations, Calls
<1>3. loopDuration \in Nat \ {0} /\ tempo \in Nat
  BY DEF Init
<1>6. isClockMode \in BOOLEAN
  BY DEF Init
<1>4. transport \in {"stopped", "rolling"}
  BY DEF Init
<1>5. activeNotes \subseteq SoundingNotes /\ bent \subseteq Nat /\ remaining \subseteq Event
      /\ carryOver \subseteq Event /\ nextCarryOver \subseteq Event
  BY DEF Init
<1> QED
  BY <1>1, <1>2, <1>3, <1>4, <1>5, <1>6 DEF Init, TypeOK

LEMMA StoppedTyped == TypeOK /\ HandleStopped => TypeOK'
<1> SUFFICES ASSUME TypeOK, HandleStopped PROVE TypeOK'
  OBVIOUS
<1> USE PopType DEF TypeOK, Receives, Pop, Argument, Goto, AtStopped, control, store,
        carries, position, timing, device
<1>1. CASE StoppedStart
  BY <1>1 DEF StoppedStart, States, Locations, Calls
<1>2. CASE StoppedClockStart
  BY <1>2 DEF StoppedClockStart, Locations, Calls
<1>3. CASE StoppedStage
  BY <1>3 DEF StoppedStage
<1>4. CASE StoppedIgnore
  BY <1>4 DEF StoppedIgnore
<1> QED
  BY <1>1, <1>2, <1>3, <1>4 DEF HandleStopped

LEMMA InitProjectTyped == TypeOK /\ InitProject => TypeOK'
<1> SUFFICES ASSUME TypeOK, InitProject PROVE TypeOK'
  OBVIOUS
<1> USE DEF TypeOK, Goto, control, store, carries, position, timing, device
<1>1. CASE InitRunning
  <2>1. active \in Project
    BY <1>1 DEF InitRunning
  <2>2. /\ LoopDuration[active.song] \in Nat \ {0}
        /\ 10 * active.bpm \in Nat
    BY <2>1, ProjectType
  <2>3. CASE call = "SyncContinue" /\ pendingSongPosition # None
    <3>1. pendingSongPosition % LoopDuration[active.song] \in Nat
      BY <2>2, <2>3, RemainderType
    <3> QED
      BY <1>1, <2>2, <2>3, <3>1 DEF InitRunning, Locate, Locations, Calls
  <2>4. CASE ~(call = "SyncContinue" /\ pendingSongPosition # None)
    BY <1>1, <2>2, <2>4 DEF InitRunning, States, Locations, Calls
  <2> QED
    BY <2>3, <2>4
<1>2. CASE InitPanic
  BY <1>2 DEF InitPanic, Locations
<1> QED
  BY <1>1, <1>2 DEF InitProject

LEMMA WaitingTyped == TypeOK /\ HandleWaiting => TypeOK'
<1> SUFFICES ASSUME TypeOK, HandleWaiting PROVE TypeOK'
  OBVIOUS
<1> USE DEF TypeOK, Goto, WaitingUnchanged, control, store, carries, position, timing,
        device
<1>1. CASE WaitPoll
  BY <1>1 DEF WaitPoll, Locations, Calls
<1>2. CASE WaitCommit
  BY <1>2 DEF WaitCommit, Locations, Calls
<1>3. CASE WaitCheck
  BY <1>3 DEF WaitCheck, Locations, Calls
<1>4. CASE WaitReceive
  BY <1>4, PopType DEF WaitReceive, States, Locations
<1> QED
  BY <1>1, <1>2, <1>3, <1>4 DEF HandleWaiting

LEMMA StartPlayingType ==
  ASSUME TypeOK, NEW events \in SUBSET Event, StartPlaying(events)
  PROVE  /\ state' \in States /\ pc' \in Locations /\ call' \in Calls
         /\ remaining' \subseteq Event
         /\ tempo' \in Nat /\ pendingSyncBpm' \in Nat \cup {None}
BY DEF TypeOK, StartPlaying, timing, Locations, Calls

LEMMA DeliverType ==
  ASSUME TypeOK, NEW events \in SUBSET Event, NEW d \in Nat \ {0}, Deliver(events, d)
  PROVE  /\ state' \in States /\ pc' \in Locations /\ call' \in Calls
         /\ remaining' \subseteq Event
         /\ tempo' \in Nat /\ pendingSyncBpm' \in Nat \cup {None}
         /\ \/ pauseContext' = None
            \/ /\ pauseContext'.events \subseteq Event
               /\ pauseContext'.loopDuration \in Nat \ {0}
<1>1. CASE call = "Pass"
  BY <1>1, StartPlayingType DEF Deliver, TypeOK
<1>2. CASE call # "Pass"
  <2>1. From(events, loopElapsedTicks) \in SUBSET Event
    BY DEF From
  <2>2. state \in States
    BY DEF TypeOK
  <2> QED
    BY <1>2, <2>1, <2>2, ReturnType, ContextType DEF Deliver, TypeOK, timing
<1> QED
  BY <1>1, <1>2

LEMMA BuildTyped == TypeOK /\ BuildLoopEvents => TypeOK'
<1> SUFFICES ASSUME TypeOK, BuildLoopEvents PROVE TypeOK'
  OBVIOUS
<1> USE DEF control, store, carries, position, timing, device
<1>1. CASE Setup
  <2>1. active # None => active.song \in Songs
    BY ProjectType DEF TypeOK
  <2> QED
    BY <1>1, <2>1 DEF Setup, TypeOK, Goto, Locations
<1>2. CASE CollectProject
  <2>1. active.song \in Songs /\ LoopDuration[active.song] \in Nat \ {0}
    BY <1>2, ProjectType DEF CollectProject, TypeOK
  <2>2. PassEvents(active.song, carryOver, isClockMode) \in SUBSET Event
    BY <2>1, PassEventsType DEF TypeOK
  <2>3. Overflow(active.song) \subseteq Event
    BY <2>1, NotesType
  <2> HIDE DEF timing
  <2> QED
    BY <1>2, <2>1, <2>2, <2>3, DeliverType DEF CollectProject, TypeOK
<1>3. CASE CollectPulses
  <2>1. carryOver \cup Pulses(loopDuration) \in SUBSET Event
    BY PulsesType DEF TypeOK
  <2>2. loopDuration \in Nat \ {0}
    BY DEF TypeOK
  <2> QED
    BY <1>3, <2>1, <2>2, DeliverType DEF CollectPulses, TypeOK
<1>4. CASE CollectNothing
  BY <1>4 DEF CollectNothing, TypeOK, Goto, Locations
<1>5. CASE IdleEmpty
  BY <1>5, ReturnType DEF IdleEmpty, TypeOK
<1> QED
  BY <1>1, <1>2, <1>3, <1>4, <1>5 DEF BuildLoopEvents

LEMMA MidLoopTyped == TypeOK /\ MidLoopCommand => TypeOK'
<1> SUFFICES ASSUME TypeOK, MidLoopCommand PROVE TypeOK'
  OBVIOUS
<1> USE PopType DEF TypeOK, Receives, Pop, Argument, MidLoop, store, carries, position,
        timing, device
<1>1. CASE MidLoopStop
  <2>1. "Stopped" \in States
    BY DEF States
  <2> QED
    BY <1>1, <2>1, ReturnType DEF MidLoopStop, DoStop, ResetPosition, Flush, CentreBends
<1>2. CASE MidLoopPause
  <2>1. "Paused" \in States
    BY DEF States
  <2> QED
    BY <1>2, <2>1, ReturnType, ContextType DEF MidLoopPause, Flush, CentreBends
<1>3. CASE MidLoopSyncStart
  BY <1>3, ReturnType DEF MidLoopSyncStart, DoSyncRestart, ResetPosition, Flush
<1>4. CASE MidLoopSyncContinue
  BY <1>4 DEF MidLoopSyncContinue, Goto, Locations, Calls
<1>5. ASSUME Proceed PROVE state' \in States /\ pc' \in Locations /\ call' \in Calls
  BY <1>5, ReturnType DEF Proceed, Locations
<1>6. CASE MidLoopTempo
  BY <1>5, <1>6 DEF MidLoopTempo
<1>7. CASE MidLoopIgnore
  BY <1>5, <1>7 DEF MidLoopIgnore
<1> QED
  BY <1>1, <1>2, <1>3, <1>4, <1>6, <1>7 DEF MidLoopCommand

LEMMA RunningTyped == TypeOK /\ HandleRunning => TypeOK'
<1> SUFFICES ASSUME TypeOK, HandleRunning PROVE TypeOK'
  OBVIOUS
<1> USE DEF control, store, carries, position, device
<1>1. CASE RunResume
  <2>1. /\ pauseContext.events \in SUBSET Event
        /\ pauseContext.loopDuration \in Nat \ {0}
    BY <1>1 DEF RunResume, TypeOK
  <2> QED
    BY <1>1, <2>1, StartPlayingType DEF RunResume, TypeOK
<1>2. CASE RunBuild
  BY <1>2 DEF RunBuild, TypeOK, Goto, Locations, Calls, timing
<1>3. CASE Fire
  <2>1. PICK e \in NextEvents(remaining) :
           /\ loopElapsedTicks' = e.tick
           /\ currentTick' = e.tick
           /\ remaining' = remaining \ {e}
           /\ Emit(e)
    BY <1>3 DEF Fire
  <2>2. e \in Event
    BY DEF NextEvents, TypeOK
  <2>3. e.tick \in Nat /\ e.channel \in Nat /\ e.data \in Nat
    BY <2>2 DEF Event
  <2>4. Sounding(e) \in SoundingNotes
    BY <2>3 DEF Sounding, SoundingNotes
  <2>5. activeNotes' \subseteq SoundingNotes /\ bent' \subseteq Nat /\ UNCHANGED transport
    BY <2>1, <2>3, <2>4 DEF Emit, TypeOK
  <2>6. remaining' \subseteq Event
    BY <2>1 DEF TypeOK
  <2> QED
    BY <1>3, <2>1, <2>3, <2>5, <2>6 DEF Fire, TypeOK, Goto, Locations, Calls, timing
<1>4. CASE AfterEventEmpty
  BY <1>4 DEF AfterEventEmpty, TypeOK, Goto, Locations, Calls, timing
<1> QED
  BY <1>1, <1>2, <1>3, <1>4 DEF HandleRunning

LEMMA AdvanceTyped == TypeOK /\ AdvanceLoop => TypeOK'
<1> SUFFICES ASSUME TypeOK, AdvanceLoop PROVE TypeOK'
  OBVIOUS
<1> USE DEF TypeOK, Goto, store, carries, position, timing, device
<1>1. CASE AdvanceCommit
  BY <1>1 DEF AdvanceCommit, Locations, Calls
<1>2. CASE AdvancePublish
  BY <1>2, ProjectType DEF AdvancePublish, Locations, Calls
<1>3. CASE AdvanceRetime
  <2>1. Rebase(nextCarryOver, loopDuration) \subseteq Event
    BY RebaseType
  <2>2. active # None => 10 * active.bpm \in Nat
    BY ProjectType
  <2>3. tempo' \in Nat
    BY <1>3, <2>2 DEF AdvanceRetime
  <2>4. loopCount' \in Nat
    BY <1>3 DEF AdvanceRetime
  <2> QED
    BY <1>3, <2>1, <2>3, <2>4 DEF AdvanceRetime, Locations, Calls
<1> QED
  BY <1>1, <1>2, <1>3 DEF AdvanceLoop

LEMMA PausedTyped == TypeOK /\ HandlePaused => TypeOK'
<1> SUFFICES ASSUME TypeOK, HandlePaused PROVE TypeOK'
  OBVIOUS
<1> USE PopType DEF TypeOK, Receives, Pop, Argument, AtPaused, control, store, carries,
        position, timing, device
<1>1. CASE PausedResume
  BY <1>1 DEF PausedResume, States
<1>2. CASE PausedSyncStart
  BY <1>2 DEF PausedSyncStart, DoSyncRestart, ResetPosition, Flush, States
<1>3. CASE PausedLocate
  <2>1. Argument % loopDuration \in Nat
    BY <1>3, RemainderType DEF PausedLocate
  <2> QED
    BY <1>3, <2>1 DEF PausedLocate, Locate, Goto, Locations, Calls
<1>4. CASE PausedStop
  BY <1>4 DEF PausedStop, ResetPosition, States
<1>5. CASE PausedTempo
  BY <1>5 DEF PausedTempo
<1>6. CASE PausedIgnore
  BY <1>6 DEF PausedIgnore
<1> QED
  BY <1>1, <1>2, <1>3, <1>4, <1>5, <1>6 DEF HandlePaused

LEMMA ClientTyped == TypeOK /\ ClientStep => TypeOK'
<1> SUFFICES ASSUME TypeOK, ClientStep PROVE TypeOK'
  OBVIOUS
<1> USE DEF TypeOK, ClientUnchanged, control, store, carries, position, timing, device
<1>1. ASSUME NEW c \in Commands, Send(c) PROVE TypeOK'
  <2>1. c \in Command
    BY EnvironmentAssumption
  <2>2. queue' \in Seq(Command)
    BY <1>1, <2>1 DEF Send
  <2> QED
    BY <1>1, <2>2 DEF Send
<1>2. ASSUME NEW p \in Project, CreateProject(p) PROVE TypeOK'
  BY <1>2 DEF CreateProject
<1>3. ASSUME NEW p \in Project, ModifyProject(p) PROVE TypeOK'
  BY <1>3 DEF ModifyProject
<1>4. CASE ClearStore
  BY <1>4 DEF ClearStore
<1> QED
  BY <1>1, <1>2, <1>3, <1>4 DEF ClientStep

LEMMA StutterTyped == TypeOK /\ UNCHANGED vars => TypeOK'
BY DEF TypeOK, vars, control, store, carries, position, timing, device

-----------------------------------------------------------------------------
(* Type correctness: no interleaving of commands and store writes puts a   *)
(* value of the wrong kind into a field of the player, the store, the      *)
(* published position or the device.                                       *)
THEOREM TypeCorrect == Spec => []TypeOK
<1>1. Init => TypeOK
  BY InitTyped
<1>2. TypeOK /\ [Next]_vars => TypeOK'
  BY StoppedTyped, InitProjectTyped, WaitingTyped, BuildTyped, MidLoopTyped,
     RunningTyped, AdvanceTyped, PausedTyped, ClientTyped, StutterTyped
  DEF Next, PlayerStep
<1> QED
  BY <1>1, <1>2, PTL DEF Spec

-----------------------------------------------------------------------------
(* Three facts that most steps of the proof rest on.                       *)

(* A step that touches neither the position, the notes nor the clock only  *)
(* has to put the thread somewhere that agrees with its state.             *)
LEMMA Bookkeeping ==
  ASSUME TransportInv, CallAgrees', StateAgrees',
         UNCHANGED <<state, currentTick, loopCount, activeNotes, isClockMode, transport>>,
         pc \in Building => pc' \in Building \/ state \notin {"Stopped", "Waiting"}
  PROVE  TransportInv'
<1>1. AtRest'
  BY DEF TransportInv, AtRest
<1>2. SilentUnlessRunning'
  BY DEF TransportInv, SilentUnlessRunning
<1>3. ClockModeRolling'
  BY Zenon DEF TransportInv, ClockModeRolling
<1> QED
  BY <1>1, <1>2, <1>3 DEF TransportInv

(* At the top of run() the thread acts for nobody, whatever its state.     *)
LEMMA AtTop ==
  ASSUME pc' = "Loop", call' = "None"
  PROVE  CallAgrees' /\ StateAgrees'
BY DEF CallAgrees, StateAgrees, Playing, Awaiting, Building

(* Nothing sounds, runs or counts in a stopped player.                     *)
LEMMA StoppedFacts ==
  ASSUME TransportInv, state \in {"Stopped", "Waiting"}
  PROVE  /\ activeNotes = {} /\ loopCount = 0 /\ ~isClockMode
         /\ pc \notin Building => currentTick = 0
<1>1. activeNotes = {} /\ loopCount = 0 /\ (pc \notin Building => currentTick = 0)
  BY DEF TransportInv, SilentUnlessRunning, AtRest
<1>2. ~isClockMode
  BY DEF TransportInv, ClockModeRolling
<1> QED
  BY <1>1, <1>2

-----------------------------------------------------------------------------
LEMMA InitSafe == Init => TransportInv
<1> SUFFICES ASSUME Init PROVE TransportInv
  OBVIOUS
<1>1. CallAgrees /\ StateAgrees
  BY DEF Init, CallAgrees, StateAgrees, Playing, Awaiting, Building
<1>2. AtRest /\ SilentUnlessRunning
  BY DEF Init, AtRest, SilentUnlessRunning
<1>3. ClockModeRolling
  BY DEF Init, ClockModeRolling
<1> QED
  BY <1>1, <1>2, <1>3 DEF TransportInv

LEMMA StoppedSafe == TypeOK /\ TransportInv /\ HandleStopped => TransportInv'
<1> SUFFICES ASSUME TypeOK, TransportInv, HandleStopped PROVE TransportInv'
  OBVIOUS
<1> USE DEF AtStopped, Goto, position, device, control
<1>0. CallAgrees /\ StateAgrees
  BY DEF TransportInv
<1>1. CASE StoppedStart
  <2>1. pc = "Loop" /\ state = "Stopped" /\ call = "None"
    BY <1>0, <1>1 DEF StoppedStart, CallAgrees
  <2>2. UNCHANGED <<currentTick, loopCount, activeNotes, isClockMode, transport>>
    BY <1>1 DEF StoppedStart
  <2>3. CASE active # None
    <3>1. /\ pc' = "Init" /\ state' = "Stopped"
          /\ call' \in {"Start", "SyncStart", "SyncContinue"}
      BY <1>1, <2>1, <2>3 DEF StoppedStart, Receives
    <3>2. CallAgrees' /\ StateAgrees'
      BY <3>1 DEF CallAgrees, StateAgrees, Playing, Awaiting, Building
    <3> QED
      BY <2>1, <2>2, <3>1, <3>2, Bookkeeping DEF Building
  <2>4. CASE active = None
    <3>1. pc' = "Loop" /\ call' = "None" /\ state' = "Waiting"
      BY <1>1, <2>1, <2>4 DEF StoppedStart
    <3>2. CallAgrees' /\ StateAgrees'
      BY <3>1, AtTop
    <3>3. activeNotes = {} /\ loopCount = 0 /\ ~isClockMode /\ currentTick = 0
      BY <2>1, StoppedFacts DEF Building
    <3>4. AtRest' /\ SilentUnlessRunning'
      BY <2>2, <3>3 DEF AtRest, SilentUnlessRunning
    <3>5. ClockModeRolling'
      BY <2>2, <3>3 DEF ClockModeRolling
    <3> QED
      BY <3>2, <3>4, <3>5 DEF TransportInv
  <2> QED
    BY <2>3, <2>4
<1>2. CASE StoppedClockStart
  <2>1. pc = "Loop" /\ pc' = "Init" /\ state' = "Stopped" /\ call' = "ClockStart"
    BY <1>2 DEF StoppedClockStart
  <2>2. CallAgrees' /\ StateAgrees'
    BY <2>1 DEF CallAgrees, StateAgrees, Playing, Awaiting, Building
  <2> QED
    BY <1>2, <2>1, <2>2, Bookkeeping DEF StoppedClockStart, Building
<1>3. CASE StoppedStage \/ StoppedIgnore
  <2>1. pc = "Loop" /\ UNCHANGED <<state, pc, call>>
    BY <1>3 DEF StoppedStage, StoppedIgnore
  <2>2. CallAgrees' /\ StateAgrees'
    BY <1>0, <2>1, AtTop DEF CallAgrees
  <2> QED
    BY <1>3, <2>1, <2>2, Bookkeeping DEF StoppedStage, StoppedIgnore, Building
<1> QED
  BY <1>1, <1>2, <1>3 DEF HandleStopped

LEMMA InitProjectSafe == TypeOK /\ TransportInv /\ InitProject => TransportInv'
<1> SUFFICES ASSUME TypeOK, TransportInv, InitProject PROVE TransportInv'
  OBVIOUS
<1> USE DEF position, device
<1>1. CASE InitRunning
  <2>1. pc = "Init" /\ state = IF call = "Promoted" THEN "Waiting" ELSE "Stopped"
    BY <1>1 DEF InitRunning, TransportInv, StateAgrees
  <2>2. activeNotes = {} /\ loopCount = 0 /\ ~isClockMode /\ currentTick = 0
    BY <2>1, StoppedFacts DEF Building
  <2>3. activeNotes' = {} /\ loopCount' = 0
    BY <1>1, <2>2 DEF InitRunning
  <2>4. isClockMode' => call = "ClockStart" /\ transport' = "rolling"
    BY <1>1, <2>2 DEF InitRunning
  <2>5. CASE call = "SyncContinue" /\ pendingSongPosition # None
    <3>1. pc' = "Setup" /\ call' = "RepositionRun" /\ state' = "Stopped"
      BY <1>1, <2>1, <2>5 DEF InitRunning, Locate, Goto
    <3>2. CallAgrees' /\ StateAgrees'
      BY <3>1 DEF CallAgrees, StateAgrees, Playing, Awaiting, Building
    <3>3. AtRest' /\ SilentUnlessRunning'
      BY <2>3, <3>1 DEF AtRest, SilentUnlessRunning, Building
    <3>4. ClockModeRolling'
      BY <2>4, <2>5 DEF ClockModeRolling
    <3> QED
      BY <3>2, <3>3, <3>4 DEF TransportInv
  <2>6. CASE ~(call = "SyncContinue" /\ pendingSongPosition # None)
    <3>1. pc' = "Loop" /\ call' = "None" /\ state' = "Running"
      BY <1>1, <2>6 DEF InitRunning
    <3>2. CallAgrees' /\ StateAgrees'
      BY <3>1, AtTop
    <3>3. AtRest' /\ SilentUnlessRunning'
      BY <3>1 DEF AtRest, SilentUnlessRunning
    <3>4. ClockModeRolling'
      BY <2>4, <3>1 DEF ClockModeRolling
    <3> QED
      BY <3>2, <3>3, <3>4 DEF TransportInv
  <2> QED
    BY <2>5, <2>6
<1>2. CASE InitPanic
  <2>1. pc = "Init" /\ pc' = "Dead" /\ UNCHANGED <<state, call>>
    BY <1>2 DEF InitPanic
  <2>2. state \in {"Stopped", "Waiting"}
    BY <2>1 DEF TransportInv, StateAgrees
  <2>3. CallAgrees' /\ StateAgrees'
    BY <2>1, <2>2 DEF CallAgrees, StateAgrees, Playing, Awaiting, Building
  <2> QED
    BY <1>2, <2>1, <2>3, Bookkeeping DEF InitPanic, Building
<1> QED
  BY <1>1, <1>2 DEF InitProject

LEMMA WaitingSafe == TypeOK /\ TransportInv /\ HandleWaiting => TransportInv'
<1> SUFFICES ASSUME TypeOK, TransportInv, HandleWaiting PROVE TransportInv'
  OBVIOUS
<1> USE DEF WaitingUnchanged, Goto, position, device
<1>0. CallAgrees /\ StateAgrees
  BY DEF TransportInv
<1>1. CASE WaitPoll \/ WaitCommit \/ WaitCheck
  <2>1. /\ pc \in {"Loop", "WaitCommit", "WaitCheck"}
        /\ state = "Waiting" /\ state' = "Waiting"
    BY <1>0, <1>1 DEF WaitPoll, WaitCommit, WaitCheck, StateAgrees, Awaiting
  <2>2. \/ pc' \in {"WaitCommit", "WaitReceive"} /\ call' = "None"
        \/ pc' = "WaitCheck" /\ call' \in {"None", "Promoted"}
        \/ pc' = "Init" /\ call' = "Promoted"
    BY <1>1 DEF WaitPoll, WaitCommit, WaitCheck
  <2>3. CallAgrees' /\ StateAgrees'
    BY <2>1, <2>2 DEF CallAgrees, StateAgrees, Playing, Awaiting, Building
  <2> QED
    BY <1>1, <2>1, <2>3, Bookkeeping DEF WaitPoll, WaitCommit, WaitCheck, Building
<1>2. CASE WaitReceive
  <2>1. pc = "WaitReceive" /\ state = "Waiting" /\ call = "None"
    BY <1>0, <1>2 DEF WaitReceive, CallAgrees, StateAgrees, Awaiting
  <2>2. pc' = "Loop" /\ call' = "None" /\ state' \in {"Stopped", "Waiting"}
    BY <1>2, <2>1 DEF WaitReceive
  <2>3. UNCHANGED <<currentTick, loopCount, activeNotes, isClockMode, transport>>
    BY <1>2 DEF WaitReceive
  <2>4. activeNotes = {} /\ loopCount = 0 /\ ~isClockMode /\ currentTick = 0
    BY <2>1, StoppedFacts DEF Building
  <2>5. CallAgrees' /\ StateAgrees'
    BY <2>2, AtTop
  <2>6. AtRest' /\ SilentUnlessRunning'
    BY <2>3, <2>4 DEF AtRest, SilentUnlessRunning
  <2>7. ClockModeRolling'
    BY <2>3, <2>4 DEF ClockModeRolling
  <2> QED
    BY <2>5, <2>6, <2>7 DEF TransportInv
<1> QED
  BY <1>1, <1>2 DEF HandleWaiting

(* A list is built for a pass of a running loop, or for a Continue.        *)
LEMMA BuildingFacts ==
  ASSUME TransportInv, pc \in Building
  PROVE  \/ call = "Pass" /\ state = "Running"
         \/ call = "Reposition" /\ state \in {"Running", "Paused"}
         \/ call = "RepositionRun" /\ state = "Stopped"
BY DEF TransportInv, StateAgrees

(* Back from a build to the top of run(), in Running or Paused.            *)
LEMMA ReturnSafe ==
  ASSUME TransportInv, pc \in Building, Return(state),
         UNCHANGED <<currentTick, loopCount, activeNotes, isClockMode, transport>>
  PROVE  TransportInv'
<1>1. pc' = "Loop" /\ call' = "None"
  BY DEF Return
<1>2. state' \in {"Running", "Paused"} /\ (state' = state \/ state = "Stopped")
  BY BuildingFacts DEF Return
<1>3. CallAgrees' /\ StateAgrees'
  BY <1>1, AtTop
<1>4. AtRest'
  BY <1>2 DEF AtRest
<1>5. SilentUnlessRunning'
  BY <1>2 DEF TransportInv, SilentUnlessRunning
<1>6. ClockModeRolling'
  BY <1>2, Zenon DEF TransportInv, ClockModeRolling
<1> QED
  BY <1>3, <1>4, <1>5, <1>6 DEF TransportInv

(* A built list is played at once, or kept for the resume it was built for. *)
LEMMA DeliverSafe ==
  ASSUME TransportInv, pc = "Collect", NEW events, NEW d, Deliver(events, d),
         UNCHANGED <<currentTick, loopCount, activeNotes, isClockMode, transport>>
  PROVE  TransportInv'
<1>0. pc \in Building
  BY DEF Building
<1>1. CASE call = "Pass"
  <2>1. pc' = "Play" /\ call' = "None" /\ UNCHANGED state
    BY <1>1 DEF Deliver, StartPlaying
  <2>2. state = "Running"
    BY <1>0, <1>1, BuildingFacts
  <2>3. CallAgrees' /\ StateAgrees'
    BY <2>1, <2>2 DEF CallAgrees, StateAgrees, Playing, Awaiting, Building
  <2> QED
    BY <2>1, <2>2, <2>3, Bookkeeping
<1>2. CASE call # "Pass"
  BY <1>0, <1>2, ReturnSafe DEF Deliver
<1> QED
  BY <1>1, <1>2

LEMMA BuildSafe == TypeOK /\ TransportInv /\ BuildLoopEvents => TransportInv'
<1> SUFFICES ASSUME TypeOK, TransportInv, BuildLoopEvents PROVE TransportInv'
  OBVIOUS
<1> USE DEF position, device
<1>1. CASE Setup \/ CollectNothing
  <2>1. /\ pc \in Building /\ pc' \in {"Collect", "Idle"}
        /\ UNCHANGED <<state, call>>
    BY <1>1 DEF Setup, CollectNothing, Goto, Building
  <2>2. CallAgrees' /\ StateAgrees'
    BY <2>1, BuildingFacts DEF CallAgrees, StateAgrees, Playing, Awaiting, Building
  <2> QED
    BY <1>1, <2>1, <2>2, Bookkeeping DEF Setup, CollectNothing, Building
<1>2. CASE CollectProject
  BY <1>2, DeliverSafe DEF CollectProject
<1>3. CASE CollectPulses
  BY <1>3, DeliverSafe DEF CollectPulses
<1>4. CASE IdleEmpty
  BY <1>4, ReturnSafe DEF IdleEmpty, Building
<1> QED
  BY <1>1, <1>2, <1>3, <1>4 DEF BuildLoopEvents

(* Commands reach the thread mid-loop while it plays, or while it has      *)
(* nothing to build a list from.                                           *)
LEMMA MidLoopFacts ==
  ASSUME TransportInv, MidLoop
  PROVE  \/ pc \in {"Play", "AfterEvent"} /\ call = "None" /\ state = "Running"
         \/ pc = "Idle" /\ pc \in Building
BY DEF TransportInv, CallAgrees, StateAgrees, MidLoop, Playing, Building

(* A command that does nothing lets the thread proceed.                    *)
LEMMA ProceedSafe ==
  ASSUME TransportInv, MidLoop, Proceed,
         UNCHANGED <<currentTick, loopCount, activeNotes, isClockMode, transport>>
  PROVE  TransportInv'
<1>1. CASE pc = "Idle"
  BY <1>1, ReturnSafe DEF Proceed, Building
<1>2. CASE pc # "Idle"
  <2>1. /\ pc \in {"Play", "AfterEvent"} /\ pc' = "Play" /\ UNCHANGED state
        /\ call' = "None" /\ state = "Running"
    BY <1>2, MidLoopFacts DEF Proceed
  <2>2. CallAgrees' /\ StateAgrees'
    BY <2>1 DEF CallAgrees, StateAgrees, Playing, Awaiting, Building
  <2> QED
    BY <2>1, <2>2, Bookkeeping DEF Building
<1> QED
  BY <1>1, <1>2

LEMMA MidLoopSafe == TypeOK /\ TransportInv /\ MidLoopCommand => TransportInv'
<1> SUFFICES ASSUME TypeOK, TransportInv, MidLoopCommand PROVE TransportInv'
  OBVIOUS
<1> USE DEF position, device
<1>1. CASE MidLoopStop
  <2>1. pc' = "Loop" /\ call' = "None"
    BY <1>1 DEF MidLoopStop, Return
  <2>2. CallAgrees' /\ StateAgrees'
    BY <2>1, AtTop
  <2>3. activeNotes' = {} /\ loopCount' = 0 /\ currentTick' = 0
    BY <1>1 DEF MidLoopStop, DoStop, ResetPosition, Flush
  <2>4. AtRest' /\ SilentUnlessRunning'
    BY <2>3 DEF AtRest, SilentUnlessRunning
  <2>5. ClockModeRolling'
    BY <1>1 DEF MidLoopStop, DoStop, ClockModeRolling
  <2> QED
    BY <2>2, <2>4, <2>5 DEF TransportInv
<1>2. CASE MidLoopPause
  <2>1. pc' = "Loop" /\ call' = "None" /\ state' \in {"Running", "Paused"}
    BY <1>2 DEF MidLoopPause, Return
  <2>2. CallAgrees' /\ StateAgrees'
    BY <2>1, AtTop
  <2>3. activeNotes' = {}
    BY <1>2 DEF MidLoopPause, Flush
  <2>4. AtRest' /\ SilentUnlessRunning'
    BY <2>1, <2>3 DEF AtRest, SilentUnlessRunning
  <2>5. UNCHANGED <<isClockMode, transport>>
    BY <1>2 DEF MidLoopPause
  <2>6. ClockModeRolling'
    BY <2>1, <2>5, Zenon DEF TransportInv, ClockModeRolling
  <2> QED
    BY <2>2, <2>4, <2>6 DEF TransportInv
<1>3. CASE MidLoopSyncStart
  <2>1. pc' = "Loop" /\ call' = "None" /\ state' \in {state, "Running"}
    BY <1>3 DEF MidLoopSyncStart, Return
  <2>2. CallAgrees' /\ StateAgrees'
    BY <2>1, AtTop
  <2>3. activeNotes' = {} /\ loopCount' = 0 /\ currentTick' = 0
    BY <1>3 DEF MidLoopSyncStart, DoSyncRestart, ResetPosition, Flush
  <2>4. AtRest' /\ SilentUnlessRunning'
    BY <2>3 DEF AtRest, SilentUnlessRunning
  <2>5. UNCHANGED <<isClockMode, transport>>
    BY <1>3 DEF MidLoopSyncStart, DoSyncRestart
  <2>6. ClockModeRolling'
    BY <2>1, <2>5, Zenon DEF TransportInv, ClockModeRolling
  <2> QED
    BY <2>2, <2>4, <2>6 DEF TransportInv
<1>4. CASE MidLoopSyncContinue
  <2>1. /\ MidLoop /\ pc' = "Setup" /\ UNCHANGED state
        /\ call' = IF call = "RepositionRun" THEN call ELSE "Reposition"
    BY <1>4 DEF MidLoopSyncContinue, Goto
  <2>2. \/ call' = "Reposition" /\ state \in {"Running", "Paused"}
        \/ call' = "RepositionRun" /\ state = "Stopped" /\ pc \in Building
    BY <2>1, MidLoopFacts, BuildingFacts
  <2>3. CallAgrees' /\ StateAgrees'
    BY <2>1, <2>2 DEF CallAgrees, StateAgrees, Playing, Awaiting, Building
  <2>4. UNCHANGED <<currentTick, loopCount, activeNotes, isClockMode, transport>>
    BY <1>4 DEF MidLoopSyncContinue
  <2> QED
    BY <2>1, <2>2, <2>3, <2>4, Bookkeeping DEF Building
<1>5. CASE MidLoopTempo
  BY <1>5, ProceedSafe DEF MidLoopTempo
<1>6. CASE MidLoopIgnore
  BY <1>6, ProceedSafe DEF MidLoopIgnore
<1> QED
  BY <1>1, <1>2, <1>3, <1>4, <1>5, <1>6 DEF MidLoopCommand

(* Only a running loop plays.                                              *)
LEMMA PlayingFacts ==
  ASSUME TransportInv, pc \in Playing
  PROVE  state = "Running" /\ call = "None"
BY DEF TransportInv, CallAgrees, StateAgrees

(* While the state is Running, steps of play_events and advance_loop are   *)
(* free to move the position and to sound notes.                           *)
LEMMA RunningOn ==
  ASSUME TransportInv, state = "Running", state' = "Running",
         CallAgrees', StateAgrees', UNCHANGED <<isClockMode, transport>>
  PROVE  TransportInv'
<1>1. AtRest' /\ SilentUnlessRunning'
  BY DEF AtRest, SilentUnlessRunning
<1>2. ClockModeRolling'
  BY Zenon DEF TransportInv, ClockModeRolling
<1> QED
  BY <1>1, <1>2 DEF TransportInv

LEMMA RunningSafe == TypeOK /\ TransportInv /\ HandleRunning => TransportInv'
<1> SUFFICES ASSUME TypeOK, TransportInv, HandleRunning PROVE TransportInv'
  OBVIOUS
<1> USE DEF position, device
<1>1. CASE RunResume \/ RunBuild
  <2>1. /\ state = "Running" /\ state' = "Running"
        /\ \/ pc' = "Play" /\ call' = "None"
           \/ pc' = "Setup" /\ call' = "Pass"
    BY <1>1 DEF RunResume, RunBuild, StartPlaying, Goto
  <2>2. CallAgrees' /\ StateAgrees'
    BY <2>1 DEF CallAgrees, StateAgrees, Playing, Awaiting, Building
  <2>3. UNCHANGED <<isClockMode, transport>>
    BY <1>1 DEF RunResume, RunBuild
  <2> QED
    BY <2>1, <2>2, <2>3, RunningOn
<1>2. CASE Fire \/ AfterEventEmpty
  <2>1. /\ pc \in Playing /\ pc' \in {"Play", "AfterEvent"}
        /\ call' = "None" /\ UNCHANGED state
    BY <1>2 DEF Fire, AfterEventEmpty, Goto, Playing
  <2>2. state = "Running"
    BY <2>1, PlayingFacts
  <2>3. CallAgrees' /\ StateAgrees'
    BY <2>1, <2>2 DEF CallAgrees, StateAgrees, Playing, Awaiting, Building
  <2>4. UNCHANGED <<isClockMode, transport>>
    BY <1>2 DEF Fire, Emit, AfterEventEmpty
  <2> QED
    BY <2>1, <2>2, <2>3, <2>4, RunningOn
<1> QED
  BY <1>1, <1>2 DEF HandleRunning

LEMMA AdvanceSafe == TypeOK /\ TransportInv /\ AdvanceLoop => TransportInv'
<1> SUFFICES ASSUME TypeOK, TransportInv, AdvanceLoop PROVE TransportInv'
  OBVIOUS
<1> USE DEF position, device
<1>1. /\ pc \in Playing /\ pc' \in {"Publish", "Retime", "Loop"}
      /\ call' = "None" /\ UNCHANGED state
  BY DEF AdvanceLoop, AdvanceCommit, AdvancePublish, AdvanceRetime, Goto, Playing
<1>2. state = "Running"
  BY <1>1, PlayingFacts
<1>3. CallAgrees' /\ StateAgrees'
  BY <1>1, <1>2 DEF CallAgrees, StateAgrees, Playing, Awaiting, Building
<1>4. UNCHANGED <<isClockMode, transport>>
  BY DEF AdvanceLoop, AdvanceCommit, AdvancePublish, AdvanceRetime
<1> QED
  BY <1>1, <1>2, <1>3, <1>4, RunningOn

LEMMA PausedSafe == TypeOK /\ TransportInv /\ HandlePaused => TransportInv'
<1> SUFFICES ASSUME TypeOK, TransportInv, HandlePaused PROVE TransportInv'
  OBVIOUS
<1> USE DEF AtPaused, position, device, control
<1>0. /\ pc = "Loop" /\ state = "Paused" /\ call = "None"
      /\ activeNotes = {} /\ (isClockMode => transport = "rolling")
  BY DEF HandlePaused, PausedResume, PausedSyncStart, PausedLocate, PausedStop,
         PausedTempo, PausedIgnore, TransportInv, CallAgrees, SilentUnlessRunning,
         ClockModeRolling
<1>1. CASE PausedResume
  <2>1. pc' = "Loop" /\ call' = "None" /\ state' = "Running"
    BY <1>0, <1>1 DEF PausedResume
  <2>2. CallAgrees' /\ StateAgrees'
    BY <2>1, AtTop
  <2>3. AtRest' /\ SilentUnlessRunning'
    BY <2>1 DEF AtRest, SilentUnlessRunning
  <2>4. UNCHANGED isClockMode /\ transport' \in {"rolling", transport}
    BY <1>1 DEF PausedResume
  <2>5. ClockModeRolling'
    BY <1>0, <2>1, <2>4 DEF ClockModeRolling
  <2> QED
    BY <2>2, <2>3, <2>5 DEF TransportInv
<1>2. CASE PausedSyncStart
  <2>1. pc' = "Loop" /\ call' = "None" /\ state' = "Running"
    BY <1>0, <1>2 DEF PausedSyncStart
  <2>2. CallAgrees' /\ StateAgrees'
    BY <2>1, AtTop
  <2>3. AtRest' /\ SilentUnlessRunning'
    BY <2>1 DEF AtRest, SilentUnlessRunning
  <2>4. UNCHANGED <<isClockMode, transport>>
    BY <1>2 DEF PausedSyncStart, DoSyncRestart
  <2>5. ClockModeRolling'
    BY <1>0, <2>1, <2>4 DEF ClockModeRolling
  <2> QED
    BY <2>2, <2>3, <2>5 DEF TransportInv
<1>3. CASE PausedLocate
  <2>1. pc' = "Setup" /\ call' = "Reposition" /\ state' = "Paused"
    BY <1>0, <1>3 DEF PausedLocate, Locate, Goto
  <2>2. CallAgrees' /\ StateAgrees'
    BY <2>1 DEF CallAgrees, StateAgrees, Playing, Awaiting, Building
  <2>3. UNCHANGED <<activeNotes, isClockMode, transport>>
    BY <1>3 DEF PausedLocate
  <2>4. AtRest' /\ SilentUnlessRunning'
    BY <1>0, <2>1, <2>3 DEF AtRest, SilentUnlessRunning
  <2>5. ClockModeRolling'
    BY <1>0, <2>1, <2>3 DEF ClockModeRolling
  <2> QED
    BY <2>2, <2>4, <2>5 DEF TransportInv
<1>4. CASE PausedStop
  <2>1. pc' = "Loop" /\ call' = "None" /\ state' = "Stopped" /\ activeNotes' = {}
    BY <1>0, <1>4 DEF PausedStop
  <2>2. CallAgrees' /\ StateAgrees'
    BY <2>1, AtTop
  <2>3. AtRest' /\ SilentUnlessRunning'
    BY <1>4, <2>1 DEF PausedStop, ResetPosition, AtRest, SilentUnlessRunning
  <2>4. ClockModeRolling'
    BY <1>4 DEF PausedStop, ClockModeRolling
  <2> QED
    BY <2>2, <2>3, <2>4 DEF TransportInv
<1>5. CASE PausedTempo \/ PausedIgnore
  <2>1. pc' = "Loop" /\ call' = "None"
    BY <1>0, <1>5 DEF PausedTempo, PausedIgnore
  <2>2. CallAgrees' /\ StateAgrees'
    BY <2>1, AtTop
  <2> QED
    BY <1>0, <1>5, <2>2, Bookkeeping DEF PausedTempo, PausedIgnore, Building
<1> QED
  BY <1>1, <1>2, <1>3, <1>4, <1>5 DEF HandlePaused

(* Clients touch the store and the channel alone.                          *)
LEMMA ClientSafe ==
  TransportInv /\ (ClientStep \/ UNCHANGED vars) => TransportInv'
<1> SUFFICES ASSUME TransportInv, ClientStep \/ UNCHANGED vars PROVE TransportInv'
  OBVIOUS
<1>1. UNCHANGED <<state, pc, call, currentTick, loopCount, activeNotes,
                  isClockMode, transport>>
  BY DEF ClientStep, Send, CreateProject, ModifyProject, ClearStore,
         ClientUnchanged, vars, control, position, device
<1>2. CallAgrees' /\ StateAgrees'
  BY <1>1 DEF TransportInv, CallAgrees, StateAgrees
<1> QED
  BY <1>1, <1>2, Bookkeeping

-----------------------------------------------------------------------------
LEMMA StepSafe == TypeOK /\ TransportInv /\ [Next]_vars => TransportInv'
BY StoppedSafe, InitProjectSafe, WaitingSafe, BuildSafe, MidLoopSafe, RunningSafe,
   AdvanceSafe, PausedSafe, ClientSafe
DEF Next, PlayerStep

(* Where the thread is in the code, on whose behalf, and what it has       *)
(* published always agree.                                                 *)
THEOREM TransportInvariant == Spec => []TransportInv
BY InitSafe, StepSafe, TypeCorrect, PTL DEF Spec

(* "When any stop or pause command is received while notes are sounding,   *)
(* flush_notes immediately sends NoteOff": no note sounds unless the       *)
(* published state is Running.                                             *)
THEOREM SilenceAtRest == Spec => []SilentUnlessRunning
<1>1. TransportInv => SilentUnlessRunning
  BY DEF TransportInv
<1> QED
  BY <1>1, TransportInvariant, PTL

(* is_clock_mode never outlives the session that a 0xFA opened.            *)
THEOREM ClockModeBounded == Spec => []ClockModeRolling
<1>1. TransportInv => ClockModeRolling
  BY DEF TransportInv
<1> QED
  BY <1>1, TransportInvariant, PTL

(* Every way into Stopped or Waiting leaves tick and loop_count at zero.   *)
THEOREM ZeroWhenStopped == Spec => []StoppedAtZero
<1>1. TransportInv => StoppedAtZero
  BY DEF TransportInv, AtRest, StoppedAtZero, Building
<1> QED
  BY <1>1, TransportInvariant, PTL

-----------------------------------------------------------------------------
(* Every NoteOn has its NoteOff.                                           *)

(* No Continue and no locate come from outside: the clients of standalone  *)
(* and clock mode, and a MIDI Start and Stop.                              *)
NoLocates == \A c \in Commands : c.name \notin {"SyncContinue", "SyncSongPosition"}

NothingLocated ==
  /\ \A i \in DOMAIN queue : queue[i].name \notin {"SyncContinue", "SyncSongPosition"}
  /\ call \notin {"SyncContinue", "Reposition", "RepositionRun"}

(* The events of a pass are in one place: with play_events, or with the    *)
(* paused context that it left.                                            *)
ListInOnePlace ==
  /\ remaining # {} => pc \in {"Play", "AfterEvent"}
  /\ pauseContext # None => pc = "Loop" /\ state \in {"Running", "Paused"}
  /\ pauseContext # None => activeNotes = {}

OffsCarried ==
  \A e \in carryOver \cup nextCarryOver : e.kind = "NoteOff"

(* f ends the note that e begins.                                          *)
Ends(f, e) == f.kind = "NoteOff" /\ Sounding(f) = Sounding(e)

Paired(events) ==
  \A e \in events : e.kind = "NoteOn" =>
    \/ \E f \in events : Ends(f, e) /\ f.tick > e.tick
    \/ \E f \in nextCarryOver : Ends(f, e)

Stops(f, n) == f.kind = "NoteOff" /\ Sounding(f) = n

(* In a pass the NoteOff of a sounding note is still to come in it or is   *)
(* carried; between two passes it is what the first carried over.          *)
NotesEnd ==
  \A n \in activeNotes :
    IF pc \in Playing THEN \E f \in remaining \cup nextCarryOver : Stops(f, n)
                      ELSE \E f \in carryOver : Stops(f, n)

NoteInv ==
  NothingLocated /\ ListInOnePlace /\ OffsCarried /\ Paired(Upcoming) /\ NotesEnd


LEMMA PopKeepsNames ==
  ASSUME TypeOK, NothingLocated, queue # <<>>
  PROVE  /\ Head(queue).name \notin {"SyncContinue", "SyncSongPosition"}
         /\ \A i \in DOMAIN Tail(queue) :
              Tail(queue)[i].name \notin {"SyncContinue", "SyncSongPosition"}
<1>1. queue \in Seq(Command)
  BY DEF TypeOK
<1>2. /\ 1 \in DOMAIN queue /\ Head(queue) = queue[1]
      /\ \A i \in DOMAIN Tail(queue) : i + 1 \in DOMAIN queue /\ Tail(queue)[i] = queue[i + 1]
  BY <1>1
<1> QED
  BY <1>2 DEF NothingLocated

(* What is not touched stays paired, wherever the thread goes with it.     *)
LEMMA ListsKept ==
  ASSUME NoteInv, NothingLocated',
         UNCHANGED <<remaining, pauseContext, carries, activeNotes>>,
         remaining # {} => pc' \in {"Play", "AfterEvent"},
         pauseContext # None => pc' = "Loop" /\ state' \in {"Running", "Paused"},
         activeNotes # {} => (pc \in Playing <=> pc' \in Playing)
  PROVE  NoteInv'
<1> USE DEF carries
<1>1. ListInOnePlace'
  BY DEF NoteInv, ListInOnePlace
<1>2. OffsCarried'
  BY DEF NoteInv, OffsCarried
<1>3. Paired(Upcoming)'
  BY DEF NoteInv, Paired, Upcoming
<1>4. NotesEnd'
  BY DEF NoteInv, NotesEnd, Stops
<1> QED
  BY <1>1, <1>2, <1>3, <1>4 DEF NoteInv

(* A stop or a restart leaves nothing to come.                             *)
LEMMA ListsDropped ==
  ASSUME NoteInv, NothingLocated', remaining' = {}, pauseContext' = None,
         activeNotes' = {}, carryOver' \subseteq carryOver,
         nextCarryOver' \subseteq nextCarryOver
  PROVE  NoteInv'
<1>1. ListInOnePlace' /\ NotesEnd'
  BY DEF ListInOnePlace, NotesEnd
<1>2. OffsCarried'
  BY DEF NoteInv, OffsCarried
<1>3. Paired(Upcoming)'
  BY DEF Paired, Upcoming
<1> QED
  BY <1>1, <1>2, <1>3 DEF NoteInv

(* Nothing sounds and no list is kept in a stopped player.                 *)
LEMMA StoppedLists ==
  ASSUME TransportInv, NoteInv, state \in {"Stopped", "Waiting"}
  PROVE  /\ activeNotes = {} /\ pauseContext = None
         /\ pc \notin {"Play", "AfterEvent"} /\ remaining = {}
<1>1. activeNotes = {} /\ pauseContext = None
  BY DEF TransportInv, SilentUnlessRunning, NoteInv, ListInOnePlace
<1>2. pc \notin {"Play", "AfterEvent"}
  BY DEF TransportInv, StateAgrees, Playing
<1> QED
  BY <1>1, <1>2 DEF NoteInv, ListInOnePlace

LEMMA InitPaired == Init => NoteInv
<1> SUFFICES ASSUME Init PROVE NoteInv
  OBVIOUS
<1>1. NothingLocated
  BY DEF Init, NothingLocated
<1>2. ListInOnePlace /\ OffsCarried /\ NotesEnd
  BY DEF Init, ListInOnePlace, OffsCarried, NotesEnd
<1>3. Paired(Upcoming)
  BY DEF Init, Paired, Upcoming
<1> QED
  BY <1>1, <1>2, <1>3 DEF NoteInv

LEMMA StoppedPaired == TypeOK /\ TransportInv /\ NoteInv /\ HandleStopped => NoteInv'
<1> SUFFICES ASSUME TypeOK, TransportInv, NoteInv, HandleStopped PROVE NoteInv'
  OBVIOUS
<1> USE DEF HandleStopped, StoppedStart, StoppedClockStart, StoppedStage, StoppedIgnore,
            AtStopped, Receives, Pop, Goto, carries, device, control
<1>1. /\ state = "Stopped" /\ queue # <<>> /\ queue' = Tail(queue)
      /\ call' \in {call, "ClockStart", Head(queue).name}
      /\ UNCHANGED <<remaining, pauseContext, carries, activeNotes>>
  OBVIOUS
<1>2. activeNotes = {} /\ pauseContext = None /\ remaining = {}
  BY <1>1, StoppedLists
<1>3. Head(queue).name \notin {"Reposition", "RepositionRun"}
  OBVIOUS
<1>4. NothingLocated'
  BY <1>1, <1>3, PopKeepsNames DEF NoteInv, NothingLocated
<1> QED
  BY <1>1, <1>2, <1>4, ListsKept

LEMMA InitProjectPaired ==
  TypeOK /\ TransportInv /\ NoteInv /\ InitProject => NoteInv'
<1> SUFFICES ASSUME TypeOK, TransportInv, NoteInv, InitProject PROVE NoteInv'
  OBVIOUS
<1>0. call # "SyncContinue"
  BY DEF NoteInv, NothingLocated
<1>1. /\ pc = "Init" /\ queue' \in {queue, <<>>} /\ call' \in {call, "None"}
      /\ UNCHANGED <<remaining, pauseContext, carries, activeNotes>>
  BY <1>0 DEF InitProject, InitRunning, InitPanic, carries, device
<1>2. state \in {"Stopped", "Waiting"}
  BY <1>1 DEF TransportInv, StateAgrees
<1>3. activeNotes = {} /\ pauseContext = None /\ remaining = {}
  BY <1>2, StoppedLists
<1>4. NothingLocated'
  BY <1>1 DEF NoteInv, NothingLocated
<1> QED
  BY <1>1, <1>3, <1>4, ListsKept

LEMMA WaitingPaired == TypeOK /\ TransportInv /\ NoteInv /\ HandleWaiting => NoteInv'
<1> SUFFICES ASSUME TypeOK, TransportInv, NoteInv, HandleWaiting PROVE NoteInv'
  OBVIOUS
<1> USE DEF HandleWaiting, WaitPoll, WaitCommit, WaitCheck, WaitReceive, WaitingUnchanged,
            Goto, carries, device
<1>1. /\ queue' = queue \/ (queue # <<>> /\ queue' = Tail(queue))
      /\ call' \in {call, "None", "Promoted"}
      /\ UNCHANGED <<remaining, pauseContext, carries, activeNotes>>
  OBVIOUS
<1>2. state = "Waiting"
  BY DEF TransportInv, StateAgrees, Awaiting
<1>3. activeNotes = {} /\ pauseContext = None /\ remaining = {}
  BY <1>2, StoppedLists
<1>4. NothingLocated'
  BY <1>1, PopKeepsNames DEF NoteInv, NothingLocated
<1> QED
  BY <1>1, <1>3, <1>4, ListsKept

(* A list for a pass is built with nothing else to come.                   *)
LEMMA BuildingLists ==
  ASSUME TransportInv, NoteInv, pc \in Building
  PROVE  /\ call = "Pass" /\ state = "Running"
         /\ remaining = {} /\ pauseContext = None /\ pc \notin Playing
<1>1. call = "Pass" /\ state = "Running"
  BY BuildingFacts DEF NoteInv, NothingLocated
<1> QED
  BY <1>1 DEF NoteInv, ListInOnePlace, Building, Playing

(* The NoteOff of a note of a song lies behind it, in the same pass or in  *)
(* the overflow.                                                           *)
LEMMA SongPaired ==
  ASSUME NEW s \in Songs, NEW e \in NoteOns(s)
  PROVE  \E f \in NoteOffs(s) \cup Overflow(s) : Ends(f, e) /\ f.tick > e.tick
<1>1. PICK n \in Notes[s] : e = NoteOn(n)
  BY DEF NoteOns
<1>2. n \in Note
  BY SongAssumption
<1>3. NoteOff(n) \in NoteOffs(s) \cup Overflow(s)
  BY DEF NoteOffs, Overflow
<1>4. OffTick(n) > n.start
  BY <1>2 DEF OffTick, Note
<1> QED
  BY <1>1, <1>3, <1>4 DEF Ends, Sounding, NoteOn, NoteOff, LoopEvent

(* A built pass is paired, with the overflow of its own song.              *)
LEMMA PassPaired ==
  ASSUME NEW s \in Songs, NEW carried, NEW clocked \in BOOLEAN,
         \A e \in carried : e.kind = "NoteOff",
         NEW e \in PassEvents(s, carried, clocked), e.kind = "NoteOn"
  PROVE  \/ \E f \in PassEvents(s, carried, clocked) : Ends(f, e) /\ f.tick > e.tick
         \/ \E f \in Overflow(s) : Ends(f, e)
<1>1. e \in NoteOns(s)
  BY DEF PassEvents, NoteOffs, NoteOff, BendEvents, Pulses, LoopEvent
<1> QED
  BY <1>1, SongPaired DEF PassEvents

LEMMA StartPlayingPaired ==
  ASSUME NothingLocated, UNCHANGED queue, StartPlaying(remaining'), pauseContext' = None,
         OffsCarried',
         \A e \in remaining' : e.kind = "NoteOn" =>
           \/ \E f \in remaining' : Ends(f, e) /\ f.tick > e.tick
           \/ \E f \in nextCarryOver' : Ends(f, e),
         \A n \in activeNotes' : \E f \in remaining' : Stops(f, n)
  PROVE  NoteInv'
<1>1. pc' = "Play" /\ call' = "None"
  BY DEF StartPlaying
<1>2. NothingLocated' /\ ListInOnePlace'
  BY <1>1 DEF NothingLocated, ListInOnePlace
<1>3. Paired(Upcoming)'
  BY DEF Paired, Upcoming
<1>4. NotesEnd'
  BY <1>1 DEF NotesEnd, Playing
<1> QED
  BY <1>2, <1>3, <1>4 DEF NoteInv

LEMMA BuildPaired == TypeOK /\ TransportInv /\ NoteInv /\ BuildLoopEvents => NoteInv'
<1> SUFFICES ASSUME TypeOK, TransportInv, NoteInv, BuildLoopEvents PROVE NoteInv'
  OBVIOUS
<1>0. pc \in Building
  BY DEF BuildLoopEvents, Setup, CollectProject, CollectPulses, CollectNothing, IdleEmpty,
         Building
<1>1. /\ call = "Pass" /\ remaining = {} /\ pauseContext = None /\ pc \notin Playing
      /\ NothingLocated /\ OffsCarried
      /\ \A n \in activeNotes : \E f \in carryOver : Stops(f, n)
  BY <1>0, BuildingLists DEF NoteInv, NotesEnd
<1>2. CASE Setup \/ CollectNothing \/ IdleEmpty
  <2>1. /\ UNCHANGED <<queue, remaining, pauseContext, carries, activeNotes>>
        /\ call' \in {call, "None"} /\ pc' \in {"Collect", "Idle", "Loop"}
    BY <1>2 DEF Setup, CollectNothing, IdleEmpty, Goto, Return, carries, device
  <2>2. NothingLocated'
    BY <1>1, <2>1 DEF NothingLocated
  <2>3. pc' \notin Playing
    BY <2>1 DEF Playing
  <2> QED
    BY <1>1, <2>1, <2>2, <2>3, ListsKept
<1>3. CASE CollectProject
  <2> DEFINE list == PassEvents(active.song, carryOver, isClockMode)
  <2>1. active.song \in Songs /\ isClockMode \in BOOLEAN
    BY <1>3, ProjectType DEF CollectProject, TypeOK
  <2>2. /\ carryOver' = {} /\ nextCarryOver' = Overflow(active.song)
        /\ StartPlaying(list) /\ UNCHANGED <<queue, pauseContext, activeNotes>>
    BY <1>1, <1>3 DEF CollectProject, Deliver, device
  <2>3. remaining' = list
    BY <2>2 DEF StartPlaying
  <2>4. OffsCarried'
    BY <2>2 DEF OffsCarried, Overflow, NoteOff, LoopEvent
  <2>5. \A e \in remaining' : e.kind = "NoteOn" =>
          \/ \E f \in remaining' : Ends(f, e) /\ f.tick > e.tick
          \/ \E f \in nextCarryOver' : Ends(f, e)
    BY <1>1, <2>1, <2>2, <2>3, PassPaired DEF OffsCarried
  <2>6. \A n \in activeNotes' : \E f \in remaining' : Stops(f, n)
    BY <1>1, <2>2, <2>3 DEF PassEvents
  <2> QED
    BY <1>1, <2>2, <2>3, <2>4, <2>5, <2>6, StartPlayingPaired
<1>4. CASE CollectPulses
  <2>1. /\ carryOver' = {} /\ UNCHANGED <<queue, pauseContext, nextCarryOver, activeNotes>>
        /\ StartPlaying(carryOver \cup Pulses(loopDuration))
    BY <1>1, <1>4 DEF CollectPulses, Deliver, device
  <2>2. remaining' = carryOver \cup Pulses(loopDuration)
    BY <2>1 DEF StartPlaying
  <2>3. OffsCarried'
    BY <1>1, <2>1 DEF OffsCarried
  <2>4. \A e \in remaining' : e.kind # "NoteOn"
    BY <1>1, <2>2 DEF OffsCarried, Pulses, LoopEvent
  <2> QED
    BY <1>1, <2>1, <2>2, <2>3, <2>4, StartPlayingPaired
<1> QED
  BY <1>2, <1>3, <1>4 DEF BuildLoopEvents

LEMMA MidLoopPaired == TypeOK /\ TransportInv /\ NoteInv /\ MidLoopCommand => NoteInv'
<1> SUFFICES ASSUME TypeOK, TransportInv, NoteInv, MidLoopCommand PROVE NoteInv'
  OBVIOUS
<1> USE DEF carries, device
<1>1. /\ queue # <<>> /\ queue' = Tail(queue) /\ MidLoop
      /\ Head(queue).name # "SyncContinue"
  BY PopKeepsNames
  DEF MidLoopCommand, MidLoopStop, MidLoopPause, MidLoopSyncStart, MidLoopSyncContinue,
      MidLoopTempo, MidLoopIgnore, Receives, Pop, NoteInv
<1>2. pauseContext = None /\ call \in {"None", "Pass"} /\ state = "Running"
  BY <1>1, MidLoopFacts, BuildingLists DEF NoteInv, ListInOnePlace
<1>3. ASSUME call' \in {call, "None"} PROVE NothingLocated'
  BY <1>1, <1>3, PopKeepsNames DEF NoteInv, NothingLocated
<1>4. CASE MidLoopStop \/ MidLoopSyncStart
  BY <1>2, <1>3, <1>4, ListsDropped
  DEF MidLoopStop, MidLoopSyncStart, DoStop, DoSyncRestart, Flush, Return
<1>5. CASE MidLoopPause
  <2>1. /\ remaining' = {} /\ activeNotes' = {} /\ pc' = "Loop" /\ call' = "None"
        /\ state' = "Paused" /\ UNCHANGED <<carryOver, nextCarryOver>>
        /\ pauseContext' = Context(remaining, loopDuration)
    BY <1>2, <1>5 DEF MidLoopPause, Flush, Return
  <2>2. NothingLocated'
    BY <1>3, <2>1
  <2>3. ListInOnePlace' /\ OffsCarried' /\ NotesEnd'
    BY <2>1 DEF NoteInv, ListInOnePlace, OffsCarried, NotesEnd
  <2>4. Upcoming = remaining /\ (Upcoming' = remaining \/ Upcoming' = {})
    BY <1>2, <2>1 DEF Upcoming, Context
  <2>5. Paired(Upcoming)'
    BY <2>1, <2>4 DEF NoteInv, Paired
  <2> QED
    BY <2>2, <2>3, <2>5 DEF NoteInv
<1>6. CASE MidLoopTempo \/ MidLoopIgnore
  <2>1. /\ Proceed /\ UNCHANGED <<remaining, pauseContext, carries, activeNotes>>
    BY <1>6 DEF MidLoopTempo, MidLoopIgnore
  <2>2. CASE pc = "Idle"
    <3>1. pc' = "Loop" /\ call' = "None" /\ remaining = {} /\ pc \notin Playing
      BY <2>1, <2>2, BuildingLists DEF Proceed, Return, Building
    <3> QED
      BY <1>2, <1>3, <2>1, <3>1, ListsKept DEF Playing
  <2>3. CASE pc # "Idle"
    <3>1. pc' = "Play" /\ call' = call /\ pc \in Playing
      BY <1>1, <2>1, <2>3 DEF Proceed, MidLoop, Playing
    <3> QED
      BY <1>2, <1>3, <2>1, <3>1, ListsKept DEF Playing
  <2> QED
    BY <2>2, <2>3
<1>7. ~MidLoopSyncContinue
  BY <1>1 DEF MidLoopSyncContinue, Receives
<1> QED
  BY <1>4, <1>5, <1>6, <1>7 DEF MidLoopCommand

(* Firing the next event leaves every note its end: what ends it lies      *)
(* behind it, and cannot have been the next.                               *)
LEMMA FirePaired ==
  ASSUME TypeOK, NoteInv, pauseContext = None, pc \in Playing, pc' \in Playing,
         NEW e \in NextEvents(remaining),
         remaining' = remaining \ {e}, Emit(e), UNCHANGED <<pauseContext, carries>>
  PROVE  OffsCarried' /\ Paired(Upcoming)' /\ NotesEnd'
<1> USE DEF carries
<1>1. e \in remaining /\ \A f \in remaining : ~(f.tick < e.tick)
  BY DEF NextEvents, Precedes
<1>2. Upcoming = remaining /\ Upcoming' = remaining'
  BY DEF Upcoming
<1>3. OffsCarried'
  BY DEF NoteInv, OffsCarried
<1>4. \A x \in remaining : x.tick \in Nat
  BY DEF TypeOK, Event
<1>5. Paired(Upcoming)'
  <2> SUFFICES ASSUME NEW x \in remaining', x.kind = "NoteOn"
               PROVE  \/ \E f \in remaining' : Ends(f, x) /\ f.tick > x.tick
                      \/ \E f \in nextCarryOver' : Ends(f, x)
    BY <1>2 DEF Paired
  <2>1. \/ \E f \in remaining : Ends(f, x) /\ f.tick > x.tick
        \/ \E f \in nextCarryOver : Ends(f, x)
    BY <1>2 DEF NoteInv, Paired
  <2>2. ASSUME NEW f \in remaining, f.tick > x.tick PROVE f # e
    BY <1>1, <1>4, <2>2
  <2> QED
    BY <2>1, <2>2
<1>6. NotesEnd'
  <2> SUFFICES ASSUME NEW n \in activeNotes'
               PROVE  \E f \in remaining' \cup nextCarryOver' : Stops(f, n)
    BY DEF NotesEnd
  <2>1. CASE e.kind = "NoteOn" /\ n = Sounding(e)
    <3>1. \/ \E f \in remaining : Ends(f, e) /\ f.tick > e.tick
          \/ \E f \in nextCarryOver : Ends(f, e)
      BY <1>1, <1>2, <2>1 DEF NoteInv, Paired
    <3>2. ASSUME NEW f \in remaining, f.tick > e.tick PROVE f # e
      BY <1>4, <1>1, <3>2
    <3>3. \A f : Ends(f, e) => Stops(f, n)
      BY <2>1 DEF Ends, Stops
    <3> QED
      BY <3>1, <3>2, <3>3
  <2>2. CASE ~(e.kind = "NoteOn" /\ n = Sounding(e))
    <3>1. n \in activeNotes /\ ~Stops(e, n)
      BY <2>2 DEF Emit, Stops
    <3>2. \E f \in remaining \cup nextCarryOver : Stops(f, n)
      BY <3>1 DEF NoteInv, NotesEnd
    <3> QED
      BY <3>1, <3>2
  <2> QED
    BY <2>1, <2>2
<1> QED
  BY <1>3, <1>5, <1>6

LEMMA RunningPaired == TypeOK /\ TransportInv /\ NoteInv /\ HandleRunning => NoteInv'
<1> SUFFICES ASSUME TypeOK, TransportInv, NoteInv, HandleRunning PROVE NoteInv'
  OBVIOUS
<1> USE DEF carries, device
<1>1. CASE RunResume
  <2>1. /\ pc = "Loop" /\ pauseContext # None /\ pauseContext' = None
        /\ StartPlaying(pauseContext.events)
        /\ UNCHANGED <<queue, carryOver, nextCarryOver, activeNotes>>
    BY <1>1 DEF RunResume
  <2>2. activeNotes = {} /\ remaining' = pauseContext.events
    BY <2>1 DEF NoteInv, ListInOnePlace, StartPlaying
  <2>3. NothingLocated /\ OffsCarried'
    BY <2>1 DEF NoteInv, OffsCarried
  <2>4. Upcoming = remaining'
    BY <2>1, <2>2 DEF Upcoming, NoteInv, ListInOnePlace
  <2>5. \A e \in remaining' : e.kind = "NoteOn" =>
          \/ \E f \in remaining' : Ends(f, e) /\ f.tick > e.tick
          \/ \E f \in nextCarryOver' : Ends(f, e)
    BY <2>1, <2>4 DEF NoteInv, Paired
  <2> QED
    BY <2>1, <2>2, <2>3, <2>5, StartPlayingPaired
<1>2. CASE RunBuild
  <2>1. /\ UNCHANGED <<queue, remaining, pauseContext, carries, activeNotes>>
        /\ pc = "Loop" /\ pauseContext = None /\ call' = "Pass" /\ pc' = "Setup"
    BY <1>2 DEF RunBuild, Goto
  <2>2. remaining = {} /\ NothingLocated'
    BY <2>1 DEF NoteInv, ListInOnePlace, NothingLocated
  <2> QED
    BY <2>1, <2>2, ListsKept DEF Playing
<1>3. CASE Fire
  <2>1. PICK e \in NextEvents(remaining) : remaining' = remaining \ {e} /\ Emit(e)
    BY <1>3 DEF Fire
  <2>2. /\ pc = "Play" /\ pc' = "AfterEvent" /\ call' = "None"
        /\ UNCHANGED <<queue, pauseContext, carries>>
    BY <1>3 DEF Fire, Goto
  <2>3. pauseContext = None
    BY <2>2 DEF NoteInv, ListInOnePlace
  <2>4. NothingLocated' /\ ListInOnePlace'
    BY <2>2, <2>3 DEF NoteInv, NothingLocated, ListInOnePlace
  <2> QED
    BY <2>1, <2>2, <2>3, <2>4, FirePaired DEF Playing, NoteInv
<1>4. CASE AfterEventEmpty
  <2>1. /\ UNCHANGED <<queue, remaining, pauseContext, carries, activeNotes>>
        /\ pc = "AfterEvent" /\ call' = "None" /\ pc' = "Play"
    BY <1>4 DEF AfterEventEmpty, Goto
  <2>2. pauseContext = None /\ NothingLocated'
    BY <2>1 DEF NoteInv, ListInOnePlace, NothingLocated
  <2> QED
    BY <2>1, <2>2, ListsKept DEF Playing
<1> QED
  BY <1>1, <1>2, <1>3, <1>4 DEF HandleRunning

(* Re-basing keeps what an event is.                                       *)
LEMMA RebaseKeeps ==
  ASSUME NEW overflow \in SUBSET Event, NEW d
  PROVE  /\ \A e \in Rebase(overflow, d) : \E f \in overflow : e.kind = f.kind
         /\ \A f \in overflow : \E e \in Rebase(overflow, d) :
              e.kind = f.kind /\ Sounding(e) = Sounding(f)
<1>1. ASSUME NEW f \in overflow, NEW t
      PROVE  /\ [f EXCEPT !.tick = t].kind = f.kind
             /\ Sounding([f EXCEPT !.tick = t]) = Sounding(f)
  <2>1. /\ [f EXCEPT !.tick = t].kind = f.kind
        /\ [f EXCEPT !.tick = t].channel = f.channel
        /\ [f EXCEPT !.tick = t].data = f.data
    BY DEF Event
  <2> QED
    BY <2>1 DEF Sounding
<1>2. ASSUME NEW e \in Rebase(overflow, d) PROVE \E f \in overflow : e.kind = f.kind
  <2>1. PICK f \in overflow : e = [f EXCEPT !.tick = (f.tick - d) % TickModulus]
    BY DEF Rebase
  <2>2. e.kind = f.kind
    BY <1>1, <2>1
  <2> QED
    BY <2>2
<1>3. ASSUME NEW f \in overflow
      PROVE  \E e \in Rebase(overflow, d) : e.kind = f.kind /\ Sounding(e) = Sounding(f)
  <2>1. [f EXCEPT !.tick = (f.tick - d) % TickModulus] \in Rebase(overflow, d)
    BY DEF Rebase
  <2> QED
    BY <1>1, <2>1
<1> QED
  BY <1>2, <1>3

LEMMA AdvancePaired == TypeOK /\ TransportInv /\ NoteInv /\ AdvanceLoop => NoteInv'
<1> SUFFICES ASSUME TypeOK, TransportInv, NoteInv, AdvanceLoop PROVE NoteInv'
  OBVIOUS
<1> USE DEF carries, device
<1>1. /\ pc \in Playing /\ call' = "None" /\ pauseContext = None /\ remaining = {}
      /\ UNCHANGED <<queue, remaining, pauseContext, activeNotes>>
  BY DEF AdvanceLoop, AdvanceCommit, AdvancePublish, AdvanceRetime, Goto, Playing, NoteInv,
         ListInOnePlace
<1>2. NothingLocated'
  BY <1>1 DEF NoteInv, NothingLocated
<1>3. CASE AdvanceCommit \/ AdvancePublish
  <2>1. pc' \in {"Publish", "Retime"} /\ UNCHANGED carries
    BY <1>3 DEF AdvanceCommit, AdvancePublish, Goto
  <2> QED
    BY <1>1, <1>2, <2>1, ListsKept DEF Playing
<1>4. CASE AdvanceRetime
  <2>1. /\ pc' = "Loop" /\ nextCarryOver' = {}
        /\ carryOver' = Rebase(nextCarryOver, loopDuration)
    BY <1>4 DEF AdvanceRetime, Goto
  <2>2. nextCarryOver \in SUBSET Event
    BY DEF TypeOK
  <2>3. OffsCarried'
    BY <2>1, <2>2, RebaseKeeps DEF NoteInv, OffsCarried
  <2>4. ListInOnePlace' /\ Paired(Upcoming)'
    BY <1>1, <2>1 DEF ListInOnePlace, Paired, Upcoming
  <2>5. \A n \in activeNotes : \E f \in nextCarryOver : Stops(f, n)
    BY <1>1 DEF NoteInv, NotesEnd
  <2>6. \A n \in activeNotes : \E f \in carryOver' : Stops(f, n)
    BY <2>1, <2>2, <2>5, RebaseKeeps DEF Stops
  <2>7. NotesEnd'
    BY <1>1, <2>1, <2>6 DEF NotesEnd, Playing
  <2> QED
    BY <1>2, <2>3, <2>4, <2>7 DEF NoteInv
<1> QED
  BY <1>3, <1>4 DEF AdvanceLoop

LEMMA PausedPaired == TypeOK /\ TransportInv /\ NoteInv /\ HandlePaused => NoteInv'
<1> SUFFICES ASSUME TypeOK, TransportInv, NoteInv, HandlePaused PROVE NoteInv'
  OBVIOUS
<1> USE DEF carries, device, control
<1>1. /\ queue # <<>> /\ queue' = Tail(queue) /\ pc = "Loop" /\ state = "Paused"
      /\ Head(queue).name # "SyncSongPosition"
  BY PopKeepsNames
  DEF HandlePaused, PausedResume, PausedSyncStart, PausedLocate, PausedStop, PausedTempo,
      PausedIgnore, AtPaused, Receives, Pop, NoteInv
<1>2. activeNotes = {} /\ remaining = {} /\ call = "None"
  BY <1>1 DEF NoteInv, ListInOnePlace, TransportInv, SilentUnlessRunning, CallAgrees
<1>3. ~PausedLocate
  BY <1>1 DEF PausedLocate, Receives
<1>4. /\ pc' = "Loop" /\ call' = "None" /\ UNCHANGED remaining /\ activeNotes' = {}
  BY <1>1, <1>2, <1>3
  DEF HandlePaused, PausedResume, PausedSyncStart, PausedStop, PausedTempo, PausedIgnore,
      DoSyncRestart, Flush
<1>5. NothingLocated'
  BY <1>1, <1>4, PopKeepsNames DEF NoteInv, NothingLocated
<1>6. CASE PausedResume \/ PausedTempo \/ PausedIgnore
  <2>1. UNCHANGED <<pauseContext, carries>> /\ state' \in {"Running", "Paused"}
    BY <1>1, <1>6 DEF PausedResume, PausedTempo, PausedIgnore
  <2> QED
    BY <1>2, <1>4, <1>5, <2>1, ListsKept
<1>7. CASE PausedSyncStart \/ PausedStop
  <2>1. /\ pauseContext' = None /\ carryOver' \subseteq carryOver
        /\ nextCarryOver' \subseteq nextCarryOver
    BY <1>7 DEF PausedSyncStart, PausedStop, DoSyncRestart
  <2> QED
    BY <1>2, <1>4, <1>5, <2>1, ListsDropped
<1> QED
  BY <1>3, <1>6, <1>7 DEF HandlePaused

LEMMA ClientPaired ==
  NoLocates /\ TypeOK /\ NoteInv /\ (ClientStep \/ UNCHANGED vars) => NoteInv'
<1> SUFFICES ASSUME NoLocates, TypeOK, NoteInv, ClientStep \/ UNCHANGED vars PROVE NoteInv'
  OBVIOUS
<1>1. UNCHANGED <<state, pc, call, remaining, pauseContext, carries, activeNotes>>
  BY DEF ClientStep, Send, CreateProject, ModifyProject, ClearStore, ClientUnchanged, vars,
         control, device
<1>2. queue' = queue \/ \E c \in Commands : queue' = Append(queue, c)
  BY DEF ClientStep, Send, CreateProject, ModifyProject, ClearStore, vars
<1>3. NothingLocated'
  BY <1>1, <1>2 DEF NoteInv, NothingLocated, NoLocates, TypeOK
<1> QED
  BY <1>1, <1>3, ListsKept DEF NoteInv, ListInOnePlace

LEMMA StepPaired ==
  NoLocates /\ TypeOK /\ TransportInv /\ NoteInv /\ [Next]_vars => NoteInv'
BY StoppedPaired, InitProjectPaired, WaitingPaired, BuildPaired, MidLoopPaired,
   RunningPaired, AdvancePaired, PausedPaired, ClientPaired
DEF Next, PlayerStep

LEMMA NoteInvariant == NoLocates => (Spec => []NoteInv)
<1> SUFFICES ASSUME NoLocates PROVE Spec => []NoteInv
  OBVIOUS
<1>1. TypeOK /\ TransportInv /\ NoteInv /\ [Next]_vars => NoteInv'
  BY StepPaired
<1> QED
  BY <1>1, InitPaired, TypeCorrect, TransportInvariant, PTL DEF Spec

(* "The engine carries the sounding note into the next iteration and emits *)
(* the NoteOff at the correct tick": no note hangs, whatever projects are  *)
(* created, queued and cleared when, and wherever a pass is paused or      *)
(* stopped, as long as no Continue or locate has a list rebuilt.           *)
THEOREM NoNoteHangs == NoLocates => (Spec => []NoStuckNote)
<1> SUFFICES ASSUME NoLocates PROVE Spec => []NoStuckNote
  OBVIOUS
<1>1. NoteInv => NoStuckNote
  BY DEF NoteInv, NotesEnd, NoStuckNote, ScheduledEvents, Stops
<1> QED
  BY <1>1, NoteInvariant, PTL

-----------------------------------------------------------------------------
(* Pause and resume.                                                       *)

(* Nobody rewinds the loop while it runs: standalone and clock mode.       *)
NoJumps ==
  \A c \in Commands : c.name \notin {"SyncStart", "SyncContinue", "SyncSongPosition"}

CommandsQueued == \A i \in DOMAIN queue : queue[i] \in Commands

LEMMA QueueInit == Init => CommandsQueued
BY DEF Init, CommandsQueued

LEMMA QueueStep == TypeOK /\ CommandsQueued /\ [Next]_vars => CommandsQueued'
<1> SUFFICES ASSUME TypeOK, CommandsQueued, [Next]_vars PROVE CommandsQueued'
  OBVIOUS
<1>1. queue \in Seq(Command)
  BY DEF TypeOK
<1>2. CASE queue' = queue \/ queue' = <<>>
  BY <1>2 DEF CommandsQueued
<1>3. CASE queue # <<>> /\ queue' = Tail(queue)
  <2>1. \A i \in DOMAIN Tail(queue) : i + 1 \in DOMAIN queue /\ Tail(queue)[i] = queue[i + 1]
    BY <1>1, <1>3
  <2> QED
    BY <1>3, <2>1 DEF CommandsQueued
<1>4. CASE \E c \in Commands : queue' = Append(queue, c)
  BY <1>1, <1>4 DEF CommandsQueued
<1> USE DEF Receives, Pop
<1>5. CASE HandleStopped
  BY <1>3, <1>5 DEF HandleStopped, StoppedStart, StoppedClockStart, StoppedStage,
                    StoppedIgnore
<1>6. CASE HandleWaiting \/ InitProject
  BY <1>2, <1>3, <1>6 DEF HandleWaiting, WaitPoll, WaitCommit, WaitCheck, WaitReceive,
                          InitProject, InitRunning, InitPanic
<1>7. CASE BuildLoopEvents
  BY <1>2, <1>7 DEF BuildLoopEvents, Setup, CollectProject, CollectPulses, CollectNothing,
                    IdleEmpty
<1>8. CASE MidLoopCommand
  BY <1>3, <1>8 DEF MidLoopCommand, MidLoopStop, MidLoopPause, MidLoopSyncStart,
                    MidLoopSyncContinue, MidLoopTempo, MidLoopIgnore
<1>9. CASE HandleRunning \/ AdvanceLoop
  BY <1>2, <1>9 DEF HandleRunning, RunResume, RunBuild, Fire, AfterEventEmpty,
                    AdvanceLoop, AdvanceCommit, AdvancePublish, AdvanceRetime
<1>10. CASE HandlePaused
  BY <1>3, <1>10 DEF HandlePaused, PausedResume, PausedSyncStart, PausedLocate, PausedStop,
                     PausedTempo, PausedIgnore
<1>11. CASE ClientStep \/ UNCHANGED vars
  BY <1>2, <1>4, <1>11 DEF ClientStep, Send, CreateProject, ModifyProject, ClearStore, vars
<1> QED
  BY <1>5, <1>6, <1>7, <1>8, <1>9, <1>10, <1>11 DEF Next, PlayerStep

(* What the next command may be.                                           *)
LEMMA HeadQueued ==
  ASSUME TypeOK, CommandsQueued, queue # <<>>
  PROVE  Head(queue) \in Commands
BY DEF TypeOK, CommandsQueued

KeepsList == Upcoming' = Upcoming /\ UNCHANGED position

Seamless ==
  (pc # "Collect" /\ state \in {"Running", "Paused"} /\ state' # "Stopped")
    => \/ KeepsList \/ FiresOne \/ pc = "Retime"

LEMMA ListUntouched ==
  ASSUME UNCHANGED <<remaining, pauseContext, currentTick, loopCount>>
  PROVE  KeepsList
BY DEF KeepsList, Upcoming, position

LEMMA StepSeamless ==
  ASSUME NoJumps, TypeOK, TransportInv, NoteInv, CommandsQueued, Next
  PROVE  Seamless
<1> SUFFICES ASSUME pc # "Collect", state \in {"Running", "Paused"}, state' # "Stopped",
                    pc # "Retime"
             PROVE  KeepsList \/ FiresOne
  BY DEF Seamless
<1> USE DEF position
<1>1. ~HandleStopped /\ ~HandleWaiting /\ ~InitProject
  BY DEF HandleStopped, StoppedStart, StoppedClockStart, StoppedStage, StoppedIgnore,
         AtStopped, HandleWaiting, WaitPoll, WaitCommit, WaitCheck, WaitReceive,
         InitProject, InitRunning, InitPanic, TransportInv, StateAgrees, Awaiting
<1>2. CASE BuildLoopEvents
  BY <1>2, ListUntouched
  DEF BuildLoopEvents, Setup, CollectProject, CollectPulses, CollectNothing, IdleEmpty
<1>3. CASE MidLoopCommand
  <2>1. MidLoop /\ queue # <<>> /\ Head(queue) \in Commands
    BY <1>3, HeadQueued
    DEF MidLoopCommand, MidLoopStop, MidLoopPause, MidLoopSyncStart, MidLoopSyncContinue,
        MidLoopTempo, MidLoopIgnore, Receives
  <2>2. ~MidLoopSyncStart /\ ~MidLoopSyncContinue
    BY <2>1 DEF NoJumps, MidLoopSyncStart, MidLoopSyncContinue, Receives
  <2>3. pauseContext = None /\ call \in {"None", "Pass"}
    BY <2>1, MidLoopFacts, BuildingLists DEF NoteInv, ListInOnePlace
  <2>4. CASE MidLoopPause
    <3>1. /\ pauseContext' = Context(remaining, loopDuration) /\ remaining' = {}
          /\ UNCHANGED position
      BY <2>4 DEF MidLoopPause
    <3>2. Upcoming = remaining
      BY <2>3 DEF Upcoming
    <3>3. pauseContext' # None /\ pauseContext'.events = remaining
      BY <3>1, ContextExists DEF Context, TypeOK
    <3> QED
      BY <3>1, <3>2, <3>3 DEF Upcoming, KeepsList
  <2>5. CASE MidLoopTempo \/ MidLoopIgnore
    BY <2>5, ListUntouched DEF MidLoopTempo, MidLoopIgnore
  <2>6. ~MidLoopStop
    BY <2>3 DEF MidLoopStop, Return
  <2> QED
    BY <1>3, <2>2, <2>4, <2>5, <2>6 DEF MidLoopCommand
<1>4. CASE RunBuild \/ AfterEventEmpty
  BY <1>4, ListUntouched DEF RunBuild, AfterEventEmpty
<1>5. CASE RunResume
  <2>1. /\ pc = "Loop" /\ pauseContext' = None /\ remaining' = pauseContext.events
        /\ UNCHANGED position /\ pauseContext # None
    BY <1>5 DEF RunResume, StartPlaying
  <2>2. remaining = {}
    BY <2>1 DEF NoteInv, ListInOnePlace
  <2> QED
    BY <2>1, <2>2 DEF KeepsList, Upcoming
<1>6. CASE Fire
  <2>1. PICK e \in NextEvents(remaining) :
          currentTick' = e.tick /\ remaining' = remaining \ {e}
    BY <1>6 DEF Fire
  <2>2. pc = "Play" /\ UNCHANGED <<state, pauseContext>>
    BY <1>6 DEF Fire, Goto
  <2>3. state = "Running" /\ pauseContext = None
    BY <2>2 DEF TransportInv, StateAgrees, Playing, NoteInv, ListInOnePlace
  <2>4. Upcoming = remaining /\ Upcoming' = remaining'
    BY <2>2, <2>3 DEF Upcoming
  <2> QED
    BY <2>1, <2>2, <2>3, <2>4 DEF FiresOne
<1>7. CASE AdvanceLoop
  BY <1>7, ListUntouched DEF AdvanceLoop, AdvanceCommit, AdvancePublish, AdvanceRetime
<1>8. CASE HandlePaused
  <2>1. queue # <<>> /\ Head(queue) \in Commands
    BY <1>8, HeadQueued
    DEF HandlePaused, PausedResume, PausedSyncStart, PausedLocate, PausedStop, PausedTempo,
        PausedIgnore, Receives
  <2>2. ~PausedSyncStart /\ ~PausedLocate /\ ~PausedStop
    BY <2>1 DEF NoJumps, PausedSyncStart, PausedLocate, PausedStop, Receives
  <2>3. CASE PausedResume \/ PausedTempo \/ PausedIgnore
    BY <2>3, ListUntouched DEF PausedResume, PausedTempo, PausedIgnore
  <2> QED
    BY <1>8, <2>2, <2>3 DEF HandlePaused
<1>9. CASE ClientStep
  BY <1>9, ListUntouched
  DEF ClientStep, Send, CreateProject, ModifyProject, ClearStore, ClientUnchanged
<1> QED
  BY <1>1, <1>2, <1>3, <1>4, <1>5, <1>6, <1>7, <1>8, <1>9
  DEF Next, PlayerStep, HandleRunning

(* "Retaining the current loop position for a seamless resume": in         *)
(* standalone and clock mode a pause and a resume neither lose nor repeat  *)
(* an event of the pass, whatever is done to the projects meanwhile.       *)
THEOREM ResumeSeamless == NoJumps => (Spec => SeamlessResume)
<1> SUFFICES ASSUME NoJumps PROVE Spec => SeamlessResume
  OBVIOUS
<1>1. NoLocates
  BY DEF NoJumps, NoLocates
<1>2. TypeOK /\ TransportInv /\ NoteInv /\ CommandsQueued /\ [Next]_vars => [Seamless]_vars
  BY StepSeamless
<1>3. TypeOK /\ CommandsQueued /\ [Next]_vars => CommandsQueued'
  BY QueueStep
<1>4. Spec => []CommandsQueued
  BY <1>3, QueueInit, TypeCorrect, PTL DEF Spec
<1>5. Spec => []NoteInv
  BY <1>1, NoteInvariant
<1>6. Spec => [][Seamless]_vars
  BY <1>2, <1>4, <1>5, TypeCorrect, TransportInvariant, PTL DEF Spec
<1> QED
  BY <1>6, PTL DEF SeamlessResume, Seamless, KeepsList

-----------------------------------------------------------------------------
(* The pass in hand, where nobody clears the store: the thread never finds *)
(* itself without a project once it has started.                           *)
NoClear == "Clear" \notin StoreOps

ProjectLoaded ==
  /\ state \in {"Running", "Paused"} \/ pc \in Building => active # None
  /\ pc # "Idle"

ContextInPlace ==
  /\ remaining # {} => pc \in {"Play", "AfterEvent"}
  /\ pauseContext # None =>
       /\ pauseContext.loopDuration = loopDuration
       /\ \/ pc = "Loop" /\ state \in {"Running", "Paused"}
          \/ pc \in Building /\ call = "Reposition" /\ state = "Paused"
  /\ state = "Paused" => pauseContext # None

PlaceInv == ProjectLoaded /\ ContextInPlace

LEMMA InitPlaced == Init => PlaceInv
BY DEF Init, PlaceInv, ProjectLoaded, ContextInPlace, Building

LEMMA StoppedPlaced == TransportInv /\ PlaceInv /\ HandleStopped => PlaceInv'
<1> SUFFICES ASSUME TransportInv, PlaceInv, HandleStopped PROVE PlaceInv'
  OBVIOUS
<1>1. /\ state = "Stopped" /\ pc = "Loop" /\ UNCHANGED <<remaining, pauseContext>>
      /\ state' \in {"Stopped", "Waiting"} /\ pc' \in {"Loop", "Init"}
  BY DEF HandleStopped, StoppedStart, StoppedClockStart, StoppedStage, StoppedIgnore,
         AtStopped, Goto, control
<1> QED
  BY <1>1 DEF PlaceInv, ProjectLoaded, ContextInPlace, Building

LEMMA InitProjectPlaced == TransportInv /\ PlaceInv /\ InitProject => PlaceInv'
<1> SUFFICES ASSUME TransportInv, PlaceInv, InitProject PROVE PlaceInv'
  OBVIOUS
<1>1. pc = "Init" /\ state \in {"Stopped", "Waiting"}
  BY DEF InitProject, InitRunning, InitPanic, TransportInv, StateAgrees
<1>2. pauseContext = None /\ remaining = {}
  BY <1>1 DEF PlaceInv, ContextInPlace, Building
<1>3. CASE InitRunning
  <2>1. /\ active # None /\ UNCHANGED <<active, remaining, pauseContext>>
        /\ pc' # "Idle" /\ state' \in {"Running", state}
    BY <1>3 DEF InitRunning, Locate, Goto, store
  <2> QED
    BY <1>1, <1>2, <2>1 DEF PlaceInv, ProjectLoaded, ContextInPlace
<1>4. CASE InitPanic
  BY <1>1, <1>2, <1>4 DEF InitPanic, PlaceInv, ProjectLoaded, ContextInPlace, Building
<1> QED
  BY <1>3, <1>4 DEF InitProject

LEMMA WaitingPlaced == TransportInv /\ PlaceInv /\ HandleWaiting => PlaceInv'
<1> SUFFICES ASSUME TransportInv, PlaceInv, HandleWaiting PROVE PlaceInv'
  OBVIOUS
<1>1. state = "Waiting" /\ pc \notin Building
  BY DEF HandleWaiting, WaitPoll, WaitCommit, WaitCheck, WaitReceive, TransportInv,
         StateAgrees, Awaiting, Building
<1>2. /\ UNCHANGED <<remaining, pauseContext>> /\ state' \in {"Waiting", "Stopped"}
      /\ pc' \in {"Loop", "Init"} \cup Awaiting
  BY <1>1 DEF HandleWaiting, WaitPoll, WaitCommit, WaitCheck, WaitReceive,
              WaitingUnchanged, Goto, Awaiting
<1>3. pauseContext = None /\ remaining = {}
  BY <1>1 DEF PlaceInv, ContextInPlace, HandleWaiting, WaitPoll, WaitCommit, WaitCheck,
              WaitReceive
<1> QED
  BY <1>2, <1>3 DEF PlaceInv, ProjectLoaded, ContextInPlace, Building, Awaiting

(* Where the thread goes with a list it has built.                         *)
LEMMA DeliverPlaced ==
  ASSUME TransportInv, PlaceInv, pc = "Collect", NEW events \in SUBSET Event,
         NEW d \in Nat, Deliver(events, d), loopDuration' = d, UNCHANGED active
  PROVE  PlaceInv'
<1>0. active # None /\ remaining = {}
  BY DEF PlaceInv, ProjectLoaded, ContextInPlace, Building
<1>1. CASE call = "Pass"
  <2>1. /\ pc' = "Play" /\ pauseContext' = pauseContext /\ state' = "Running"
        /\ pauseContext = None
    BY <1>1, BuildingFacts
    DEF Deliver, StartPlaying, PlaceInv, ContextInPlace, Building
  <2> QED
    BY <1>0, <2>1 DEF PlaceInv, ProjectLoaded, ContextInPlace, Building
<1>2. CASE call # "Pass"
  <2>1. /\ pc' = "Loop" /\ state' \in {"Running", "Paused"} /\ remaining' = {}
        /\ pauseContext' = Context(From(events, loopElapsedTicks), d)
    BY <1>0, <1>2, BuildingFacts DEF Deliver, Return, Building
  <2>2. From(events, loopElapsedTicks) \in SUBSET Event
    BY DEF From
  <2>3. pauseContext' # None
    BY <2>1, <2>2, ContextExists
  <2> QED
    BY <1>0, <2>1, <2>3 DEF PlaceInv, ProjectLoaded, ContextInPlace, Building, Context
<1> QED
  BY <1>1, <1>2

LEMMA BuildPlaced == TypeOK /\ TransportInv /\ PlaceInv /\ BuildLoopEvents => PlaceInv'
<1> SUFFICES ASSUME TypeOK, TransportInv, PlaceInv, BuildLoopEvents PROVE PlaceInv'
  OBVIOUS
<1>1. pc # "Idle" /\ (pc \in {"Setup", "Collect"} => active # None)
  BY DEF PlaceInv, ProjectLoaded, Building
<1>2. CASE Setup
  <2>1. /\ pc = "Setup" /\ pc' = "Collect"
        /\ UNCHANGED <<state, call, active, remaining, pauseContext, loopDuration>>
    BY <1>2 DEF Setup, Goto, store
  <2> QED
    BY <1>1, <2>1 DEF PlaceInv, ProjectLoaded, ContextInPlace, Building
<1>3. CASE CollectProject
  <2>1. active.song \in Songs /\ LoopDuration[active.song] \in Nat
    BY <1>3, ProjectType DEF CollectProject, TypeOK
  <2>2. PassEvents(active.song, carryOver, isClockMode) \in SUBSET Event
    BY <2>1, PassEventsType DEF TypeOK
  <2> QED
    BY <1>3, <2>1, <2>2, DeliverPlaced DEF CollectProject, store
<1> QED
  BY <1>1, <1>2, <1>3
  DEF BuildLoopEvents, CollectPulses, CollectNothing, IdleEmpty

LEMMA MidLoopPlaced == TypeOK /\ TransportInv /\ PlaceInv /\ MidLoopCommand => PlaceInv'
<1> SUFFICES ASSUME TypeOK, TransportInv, PlaceInv, MidLoopCommand PROVE PlaceInv'
  OBVIOUS
<1>1. MidLoop /\ UNCHANGED <<active, loopDuration>>
  BY DEF MidLoopCommand, MidLoopStop, MidLoopPause, MidLoopSyncStart, MidLoopSyncContinue,
         MidLoopTempo, MidLoopIgnore, store
<1>2. /\ pc \in {"Play", "AfterEvent"} /\ call = "None" /\ state = "Running"
      /\ active # None /\ pauseContext = None
  BY <1>1, MidLoopFacts DEF PlaceInv, ProjectLoaded, ContextInPlace, Building
<1>3. CASE MidLoopStop \/ MidLoopSyncStart
  <2>1. /\ pc' = "Loop" /\ remaining' = {} /\ pauseContext' = None
        /\ state' \in {"Stopped", "Running"}
    BY <1>2, <1>3 DEF MidLoopStop, MidLoopSyncStart, Return
  <2> QED
    BY <1>1, <1>2, <2>1 DEF PlaceInv, ProjectLoaded, ContextInPlace, Building
<1>4. CASE MidLoopPause
  <2>1. /\ pc' = "Loop" /\ remaining' = {} /\ state' = "Paused"
        /\ pauseContext' = Context(remaining, loopDuration)
    BY <1>2, <1>4 DEF MidLoopPause, Return
  <2>2. pauseContext' # None
    BY <2>1, ContextExists DEF TypeOK
  <2> QED
    BY <1>1, <1>2, <2>1, <2>2 DEF PlaceInv, ProjectLoaded, ContextInPlace, Building, Context
<1>5. CASE MidLoopSyncContinue
  <2>1. pc' = "Setup" /\ remaining' = {} /\ pauseContext' = None /\ state' = "Running"
    BY <1>2, <1>5 DEF MidLoopSyncContinue, Goto
  <2> QED
    BY <1>1, <1>2, <2>1 DEF PlaceInv, ProjectLoaded, ContextInPlace, Building
<1>6. CASE MidLoopTempo \/ MidLoopIgnore
  <2>1. pc' = "Play" /\ pauseContext' = None /\ state' = "Running"
    BY <1>2, <1>6 DEF MidLoopTempo, MidLoopIgnore, Proceed
  <2> QED
    BY <1>1, <1>2, <2>1 DEF PlaceInv, ProjectLoaded, ContextInPlace, Building
<1> QED
  BY <1>3, <1>4, <1>5, <1>6 DEF MidLoopCommand

LEMMA RunningPlaced == TransportInv /\ PlaceInv /\ HandleRunning => PlaceInv'
<1> SUFFICES ASSUME TransportInv, PlaceInv, HandleRunning PROVE PlaceInv'
  OBVIOUS
<1>1. state = "Running" /\ UNCHANGED <<state, active>>
  BY DEF HandleRunning, RunResume, RunBuild, Fire, AfterEventEmpty, StartPlaying, Goto,
         store, TransportInv, StateAgrees, Playing
<1>2. active # None
  BY <1>1 DEF PlaceInv, ProjectLoaded
<1>3. /\ pc' # "Idle" /\ pauseContext' = None
      /\ remaining' # {} => pc' \in {"Play", "AfterEvent"}
  BY DEF HandleRunning, RunResume, RunBuild, Fire, AfterEventEmpty, StartPlaying, Goto,
         PlaceInv, ContextInPlace, Building
<1> QED
  BY <1>1, <1>2, <1>3 DEF PlaceInv, ProjectLoaded, ContextInPlace

LEMMA AdvancePlaced == TypeOK /\ TransportInv /\ PlaceInv /\ AdvanceLoop => PlaceInv'
<1> SUFFICES ASSUME TypeOK, TransportInv, PlaceInv, AdvanceLoop PROVE PlaceInv'
  OBVIOUS
<1>1. /\ pc \in Playing /\ pc' \in {"Publish", "Retime", "Loop"}
      /\ UNCHANGED <<state, remaining, pauseContext, loopDuration>>
      /\ active' \in {active, pending} /\ (active' = None => active = None)
  BY DEF AdvanceLoop, AdvanceCommit, AdvancePublish, AdvanceRetime, Goto, Playing, store
<1>2. remaining = {} /\ pauseContext = None /\ active # None
  BY <1>1, PlayingFacts
  DEF PlaceInv, ContextInPlace, ProjectLoaded, Building, Playing, AdvanceLoop,
      AdvanceCommit, AdvancePublish, AdvanceRetime
<1> QED
  BY <1>1, <1>2 DEF PlaceInv, ProjectLoaded, ContextInPlace

LEMMA PausedPlaced == TransportInv /\ PlaceInv /\ HandlePaused => PlaceInv'
<1> SUFFICES ASSUME TransportInv, PlaceInv, HandlePaused PROVE PlaceInv'
  OBVIOUS
<1>1. /\ pc = "Loop" /\ state = "Paused"
      /\ UNCHANGED <<active, remaining, loopDuration>>
      /\ \/ /\ pc' = "Loop" /\ state' \in {"Running", "Paused"}
            /\ UNCHANGED pauseContext
         \/ pc' = "Loop" /\ state' \in {"Running", "Stopped"} /\ pauseContext' = None
         \/ /\ pc' = "Setup" /\ call' = "Reposition" /\ state' = "Paused"
            /\ UNCHANGED pauseContext
  BY DEF HandlePaused, PausedResume, PausedSyncStart, PausedLocate, PausedStop, PausedTempo,
         PausedIgnore, AtPaused, Locate, Goto, control, store
<1> QED
  BY <1>1 DEF PlaceInv, ProjectLoaded, ContextInPlace, Building

LEMMA ClientPlaced ==
  NoClear /\ PlaceInv /\ (ClientStep \/ UNCHANGED vars) => PlaceInv'
<1> SUFFICES ASSUME NoClear, PlaceInv, ClientStep \/ UNCHANGED vars PROVE PlaceInv'
  OBVIOUS
<1>1. UNCHANGED <<state, pc, call, remaining, pauseContext, loopDuration>>
  BY DEF ClientStep, Send, CreateProject, ModifyProject, ClearStore, ClientUnchanged, vars,
         control
<1>2. active' = active \/ active' \in Project
  BY DEF NoClear, ClientStep, Send, CreateProject, ModifyProject, ClearStore, vars, store
<1>3. active' = None => active = None
  BY <1>2, EnvironmentAssumption
<1> QED
  BY <1>1, <1>3 DEF PlaceInv, ProjectLoaded, ContextInPlace

LEMMA StepPlaced == NoClear /\ TypeOK /\ TransportInv /\ PlaceInv /\ [Next]_vars => PlaceInv'
BY StoppedPlaced, InitProjectPlaced, WaitingPlaced, BuildPlaced, MidLoopPlaced,
   RunningPlaced, AdvancePlaced, PausedPlaced, ClientPlaced
DEF Next, PlayerStep

-----------------------------------------------------------------------------
(* What is to come lies at or after the position, published and private.   *)
(* A pass is built from its top, so the position has been reset by then.   *)
FromTheTop ==
  \/ pc = "Loop" /\ state = "Running" /\ pauseContext = None
  \/ pc \in Building /\ call = "Pass"

TicksInv ==
  /\ currentTick <= loopElapsedTicks
  /\ pc \notin Building => \A e \in Upcoming : e.tick >= currentTick
  /\ FromTheTop => currentTick = 0

LEMMA TicksReset ==
  ASSUME TypeOK', currentTick' = 0
  PROVE  TicksInv'
<1>1. loopElapsedTicks' \in Nat
  BY DEF TypeOK
<1>2. Upcoming' \subseteq Event
  BY DEF TypeOK, Upcoming
<1> QED
  BY <1>1, <1>2 DEF TicksInv, Event

LEMMA TicksKept ==
  ASSUME TicksInv, Upcoming' \subseteq Upcoming,
         UNCHANGED <<currentTick, loopElapsedTicks>>,
         pc \notin Building \/ pc' \in Building \/ Upcoming' = {},
         ~FromTheTop' \/ currentTick = 0
  PROVE  TicksInv'
BY DEF TicksInv

LEMMA LocatedTicks ==
  ASSUME TypeOK', currentTick' = loopElapsedTicks', pc' = "Setup", call' # "Pass"
  PROVE  TicksInv'
BY DEF TypeOK, TicksInv, FromTheTop, Building

LEMMA RestTicks ==
  TypeOK' /\ TransportInv /\ PlaceInv /\ (HandleStopped \/ HandleWaiting \/ InitProject)
    => TicksInv'
<1> SUFFICES ASSUME TypeOK', TransportInv, PlaceInv,
                    HandleStopped \/ HandleWaiting \/ InitProject
             PROVE  TicksInv'
  OBVIOUS
<1>1. state \in {"Stopped", "Waiting"} /\ pc \notin Building
  BY DEF HandleStopped, StoppedStart, StoppedClockStart, StoppedStage, StoppedIgnore,
         AtStopped, HandleWaiting, WaitPoll, WaitCommit, WaitCheck, WaitReceive,
         InitProject, InitRunning, InitPanic, TransportInv, StateAgrees, Awaiting, Building
<1>2. currentTick = 0
  BY <1>1, StoppedFacts
<1>3. CASE UNCHANGED currentTick
  BY <1>2, <1>3, TicksReset
<1>4. CASE InitRunning /\ call = "SyncContinue" /\ pendingSongPosition # None
  BY <1>4, LocatedTicks DEF InitRunning, Locate, Goto
<1>5. ~(InitRunning /\ call = "SyncContinue" /\ pendingSongPosition # None)
        => UNCHANGED currentTick
  BY DEF HandleStopped, StoppedStart, StoppedClockStart, StoppedStage, StoppedIgnore,
         HandleWaiting, WaitPoll, WaitCommit, WaitCheck, WaitReceive, WaitingUnchanged,
         InitProject, InitRunning, InitPanic, position
<1> QED
  BY <1>3, <1>4, <1>5

LEMMA BuildTicks ==
  TypeOK /\ TypeOK' /\ TransportInv /\ PlaceInv /\ TicksInv /\ BuildLoopEvents => TicksInv'
<1> SUFFICES ASSUME TypeOK, TypeOK', TransportInv, PlaceInv, TicksInv, BuildLoopEvents
             PROVE  TicksInv'
  OBVIOUS
<1>0. pc # "Idle" /\ (pc \in {"Setup", "Collect"} => active # None) /\ remaining = {}
  BY DEF PlaceInv, ProjectLoaded, ContextInPlace, Building, BuildLoopEvents, Setup,
         CollectProject, CollectPulses, CollectNothing, IdleEmpty
<1>1. UNCHANGED <<currentTick, loopElapsedTicks>>
  BY DEF BuildLoopEvents, Setup, CollectProject, CollectPulses, CollectNothing, IdleEmpty,
         position
<1>2. CASE Setup
  <2>1. /\ pc' = "Collect" /\ pc = "Setup"
        /\ UNCHANGED <<state, call, remaining, pauseContext>>
    BY <1>2 DEF Setup, Goto
  <2> QED
    BY <1>1, <2>1, TicksKept DEF TicksInv, FromTheTop, Building, Upcoming
<1>3. CASE CollectProject /\ call = "Pass"
  BY <1>1, <1>3, TicksReset DEF CollectProject, TicksInv, FromTheTop, Building
<1>4. CASE CollectProject /\ call # "Pass"
  <2> DEFINE list == PassEvents(active.song, carryOver, isClockMode)
  <2>1. active.song \in Songs /\ LoopDuration[active.song] \in Nat
    BY <1>4, ProjectType DEF CollectProject, TypeOK
  <2>2. list \subseteq Event
    BY <2>1, PassEventsType DEF TypeOK
  <2> HIDE DEF list
  <2>3. From(list, loopElapsedTicks) \in SUBSET Event
    BY <2>2 DEF From
  <2>4. /\ pc' = "Loop" /\ remaining' = {}
        /\ pauseContext' = Context(From(list, loopElapsedTicks), LoopDuration[active.song])
    BY <1>0, <1>4 DEF CollectProject, Deliver, Return, list
  <2>5. pauseContext' # None
    BY <2>1, <2>3, <2>4, ContextExists
  <2>6. Upcoming' = From(list, loopElapsedTicks)
    BY <2>4, <2>5 DEF Upcoming, Context
  <2>7. \A e \in Upcoming' : e.tick >= loopElapsedTicks /\ e.tick \in Nat
    BY <2>3, <2>6 DEF From, Event
  <2>8. currentTick <= loopElapsedTicks /\ currentTick \in Nat /\ loopElapsedTicks \in Nat
    BY DEF TicksInv, TypeOK
  <2>9. \A e \in Upcoming' : e.tick >= currentTick
    BY <2>7, <2>8
  <2>10. ~FromTheTop'
    BY <2>4, <2>5 DEF FromTheTop, Building
  <2> QED
    BY <1>1, <2>8, <2>9, <2>10 DEF TicksInv
<1> QED
  BY <1>0, <1>2, <1>3, <1>4
  DEF BuildLoopEvents, CollectPulses, CollectNothing, IdleEmpty

LEMMA MidLoopTicks ==
  TypeOK' /\ TransportInv /\ PlaceInv /\ TicksInv /\ MidLoopCommand => TicksInv'
<1> SUFFICES ASSUME TypeOK', TransportInv, PlaceInv, TicksInv, MidLoopCommand
             PROVE  TicksInv'
  OBVIOUS
<1> USE DEF position
<1>1. MidLoop
  BY DEF MidLoopCommand, MidLoopStop, MidLoopPause, MidLoopSyncStart, MidLoopSyncContinue,
         MidLoopTempo, MidLoopIgnore
<1>2. /\ pc \in {"Play", "AfterEvent"} /\ call = "None" /\ state = "Running"
      /\ pauseContext = None /\ Upcoming = remaining
  BY <1>1, MidLoopFacts DEF PlaceInv, ProjectLoaded, ContextInPlace, Building, Upcoming
<1>3. CASE MidLoopStop \/ MidLoopSyncStart
  BY <1>3, TicksReset
  DEF MidLoopStop, MidLoopSyncStart, DoStop, DoSyncRestart, ResetPosition
<1>4. CASE MidLoopPause
  <2>1. /\ pc' = "Loop" /\ state' = "Paused" /\ remaining' = {}
        /\ pauseContext' = Context(remaining, loopDuration)
        /\ UNCHANGED <<currentTick, loopElapsedTicks>>
    BY <1>2, <1>4 DEF MidLoopPause, Return
  <2>2. Upcoming' \subseteq Upcoming
    BY <1>2, <2>1 DEF Upcoming, Context
  <2> QED
    BY <1>2, <2>1, <2>2, TicksKept DEF FromTheTop, Building
<1>5. CASE MidLoopSyncContinue
  <2>1. /\ pc' = "Setup" /\ call' = "Reposition" /\ remaining' = {} /\ pauseContext' = None
        /\ UNCHANGED <<currentTick, loopElapsedTicks>>
    BY <1>2, <1>5 DEF MidLoopSyncContinue, Goto
  <2> QED
    BY <2>1, TicksKept DEF FromTheTop, Building, Upcoming
<1>6. CASE MidLoopTempo \/ MidLoopIgnore
  <2>1. /\ pc' = "Play" /\ UNCHANGED <<remaining, pauseContext>>
        /\ UNCHANGED <<currentTick, loopElapsedTicks>>
    BY <1>2, <1>6 DEF MidLoopTempo, MidLoopIgnore, Proceed
  <2> QED
    BY <1>2, <2>1, TicksKept DEF FromTheTop, Building, Upcoming
<1> QED
  BY <1>3, <1>4, <1>5, <1>6 DEF MidLoopCommand

LEMMA RunningTicks ==
  TypeOK /\ TypeOK' /\ TransportInv /\ PlaceInv /\ TicksInv /\ HandleRunning => TicksInv'
<1> SUFFICES ASSUME TypeOK, TypeOK', TransportInv, PlaceInv, TicksInv, HandleRunning
             PROVE  TicksInv'
  OBVIOUS
<1> USE DEF position
<1>1. CASE RunResume
  <2>1. /\ pc = "Loop" /\ pc' = "Play" /\ pauseContext # None /\ pauseContext' = None
        /\ remaining' = pauseContext.events
        /\ UNCHANGED <<currentTick, loopElapsedTicks>>
    BY <1>1 DEF RunResume, StartPlaying
  <2> QED
    BY <2>1, TicksKept DEF FromTheTop, Building, Upcoming
<1>2. CASE RunBuild
  BY <1>2, TicksReset DEF RunBuild, TicksInv, FromTheTop
<1>3. CASE Fire
  <2>1. PICK e \in NextEvents(remaining) :
          /\ loopElapsedTicks' = e.tick /\ currentTick' = e.tick
          /\ remaining' = remaining \ {e}
    BY <1>3 DEF Fire
  <2>2. pc = "Play" /\ pc' = "AfterEvent" /\ UNCHANGED pauseContext
    BY <1>3 DEF Fire, Goto
  <2>3. pauseContext = None
    BY <2>2 DEF PlaceInv, ContextInPlace, Building
  <2>4. Upcoming' \subseteq remaining
    BY <2>1, <2>2, <2>3 DEF Upcoming
  <2>5. e.tick \in Nat /\ \A f \in remaining : f.tick \in Nat /\ ~(f.tick < e.tick)
    BY DEF NextEvents, Precedes, TypeOK, Event
  <2>6. \A f \in Upcoming' : f.tick >= currentTick'
    BY <2>1, <2>4, <2>5
  <2>7. currentTick' <= loopElapsedTicks'
    BY <2>1, <2>5
  <2> QED
    BY <2>2, <2>6, <2>7 DEF TicksInv, FromTheTop, Building
<1>4. CASE AfterEventEmpty
  <2>1. /\ pc = "AfterEvent" /\ pc' = "Play" /\ UNCHANGED <<remaining, pauseContext>>
        /\ UNCHANGED <<currentTick, loopElapsedTicks>>
    BY <1>4 DEF AfterEventEmpty, Goto
  <2> QED
    BY <2>1, TicksKept DEF FromTheTop, Building, Upcoming
<1> QED
  BY <1>1, <1>2, <1>3, <1>4 DEF HandleRunning

LEMMA AdvanceTicks == TypeOK' /\ TicksInv /\ AdvanceLoop => TicksInv'
<1> SUFFICES ASSUME TypeOK', TicksInv, AdvanceLoop PROVE TicksInv'
  OBVIOUS
<1>1. CASE AdvanceCommit \/ AdvancePublish
  <2>1. /\ pc \in Playing /\ pc' \in {"Publish", "Retime"}
        /\ UNCHANGED <<remaining, pauseContext, currentTick, loopElapsedTicks>>
    BY <1>1 DEF AdvanceCommit, AdvancePublish, Goto, Playing, position
  <2> QED
    BY <2>1, TicksKept DEF FromTheTop, Building, Upcoming, Playing
<1>2. CASE AdvanceRetime
  BY <1>2, TicksReset DEF AdvanceRetime
<1> QED
  BY <1>1, <1>2 DEF AdvanceLoop

LEMMA PausedTicks ==
  TypeOK' /\ TransportInv /\ PlaceInv /\ TicksInv /\ HandlePaused => TicksInv'
<1> SUFFICES ASSUME TypeOK', TransportInv, PlaceInv, TicksInv, HandlePaused
             PROVE  TicksInv'
  OBVIOUS
<1> USE DEF position, control
<1>1. CASE PausedSyncStart \/ PausedStop
  BY <1>1, TicksReset DEF PausedSyncStart, PausedStop, DoSyncRestart, ResetPosition
<1>2. CASE PausedLocate
  BY <1>2, LocatedTicks DEF PausedLocate, Locate, Goto
<1>3. CASE PausedResume \/ PausedTempo \/ PausedIgnore
  <2>1. /\ pc = "Loop" /\ pc' = "Loop" /\ state = "Paused"
        /\ UNCHANGED <<remaining, pauseContext, currentTick, loopElapsedTicks>>
    BY <1>3 DEF PausedResume, PausedTempo, PausedIgnore, AtPaused
  <2>2. pauseContext' # None
    BY <2>1 DEF PlaceInv, ContextInPlace
  <2> QED
    BY <2>1, <2>2, TicksKept DEF FromTheTop, Building, Upcoming
<1> QED
  BY <1>1, <1>2, <1>3 DEF HandlePaused

LEMMA ClientTicks == TicksInv /\ (ClientStep \/ UNCHANGED vars) => TicksInv'
<1> SUFFICES ASSUME TicksInv, ClientStep \/ UNCHANGED vars PROVE TicksInv'
  OBVIOUS
<1>1. UNCHANGED <<state, pc, call, remaining, pauseContext, currentTick, loopElapsedTicks>>
  BY DEF ClientStep, Send, CreateProject, ModifyProject, ClearStore, ClientUnchanged, vars,
         control, position
<1> QED
  BY <1>1 DEF TicksInv, FromTheTop, Upcoming

LEMMA StepTicks ==
  TypeOK /\ TypeOK' /\ TransportInv /\ PlaceInv /\ TicksInv /\ [Next]_vars => TicksInv'
BY RestTicks, BuildTicks, MidLoopTicks, RunningTicks, AdvanceTicks, PausedTicks, ClientTicks
DEF Next, PlayerStep

LEMMA InitTicks == Init => TicksInv
BY DEF Init, TicksInv, Upcoming, FromTheTop

-----------------------------------------------------------------------------
(* The overflow of a pass ends in the one that follows: it is kept with    *)
(* the length of the loop it is measured against.                          *)
InPass == pc \in Playing \/ pauseContext # None

OverflowInv ==
  InPass =>
    /\ \E s \in Songs : loopDuration = LoopDuration[s]
    /\ \A e \in nextCarryOver : e.tick \in loopDuration + 1 .. 2 * loopDuration

CarryInv == CarryInRange /\ OffsCarried /\ OverflowInv

LEMMA OverflowRange ==
  ASSUME NEW s \in Songs, NEW e \in Overflow(s)
  PROVE  e.kind = "NoteOff" /\ e.tick \in LoopDuration[s] + 1 .. 2 * LoopDuration[s]
<1>1. PICK n \in Notes[s] : e = NoteOff(n) /\ OffTick(n) > LoopDuration[s]
  BY DEF Overflow, Overflows
<1>2. /\ n.start \in Nat /\ n.duration \in Nat /\ LoopDuration[s] \in Nat
      /\ n.start + n.duration <= 2 * LoopDuration[s]
  BY SongAssumption DEF Note
<1>3. OffTick(n) \in LoopDuration[s] + 1 .. 2 * LoopDuration[s]
  BY <1>1, <1>2 DEF OffTick
<1> QED
  BY <1>1, <1>3 DEF NoteOff, LoopEvent

(* The subtraction of advance_loop does not wrap.                          *)
LEMMA RebaseRange ==
  ASSUME NEW s \in Songs, NEW overflow \in SUBSET Event,
         \A e \in overflow : e.tick \in LoopDuration[s] + 1 .. 2 * LoopDuration[s],
         NEW f \in Rebase(overflow, LoopDuration[s])
  PROVE  f.tick \in 1 .. LoopDuration[s]
<1> DEFINE d == LoopDuration[s]
<1>1. d \in Nat /\ TickModulus \in Nat \ {0} /\ 2 * d < TickModulus
  BY SongAssumption, TickAssumption
<1>2. PICK e \in overflow : f = [e EXCEPT !.tick = (e.tick - d) % TickModulus]
  BY DEF Rebase
<1>3. f.tick = (e.tick - d) % TickModulus /\ e.tick \in d + 1 .. 2 * d
  BY <1>2 DEF Event
<1>4. e.tick - d \in 1 .. d
  BY <1>1, <1>3
<1> HIDE DEF d
<1>5. (e.tick - d) % TickModulus = e.tick - d
  BY <1>1, <1>4
<1> QED
  BY <1>3, <1>4, <1>5 DEF d

LEMMA CarryKept ==
  ASSUME CarryInv, carryOver' \subseteq carryOver, nextCarryOver' \subseteq nextCarryOver,
         InPass' => (InPass /\ UNCHANGED loopDuration)
  PROVE  CarryInv'
<1>1. CarryInRange' /\ OffsCarried'
  BY DEF CarryInv, CarryInRange, OffsCarried
<1>2. OverflowInv'
  BY DEF CarryInv, OverflowInv
<1> QED
  BY <1>1, <1>2 DEF CarryInv

LEMMA RestCarry ==
  TransportInv /\ PlaceInv /\ CarryInv /\ (HandleStopped \/ HandleWaiting \/ InitProject)
    => CarryInv'
<1> SUFFICES ASSUME TransportInv, PlaceInv, CarryInv,
                    HandleStopped \/ HandleWaiting \/ InitProject
             PROVE  CarryInv'
  OBVIOUS
<1>1. state \in {"Stopped", "Waiting"} /\ pc \notin Building
  BY DEF HandleStopped, StoppedStart, StoppedClockStart, StoppedStage, StoppedIgnore,
         AtStopped, HandleWaiting, WaitPoll, WaitCommit, WaitCheck, WaitReceive,
         InitProject, InitRunning, InitPanic, TransportInv, StateAgrees, Awaiting, Building
<1>2. pauseContext = None
  BY <1>1 DEF PlaceInv, ContextInPlace
<1>3. pc' \notin Playing /\ UNCHANGED <<pauseContext, carries>>
  BY <1>1
  DEF HandleStopped, StoppedStart, StoppedClockStart, StoppedStage, StoppedIgnore,
      AtStopped, HandleWaiting, WaitPoll, WaitCommit, WaitCheck, WaitReceive,
      WaitingUnchanged, InitProject, InitRunning, InitPanic, Goto, Locate, control, Playing
<1> QED
  BY <1>2, <1>3, CarryKept DEF InPass, carries

LEMMA BuildCarry == TypeOK /\ PlaceInv /\ CarryInv /\ BuildLoopEvents => CarryInv'
<1> SUFFICES ASSUME TypeOK, PlaceInv, CarryInv, BuildLoopEvents PROVE CarryInv'
  OBVIOUS
<1>0. pc # "Idle" /\ (pc \in {"Setup", "Collect"} => active # None)
  BY DEF PlaceInv, ProjectLoaded, Building
<1>1. CASE Setup
  <2>1. pc' = "Collect" /\ UNCHANGED <<pauseContext, carries, loopDuration>>
    BY <1>1 DEF Setup, Goto
  <2> QED
    BY <2>1, CarryKept DEF InPass, Playing, carries
<1>2. CASE CollectProject
  <2>1. active.song \in Songs
    BY <1>2, ProjectType DEF CollectProject, TypeOK
  <2>2. /\ carryOver' = {} /\ nextCarryOver' = Overflow(active.song)
        /\ loopDuration' = LoopDuration[active.song]
    BY <1>2 DEF CollectProject
  <2> QED
    BY <2>1, <2>2, OverflowRange DEF CarryInv, CarryInRange, OffsCarried, OverflowInv
<1> QED
  BY <1>0, <1>1, <1>2 DEF BuildLoopEvents, CollectPulses, CollectNothing, IdleEmpty

LEMMA MidLoopCarry == TransportInv /\ PlaceInv /\ CarryInv /\ MidLoopCommand => CarryInv'
<1> SUFFICES ASSUME TransportInv, PlaceInv, CarryInv, MidLoopCommand PROVE CarryInv'
  OBVIOUS
<1>1. MidLoop /\ UNCHANGED loopDuration
  BY DEF MidLoopCommand, MidLoopStop, MidLoopPause, MidLoopSyncStart, MidLoopSyncContinue,
         MidLoopTempo, MidLoopIgnore
<1>2. InPass
  BY <1>1, MidLoopFacts DEF PlaceInv, ProjectLoaded, Building, InPass, Playing
<1>3. carryOver' \subseteq carryOver /\ nextCarryOver' \subseteq nextCarryOver
  BY DEF MidLoopCommand, MidLoopStop, MidLoopPause, MidLoopSyncStart, MidLoopSyncContinue,
         MidLoopTempo, MidLoopIgnore, DoStop, DoSyncRestart, carries
<1> QED
  BY <1>1, <1>2, <1>3, CarryKept

LEMMA RunningCarry == TransportInv /\ PlaceInv /\ CarryInv /\ HandleRunning => CarryInv'
<1> SUFFICES ASSUME TransportInv, PlaceInv, CarryInv, HandleRunning PROVE CarryInv'
  OBVIOUS
<1>1. UNCHANGED carries
  BY DEF HandleRunning, RunResume, RunBuild, Fire, AfterEventEmpty
<1>2. CASE RunResume
  BY <1>1, <1>2, CarryKept DEF RunResume, InPass, PlaceInv, ContextInPlace, carries
<1>3. CASE RunBuild
  BY <1>1, <1>3, CarryKept DEF RunBuild, Goto, InPass, Playing, carries
<1>4. CASE Fire \/ AfterEventEmpty
  BY <1>1, <1>4, CarryKept DEF Fire, AfterEventEmpty, InPass, Playing, carries
<1> QED
  BY <1>2, <1>3, <1>4 DEF HandleRunning

LEMMA AdvanceCarry ==
  TypeOK /\ TransportInv /\ PlaceInv /\ CarryInv /\ AdvanceLoop => CarryInv'
<1> SUFFICES ASSUME TypeOK, TransportInv, PlaceInv, CarryInv, AdvanceLoop PROVE CarryInv'
  OBVIOUS
<1>1. CASE AdvanceCommit \/ AdvancePublish
  BY <1>1, CarryKept DEF AdvanceCommit, AdvancePublish, InPass, Playing, carries
<1>2. CASE AdvanceRetime
  <2>1. /\ pc = "Retime" /\ pc' = "Loop" /\ UNCHANGED pauseContext
        /\ carryOver' = Rebase(nextCarryOver, loopDuration) /\ nextCarryOver' = {}
    BY <1>2 DEF AdvanceRetime, Goto
  <2>2. pauseContext = None /\ InPass
    BY <2>1 DEF PlaceInv, ContextInPlace, Building, InPass, Playing
  <2>3. PICK s \in Songs : loopDuration = LoopDuration[s]
    BY <2>2 DEF CarryInv, OverflowInv
  <2>4. \A e \in nextCarryOver : e.tick \in LoopDuration[s] + 1 .. 2 * LoopDuration[s]
    BY <2>2, <2>3 DEF CarryInv, OverflowInv
  <2>5. nextCarryOver \in SUBSET Event
    BY DEF TypeOK
  <2>6. \A f \in carryOver' : f.tick \in 1 .. LoopDuration[s]
    BY <2>1, <2>3, <2>4, <2>5, RebaseRange
  <2>7. OffsCarried'
    BY <2>1, <2>5, RebaseKeeps DEF CarryInv, OffsCarried
  <2>8. ~InPass'
    BY <2>1, <2>2 DEF InPass, Playing
  <2> QED
    BY <2>6, <2>7, <2>8 DEF CarryInv, CarryInRange, OverflowInv
<1> QED
  BY <1>1, <1>2 DEF AdvanceLoop

LEMMA PausedCarry == PlaceInv /\ CarryInv /\ HandlePaused => CarryInv'
<1> SUFFICES ASSUME PlaceInv, CarryInv, HandlePaused PROVE CarryInv'
  OBVIOUS
<1>1. pauseContext # None /\ UNCHANGED loopDuration
  BY DEF HandlePaused, PausedResume, PausedSyncStart, PausedLocate, PausedStop, PausedTempo,
         PausedIgnore, AtPaused, PlaceInv, ContextInPlace
<1>2. carryOver' \subseteq carryOver /\ nextCarryOver' \subseteq nextCarryOver
  BY DEF HandlePaused, PausedResume, PausedSyncStart, PausedLocate, PausedStop, PausedTempo,
         PausedIgnore, DoSyncRestart, carries
<1> QED
  BY <1>1, <1>2, CarryKept DEF InPass

LEMMA ClientCarry == CarryInv /\ (ClientStep \/ UNCHANGED vars) => CarryInv'
<1> SUFFICES ASSUME CarryInv, ClientStep \/ UNCHANGED vars PROVE CarryInv'
  OBVIOUS
<1>1. UNCHANGED <<pc, pauseContext, carries, loopDuration>>
  BY DEF ClientStep, Send, CreateProject, ModifyProject, ClearStore, ClientUnchanged, vars,
         control
<1> QED
  BY <1>1, CarryKept DEF InPass, carries

LEMMA StepCarry ==
  TypeOK /\ TransportInv /\ PlaceInv /\ CarryInv /\ [Next]_vars => CarryInv'
BY RestCarry, BuildCarry, MidLoopCarry, RunningCarry, AdvanceCarry, PausedCarry, ClientCarry
DEF Next, PlayerStep

LEMMA InitCarry == Init => CarryInv
BY DEF Init, CarryInv, CarryInRange, OffsCarried, OverflowInv, InPass, Playing

-----------------------------------------------------------------------------
LEMMA StepTyped == TypeOK /\ [Next]_vars => TypeOK'
BY StoppedTyped, InitProjectTyped, WaitingTyped, BuildTyped, MidLoopTyped,
   RunningTyped, AdvanceTyped, PausedTyped, ClientTyped, StutterTyped
DEF Next, PlayerStep

PassInv == PlaceInv /\ TicksInv /\ CarryInv

LEMMA PassInvariant == NoClear => (Spec => []PassInv)
<1> SUFFICES ASSUME NoClear PROVE Spec => []PassInv
  OBVIOUS
<1>1. Init => PassInv
  BY InitPlaced, InitTicks, InitCarry DEF PassInv
<1>2. TypeOK /\ TransportInv /\ PassInv /\ [Next]_vars => PassInv'
  BY StepTyped, StepPlaced, StepTicks, StepCarry DEF PassInv
<1> QED
  BY <1>1, <1>2, TypeCorrect, TransportInvariant, PTL DEF Spec

(* The position that clients poll never runs backwards within a pass: the  *)
(* events still to fire lie at or after it, also after a MIDI Continue or  *)
(* a locate, which measure from a place of the thread's own.               *)
THEOREM PositionForward == NoClear => (Spec => []NothingLeftBehind)
<1> SUFFICES ASSUME NoClear PROVE Spec => []NothingLeftBehind
  OBVIOUS
<1>1. PassInv => NothingLeftBehind
  BY DEF PassInv, TicksInv, NothingLeftBehind, Upcoming, Building
<1> QED
  BY <1>1, PassInvariant, PTL

(* The u64 subtraction of advance_loop never wraps, whatever projects      *)
(* follow each other and wherever a pass was paused or relocated: the      *)
(* overflow is measured against the loop it came from.                     *)
THEOREM CarriesInRange == NoClear => (Spec => []CarryInRange)
<1> SUFFICES ASSUME NoClear PROVE Spec => []CarryInRange
  OBVIOUS
<1>1. PassInv => CarryInRange
  BY DEF PassInv, CarryInv
<1> QED
  BY <1>1, PassInvariant, PTL

-----------------------------------------------------------------------------
(* Wheels: pitch_bend_channels, which a stop centres, are the channels of  *)
(* the song set up last.  That covers every wheel that is off centre if    *)
(* the songs bend the same channels.                                       *)
SameChannels == \A s, t \in Songs : BendChannels(s) = BendChannels(t)

Wheels == IF configured = None THEN {} ELSE BendChannels(configured)

WheelInv ==
  /\ pc = "Collect" => configured # None
  /\ bent \subseteq Wheels
  /\ \A e \in Upcoming : e.kind = "PitchBend" => e.channel \in Wheels
  /\ CentredWhenSilent

(* A step that moves no wheel and adds no event.                           *)
LEMMA WheelsKept ==
  ASSUME WheelInv, Upcoming' \subseteq Upcoming, UNCHANGED configured,
         bent' \subseteq bent, pc' = "Collect" => pc = "Collect",
         state' # "Running" => bent' = {} \/ state # "Running"
  PROVE  WheelInv'
<1>1. Wheels' = Wheels
  BY DEF Wheels
<1> QED
  BY <1>1 DEF WheelInv, CentredWhenSilent

LEMMA PassBends ==
  ASSUME NEW s \in Songs, NEW carried, NEW clocked \in BOOLEAN,
         \A e \in carried : e.kind = "NoteOff",
         NEW e \in PassEvents(s, carried, clocked)
  PROVE  /\ e.kind = "PitchBend" => e.channel \in BendChannels(s)
         /\ e.kind = "NoteOn" => e \in NoteOns(s)
<1>1. e.kind = "PitchBend" => e \in BendEvents(s)
  BY DEF PassEvents, NoteOns, NoteOffs, NoteOn, NoteOff, Pulses, LoopEvent
<1>2. e \in BendEvents(s) => e.channel \in BendChannels(s)
  BY DEF BendEvents, BendChannels, LoopEvent
<1>3. e.kind = "NoteOn" => e \in NoteOns(s)
  BY DEF PassEvents, NoteOffs, NoteOff, BendEvents, Pulses, LoopEvent
<1> QED
  BY <1>1, <1>2, <1>3

(* What a build adds to the events to come is of the list it has built.    *)
LEMMA DeliverUpcoming ==
  ASSUME NEW events, NEW d, Deliver(events, d), remaining = {},
         call = "Pass" => pauseContext = None
  PROVE  Upcoming' \subseteq events
BY DEF Deliver, StartPlaying, Upcoming, Context, From

LEMMA BuildWheels ==
  SameChannels /\ TypeOK /\ TransportInv /\ PassInv /\ WheelInv /\ BuildLoopEvents
    => WheelInv'
<1> SUFFICES ASSUME SameChannels, TypeOK, TransportInv, PassInv, WheelInv, BuildLoopEvents
             PROVE  WheelInv'
  OBVIOUS
<1>0. /\ pc # "Idle" /\ (pc \in {"Setup", "Collect"} => active # None) /\ remaining = {}
      /\ UNCHANGED bent
  BY DEF PassInv, PlaceInv, ProjectLoaded, ContextInPlace, Building, BuildLoopEvents, Setup,
         CollectProject, CollectPulses, CollectNothing, IdleEmpty, device
<1>1. CASE Setup
  <2>1. /\ configured' = active.song /\ pc' = "Collect"
        /\ UNCHANGED <<state, remaining, pauseContext>>
    BY <1>0, <1>1 DEF Setup, Goto
  <2>2. active \in Project /\ configured \in Songs \cup {None}
    BY <1>0, <1>1 DEF TypeOK, Setup
  <2>3. active.song \in Songs
    BY <2>2, ProjectType
  <2>4. configured # None => BendChannels(configured) = BendChannels(active.song)
    BY <2>2, <2>3 DEF SameChannels
  <2>5. active.song # None
    BY <2>3, EnvironmentAssumption
  <2>6. Wheels \subseteq Wheels'
    BY <2>1, <2>4, <2>5 DEF Wheels
  <2> QED
    BY <1>0, <2>1, <2>5, <2>6 DEF WheelInv, CentredWhenSilent, Upcoming
<1>2. CASE CollectProject
  <2> DEFINE list == PassEvents(active.song, carryOver, isClockMode)
  <2>1. /\ Deliver(list, LoopDuration[active.song]) /\ UNCHANGED configured
        /\ pc = "Collect"
    BY <1>2 DEF CollectProject
  <2>2. active.song \in Songs /\ configured \in Songs /\ configured # None
        /\ isClockMode \in BOOLEAN
    BY <1>2, <2>1, ProjectType DEF CollectProject, WheelInv, TypeOK
  <2>3. Wheels = BendChannels(active.song) /\ Wheels' = Wheels
    BY <2>1, <2>2 DEF Wheels, SameChannels
  <2>4. \A e \in list : e.kind = "PitchBend" => e.channel \in Wheels
    BY <2>2, <2>3, PassBends DEF PassInv, CarryInv, OffsCarried
  <2> HIDE DEF list
  <2>5. call = "Pass" => pauseContext = None /\ state = "Running"
    BY <2>1, BuildingFacts DEF PassInv, PlaceInv, ContextInPlace, Building
  <2>6. Upcoming' \subseteq list
    BY <1>0, <2>1, <2>5, DeliverUpcoming
  <2>7. pc' # "Collect" /\ (state' # "Running" => state # "Running")
    BY <2>1 DEF Deliver, StartPlaying, Return
  <2> QED
    BY <1>0, <2>3, <2>4, <2>6, <2>7 DEF WheelInv, CentredWhenSilent
<1> QED
  BY <1>0, <1>1, <1>2 DEF BuildLoopEvents, CollectPulses, CollectNothing, IdleEmpty

LEMMA RestWheels ==
  TransportInv /\ WheelInv /\ (HandleStopped \/ HandleWaiting \/ InitProject) => WheelInv'
<1> SUFFICES ASSUME TransportInv, WheelInv, HandleStopped \/ HandleWaiting \/ InitProject
             PROVE  WheelInv'
  OBVIOUS
<1>1. state # "Running"
  BY DEF HandleStopped, StoppedStart, StoppedClockStart, StoppedStage, StoppedIgnore,
         AtStopped, HandleWaiting, WaitPoll, WaitCommit, WaitCheck, WaitReceive,
         InitProject, InitRunning, InitPanic, TransportInv, StateAgrees, Awaiting
<1>2. UNCHANGED <<remaining, pauseContext, configured, bent>> /\ (pc' = "Collect" => pc = "Collect")
  BY DEF HandleStopped, StoppedStart, StoppedClockStart, StoppedStage, StoppedIgnore,
         AtStopped, HandleWaiting, WaitPoll, WaitCommit, WaitCheck, WaitReceive,
         WaitingUnchanged, InitProject, InitRunning, InitPanic, Goto, Locate, control, device
<1> QED
  BY <1>1, <1>2, WheelsKept DEF Upcoming

LEMMA MidLoopWheels ==
  TransportInv /\ PassInv /\ WheelInv /\ MidLoopCommand => WheelInv'
<1> SUFFICES ASSUME TransportInv, PassInv, WheelInv, MidLoopCommand PROVE WheelInv'
  OBVIOUS
<1> USE DEF device
<1>1. MidLoop /\ UNCHANGED configured
  BY DEF MidLoopCommand, MidLoopStop, MidLoopPause, MidLoopSyncStart, MidLoopSyncContinue,
         MidLoopTempo, MidLoopIgnore
<1>2. /\ pc \in {"Play", "AfterEvent"} /\ call = "None" /\ state = "Running"
      /\ pauseContext = None /\ Upcoming = remaining
  BY <1>1, MidLoopFacts
  DEF PassInv, PlaceInv, ProjectLoaded, ContextInPlace, Building, Upcoming
<1>3. bent \ Wheels = {}
  BY DEF WheelInv
<1>4. CASE MidLoopStop \/ MidLoopPause
  <2>1. /\ bent' = {} /\ pc' = "Loop" /\ remaining' = {}
        /\ pauseContext' \in {None, Context(remaining, loopDuration)}
    BY <1>2, <1>3, <1>4
    DEF MidLoopStop, MidLoopPause, DoStop, CentreBends, Wheels, Return
  <2>2. Upcoming' \subseteq Upcoming
    BY <1>2, <2>1 DEF Upcoming, Context
  <2> QED
    BY <1>1, <2>1, <2>2, WheelsKept
<1>5. CASE MidLoopSyncStart \/ MidLoopSyncContinue
  <2>1. /\ UNCHANGED bent /\ pc' \in {"Loop", "Setup"} /\ remaining' = {}
        /\ pauseContext' = None /\ state' = "Running"
    BY <1>2, <1>5
    DEF MidLoopSyncStart, MidLoopSyncContinue, DoSyncRestart, Goto, Return
  <2> QED
    BY <1>1, <2>1, WheelsKept DEF Upcoming
<1>6. CASE MidLoopTempo \/ MidLoopIgnore
  <2>1. /\ pc' = "Play" /\ UNCHANGED <<state, remaining, pauseContext, bent>>
    BY <1>2, <1>6 DEF MidLoopTempo, MidLoopIgnore, Proceed
  <2> QED
    BY <1>1, <2>1, WheelsKept DEF Upcoming
<1> QED
  BY <1>4, <1>5, <1>6 DEF MidLoopCommand

LEMMA RunningWheels ==
  TypeOK /\ TransportInv /\ PassInv /\ WheelInv /\ HandleRunning => WheelInv'
<1> SUFFICES ASSUME TypeOK, TransportInv, PassInv, WheelInv, HandleRunning PROVE WheelInv'
  OBVIOUS
<1> USE DEF device
<1>1. UNCHANGED <<state, configured>> /\ pc' # "Collect"
  BY DEF HandleRunning, RunResume, RunBuild, Fire, AfterEventEmpty, StartPlaying, Goto
<1>2. CASE RunResume
  <2>1. /\ remaining' = pauseContext.events /\ pauseContext # None
        /\ pauseContext' = None /\ UNCHANGED bent
    BY <1>2 DEF RunResume, StartPlaying
  <2> QED
    BY <1>1, <2>1, WheelsKept DEF Upcoming
<1>3. CASE RunBuild \/ AfterEventEmpty
  <2>1. UNCHANGED <<remaining, pauseContext, bent>>
    BY <1>3 DEF RunBuild, AfterEventEmpty
  <2> QED
    BY <1>1, <2>1, WheelsKept DEF Upcoming
<1>4. CASE Fire
  <2>1. PICK e \in NextEvents(remaining) : remaining' = remaining \ {e} /\ Emit(e)
    BY <1>4 DEF Fire
  <2>2. pc = "Play" /\ UNCHANGED pauseContext
    BY <1>4 DEF Fire
  <2>3. state = "Running"
    BY <2>2, PlayingFacts DEF Playing
  <2>4. e \in Upcoming
    BY DEF NextEvents, Upcoming
  <2>5. bent' \subseteq Wheels /\ Wheels' = Wheels
    BY <1>1, <2>1, <2>4 DEF Emit, WheelInv, Wheels
  <2>6. Upcoming' \subseteq Upcoming
    BY <2>1, <2>2 DEF Upcoming
  <2> QED
    BY <1>1, <2>3, <2>5, <2>6 DEF WheelInv, CentredWhenSilent
<1> QED
  BY <1>2, <1>3, <1>4 DEF HandleRunning

LEMMA OtherWheels ==
  WheelInv /\ (AdvanceLoop \/ HandlePaused \/ ClientStep \/ UNCHANGED vars) => WheelInv'
<1> SUFFICES ASSUME WheelInv, AdvanceLoop \/ HandlePaused \/ ClientStep \/ UNCHANGED vars
             PROVE  WheelInv'
  OBVIOUS
<1> USE DEF device, control
<1>1. CASE AdvanceLoop
  <2>1. /\ UNCHANGED <<state, remaining, pauseContext, configured, bent>>
        /\ pc' # "Collect"
    BY <1>1 DEF AdvanceLoop, AdvanceCommit, AdvancePublish, AdvanceRetime, Goto
  <2> QED
    BY <2>1, WheelsKept DEF Upcoming
<1>2. CASE HandlePaused
  <2>1. /\ state = "Paused" /\ UNCHANGED <<remaining, configured, bent>>
        /\ pauseContext' \in {pauseContext, None} /\ pc' # "Collect"
    BY <1>2
    DEF HandlePaused, PausedResume, PausedSyncStart, PausedLocate, PausedStop, PausedTempo,
        PausedIgnore, AtPaused, DoSyncRestart, Locate, Goto
  <2> QED
    BY <2>1, WheelsKept DEF Upcoming
<1>3. CASE ClientStep \/ UNCHANGED vars
  <2>1. UNCHANGED <<state, pc, remaining, pauseContext, configured, bent>>
    BY <1>3 DEF ClientStep, Send, CreateProject, ModifyProject, ClearStore,
                ClientUnchanged, vars
  <2> QED
    BY <2>1, WheelsKept DEF Upcoming
<1> QED
  BY <1>1, <1>2, <1>3

(* "Resetting on every stop and pause keeps a synth from staying detuned": *)
(* where the songs bend the same channels, no wheel is left off centre in  *)
(* a player that does not play, whatever song was playing and is set up.   *)
THEOREM WheelsCentred ==
  NoClear /\ SameChannels => (Spec => []CentredWhenSilent)
<1> SUFFICES ASSUME NoClear, SameChannels PROVE Spec => []CentredWhenSilent
  OBVIOUS
<1>1. Init => WheelInv
  BY DEF Init, WheelInv, Upcoming, CentredWhenSilent
<1>2. TypeOK /\ TransportInv /\ PassInv /\ WheelInv /\ [Next]_vars => WheelInv'
  BY RestWheels, BuildWheels, MidLoopWheels, RunningWheels, OtherWheels
  DEF Next, PlayerStep
<1>3. WheelInv => CentredWhenSilent
  BY DEF WheelInv
<1>4. Spec => []PassInv
  BY PassInvariant
<1> QED
  BY <1>1, <1>2, <1>3, <1>4, TypeCorrect, TransportInvariant, PTL DEF Spec

-----------------------------------------------------------------------------
(* The program changes of a list's song were the last ones sent, as long   *)
(* as the active project changes at loop boundaries alone.                 *)
NoCreate == "Create" \notin StoreOps

SongInv ==
  /\ pc = "Collect" => configured = active.song
  /\ pc \notin Building =>
       \A e \in Upcoming : e.kind = "NoteOn" => e \in NoteOns(configured)

LEMMA SongsKept ==
  ASSUME SongInv, Upcoming' \subseteq Upcoming, UNCHANGED configured, pc' # "Collect",
         pc \notin Building \/ pc' \in Building \/ Upcoming' = {}
  PROVE  SongInv'
BY DEF SongInv

LEMMA BuildSongs ==
  TypeOK /\ TransportInv /\ PassInv /\ SongInv /\ BuildLoopEvents => SongInv'
<1> SUFFICES ASSUME TypeOK, TransportInv, PassInv, SongInv, BuildLoopEvents PROVE SongInv'
  OBVIOUS
<1>0. pc # "Idle" /\ (pc \in {"Setup", "Collect"} => active # None) /\ remaining = {}
  BY DEF PassInv, PlaceInv, ProjectLoaded, ContextInPlace, Building, BuildLoopEvents, Setup,
         CollectProject, CollectPulses, CollectNothing, IdleEmpty
<1>1. CASE Setup
  <2>1. configured' = active.song /\ pc' = "Collect" /\ active' = active
    BY <1>0, <1>1 DEF Setup, Goto, store
  <2> QED
    BY <2>1 DEF SongInv, Building
<1>2. CASE CollectProject
  <2> DEFINE list == PassEvents(active.song, carryOver, isClockMode)
  <2>1. /\ Deliver(list, LoopDuration[active.song]) /\ UNCHANGED configured
        /\ pc = "Collect" /\ configured = active.song
    BY <1>2 DEF CollectProject, SongInv
  <2>2. active.song \in Songs /\ isClockMode \in BOOLEAN
    BY <1>2, ProjectType DEF CollectProject, TypeOK
  <2>3. \A e \in list : e.kind = "NoteOn" => e \in NoteOns(configured)
    BY <2>1, <2>2, PassBends DEF PassInv, CarryInv, OffsCarried
  <2> HIDE DEF list
  <2>4. call = "Pass" => pauseContext = None
    BY <2>1, BuildingFacts DEF PassInv, PlaceInv, ContextInPlace, Building
  <2>5. Upcoming' \subseteq list
    BY <1>0, <2>1, <2>4, DeliverUpcoming
  <2>6. pc' # "Collect"
    BY <2>1 DEF Deliver, StartPlaying, Return
  <2> QED
    BY <2>1, <2>3, <2>5, <2>6 DEF SongInv
<1> QED
  BY <1>0, <1>1, <1>2 DEF BuildLoopEvents, CollectPulses, CollectNothing, IdleEmpty

LEMMA RestSongs ==
  TransportInv /\ SongInv /\ (HandleStopped \/ HandleWaiting \/ InitProject) => SongInv'
<1> SUFFICES ASSUME TransportInv, SongInv, HandleStopped \/ HandleWaiting \/ InitProject
             PROVE  SongInv'
  OBVIOUS
<1>1. pc \notin Building
  BY DEF HandleStopped, StoppedStart, StoppedClockStart, StoppedStage, StoppedIgnore,
         AtStopped, HandleWaiting, WaitPoll, WaitCommit, WaitCheck, WaitReceive,
         InitProject, InitRunning, InitPanic, Building
<1>2. UNCHANGED <<remaining, pauseContext, configured>> /\ pc' # "Collect"
  BY DEF HandleStopped, StoppedStart, StoppedClockStart, StoppedStage, StoppedIgnore,
         AtStopped, HandleWaiting, WaitPoll, WaitCommit, WaitCheck, WaitReceive,
         WaitingUnchanged, InitProject, InitRunning, InitPanic, Goto, Locate, control
<1> QED
  BY <1>1, <1>2, SongsKept DEF Upcoming

LEMMA PlaySongs ==
  TransportInv /\ PassInv /\ SongInv /\ (MidLoopCommand \/ HandleRunning) => SongInv'
<1> SUFFICES ASSUME TransportInv, PassInv, SongInv, MidLoopCommand \/ HandleRunning
             PROVE  SongInv'
  OBVIOUS
<1>1. CASE MidLoopCommand
  <2>1. MidLoop /\ UNCHANGED configured
    BY <1>1 DEF MidLoopCommand, MidLoopStop, MidLoopPause, MidLoopSyncStart,
                MidLoopSyncContinue, MidLoopTempo, MidLoopIgnore
  <2>2. pc \in {"Play", "AfterEvent"} /\ pauseContext = None /\ call = "None"
    BY <2>1, MidLoopFacts DEF PassInv, PlaceInv, ProjectLoaded, ContextInPlace, Building
  <2>3. /\ remaining' \subseteq remaining /\ pc' # "Collect"
        /\ pauseContext' \in {None, Context(remaining, loopDuration)}
    BY <1>1, <2>2
    DEF MidLoopCommand, MidLoopStop, MidLoopPause, MidLoopSyncStart, MidLoopSyncContinue,
        MidLoopTempo, MidLoopIgnore, Proceed, Return, Goto
  <2>4. Upcoming' \subseteq Upcoming
    BY <2>2, <2>3 DEF Upcoming, Context
  <2> QED
    BY <2>1, <2>2, <2>3, <2>4, SongsKept DEF Building
<1>2. CASE HandleRunning
  <2>1. pc \notin Building /\ pc' # "Collect" /\ UNCHANGED configured
    BY <1>2 DEF HandleRunning, RunResume, RunBuild, Fire, AfterEventEmpty, StartPlaying,
                Goto, Building
  <2>2. Upcoming' \subseteq Upcoming
    BY <1>2 DEF HandleRunning, RunResume, RunBuild, Fire, AfterEventEmpty, StartPlaying,
                Upcoming
  <2> QED
    BY <2>1, <2>2, SongsKept
<1> QED
  BY <1>1, <1>2

LEMMA OtherSongs ==
  NoClear /\ NoCreate /\ SongInv
    /\ (AdvanceLoop \/ HandlePaused \/ ClientStep \/ UNCHANGED vars) => SongInv'
<1> SUFFICES ASSUME NoClear, NoCreate, SongInv,
                    AdvanceLoop \/ HandlePaused \/ ClientStep \/ UNCHANGED vars
             PROVE  SongInv'
  OBVIOUS
<1> USE DEF control
<1>1. CASE AdvanceLoop \/ HandlePaused
  <2>1. /\ pc \notin Building /\ UNCHANGED <<remaining, configured>> /\ pc' # "Collect"
        /\ pauseContext' \in {pauseContext, None}
    BY <1>1
    DEF AdvanceLoop, AdvanceCommit, AdvancePublish, AdvanceRetime, HandlePaused,
        PausedResume, PausedSyncStart, PausedLocate, PausedStop, PausedTempo,
        PausedIgnore, AtPaused, Locate, Goto, Building
  <2> QED
    BY <2>1, SongsKept DEF Upcoming
<1>2. CASE ClientStep \/ UNCHANGED vars
  <2>1. UNCHANGED <<pc, active, remaining, pauseContext, configured>>
    BY <1>2 DEF ClientStep, Send, CreateProject, ModifyProject, ClearStore,
                ClientUnchanged, vars, NoClear, NoCreate, store
  <2> QED
    BY <2>1 DEF SongInv, Upcoming
<1> QED
  BY <1>1, <1>2

(* "Program changes of the new project are sent" with its notes: the two   *)
(* reads of the store in build_loop_events see the same project, and a     *)
(* paused list is not played under another song's program changes.         *)
THEOREM OwnProgramChanges ==
  NoClear /\ NoCreate => (Spec => []NotesOfConfiguredSong)
<1> SUFFICES ASSUME NoClear, NoCreate PROVE Spec => []NotesOfConfiguredSong
  OBVIOUS
<1>1. Init => SongInv
  BY DEF Init, SongInv, Upcoming
<1>2. TypeOK /\ TransportInv /\ PassInv /\ SongInv /\ [Next]_vars => SongInv'
  BY RestSongs, BuildSongs, PlaySongs, OtherSongs DEF Next, PlayerStep
<1>3. SongInv => NotesOfConfiguredSong
  BY DEF SongInv, NotesOfConfiguredSong, Upcoming, Building
<1>4. Spec => []PassInv
  BY PassInvariant
<1> QED
  BY <1>1, <1>2, <1>3, <1>4, TypeCorrect, TransportInvariant, PTL DEF Spec

=============================================================================
