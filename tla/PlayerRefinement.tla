-------------------------- MODULE PlayerRefinement --------------------------
(***************************************************************************)
(* Player implements Transport and Engine for all songs, tempi, command    *)
(* alphabets and bounds.  What a client can see of the thread (published   *)
(* state and position) and what a listener can hear follow the documented  *)
(* state machine; and the thread treats its clients' commands and projects *)
(* as Engine says.  Each step of the thread is a step of the abstract      *)
(* specification or leaves it alone.                                       *)
(***************************************************************************)
EXTENDS PlayerSafety, SequenceTheorems

Seen == <<state, currentTick, loopCount, activeNotes>>

-----------------------------------------------------------------------------
LEMMA InitImplements == Init => T!Init
BY DEF Init, T!Init

(* Ending a build with nothing else touched begins playback, if the build  *)
(* was part of a start, and is invisible otherwise.                        *)
LEMMA ReturnImplements ==
  ASSUME TransportInv, pc \in Building, Return(state),
         UNCHANGED <<currentTick, loopCount, activeNotes>>
  PROVE  T!Begin \/ UNCHANGED Seen
BY BuildingFacts DEF Return, T!Begin, Seen

LEMMA StoppedImplements ==
  TransportInv /\ HandleStopped => T!Wait \/ UNCHANGED Seen
BY DEF HandleStopped, StoppedStart, StoppedClockStart, StoppedStage, StoppedIgnore,
       AtStopped, Goto, control, position, device, T!Wait, Seen

LEMMA InitProjectImplements ==
  TypeOK' /\ TransportInv /\ InitProject => T!Begin \/ T!Locate \/ UNCHANGED Seen
<1> SUFFICES ASSUME TypeOK', TransportInv, InitProject
             PROVE  T!Begin \/ T!Locate \/ UNCHANGED Seen
  OBVIOUS
<1> USE DEF position, device
<1>1. CASE InitRunning
  <2>1. state = IF call = "Promoted" THEN "Waiting" ELSE "Stopped"
    BY <1>1 DEF InitRunning, TransportInv, StateAgrees
  <2>2. UNCHANGED <<loopCount, activeNotes>>
    BY <1>1 DEF InitRunning
  <2>3. CASE call = "SyncContinue" /\ pendingSongPosition # None
    <3>1. UNCHANGED state
      BY <1>1, <2>3 DEF InitRunning, Locate, Goto
    <3>2. currentTick' \in Nat
      BY DEF TypeOK
    <3> QED
      BY <2>1, <2>2, <2>3, <3>1, <3>2 DEF T!Locate
  <2>4. CASE ~(call = "SyncContinue" /\ pendingSongPosition # None)
    <3>1. state' = "Running" /\ UNCHANGED currentTick
      BY <1>1, <2>4 DEF InitRunning
    <3> QED
      BY <2>1, <2>2, <3>1 DEF T!Begin
  <2> QED
    BY <2>3, <2>4
<1>2. CASE InitPanic
  BY <1>2 DEF InitPanic, Seen
<1> QED
  BY <1>1, <1>2 DEF InitProject

LEMMA WaitingImplements ==
  TransportInv /\ HandleWaiting => T!Stop \/ UNCHANGED Seen
<1> SUFFICES ASSUME TransportInv, HandleWaiting PROVE T!Stop \/ UNCHANGED Seen
  OBVIOUS
<1> USE DEF WaitingUnchanged, Goto, position, device
<1>1. CASE WaitPoll \/ WaitCommit \/ WaitCheck
  BY <1>1 DEF WaitPoll, WaitCommit, WaitCheck, Seen
<1>2. CASE WaitReceive
  <2>1. pc = "WaitReceive" /\ state = "Waiting"
    BY <1>2 DEF WaitReceive, TransportInv, StateAgrees, Awaiting
  <2>2. activeNotes = {} /\ loopCount = 0 /\ currentTick = 0
    BY <2>1, StoppedFacts DEF Building
  <2> QED
    BY <1>2, <2>1, <2>2 DEF WaitReceive, T!Stop, Seen
<1> QED
  BY <1>1, <1>2 DEF HandleWaiting

LEMMA DeliverImplements ==
  ASSUME TransportInv, pc = "Collect", NEW events, NEW d, Deliver(events, d),
         UNCHANGED <<currentTick, loopCount, activeNotes>>
  PROVE  T!Begin \/ UNCHANGED Seen
<1>1. CASE call = "Pass"
  BY <1>1 DEF Deliver, StartPlaying, Seen
<1>2. CASE call # "Pass"
  BY <1>2, ReturnImplements DEF Deliver, Building
<1> QED
  BY <1>1, <1>2

LEMMA BuildImplements ==
  TransportInv /\ BuildLoopEvents => T!Begin \/ UNCHANGED Seen
<1> SUFFICES ASSUME TransportInv, BuildLoopEvents PROVE T!Begin \/ UNCHANGED Seen
  OBVIOUS
<1> USE DEF position, device
<1>1. CASE Setup \/ CollectNothing
  BY <1>1 DEF Setup, CollectNothing, Goto, Seen
<1>2. CASE CollectProject
  BY <1>2, DeliverImplements DEF CollectProject
<1>3. CASE CollectPulses
  BY <1>3, DeliverImplements DEF CollectPulses
<1>4. CASE IdleEmpty
  BY <1>4, ReturnImplements DEF IdleEmpty, Building
<1> QED
  BY <1>1, <1>2, <1>3, <1>4 DEF BuildLoopEvents

(* A command consumed by the build inside a start finds the transport at   *)
(* rest and cannot keep it there; any other finds it running or paused.    *)
LEMMA MidLoopCases ==
  ASSUME TransportInv, MidLoop
  PROVE  \/ call # "RepositionRun" /\ state \in {"Running", "Paused"}
         \/ call = "RepositionRun" /\ state = "Stopped" /\ activeNotes = {}
<1>1. \/ call # "RepositionRun" /\ state \in {"Running", "Paused"}
      \/ call = "RepositionRun" /\ state = "Stopped"
  BY MidLoopFacts, BuildingFacts
<1>2. state = "Stopped" => activeNotes = {}
  BY StoppedFacts
<1> QED
  BY <1>1, <1>2

LEMMA ProceedImplements ==
  ASSUME TransportInv, MidLoop, Proceed,
         UNCHANGED <<currentTick, loopCount, activeNotes>>
  PROVE  T!Begin \/ UNCHANGED Seen
<1>1. CASE pc = "Idle"
  BY <1>1, ReturnImplements DEF Proceed, Building
<1>2. CASE pc # "Idle"
  BY <1>2 DEF Proceed, Seen
<1> QED
  BY <1>1, <1>2

LEMMA MidLoopImplements ==
  TransportInv /\ MidLoopCommand =>
    T!Begin \/ T!Stop \/ T!Pause \/ T!Restart \/ UNCHANGED Seen
<1> SUFFICES ASSUME TransportInv, MidLoopCommand
             PROVE  T!Begin \/ T!Stop \/ T!Pause \/ T!Restart \/ UNCHANGED Seen
  OBVIOUS
<1> USE DEF position, device
<1>1. CASE MidLoopStop
  <2>1. /\ MidLoop /\ activeNotes' = {} /\ loopCount' = 0 /\ currentTick' = 0
        /\ state' = IF call = "RepositionRun" THEN "Running" ELSE "Stopped"
    BY <1>1 DEF MidLoopStop, DoStop, ResetPosition, Flush, Return
  <2> QED
    BY <2>1, MidLoopCases DEF T!Stop, T!Begin
<1>2. CASE MidLoopPause
  <2>1. /\ MidLoop /\ activeNotes' = {} /\ UNCHANGED <<currentTick, loopCount>>
        /\ state' = IF call = "RepositionRun" THEN "Running" ELSE "Paused"
    BY <1>2 DEF MidLoopPause, Flush, Return
  <2>2. state = "Paused" => activeNotes = {}
    BY DEF TransportInv, SilentUnlessRunning
  <2> QED
    BY <2>1, <2>2, MidLoopCases DEF T!Pause, T!Begin, Seen
<1>3. CASE MidLoopSyncStart
  <2>1. /\ MidLoop /\ activeNotes' = {} /\ loopCount' = 0 /\ currentTick' = 0
        /\ state' = IF call = "RepositionRun" THEN "Running" ELSE state
    BY <1>3 DEF MidLoopSyncStart, DoSyncRestart, ResetPosition, Flush, Return
  <2> QED
    BY <2>1, MidLoopCases DEF T!Restart, T!Begin
<1>4. CASE MidLoopSyncContinue
  BY <1>4 DEF MidLoopSyncContinue, Goto, Seen
<1>5. CASE MidLoopTempo
  BY <1>5, ProceedImplements DEF MidLoopTempo
<1>6. CASE MidLoopIgnore
  BY <1>6, ProceedImplements DEF MidLoopIgnore
<1> QED
  BY <1>1, <1>2, <1>3, <1>4, <1>5, <1>6 DEF MidLoopCommand

LEMMA RunningImplements ==
  TypeOK' /\ TransportInv /\ HandleRunning => T!Play \/ UNCHANGED Seen
<1> SUFFICES ASSUME TypeOK', TransportInv, HandleRunning
             PROVE  T!Play \/ UNCHANGED Seen
  OBVIOUS
<1>1. CASE RunResume \/ RunBuild \/ AfterEventEmpty
  BY <1>1 DEF RunResume, RunBuild, AfterEventEmpty, StartPlaying, Goto, position,
              device, Seen
<1>2. CASE Fire
  <2>1. state = "Running" /\ state' = "Running"
    BY <1>2, PlayingFacts DEF Fire, Goto, Playing
  <2>2. currentTick' \in Nat /\ activeNotes' \subseteq SoundingNotes
    BY DEF TypeOK
  <2>3. UNCHANGED loopCount
    BY <1>2 DEF Fire
  <2> QED
    BY <2>1, <2>2, <2>3 DEF T!Play
<1> QED
  BY <1>1, <1>2 DEF HandleRunning

(* At the bound on loop_count the model's pass ends without counting.      *)
LEMMA AdvanceImplements ==
  TypeOK' /\ TransportInv /\ AdvanceLoop => T!EndPass \/ T!Play \/ UNCHANGED Seen
<1> SUFFICES ASSUME TypeOK', TransportInv, AdvanceLoop
             PROVE  T!EndPass \/ T!Play \/ UNCHANGED Seen
  OBVIOUS
<1>1. CASE AdvanceCommit \/ AdvancePublish
  BY <1>1 DEF AdvanceCommit, AdvancePublish, Goto, position, device, Seen
<1>2. CASE AdvanceRetime
  <2>1. state = "Running" /\ state' = "Running"
    BY <1>2, PlayingFacts DEF AdvanceRetime, Goto, Playing
  <2>2. currentTick' = 0 /\ loopCount' \in {loopCount, loopCount + 1}
    BY <1>2 DEF AdvanceRetime
  <2>3. UNCHANGED activeNotes /\ activeNotes' \subseteq SoundingNotes
    BY <1>2 DEF AdvanceRetime, device, TypeOK
  <2> QED
    BY <2>1, <2>2, <2>3 DEF T!EndPass, T!Play
<1> QED
  BY <1>1, <1>2 DEF AdvanceLoop

LEMMA PausedImplements ==
  TypeOK' /\ TransportInv /\ HandlePaused =>
    T!Resume \/ T!Restart \/ T!Locate \/ T!Stop \/ UNCHANGED Seen
<1> SUFFICES ASSUME TypeOK', TransportInv, HandlePaused
             PROVE  T!Resume \/ T!Restart \/ T!Locate \/ T!Stop \/ UNCHANGED Seen
  OBVIOUS
<1> USE DEF AtPaused, position, device, control
<1>0. state = "Paused" /\ activeNotes = {}
  BY DEF HandlePaused, PausedResume, PausedSyncStart, PausedLocate, PausedStop,
         PausedTempo, PausedIgnore, TransportInv, SilentUnlessRunning
<1>1. CASE PausedResume
  BY <1>0, <1>1 DEF PausedResume, T!Resume
<1>2. CASE PausedSyncStart
  BY <1>0, <1>2 DEF PausedSyncStart, DoSyncRestart, ResetPosition, Flush, T!Restart
<1>3. CASE PausedLocate
  <2>1. currentTick' \in Nat
    BY DEF TypeOK
  <2> QED
    BY <1>0, <1>3, <2>1 DEF PausedLocate, Locate, Goto, T!Locate
<1>4. CASE PausedStop
  BY <1>0, <1>4 DEF PausedStop, ResetPosition, T!Stop
<1>5. CASE PausedTempo \/ PausedIgnore
  BY <1>5 DEF PausedTempo, PausedIgnore, Seen
<1> QED
  BY <1>1, <1>2, <1>3, <1>4, <1>5 DEF HandlePaused

LEMMA ClientImplements == ClientStep \/ UNCHANGED vars => UNCHANGED Seen
BY DEF ClientStep, Send, CreateProject, ModifyProject, ClearStore, ClientUnchanged,
       vars, control, position, device, Seen

-----------------------------------------------------------------------------
LEMMA StepImplements ==
  TypeOK' /\ TransportInv /\ [Next]_vars => [T!Next]_(T!vars)
<1> SUFFICES ASSUME TypeOK', TransportInv, [Next]_vars PROVE T!Next \/ UNCHANGED Seen
  BY DEF Seen, T!vars
<1> QED
  BY StoppedImplements, InitProjectImplements, WaitingImplements, BuildImplements,
     MidLoopImplements, RunningImplements, AdvanceImplements, PausedImplements,
     ClientImplements
  DEF Next, PlayerStep, T!Next

(* Whatever clients send and store, and whenever they do, the published    *)
(* state and position and the sounding notes obey the documented state     *)
(* machine: a pause freezes the position, a resume keeps it, a stop and a  *)
(* MIDI Start reset it, and notes sound in Running alone.                  *)
THEOREM PlayerImplementsTransport == Spec => ImplementsTransport
BY InitImplements, StepImplements, TypeCorrect, TransportInvariant, PTL
DEF Spec, ImplementsTransport, T!Spec

-----------------------------------------------------------------------------
(* The engine as its clients see it: where the thread is in the code shows *)
(* as a phase, a start it is in the middle of, and the names of the        *)
(* commands in the channel.                                                *)

SeenFrom ==
  /\ pc \in {"Loop", "WaitCommit", "WaitReceive"} \cup Playing =>
       EnginePhase = "Ready" /\ EngineStarting = "None"
  /\ pc = "WaitCheck" => IF call = "Promoted"
                           THEN EnginePhase = "Starting" /\ EngineStarting = "Promoted"
                           ELSE EnginePhase = "Ready" /\ EngineStarting = "None"
  /\ pc = "Init" => EnginePhase = "Starting" /\ EngineStarting = call
  /\ pc \in Building => EngineStarting = "None"
  /\ pc \in Building /\ state = "Running" => EnginePhase = "Ready"
  /\ pc \in {"Setup", "Collect"} /\ state # "Running" => EnginePhase = "Locating"
  /\ pc = "Idle" /\ state # "Running" => EnginePhase = "Blind"
  /\ pc = "Dead" => EnginePhase = "Dead" /\ EngineStarting = call

LEMMA SeenFromHolds == SeenFrom /\ SeenFrom'
BY DEF SeenFrom, EnginePhase, EngineStarting, Playing, Building

NamesOf(q) == [i \in DOMAIN q |-> q[i].name]

LEMMA NamesType ==
  ASSUME NEW q \in Seq(Command)
  PROVE  /\ NamesOf(q) \in Seq(CommandNames) /\ Len(NamesOf(q)) = Len(q)
         /\ \A i \in 1 .. Len(q) : NamesOf(q)[i] = q[i].name
<1>1. q \in [1 .. Len(q) -> Command] /\ Len(q) \in Nat
  BY LenProperties
<1>2. NamesOf(q) \in [1 .. Len(q) -> CommandNames]
  BY <1>1 DEF NamesOf, Command
<1>3. NamesOf(q) \in Seq(CommandNames)
  BY <1>1, <1>2, SeqDef
<1> QED
  BY <1>1, <1>2, <1>3, LenProperties DEF NamesOf

LEMMA NamesPop ==
  ASSUME NEW q \in Seq(Command), q # <<>>
  PROVE  /\ NamesOf(q) # <<>> /\ Head(NamesOf(q)) = Head(q).name
         /\ Head(q).name \in CommandNames
         /\ NamesOf(Tail(q)) = Tail(NamesOf(q))
<1>1. Len(q) \in Nat \ {0}
  BY EmptySeq
<1>2. NamesOf(q) # <<>>
  BY <1>1, NamesType, EmptySeq
<1>3. Head(NamesOf(q)) = Head(q).name /\ Head(q).name \in CommandNames
  <2>1. NamesOf(q)[1] = q[1].name
    BY <1>1, NamesType
  <2>2. Head(q) = q[1] /\ Head(NamesOf(q)) = NamesOf(q)[1]
    BY <1>2, NamesType
  <2>3. Head(q) \in Command
    BY HeadTailProperties
  <2> QED
    BY <2>1, <2>2, <2>3 DEF Command
<1>4. PICK t \in Seq(Command) : /\ t = Tail(q) /\ Len(t) = Len(q) - 1
                                /\ \A i \in 1 .. Len(t) : t[i] = q[i + 1]
  BY HeadTailProperties
<1>5. PICK u \in Seq(CommandNames) : /\ u = Tail(NamesOf(q)) /\ Len(u) = Len(q) - 1
                                     /\ \A i \in 1 .. Len(u) : u[i] = NamesOf(q)[i + 1]
  <2>1. PICK n \in Seq(CommandNames) : n = NamesOf(q) /\ Len(n) = Len(q) /\ n # <<>>
    BY <1>2, NamesType
  <2>2. /\ Tail(n) \in Seq(CommandNames) /\ Len(Tail(n)) = Len(n) - 1
        /\ \A i \in 1 .. Len(Tail(n)) : Tail(n)[i] = n[i + 1]
    BY <2>1, HeadTailProperties
  <2> QED
    BY <2>1, <2>2
<1>6. /\ NamesOf(t) \in Seq(CommandNames) /\ Len(NamesOf(t)) = Len(t)
      /\ \A i \in 1 .. Len(t) : NamesOf(t)[i] = t[i].name
  BY NamesType
<1>7. \A i \in 1 .. Len(q) - 1 : NamesOf(t)[i] = u[i]
  <2> SUFFICES ASSUME NEW i \in 1 .. Len(q) - 1 PROVE NamesOf(t)[i] = u[i]
    OBVIOUS
  <2>1. i \in 1 .. Len(t) /\ i + 1 \in 1 .. Len(q)
    BY <1>1, <1>4
  <2>2. NamesOf(t)[i] = q[i + 1].name
    BY <1>4, <1>6, <2>1
  <2>3. NamesOf(q)[i + 1] = q[i + 1].name
    BY <2>1, NamesType
  <2>4. u[i] = NamesOf(q)[i + 1]
    BY <1>4, <1>5, <2>1
  <2> QED
    BY <2>2, <2>3, <2>4
<1>8. NamesOf(t) = u
  BY <1>4, <1>5, <1>6, <1>7, SeqEqual
<1> QED
  BY <1>2, <1>3, <1>4, <1>5, <1>8

LEMMA NamesAppend ==
  ASSUME NEW q \in Seq(Command), NEW c \in Command
  PROVE  NamesOf(Append(q, c)) = Append(NamesOf(q), c.name)
<1>1. /\ Append(q, c) \in Seq(Command) /\ Len(Append(q, c)) = Len(q) + 1
      /\ \A i \in 1 .. Len(q) + 1 : Append(q, c)[i] = IF i <= Len(q) THEN q[i] ELSE c
      /\ Len(q) \in Nat /\ c.name \in CommandNames
  BY AppendProperties, LenProperties DEF Command
<1>2. /\ NamesOf(q) \in Seq(CommandNames) /\ Len(NamesOf(q)) = Len(q)
      /\ \A i \in 1 .. Len(q) : NamesOf(q)[i] = q[i].name
  BY NamesType
<1>3. /\ Append(NamesOf(q), c.name) \in Seq(CommandNames)
      /\ Len(Append(NamesOf(q), c.name)) = Len(q) + 1
      /\ \A i \in 1 .. Len(q) + 1 : Append(NamesOf(q), c.name)[i]
                                      = IF i <= Len(q) THEN NamesOf(q)[i] ELSE c.name
  BY <1>1, <1>2, AppendProperties
<1>4. /\ NamesOf(Append(q, c)) \in Seq(CommandNames)
      /\ Len(NamesOf(Append(q, c))) = Len(q) + 1
      /\ \A i \in 1 .. Len(q) + 1 : NamesOf(Append(q, c))[i] = Append(q, c)[i].name
  BY <1>1, NamesType
<1>5. \A i \in 1 .. Len(q) + 1 : NamesOf(Append(q, c))[i] = Append(NamesOf(q), c.name)[i]
  BY <1>1, <1>2, <1>3, <1>4
<1> QED
  BY <1>3, <1>4, <1>5, SeqEqual

(* A command taken from the channel, as the clients see it.                *)
LEMMA PopSeen ==
  ASSUME TypeOK, queue # <<>>, Pop
  PROVE  /\ EngineQueue # <<>> /\ Head(EngineQueue) = Head(queue).name
         /\ EngineQueue' = Tail(EngineQueue)
         /\ Head(queue).name \in CommandNames
BY NamesPop DEF TypeOK, Pop, NamesOf, EngineQueue

LEMMA QueueKept ==
  ASSUME UNCHANGED queue
  PROVE  EngineQueue' = EngineQueue
BY DEF EngineQueue

EngineSeen == <<state, EnginePhase, EngineStarting, EngineQueue, active, pending,
                isClockMode, transport>>

LEMMA EngineStart == Init => Clients!EngineInit
<1> SUFFICES ASSUME Init PROVE Clients!EngineInit
  OBVIOUS
<1>1. EnginePhase = "Ready" /\ EngineStarting = "None"
  BY SeenFromHolds DEF SeenFrom, Init
<1>2. EngineQueue = <<>>
  BY DEF Init, EngineQueue
<1> QED
  BY <1>1, <1>2 DEF Init, Clients!EngineInit

(* handle_stopped *)
LEMMA EngineStopped ==
  TypeOK /\ HandleStopped => Clients!BeginOrWait \/ Clients!StoppedDrop
<1> SUFFICES ASSUME TypeOK, HandleStopped
             PROVE  Clients!BeginOrWait \/ Clients!StoppedDrop
  OBVIOUS
<1> USE DEF AtStopped, Receives, store, device, control
<1>1. /\ pc = "Loop" /\ state = "Stopped" /\ queue # <<>> /\ Pop
      /\ UNCHANGED <<active, pending, isClockMode, transport>>
  BY DEF HandleStopped, StoppedStart, StoppedClockStart, StoppedStage, StoppedIgnore
<1>2. /\ EngineQueue # <<>> /\ Head(EngineQueue) = Head(queue).name
      /\ EngineQueue' = Tail(EngineQueue)
      /\ EnginePhase = "Ready" /\ EngineStarting = "None"
  BY <1>1, PopSeen, SeenFromHolds DEF SeenFrom
<1> USE DEF Clients!Ready, Clients!Receives, Clients!Pop, Clients!StartCommands,
            Clients!LoopCommand
<1>3. CASE StoppedStart /\ active = None
  <2>1. state' = "Waiting" /\ pc' = "Loop" /\ Head(queue).name # "ClockStart"
    BY <1>1, <1>3 DEF StoppedStart
  <2>2. EnginePhase' = "Ready" /\ EngineStarting' = "None"
    BY <2>1, SeenFromHolds DEF SeenFrom
  <2> QED
    BY <1>1, <1>2, <1>3, <2>1, <2>2 DEF StoppedStart, Clients!BeginOrWait
<1>4. CASE (StoppedStart /\ active # None) \/ StoppedClockStart
  <2>1. /\ state' = state /\ pc' = "Init" /\ call' = Head(queue).name
        /\ Head(queue).name \in {"Start", "ClockStart", "SyncStart", "SyncContinue"}
        /\ active # None \/ Head(queue).name = "ClockStart"
    BY <1>4 DEF StoppedStart, StoppedClockStart, Goto
  <2>2. EnginePhase' = "Starting" /\ EngineStarting' = Head(queue).name
    BY <2>1, SeenFromHolds DEF SeenFrom
  <2> QED
    BY <1>1, <1>2, <2>1, <2>2 DEF Clients!BeginOrWait
<1>5. CASE StoppedStage \/ StoppedIgnore
  <2>1. /\ UNCHANGED <<state, pc>>
        /\ Head(queue).name \in {"SyncSongPosition", "SyncBpmUpdate", "Stop", "ClockStop",
                                 "SyncStop", "ClockPause", "ClockResume"}
    BY <1>5 DEF StoppedStage, StoppedIgnore
  <2>2. EnginePhase' = "Ready" /\ EngineStarting' = "None"
    BY <1>1, <2>1, SeenFromHolds DEF SeenFrom
  <2> QED
    BY <1>1, <1>2, <2>1, <2>2 DEF Clients!StoppedDrop
<1> QED
  BY <1>3, <1>4, <1>5 DEF HandleStopped

(* init_running_from_project and what follows it *)
LEMMA EngineInitProject ==
  TransportInv /\ InitProject => Clients!StartRunning \/ Clients!Panic
<1> SUFFICES ASSUME TransportInv, InitProject
             PROVE  Clients!StartRunning \/ Clients!Panic
  OBVIOUS
<1> USE DEF store, device
<1>1. pc = "Init" /\ EnginePhase = "Starting" /\ EngineStarting = call
  BY SeenFromHolds DEF SeenFrom, InitProject, InitRunning, InitPanic
<1>2. CASE InitRunning
  <2>1. /\ active # None /\ UNCHANGED <<active, pending, queue>>
        /\ isClockMode' = CASE EngineStarting = "Start" -> FALSE
                            [] EngineStarting = "ClockStart" -> TRUE
                            [] OTHER -> isClockMode
        /\ transport' = IF EngineStarting = "ClockStart" THEN "rolling" ELSE transport
    BY <1>1, <1>2 DEF InitRunning
  <2>2. EngineQueue' = EngineQueue
    BY <2>1, QueueKept
  <2>3. CASE call = "SyncContinue" /\ pendingSongPosition # None
    <3>1. pc' = "Setup" /\ UNCHANGED state
      BY <1>2, <2>3 DEF InitRunning, Locate, Goto
    <3>2. state = "Stopped"
      BY <1>1, <2>3 DEF TransportInv, StateAgrees
    <3>3. EnginePhase' = "Locating" /\ EngineStarting' = "None"
      BY <3>1, <3>2, SeenFromHolds DEF SeenFrom, Building
    <3> QED
      BY <1>1, <2>1, <2>2, <2>3, <3>1, <3>3 DEF Clients!StartRunning
  <2>4. CASE ~(call = "SyncContinue" /\ pendingSongPosition # None)
    <3>1. pc' = "Loop" /\ state' = "Running"
      BY <1>2, <2>4 DEF InitRunning
    <3>2. EnginePhase' = "Ready" /\ EngineStarting' = "None"
      BY <3>1, SeenFromHolds DEF SeenFrom
    <3> QED
      BY <1>1, <2>1, <2>2, <3>1, <3>2 DEF Clients!StartRunning
  <2> QED
    BY <2>3, <2>4
<1>3. CASE InitPanic
  <2>1. /\ active = None /\ pc' = "Dead" /\ queue' = <<>>
        /\ UNCHANGED <<state, call, active, pending, isClockMode, transport>>
    BY <1>3 DEF InitPanic
  <2>2. EnginePhase' = "Dead" /\ EngineStarting' = EngineStarting
    BY <1>1, <2>1, SeenFromHolds DEF SeenFrom
  <2>3. EngineQueue' = <<>>
    BY <2>1 DEF EngineQueue
  <2> QED
    BY <1>1, <2>1, <2>2, <2>3 DEF Clients!Panic
<1> QED
  BY <1>2, <1>3 DEF InitProject

(* handle_waiting *)
LEMMA EngineWaiting ==
  TypeOK /\ TransportInv /\ HandleWaiting =>
    Clients!Promote \/ Clients!WaitingReceive \/ UNCHANGED EngineSeen
<1> SUFFICES ASSUME TypeOK, TransportInv, HandleWaiting
             PROVE  Clients!Promote \/ Clients!WaitingReceive \/ UNCHANGED EngineSeen
  OBVIOUS
<1> USE DEF WaitingUnchanged, Goto, store, device, Clients!Ready
<1>0. state = "Waiting" /\ UNCHANGED <<isClockMode, transport>>
  BY DEF HandleWaiting, WaitPoll, WaitCommit, WaitCheck, WaitReceive, TransportInv,
         StateAgrees, Awaiting
<1>1. CASE WaitPoll
  <2>1. /\ pc = "Loop" /\ pc' \in {"WaitCheck", "WaitCommit"} /\ call' = "None"
        /\ UNCHANGED <<state, queue, active, pending>>
    BY <1>1 DEF WaitPoll
  <2>2. UNCHANGED <<EnginePhase, EngineStarting, EngineQueue>>
    BY <2>1, QueueKept, SeenFromHolds DEF SeenFrom
  <2> QED
    BY <1>0, <2>1, <2>2 DEF EngineSeen
<1>2. CASE WaitCommit
  <2>1. /\ pc = "WaitCommit" /\ pc' = "WaitCheck" /\ UNCHANGED <<state, queue>>
        /\ active' = (IF pending # None THEN pending ELSE active) /\ pending' = None
        /\ call' = IF pending # None THEN "Promoted" ELSE "None"
    BY <1>2 DEF WaitCommit
  <2>2. EnginePhase = "Ready" /\ EngineStarting = "None" /\ EngineQueue' = EngineQueue
    BY <2>1, QueueKept, SeenFromHolds DEF SeenFrom
  <2>3. IF pending # None
          THEN EnginePhase' = "Starting" /\ EngineStarting' = "Promoted"
          ELSE EnginePhase' = "Ready" /\ EngineStarting' = "None"
    BY <2>1, SeenFromHolds DEF SeenFrom
  <2>4. CASE pending # None
    BY <1>0, <2>1, <2>2, <2>3, <2>4 DEF Clients!Promote
  <2>5. CASE pending = None
    BY <1>0, <2>1, <2>2, <2>3, <2>5 DEF EngineSeen
  <2> QED
    BY <2>4, <2>5
<1>3. CASE WaitCheck
  <2>1. pc = "WaitCheck" /\ UNCHANGED <<state, queue, active, pending>>
    BY <1>3 DEF WaitCheck
  <2>2. EngineQueue' = EngineQueue
    BY <2>1, QueueKept
  <2>3. CASE call = "Promoted"
    <3>1. pc' = "Init" /\ call' = "Promoted"
      BY <1>3, <2>3 DEF WaitCheck
    <3>2. UNCHANGED <<EnginePhase, EngineStarting>>
      BY <2>1, <2>3, <3>1, SeenFromHolds DEF SeenFrom
    <3> QED
      BY <1>0, <2>1, <2>2, <3>2 DEF EngineSeen
  <2>4. CASE call # "Promoted" /\ active # None
    <3>1. pc' = "Init" /\ call' = "Promoted"
      BY <1>3, <2>4 DEF WaitCheck
    <3>2. /\ EnginePhase = "Ready" /\ EnginePhase' = "Starting"
          /\ EngineStarting' = "Promoted"
      BY <2>1, <2>4, <3>1, SeenFromHolds DEF SeenFrom
    <3> QED
      BY <1>0, <2>1, <2>2, <2>4, <3>2 DEF Clients!Promote
  <2>5. CASE call # "Promoted" /\ active = None
    <3>1. pc' = "WaitReceive"
      BY <1>3, <2>5 DEF WaitCheck
    <3>2. UNCHANGED <<EnginePhase, EngineStarting>>
      BY <2>1, <2>5, <3>1, SeenFromHolds DEF SeenFrom
    <3> QED
      BY <1>0, <2>1, <2>2, <3>2 DEF EngineSeen
  <2> QED
    BY <2>3, <2>4, <2>5
<1>4. CASE WaitReceive
  <2>1. pc = "WaitReceive" /\ pc' = "Loop" /\ UNCHANGED <<active, pending>>
    BY <1>4 DEF WaitReceive
  <2>2. EnginePhase = "Ready" /\ UNCHANGED <<EnginePhase, EngineStarting>>
    BY <2>1, SeenFromHolds DEF SeenFrom
  <2>3. CASE queue = <<>>
    <3>1. UNCHANGED <<state, queue>>
      BY <1>4, <2>3 DEF WaitReceive, Receives
    <3> QED
      BY <1>0, <2>1, <2>2, <3>1, QueueKept DEF EngineSeen
  <2>4. CASE queue # <<>>
    <3>1. Pop /\ state' = IF Head(queue).name \in {"Stop", "SyncStop"} THEN "Stopped" ELSE state
      BY <1>4, <2>4 DEF WaitReceive, Receives, Pop
    <3>2. /\ EngineQueue # <<>> /\ Head(EngineQueue) = Head(queue).name
          /\ EngineQueue' = Tail(EngineQueue)
      BY <2>4, <3>1, PopSeen
    <3> QED
      BY <1>0, <2>1, <2>2, <3>1, <3>2
      DEF Clients!WaitingReceive, Clients!Receives, Clients!Pop
  <2> QED
    BY <2>3, <2>4
<1> QED
  BY <1>1, <1>2, <1>3, <1>4 DEF HandleWaiting

(* build_loop_events.  A build for a pass, or for a loop that runs, is not *)
(* seen; one that locates a loop at rest ends in Running or Paused.        *)
LEMMA DeliverSeen ==
  ASSUME TransportInv, pc \in {"Collect", "Idle"}, UNCHANGED queue,
         \/ Return(state)
         \/ call = "Pass" /\ pc' = "Play" /\ UNCHANGED state
  PROVE  /\ EnginePhase' = "Ready" /\ EngineStarting = "None" /\ EngineStarting' = "None"
         /\ EngineQueue' = EngineQueue
         /\ state' = IF state = "Stopped" THEN "Running" ELSE state
<1>1. pc' \in {"Loop", "Play"}
  BY DEF Return
<1>2. EnginePhase' = "Ready" /\ EngineStarting' = "None"
  BY <1>1, SeenFromHolds DEF SeenFrom, Playing
<1>3. EngineStarting = "None"
  BY SeenFromHolds DEF SeenFrom, Building
<1>4. state' = IF state = "Stopped" THEN "Running" ELSE state
  BY BuildingFacts DEF Return, Building
<1> QED
  BY <1>2, <1>3, <1>4, QueueKept

LEMMA EngineBuild ==
  TypeOK /\ TransportInv /\ BuildLoopEvents =>
    Clients!LocateEnds \/ Clients!BlindEnds \/ UNCHANGED EngineSeen
<1> SUFFICES ASSUME TypeOK, TransportInv, BuildLoopEvents
             PROVE  Clients!LocateEnds \/ Clients!BlindEnds \/ UNCHANGED EngineSeen
  OBVIOUS
<1> USE DEF store, device
<1>0. UNCHANGED <<queue, active, pending, isClockMode, transport>>
  BY DEF BuildLoopEvents, Setup, CollectProject, CollectPulses, CollectNothing, IdleEmpty
<1>1. CASE Setup
  <2>1. pc = "Setup" /\ pc' = "Collect" /\ UNCHANGED state
    BY <1>1 DEF Setup, Goto
  <2>2. UNCHANGED <<EnginePhase, EngineStarting>>
    BY <2>1, SeenFromHolds DEF SeenFrom, Building
  <2> QED
    BY <1>0, <2>1, <2>2, QueueKept DEF EngineSeen
<1>2. CASE CollectProject \/ CollectPulses
  <2>1. pc = "Collect" /\ (active # None \/ isClockMode)
    BY <1>2 DEF CollectProject, CollectPulses
  <2>2. Return(state) \/ (call = "Pass" /\ pc' = "Play" /\ UNCHANGED state)
    BY <1>2 DEF CollectProject, CollectPulses, Deliver, StartPlaying
  <2>3. /\ EnginePhase' = "Ready" /\ EngineStarting = "None" /\ EngineStarting' = "None"
        /\ EngineQueue' = EngineQueue
        /\ state' = IF state = "Stopped" THEN "Running" ELSE state
    BY <1>0, <2>1, <2>2, DeliverSeen
  <2>4. CASE state = "Running"
    <3>1. EnginePhase = "Ready"
      BY <2>1, <2>4, SeenFromHolds DEF SeenFrom, Building
    <3> QED
      BY <1>0, <2>3, <2>4, <3>1 DEF EngineSeen
  <2>5. CASE state # "Running"
    <3>1. EnginePhase = "Locating"
      BY <2>1, <2>5, SeenFromHolds DEF SeenFrom
    <3> QED
      BY <1>0, <2>1, <2>3, <3>1 DEF Clients!LocateEnds
  <2> QED
    BY <2>4, <2>5
<1>3. CASE CollectNothing
  <2>1. pc = "Collect" /\ pc' = "Idle" /\ UNCHANGED state /\ active = None /\ ~isClockMode
    BY <1>3 DEF CollectNothing, Goto
  <2>2. EngineStarting = "None" /\ EngineStarting' = "None" /\ EngineQueue' = EngineQueue
    BY <1>0, <2>1, QueueKept, SeenFromHolds DEF SeenFrom, Building
  <2>3. CASE state = "Running"
    <3>1. EnginePhase = "Ready" /\ EnginePhase' = "Ready"
      BY <2>1, <2>3, SeenFromHolds DEF SeenFrom, Building
    <3> QED
      BY <1>0, <2>1, <2>2, <3>1 DEF EngineSeen
  <2>4. CASE state # "Running"
    <3>1. EnginePhase = "Locating" /\ EnginePhase' = "Blind"
      BY <2>1, <2>4, SeenFromHolds DEF SeenFrom
    <3> QED
      BY <1>0, <2>1, <2>2, <3>1 DEF Clients!LocateEnds
  <2> QED
    BY <2>3, <2>4
<1>4. CASE IdleEmpty
  <2>1. pc = "Idle" /\ queue = <<>> /\ Return(state)
    BY <1>4 DEF IdleEmpty
  <2>2. /\ EnginePhase' = "Ready" /\ EngineStarting = "None" /\ EngineStarting' = "None"
        /\ EngineQueue' = EngineQueue
        /\ state' = IF state = "Stopped" THEN "Running" ELSE state
    BY <1>0, <2>1, DeliverSeen
  <2>3. CASE state = "Running"
    <3>1. EnginePhase = "Ready"
      BY <2>1, <2>3, SeenFromHolds DEF SeenFrom, Building
    <3> QED
      BY <1>0, <2>2, <2>3, <3>1 DEF EngineSeen
  <2>4. CASE state # "Running"
    <3>1. EnginePhase = "Blind"
      BY <2>1, <2>4, SeenFromHolds DEF SeenFrom
    <3>2. EngineQueue = <<>>
      BY <2>1 DEF EngineQueue
    <3> QED
      BY <1>0, <2>2, <3>1, <3>2 DEF Clients!BlindEnds, Clients!ReturnTo
  <2> QED
    BY <2>3, <2>4
<1> QED
  BY <1>1, <1>2, <1>3, <1>4 DEF BuildLoopEvents

(* handle_mid_loop_command *)
LEMMA MidLoopSeen ==
  ASSUME TypeOK, TransportInv, MidLoop, queue # <<>>, Pop
  PROVE  /\ Clients!MidLoop /\ EngineStarting = "None"
         /\ EngineQueue # <<>> /\ Head(EngineQueue) = Head(queue).name
         /\ EngineQueue' = Tail(EngineQueue)
         /\ Head(queue).name \in CommandNames
         /\ (call = "RepositionRun") <=> (EnginePhase = "Blind" /\ state = "Stopped")
<1>1. EngineStarting = "None"
  BY MidLoopFacts, SeenFromHolds DEF SeenFrom, Playing
<1>2. CASE pc \in {"Play", "AfterEvent"} /\ call = "None" /\ state = "Running"
  <2>1. EnginePhase = "Ready"
    BY <1>2, SeenFromHolds DEF SeenFrom, Playing
  <2> QED
    BY <1>1, <1>2, <2>1, PopSeen DEF Clients!MidLoop, Clients!Ready
<1>3. CASE pc = "Idle" /\ pc \in Building
  <2>1. EnginePhase = IF state # "Running" THEN "Blind" ELSE "Ready"
    BY <1>3, SeenFromHolds DEF SeenFrom
  <2>2. (call = "RepositionRun") <=> (state = "Stopped")
    BY <1>3, BuildingFacts
  <2> QED
    BY <1>1, <2>1, <2>2, PopSeen DEF Clients!MidLoop, Clients!Ready
<1> QED
  BY <1>2, <1>3, MidLoopFacts

(* The end of a command that leaves the list: Return is ReturnTo.          *)
LEMMA ReturnSeen ==
  ASSUME NEW s, Return(s), (call = "RepositionRun") <=> (EnginePhase = "Blind" /\ state = "Stopped")
  PROVE  Clients!ReturnTo(s) /\ EngineStarting' = "None"
<1>1. EnginePhase' = "Ready" /\ EngineStarting' = "None"
  BY SeenFromHolds DEF SeenFrom, Return
<1> QED
  BY <1>1 DEF Return, Clients!ReturnTo

LEMMA ProceedSeen ==
  ASSUME TransportInv, MidLoop, Proceed,
         (call = "RepositionRun") <=> (EnginePhase = "Blind" /\ state = "Stopped")
  PROVE  Clients!ReturnTo(state) /\ EngineStarting' = "None"
<1>1. CASE pc = "Idle"
  BY <1>1, ReturnSeen DEF Proceed
<1>2. CASE pc # "Idle"
  <2>1. pc' = "Play" /\ state' = state /\ state = "Running"
    BY <1>2, MidLoopFacts DEF Proceed
  <2>2. EnginePhase' = "Ready" /\ EngineStarting' = "None"
    BY <2>1, SeenFromHolds DEF SeenFrom, Playing
  <2> QED
    BY <2>1, <2>2 DEF Clients!ReturnTo
<1> QED
  BY <1>1, <1>2

LEMMA EngineMidLoop ==
  TypeOK /\ TransportInv /\ MidLoopCommand =>
    Clients!MidLoopStop \/ Clients!MidLoopPause \/ Clients!MidLoopOther
<1> SUFFICES ASSUME TypeOK, TransportInv, MidLoopCommand
             PROVE  Clients!MidLoopStop \/ Clients!MidLoopPause \/ Clients!MidLoopOther
  OBVIOUS
<1> USE DEF Receives, store, device
<1>1. MidLoop /\ queue # <<>> /\ Pop /\ UNCHANGED <<active, pending>>
  BY DEF MidLoopCommand, MidLoopStop, MidLoopPause, MidLoopSyncStart, MidLoopSyncContinue,
         MidLoopTempo, MidLoopIgnore
<1>2. /\ Clients!MidLoop /\ EngineStarting = "None"
      /\ EngineQueue # <<>> /\ Head(EngineQueue) = Head(queue).name
      /\ EngineQueue' = Tail(EngineQueue)
      /\ Head(queue).name \in CommandNames
      /\ (call = "RepositionRun") <=> (EnginePhase = "Blind" /\ state = "Stopped")
  BY <1>1, MidLoopSeen
<1> USE DEF Clients!Receives, Clients!Pop, Clients!LoopCommand
<1>3. CASE MidLoopStop
  <2>1. /\ Head(queue).name \in {"Stop", "ClockStop"}
        /\ isClockMode' = FALSE
        /\ transport' = IF Head(queue).name = "ClockStop" \/ isClockMode THEN "stopped"
                                                                       ELSE transport
        /\ Return("Stopped")
    BY <1>3 DEF MidLoopStop, DoStop
  <2>2. Clients!ReturnTo("Stopped") /\ EngineStarting' = "None"
    BY <1>2, <2>1, ReturnSeen
  <2> QED
    BY <1>1, <1>2, <2>1, <2>2 DEF Clients!MidLoopStop
<1>4. CASE MidLoopPause
  <2>1. /\ Head(queue).name \in {"ClockPause", "SyncStop"} /\ Return("Paused")
        /\ UNCHANGED <<isClockMode, transport>>
    BY <1>4 DEF MidLoopPause
  <2>2. Clients!ReturnTo("Paused") /\ EngineStarting' = "None"
    BY <1>2, <2>1, ReturnSeen
  <2> QED
    BY <1>1, <1>2, <2>1, <2>2 DEF Clients!MidLoopPause
<1>5. CASE MidLoopSyncStart \/ MidLoopTempo \/ MidLoopIgnore
  <2>1. /\ Head(queue).name \in {"SyncStart", "SyncBpmUpdate", "Start", "ClockStart",
                                 "ClockResume", "SyncSongPosition"}
        /\ Return(state) \/ Proceed
        /\ UNCHANGED <<isClockMode, transport>>
    BY <1>5 DEF MidLoopSyncStart, DoSyncRestart, MidLoopTempo, MidLoopIgnore
  <2>2. Clients!ReturnTo(state) /\ EngineStarting' = "None"
    BY <1>1, <1>2, <2>1, ReturnSeen, ProceedSeen
  <2> QED
    BY <1>1, <1>2, <2>1, <2>2 DEF Clients!MidLoopOther
<1>6. CASE MidLoopSyncContinue
  <2>1. /\ Head(queue).name = "SyncContinue" /\ pc' = "Setup"
        /\ UNCHANGED <<state, isClockMode, transport>>
    BY <1>6 DEF MidLoopSyncContinue, Goto
  <2>2. EngineStarting' = "None" /\ EnginePhase' = IF state = "Running" THEN "Ready" ELSE "Locating"
    BY <2>1, SeenFromHolds DEF SeenFrom, Building
  <2>3. (EnginePhase = "Blind") <=> (state # "Running")
    <3>1. CASE pc = "Idle"
      BY <3>1, SeenFromHolds DEF SeenFrom, Building
    <3>2. CASE pc # "Idle"
      BY <1>1, <3>2, MidLoopFacts, SeenFromHolds DEF SeenFrom, Playing
    <3> QED
      BY <3>1, <3>2
  <2> QED
    BY <1>1, <1>2, <2>1, <2>2, <2>3 DEF Clients!MidLoopOther, Clients!ReturnTo
<1> QED
  BY <1>3, <1>4, <1>5, <1>6 DEF MidLoopCommand

(* handle_running and advance_loop: of a pass, clients see its commit.     *)
LEMMA EngineRunning ==
  TransportInv /\ (HandleRunning \/ AdvanceLoop) =>
    Clients!CommitPending \/ UNCHANGED EngineSeen
<1> SUFFICES ASSUME TransportInv, HandleRunning \/ AdvanceLoop
             PROVE  Clients!CommitPending \/ UNCHANGED EngineSeen
  OBVIOUS
<1> USE DEF Goto, store, device
<1>1. /\ state = "Running" /\ UNCHANGED <<state, queue, isClockMode, transport>>
      /\ pc \in {"Loop", "Play", "AfterEvent", "Publish", "Retime"}
      /\ pc' \in {"Loop", "Play", "AfterEvent", "Publish", "Retime", "Setup"}
  BY DEF HandleRunning, RunResume, RunBuild, Fire, AfterEventEmpty, StartPlaying, Emit,
         AdvanceLoop, AdvanceCommit, AdvancePublish, AdvanceRetime, TransportInv,
         StateAgrees, Playing
<1>2. /\ EnginePhase = "Ready" /\ EngineStarting = "None" /\ EngineQueue' = EngineQueue
      /\ EnginePhase' = "Ready" /\ EngineStarting' = "None"
  BY <1>1, QueueKept, SeenFromHolds DEF SeenFrom, Playing, Building
<1>3. CASE AdvanceCommit /\ pending # None
  BY <1>1, <1>2, <1>3 DEF AdvanceCommit, Clients!CommitPending, Clients!Ready
<1>4. CASE ~(AdvanceCommit /\ pending # None)
  <2>1. UNCHANGED <<active, pending>>
    BY <1>4 DEF HandleRunning, RunResume, RunBuild, Fire, AfterEventEmpty,
                AdvanceLoop, AdvanceCommit, AdvancePublish, AdvanceRetime
  <2> QED
    BY <1>1, <1>2, <2>1 DEF EngineSeen
<1> QED
  BY <1>3, <1>4

(* handle_paused *)
LEMMA EnginePaused ==
  TypeOK /\ TransportInv /\ HandlePaused =>
    Clients!PausedResume \/ Clients!PausedLocate \/ Clients!PausedStop \/ Clients!PausedDrop
<1> SUFFICES ASSUME TypeOK, TransportInv, HandlePaused
             PROVE  \/ Clients!PausedResume \/ Clients!PausedLocate
                    \/ Clients!PausedStop \/ Clients!PausedDrop
  OBVIOUS
<1> USE DEF AtPaused, Receives, store, device, control
<1>1. /\ pc = "Loop" /\ state = "Paused" /\ queue # <<>> /\ Pop
      /\ UNCHANGED <<active, pending>>
  BY DEF HandlePaused, PausedResume, PausedSyncStart, PausedLocate, PausedStop,
         PausedTempo, PausedIgnore
<1>2. /\ EngineQueue # <<>> /\ Head(EngineQueue) = Head(queue).name
      /\ EngineQueue' = Tail(EngineQueue)
      /\ EnginePhase = "Ready" /\ EngineStarting = "None"
  BY <1>1, PopSeen, SeenFromHolds DEF SeenFrom
<1>3. pc' = "Loop" => EnginePhase' = "Ready" /\ EngineStarting' = "None"
  BY SeenFromHolds DEF SeenFrom
<1> USE DEF Clients!Ready, Clients!Receives, Clients!Pop
<1>4. CASE PausedResume \/ PausedSyncStart
  <2>1. /\ pc' = "Loop" /\ state' = "Running" /\ UNCHANGED isClockMode
        /\ Head(queue).name \in {"ClockResume", "SyncContinue", "SyncStart"}
        /\ transport' = IF Head(queue).name = "ClockResume" THEN "rolling" ELSE transport
    BY <1>1, <1>4 DEF PausedResume, PausedSyncStart, DoSyncRestart
  <2> QED
    BY <1>1, <1>2, <1>3, <2>1 DEF Clients!PausedResume
<1>5. CASE PausedLocate
  <2>1. /\ pc' = "Setup" /\ UNCHANGED <<state, isClockMode, transport>>
        /\ Head(queue).name = "SyncSongPosition"
    BY <1>5 DEF PausedLocate, Locate, Goto
  <2>2. EnginePhase' = "Locating" /\ EngineStarting' = "None"
    BY <1>1, <2>1, SeenFromHolds DEF SeenFrom, Building
  <2> QED
    BY <1>1, <1>2, <2>1, <2>2 DEF Clients!PausedLocate
<1>6. CASE PausedStop
  <2>1. /\ pc' = "Loop" /\ state' = "Stopped" /\ isClockMode' = FALSE
        /\ transport' = "stopped" /\ Head(queue).name \in {"Stop", "ClockStop"}
    BY <1>1, <1>6 DEF PausedStop
  <2> QED
    BY <1>1, <1>2, <1>3, <2>1 DEF Clients!PausedStop
<1>7. CASE PausedTempo \/ PausedIgnore
  <2>1. /\ pc' = "Loop" /\ UNCHANGED <<state, isClockMode, transport>>
        /\ Head(queue).name \in {"Start", "ClockStart", "ClockPause", "SyncStop",
                                 "SyncBpmUpdate"}
    BY <1>1, <1>7 DEF PausedTempo, PausedIgnore
  <2> QED
    BY <1>1, <1>2, <1>3, <2>1 DEF Clients!PausedDrop
<1> QED
  BY <1>4, <1>5, <1>6, <1>7 DEF HandlePaused

(* The methods of LoopEngine and the handlers' writes to the store.        *)
LEMMA EngineClient ==
  TypeOK /\ (ClientStep \/ UNCHANGED vars) => Clients!ClientStep \/ UNCHANGED EngineSeen
<1> SUFFICES ASSUME TypeOK, ClientStep \/ UNCHANGED vars
             PROVE  Clients!ClientStep \/ UNCHANGED EngineSeen
  OBVIOUS
<1> USE DEF store, device, control
<1>1. /\ UNCHANGED <<state, pc, call, isClockMode, transport>>
      /\ UNCHANGED <<EnginePhase, EngineStarting>>
  BY DEF ClientStep, Send, CreateProject, ModifyProject, ClearStore, ClientUnchanged,
         vars, EnginePhase, EngineStarting
<1>2. ASSUME NEW c \in Commands, Send(c) PROVE Clients!ClientStep
  <2>1. /\ Len(queue) < QueueBound /\ UNCHANGED <<active, pending>>
        /\ queue' = IF pc = "Dead" THEN queue ELSE Append(queue, c)
    BY <1>2 DEF Send
  <2>2. Len(EngineQueue) = Len(queue)
    BY NamesType DEF TypeOK, EngineQueue, NamesOf
  <2>3. c.name \in Clients!LoopCommand /\ c \in Command
    BY EnvironmentAssumption DEF Command, CommandNames, Clients!LoopCommand
  <2>4. (pc = "Dead") <=> (EnginePhase = "Dead")
    BY DEF EnginePhase
  <2>5. EngineQueue' = IF EnginePhase = "Dead" THEN EngineQueue ELSE Append(EngineQueue, c.name)
    <3>1. CASE pc = "Dead"
      BY <2>1, <2>4, <3>1, QueueKept
    <3>2. CASE pc # "Dead"
      <4>1. NamesOf(queue') = Append(NamesOf(queue), c.name)
        BY <2>1, <2>3, <3>2, NamesAppend DEF TypeOK
      <4> QED
        BY <2>4, <3>2, <4>1 DEF EngineQueue, NamesOf
    <3> QED
      BY <3>1, <3>2
  <2>6. Clients!Send(c.name)
    BY <1>1, <2>1, <2>2, <2>5 DEF Clients!Send
  <2> QED
    BY <2>3, <2>6 DEF Clients!ClientStep
<1>3. ASSUME NEW p \in Project, CreateProject(p) \/ ModifyProject(p)
      PROVE  Clients!ClientStep
  <2>1. EngineQueue' = EngineQueue
    BY <1>3, QueueKept DEF CreateProject, ModifyProject
  <2>2. Clients!SetActive(p) \/ Clients!SetPending(p)
    BY <1>1, <1>3, <2>1
    DEF CreateProject, ModifyProject, Clients!SetActive, Clients!SetPending,
        Clients!StoreUnchanged
  <2> QED
    BY <2>2 DEF Clients!ClientStep
<1>4. CASE ClearStore
  <2>1. EngineQueue' = EngineQueue
    BY <1>4, QueueKept DEF ClearStore
  <2>2. Clients!Clear
    BY <1>1, <1>4, <2>1 DEF ClearStore, Clients!Clear, Clients!StoreUnchanged
  <2> QED
    BY <2>2 DEF Clients!ClientStep
<1>5. CASE UNCHANGED vars
  <2>1. UNCHANGED <<queue, active, pending>>
    BY <1>5 DEF vars
  <2> QED
    BY <1>1, <2>1, QueueKept DEF EngineSeen
<1> QED
  BY <1>2, <1>3, <1>4, <1>5 DEF ClientStep

-----------------------------------------------------------------------------
LEMMA EngineStepImplements ==
  TypeOK /\ TransportInv /\ [Next]_vars =>
    [Clients!EngineStep \/ Clients!ClientStep]_(Clients!engineVars)
<1> SUFFICES ASSUME TypeOK, TransportInv, [Next]_vars
             PROVE  Clients!EngineStep \/ Clients!ClientStep \/ UNCHANGED EngineSeen
  BY DEF EngineSeen, Clients!engineVars
<1>1. CASE PlayerStep
  <2>1. Clients!EngineStep \/ UNCHANGED EngineSeen
    BY <1>1, EngineStopped, EngineInitProject, EngineWaiting, EngineBuild, EngineMidLoop,
       EngineRunning, EnginePaused
    DEF PlayerStep, Clients!EngineStep
  <2> QED
    BY <2>1
<1>2. CASE ClientStep \/ UNCHANGED vars
  BY <1>2, EngineClient
<1> QED
  BY <1>1, <1>2 DEF Next

(* Engine is what the daemon's handlers and the sync receiver are checked  *)
(* against in place of the thread, and the thread implements it: which     *)
(* commands it hears in which state, when a queued project replaces the    *)
(* active one, when it starts, pauses, stops or dies, and what slaves are  *)
(* told, for every interleaving of its accesses with its clients'.         *)
THEOREM PlayerImplementsEngine == Spec => ImplementsEngine
BY EngineStart, EngineStepImplements, TypeCorrect, TransportInvariant, PTL
DEF Spec, ImplementsEngine, Clients!EngineSpec

=============================================================================
