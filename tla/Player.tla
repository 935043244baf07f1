------------------------------- MODULE Player -------------------------------
(***************************************************************************)
(* The player thread of propeller (loop_engine/player.rs): PlayerLoop::run *)
(* and everything it calls, with the command channel that feeds it, the    *)
(* project store it shares with the IPC handlers and the MIDI device it    *)
(* drives.                                                                 *)
(*                                                                         *)
(* Atomicity.  One action is one access to shared state: one receive on    *)
(* the channel, one acquisition of the store's lock, one published         *)
(* position.  Work on private state belongs to the action it follows.  pc  *)
(* says where the thread is between two accesses.                          *)
(*                                                                         *)
(* Time.  Deadlines are abstracted to "the deadline has passed or it has   *)
(* not": while the thread waits for its next event it may receive a        *)
(* command (sleep_until_with_poll) or fire the event.                      *)
(*                                                                         *)
(* Clients.  Any command of Commands may be sent at any time, and the      *)
(* store may be written at any time by the operations in StoreOps: the     *)
(* handlers do no more than that.                                          *)
(***************************************************************************)
EXTENDS LoopEvents, Sequences

CONSTANTS
  None,          \* Option::None
  Commands,      \* the LoopCommands that clients send
  StoreOps,      \* the store operations clients use
  QueueBound,    \* bound on the length of the (unbounded) mpsc channel
  LoopCountCap   \* loop_count is exact below this bound and sticks at it

CommandNames ==
  {"Start", "Stop", "ClockStart", "ClockPause", "ClockResume", "ClockStop",
   "SyncStart", "SyncContinue", "SyncStop", "SyncSongPosition", "SyncBpmUpdate"}

(* arg is the tick of SyncSongPosition and the tempo of SyncBpmUpdate.     *)
Command == [name : CommandNames, arg : Nat]

ASSUME EnvironmentAssumption ==
  /\ Commands \subseteq Command
  /\ StoreOps \subseteq {"Create", "Modify", "Clear"}
  /\ QueueBound \in Nat
  /\ LoopCountCap \in Nat
  /\ None \notin Songs \cup Project \cup [events : SUBSET Event, loopDuration : Nat]

VARIABLES
  state,              \* EngineState, also published in shared_state
  pc,                 \* where the thread is between two shared accesses
  call,               \* on whose behalf: the command being started, or who
                      \*   asked for the event list being built
  queue,              \* the mpsc channel
  active, pending,    \* the ProjectStore
  remaining,          \* the events play_events has not fired yet
  pauseContext,       \* pause_context
  carryOver, nextCarryOver,
  loopDuration,
  loopElapsedTicks,
  currentTick, loopCount, loopDurationTicks,  \* the published position
  isClockMode,
  tempo,              \* the scheduler's rate, in tenths of a BPM
  pendingSyncBpm,     \* likewise in tenths of a BPM
  pendingSongPosition,
  configured,         \* the song whose program changes and
                      \*   pitch_bend_channels were set up last
  activeNotes,        \* NoteOns sent and not yet matched by a NoteOff
  bent,               \* channels whose last pitch bend is off centre
  transport           \* what the last 0xFA/0xFB/0xFC told the slaves

control == <<state, pc, call>>
store == <<active, pending>>
carries == <<carryOver, nextCarryOver>>
position == <<currentTick, loopCount>>
timing == <<tempo, pendingSyncBpm>>
device == <<activeNotes, bent, transport>>
vars == <<control, queue, store, remaining, pauseContext, carries, loopDuration,
          loopElapsedTicks, position, loopDurationTicks, isClockMode, timing,
          pendingSongPosition, configured, device>>

States == {"Stopped", "Waiting", "Running", "Paused"}

Locations ==
  {"Loop",          \* top of run(): dispatch on state
   "WaitCommit",    \* handle_waiting: about to commit the pending project
   "WaitCheck",     \*   about to read whether a project is active
   "WaitReceive",   \*   about to try_recv
   "Init",          \* about to call init_running_from_project
   "Setup",         \* build_loop_events: first read of the store
   "Collect",       \*   second read of the store
   "Idle",          \*   no project: about to try_recv
   "Play",          \* play_events: waiting for the next event
   "AfterEvent",    \*   event fired: about to try_recv
   "Publish",       \* advance_loop: pending committed, length not published
   "Retime",        \*   about to read the tempo of the new pass
   "Dead"}          \* the thread has panicked

Calls ==
  {"None",
   "Promoted", "Start", "ClockStart", "SyncStart", "SyncContinue",  \* at Init
   "Pass",           \* handle_running builds the list of a pass
   "Reposition",     \* do_sync_continue or locate_song_position builds one
   "RepositionRun"}  \* the latter inside handle_stopped, which runs next

(* Where commands are received by handle_mid_loop_command or by the poll   *)
(* in sleep_until_with_poll.                                               *)
MidLoop == pc \in {"AfterEvent", "Idle"} \/ (pc = "Play" /\ remaining # {})

Context(events, duration) == [events |-> events, loopDuration |-> duration]

(* Whole BPM of a tracked tempo: bpm.round().                              *)
Rounded(t) == (t + 5) \div 10

-----------------------------------------------------------------------------
(* The channel.                                                            *)

Receives(names) == queue # <<>> /\ Head(queue).name \in names
Argument == Head(queue).arg
Pop == queue' = Tail(queue)

(* A nested build inside handle_stopped ends with set_state(Running),      *)
(* whatever a command consumed on the way did to the state.                *)
Return(s) ==
  /\ state' = IF call = "RepositionRun" THEN "Running" ELSE s
  /\ pc' = "Loop"
  /\ call' = "None"

Goto(location, purpose) == pc' = location /\ call' = purpose /\ UNCHANGED state

(* play_events applies a staged tempo before it waits for an event.        *)
StartPlaying(events) ==
  /\ remaining' = events
  /\ pc' = "Play"
  /\ call' = "None"
  /\ UNCHANGED state
  /\ IF events # {} /\ pendingSyncBpm # None
       THEN tempo' = pendingSyncBpm /\ pendingSyncBpm' = None
       ELSE UNCHANGED timing

(* Mutant: a pause or stop that forgets the sounding notes.                *)
FlushForgotten == UNCHANGED activeNotes

Flush == activeNotes' = {}
(* Mutant: a pause or stop that leaves the wheels where they are.          *)
CentreForgotten == UNCHANGED bent

CentreBends ==
  bent' = bent \ (IF configured = None THEN {} ELSE BendChannels(configured))

(* Mutant: a reset of the tick alone.                                      *)
ResetTickOnly ==
  /\ currentTick' = 0
  /\ pendingSongPosition' = None
  /\ UNCHANGED loopCount

ResetPosition ==
  /\ currentTick' = 0
  /\ loopCount' = 0
  /\ pendingSongPosition' = None

(* Mutant: a stop that leaves clock mode on.                               *)
DoStopInClockMode(always) ==
  /\ ResetPosition /\ Flush /\ CentreBends
  /\ carryOver' = {} /\ nextCarryOver' = {}
  /\ transport' = IF always \/ isClockMode THEN "stopped" ELSE transport
  /\ UNCHANGED isClockMode

(* do_stop and do_clock_stop; the latter sends 0xFC in every mode.         *)
DoStop(always) ==
  /\ ResetPosition
  /\ Flush
  /\ CentreBends
  /\ carryOver' = {}
  /\ nextCarryOver' = {}
  /\ transport' = IF always \/ isClockMode THEN "stopped" ELSE transport
  /\ isClockMode' = FALSE

DoSyncRestart ==
  /\ ResetPosition
  /\ Flush
  /\ carryOver' = {}
  /\ nextCarryOver' = {}
  /\ UNCHANGED <<bent, transport>>

(* locate_song_position, up to the event list it asks for.                 *)
Locate(requested, duration, purpose) ==
  /\ loopElapsedTicks' = requested % duration
  /\ currentTick' = requested % duration
  /\ Goto("Setup", purpose)

-----------------------------------------------------------------------------
(* handle_stopped                                                          *)

AtStopped == pc = "Loop" /\ state = "Stopped"

StoppedStart ==
  /\ AtStopped /\ Receives({"Start", "SyncStart", "SyncContinue"}) /\ Pop
  /\ pendingSongPosition' =
       IF Head(queue).name = "SyncStart" THEN None ELSE pendingSongPosition
  /\ IF active # None
       THEN Goto("Init", Head(queue).name)
       ELSE state' = "Waiting" /\ UNCHANGED <<pc, call>>
  /\ UNCHANGED <<store, remaining, pauseContext, carries, loopDuration,
                 loopElapsedTicks, position, loopDurationTicks, isClockMode,
                 timing, configured, device>>

StoppedClockStart ==
  /\ AtStopped /\ Receives({"ClockStart"}) /\ Pop
  /\ Goto("Init", "ClockStart")
  /\ UNCHANGED <<store, remaining, pauseContext, carries, loopDuration,
                 loopElapsedTicks, position, loopDurationTicks, isClockMode,
                 timing, pendingSongPosition, configured, device>>

StoppedStage ==
  /\ AtStopped /\ Receives({"SyncSongPosition", "SyncBpmUpdate"}) /\ Pop
  /\ IF Head(queue).name = "SyncSongPosition"
       THEN pendingSongPosition' = Argument /\ UNCHANGED pendingSyncBpm
       ELSE pendingSyncBpm' = Argument /\ UNCHANGED pendingSongPosition
  /\ UNCHANGED <<control, store, remaining, pauseContext, carries, loopDuration,
                 loopElapsedTicks, position, loopDurationTicks, isClockMode,
                 tempo, configured, device>>

StoppedIgnore ==
  /\ AtStopped /\ Receives({"Stop", "ClockStop", "SyncStop", "ClockPause", "ClockResume"})
  /\ Pop
  /\ UNCHANGED <<control, store, remaining, pauseContext, carries, loopDuration,
                 loopElapsedTicks, position, loopDurationTicks, isClockMode,
                 timing, pendingSongPosition, configured, device>>

(* init_running_from_project unwraps the active project: without one the   *)
(* thread panics.  Then the rest of the branch that called it.             *)
InitRunning ==
  /\ pc = "Init" /\ active # None
  /\ loopDuration' = LoopDuration[active.song]
  /\ tempo' = 10 * active.bpm
  /\ isClockMode' = CASE call = "Start" -> FALSE
                      [] call = "ClockStart" -> TRUE
                      [] OTHER -> isClockMode
  /\ transport' = IF call = "ClockStart" THEN "rolling" ELSE transport
  /\ IF call = "SyncContinue" /\ pendingSongPosition # None
       THEN /\ Locate(pendingSongPosition, LoopDuration[active.song], "RepositionRun")
            /\ pendingSongPosition' = None
       ELSE /\ state' = "Running" /\ pc' = "Loop" /\ call' = "None"
            /\ UNCHANGED <<loopElapsedTicks, currentTick, pendingSongPosition>>
  /\ UNCHANGED <<queue, store, remaining, pauseContext, carries, loopCount,
                 loopDurationTicks, pendingSyncBpm, configured, activeNotes, bent>>

InitPanic ==
  /\ pc = "Init" /\ active = None
  /\ pc' = "Dead"
  /\ queue' = <<>>
  /\ UNCHANGED <<state, call, store, remaining, pauseContext, carries,
                 loopDuration, loopElapsedTicks, position, loopDurationTicks,
                 isClockMode, timing, pendingSongPosition, configured, device>>

-----------------------------------------------------------------------------
(* handle_waiting: three acquisitions of the store's lock, then try_recv.  *)

WaitingUnchanged ==
  UNCHANGED <<remaining, pauseContext, carries, loopDuration, loopElapsedTicks,
              position, loopDurationTicks, isClockMode, timing,
              pendingSongPosition, configured, device>>

WaitPoll ==
  /\ pc = "Loop" /\ state = "Waiting"
  /\ Goto(IF active # None THEN "WaitCheck" ELSE "WaitCommit", "None")
  /\ UNCHANGED <<queue, store>> /\ WaitingUnchanged

WaitCommit ==
  /\ pc = "WaitCommit"
  /\ active' = IF pending # None THEN pending ELSE active
  /\ pending' = None
  /\ Goto("WaitCheck", IF pending # None THEN "Promoted" ELSE "None")
  /\ UNCHANGED queue /\ WaitingUnchanged

(* Mutant: only a promotion by this thread ends the wait.                  *)
WaitCheckPromotedOnly ==
  /\ pc = "WaitCheck"
  /\ IF call = "Promoted" THEN Goto("Init", "Promoted") ELSE Goto("WaitReceive", "None")
  /\ UNCHANGED <<queue, store>> /\ WaitingUnchanged

WaitCheck ==
  /\ pc = "WaitCheck"
  /\ IF call = "Promoted" \/ active # None
       THEN Goto("Init", "Promoted")
       ELSE Goto("WaitReceive", "None")
  /\ UNCHANGED <<queue, store>> /\ WaitingUnchanged

(* Mutant: Stop is dropped like the other commands.                        *)
WaitReceiveDropsStop ==
  /\ pc = "WaitReceive"
  /\ queue' = IF queue = <<>> THEN queue ELSE Tail(queue)
  /\ state' = IF Receives({"SyncStop"}) THEN "Stopped" ELSE state
  /\ pc' = "Loop"
  /\ UNCHANGED <<call, store>> /\ WaitingUnchanged

WaitReceive ==
  /\ pc = "WaitReceive"
  /\ queue' = IF queue = <<>> THEN queue ELSE Tail(queue)
  /\ state' = IF Receives({"Stop", "SyncStop"}) THEN "Stopped" ELSE state
  /\ pc' = "Loop"
  /\ UNCHANGED <<call, store>> /\ WaitingUnchanged

-----------------------------------------------------------------------------
(* build_loop_events                                                       *)

(* Mutant: the channels are set up once, not for every pass.               *)
SetupOnce ==
  /\ pc = "Setup"
  /\ configured' = IF active # None /\ configured = None THEN active.song ELSE configured
  /\ Goto("Collect", call)
  /\ UNCHANGED <<queue, store, remaining, pauseContext, carries, loopDuration,
                 loopElapsedTicks, position, loopDurationTicks, isClockMode,
                 timing, pendingSongPosition, device>>

Setup ==
  /\ pc = "Setup"
  /\ configured' = IF active # None THEN active.song ELSE configured
  /\ Goto("Collect", call)
  /\ UNCHANGED <<queue, store, remaining, pauseContext, carries, loopDuration,
                 loopElapsedTicks, position, loopDurationTicks, isClockMode,
                 timing, pendingSongPosition, device>>

(* Hands a built list to whoever asked for it.                             *)
Deliver(events, duration) ==
  IF call = "Pass"
    THEN StartPlaying(events) /\ UNCHANGED pauseContext
    ELSE /\ pauseContext' = Context(From(events, loopElapsedTicks), duration)
         /\ Return(state)
         /\ UNCHANGED <<remaining, timing>>

CollectProject ==
  /\ pc = "Collect" /\ active # None
  /\ loopDuration' = LoopDuration[active.song]
  /\ carryOver' = {}
  /\ nextCarryOver' = Overflow(active.song)
  /\ Deliver(PassEvents(active.song, carryOver, isClockMode), LoopDuration[active.song])
  /\ UNCHANGED <<queue, store, loopElapsedTicks, position, loopDurationTicks,
                 isClockMode, pendingSongPosition, configured, device>>

(* A clock master keeps pulsing without a project.                         *)
CollectPulses ==
  /\ pc = "Collect" /\ active = None /\ isClockMode
  /\ carryOver' = {}
  /\ Deliver(carryOver \cup Pulses(loopDuration), loopDuration)
  /\ UNCHANGED <<queue, store, nextCarryOver, loopDuration, loopElapsedTicks,
                 position, loopDurationTicks, isClockMode, pendingSongPosition,
                 configured, device>>

CollectNothing ==
  /\ pc = "Collect" /\ active = None /\ ~isClockMode
  /\ Goto("Idle", call)
  /\ UNCHANGED <<queue, store, remaining, pauseContext, carries, loopDuration,
                 loopElapsedTicks, position, loopDurationTicks, isClockMode,
                 timing, pendingSongPosition, configured, device>>

IdleEmpty ==
  /\ pc = "Idle" /\ queue = <<>>
  /\ Return(state)
  /\ UNCHANGED <<queue, store, remaining, pauseContext, carries, loopDuration,
                 loopElapsedTicks, position, loopDurationTicks, isClockMode,
                 timing, pendingSongPosition, configured, device>>

-----------------------------------------------------------------------------
(* Commands received mid-loop: while waiting for an event, after an event  *)
(* and while there is no project to play.                                  *)

MidLoopStop ==
  /\ MidLoop /\ Receives({"Stop", "ClockStop"}) /\ Pop
  /\ DoStop(Head(queue).name = "ClockStop")
  /\ Return("Stopped")
  /\ remaining' = {}
  /\ UNCHANGED <<store, pauseContext, loopDuration, loopElapsedTicks,
                 loopDurationTicks, timing, configured>>

(* Mutant: the MIDI 1.0 convention, a stop from outside rewinds.           *)
MidLoopPauseRewinds ==
  /\ MidLoop /\ Receives({"ClockPause", "SyncStop"}) /\ Pop
  /\ Flush
  /\ CentreBends
  /\ pauseContext' = Context(remaining, loopDuration)
  /\ Return("Paused")
  /\ remaining' = {}
  /\ currentTick' = 0 /\ loopCount' = 0
  /\ UNCHANGED <<store, carries, loopDuration, loopElapsedTicks,
                 loopDurationTicks, isClockMode, timing, pendingSongPosition,
                 configured, transport>>

(* Mutant: a stop from outside ends the song instead of pausing it.        *)
MidLoopPauseStops ==
  /\ MidLoop /\ Receives({"ClockPause", "SyncStop"}) /\ Pop
  /\ Flush
  /\ CentreBends
  /\ Return("Stopped")
  /\ remaining' = {}
  /\ UNCHANGED <<store, pauseContext, carries, loopDuration, loopElapsedTicks, position,
                 loopDurationTicks, isClockMode, timing, pendingSongPosition,
                 configured, transport>>

MidLoopPause ==
  /\ MidLoop /\ Receives({"ClockPause", "SyncStop"}) /\ Pop
  /\ Flush
  /\ CentreBends
  /\ pauseContext' = Context(remaining, loopDuration)
  /\ Return("Paused")
  /\ remaining' = {}
  /\ UNCHANGED <<store, carries, loopDuration, loopElapsedTicks, position,
                 loopDurationTicks, isClockMode, timing, pendingSongPosition,
                 configured, transport>>

MidLoopSyncStart ==
  /\ MidLoop /\ Receives({"SyncStart"}) /\ Pop
  /\ DoSyncRestart
  /\ Return(state)
  /\ remaining' = {}
  /\ UNCHANGED <<store, pauseContext, loopDuration, loopElapsedTicks,
                 loopDurationTicks, isClockMode, timing, configured>>

MidLoopSyncContinue ==
  /\ MidLoop /\ Receives({"SyncContinue"}) /\ Pop
  /\ Goto("Setup", IF call = "RepositionRun" THEN call ELSE "Reposition")
  /\ remaining' = {}
  /\ UNCHANGED <<store, pauseContext, carries, loopDuration, loopElapsedTicks,
                 position, loopDurationTicks, isClockMode, timing,
                 pendingSongPosition, configured, device>>

(* Back to waiting for the next event, or out of a build without data.     *)
Proceed ==
  IF pc = "Idle" THEN Return(state) ELSE pc' = "Play" /\ UNCHANGED <<state, call>>

MidLoopTempo ==
  /\ MidLoop /\ Receives({"SyncBpmUpdate"}) /\ Pop
  /\ IF remaining # {}
       THEN tempo' = Argument /\ pendingSyncBpm' = None
       ELSE pendingSyncBpm' = Argument /\ UNCHANGED tempo
  /\ Proceed
  /\ UNCHANGED <<store, remaining, pauseContext, carries, loopDuration,
                 loopElapsedTicks, position, loopDurationTicks, isClockMode,
                 pendingSongPosition, configured, device>>

MidLoopIgnore ==
  /\ MidLoop /\ Receives({"Start", "ClockStart", "ClockResume", "SyncSongPosition"})
  /\ Pop
  /\ Proceed
  /\ UNCHANGED <<store, remaining, pauseContext, carries, loopDuration,
                 loopElapsedTicks, position, loopDurationTicks, isClockMode,
                 timing, pendingSongPosition, configured, device>>

-----------------------------------------------------------------------------
(* handle_running and play_events                                          *)

(* Mutant: the events left on the tick of the pause are skipped.           *)
RunResumeNextTick ==
  /\ pc = "Loop" /\ state = "Running" /\ pauseContext # None
  /\ loopDuration' = pauseContext.loopDuration
  /\ pauseContext' = None
  /\ StartPlaying(From(pauseContext.events, currentTick + 1))
  /\ UNCHANGED <<queue, store, carries, loopElapsedTicks, position,
                 loopDurationTicks, isClockMode, pendingSongPosition, configured,
                 device>>

RunResume ==
  /\ pc = "Loop" /\ state = "Running" /\ pauseContext # None
  /\ loopDuration' = pauseContext.loopDuration
  /\ pauseContext' = None
  /\ StartPlaying(pauseContext.events)
  /\ UNCHANGED <<queue, store, carries, loopElapsedTicks, position,
                 loopDurationTicks, isClockMode, pendingSongPosition, configured,
                 device>>

RunBuild ==
  /\ pc = "Loop" /\ state = "Running" /\ pauseContext = None
  /\ Goto("Setup", "Pass")
  /\ UNCHANGED <<queue, store, remaining, pauseContext, carries, loopDuration,
                 loopElapsedTicks, position, loopDurationTicks, isClockMode,
                 timing, pendingSongPosition, configured, device>>

Sounding(e) == [channel |-> e.channel, pitch |-> e.data]

(* emit_event *)
Emit(e) ==
  /\ activeNotes' = CASE e.kind = "NoteOn" -> activeNotes \cup {Sounding(e)}
                      [] e.kind = "NoteOff" -> activeNotes \ {Sounding(e)}
                      [] OTHER -> activeNotes
  /\ bent' = IF e.kind = "PitchBend"
               THEN IF e.data = Center THEN bent \ {e.channel} ELSE bent \cup {e.channel}
               ELSE bent
  /\ UNCHANGED transport

(* Mutant: the index does not move on.                                     *)
FireAgain ==
  /\ pc = "Play"
  /\ \E e \in NextEvents(remaining) :
       loopElapsedTicks' = e.tick /\ currentTick' = e.tick /\ Emit(e)
  /\ Goto("AfterEvent", "None")
  /\ UNCHANGED <<queue, store, remaining, pauseContext, carries, loopDuration,
                 loopCount, loopDurationTicks, isClockMode, timing,
                 pendingSongPosition, configured>>

(* The deadline of the next event passes.                                  *)
Fire ==
  /\ pc = "Play"
  /\ \E e \in NextEvents(remaining) :
       /\ loopElapsedTicks' = e.tick
       /\ currentTick' = e.tick
       /\ remaining' = remaining \ {e}
       /\ Emit(e)
  /\ Goto("AfterEvent", "None")
  /\ UNCHANGED <<queue, store, pauseContext, carries, loopDuration, loopCount,
                 loopDurationTicks, isClockMode, timing, pendingSongPosition,
                 configured>>

AfterEventEmpty ==
  /\ pc = "AfterEvent" /\ queue = <<>>
  /\ Goto("Play", "None")
  /\ UNCHANGED <<queue, store, remaining, pauseContext, carries, loopDuration,
                 loopElapsedTicks, position, loopDurationTicks, isClockMode,
                 timing, pendingSongPosition, configured, device>>

-----------------------------------------------------------------------------
(* advance_loop: the last event has fired.                                 *)

(* Mutant: the loop boundary forgets the queued project.                   *)
AdvanceWithoutCommit ==
  /\ pc = "Play" /\ remaining = {}
  /\ Goto("Publish", "None")
  /\ UNCHANGED <<queue, store, remaining, pauseContext, carries, loopDuration,
                 loopElapsedTicks, position, loopDurationTicks, isClockMode,
                 timing, pendingSongPosition, configured, device>>

AdvanceCommit ==
  /\ pc = "Play" /\ remaining = {}
  /\ active' = IF pending # None THEN pending ELSE active
  /\ pending' = None
  /\ Goto("Publish", "None")
  /\ UNCHANGED <<queue, remaining, pauseContext, carries, loopDuration,
                 loopElapsedTicks, position, loopDurationTicks, isClockMode,
                 timing, pendingSongPosition, configured, device>>

(* Mutant: "no project" is published as such instead of as zero.           *)
AdvancePublishOption ==
  /\ pc = "Publish"
  /\ loopDurationTicks' = IF active = None THEN None ELSE LoopDuration[active.song]
  /\ Goto("Retime", "None")
  /\ UNCHANGED <<queue, store, remaining, pauseContext, carries, loopDuration,
                 loopElapsedTicks, position, isClockMode, timing,
                 pendingSongPosition, configured, device>>

AdvancePublish ==
  /\ pc = "Publish"
  /\ loopDurationTicks' = IF active = None THEN 0 ELSE LoopDuration[active.song]
  /\ Goto("Retime", "None")
  /\ UNCHANGED <<queue, store, remaining, pauseContext, carries, loopDuration,
                 loopElapsedTicks, position, isClockMode, timing,
                 pendingSongPosition, configured, device>>

AdvanceRetime ==
  /\ pc = "Retime"
  /\ pendingSyncBpm' = None
  /\ tempo' = IF pendingSyncBpm # None THEN pendingSyncBpm
              ELSE IF active # None /\ active.bpm # Rounded(tempo) THEN 10 * active.bpm
              ELSE tempo
  /\ carryOver' = Rebase(nextCarryOver, loopDuration)
  /\ nextCarryOver' = {}
  /\ loopElapsedTicks' = 0
  /\ currentTick' = 0
  /\ loopCount' = IF loopCount < LoopCountCap THEN loopCount + 1 ELSE loopCount
  /\ Goto("Loop", "None")
  /\ UNCHANGED <<queue, store, remaining, pauseContext, loopDuration,
                 loopDurationTicks, isClockMode, pendingSongPosition, configured,
                 device>>

-----------------------------------------------------------------------------
(* handle_paused                                                           *)

AtPaused == pc = "Loop" /\ state = "Paused"

PausedResume ==
  /\ AtPaused /\ Receives({"ClockResume", "SyncContinue"}) /\ Pop
  /\ state' = "Running"
  /\ transport' = IF Head(queue).name = "ClockResume" THEN "rolling" ELSE transport
  /\ UNCHANGED <<pc, call, store, remaining, pauseContext, carries, loopDuration,
                 loopElapsedTicks, position, loopDurationTicks, isClockMode,
                 timing, pendingSongPosition, configured, activeNotes, bent>>

PausedSyncStart ==
  /\ AtPaused /\ Receives({"SyncStart"}) /\ Pop
  /\ DoSyncRestart
  /\ pauseContext' = None
  /\ state' = "Running"
  /\ UNCHANGED <<pc, call, store, remaining, loopDuration, loopElapsedTicks,
                 loopDurationTicks, isClockMode, timing, configured>>

PausedLocate ==
  /\ AtPaused /\ Receives({"SyncSongPosition"}) /\ Pop
  /\ Locate(Argument, loopDuration, "Reposition")
  /\ UNCHANGED <<store, remaining, pauseContext, carries, loopDuration, loopCount,
                 loopDurationTicks, isClockMode, timing, pendingSongPosition,
                 configured, device>>

PausedStop ==
  /\ AtPaused /\ Receives({"Stop", "ClockStop"}) /\ Pop
  /\ ResetPosition
  /\ pauseContext' = None
  /\ transport' = "stopped"
  /\ isClockMode' = FALSE
  /\ state' = "Stopped"
  /\ UNCHANGED <<pc, call, store, remaining, carries, loopDuration,
                 loopElapsedTicks, loopDurationTicks, timing, configured,
                 activeNotes, bent>>

PausedTempo ==
  /\ AtPaused /\ Receives({"SyncBpmUpdate"}) /\ Pop
  /\ pendingSyncBpm' = Argument
  /\ UNCHANGED <<control, store, remaining, pauseContext, carries, loopDuration,
                 loopElapsedTicks, position, loopDurationTicks, isClockMode,
                 tempo, pendingSongPosition, configured, device>>

PausedIgnore ==
  /\ AtPaused /\ Receives({"Start", "ClockStart", "ClockPause", "SyncStop"})
  /\ Pop
  /\ UNCHANGED <<control, store, remaining, pauseContext, carries, loopDuration,
                 loopElapsedTicks, position, loopDurationTicks, isClockMode,
                 timing, pendingSongPosition, configured, device>>

-----------------------------------------------------------------------------
(* The clients of the thread.                                              *)

ClientUnchanged ==
  UNCHANGED <<control, remaining, pauseContext, carries, loopDuration,
              loopElapsedTicks, position, loopDurationTicks, isClockMode, timing,
              pendingSongPosition, configured, device>>

(* LoopEngine's methods ignore the error of a send to a dead thread.       *)
Send(c) ==
  /\ Len(queue) < QueueBound
  /\ queue' = IF pc = "Dead" THEN queue ELSE Append(queue, c)
  /\ UNCHANGED store /\ ClientUnchanged

(* create-project: set_pending and commit_pending under one write lock.    *)
CreateProject(p) ==
  /\ "Create" \in StoreOps
  /\ active' = p
  /\ pending' = None
  /\ UNCHANGED queue /\ ClientUnchanged

ModifyProject(p) ==
  /\ "Modify" \in StoreOps
  /\ pending' = p
  /\ UNCHANGED <<queue, active>> /\ ClientUnchanged

ClearStore ==
  /\ "Clear" \in StoreOps
  /\ active' = None
  /\ pending' = None
  /\ UNCHANGED queue /\ ClientUnchanged

-----------------------------------------------------------------------------
Init ==
  /\ state = "Stopped" /\ pc = "Loop" /\ call = "None"
  /\ queue = <<>>
  /\ active = None /\ pending = None
  /\ remaining = {} /\ pauseContext = None
  /\ carryOver = {} /\ nextCarryOver = {}
  /\ loopDuration = 480 /\ loopElapsedTicks = 0
  /\ currentTick = 0 /\ loopCount = 0 /\ loopDurationTicks = 0
  /\ isClockMode = FALSE
  /\ tempo = 1200 /\ pendingSyncBpm = None /\ pendingSongPosition = None
  /\ configured = None
  /\ activeNotes = {} /\ bent = {} /\ transport = "stopped"

HandleStopped == StoppedStart \/ StoppedClockStart \/ StoppedStage \/ StoppedIgnore
HandleWaiting == WaitPoll \/ WaitCommit \/ WaitCheck \/ WaitReceive
InitProject == InitRunning \/ InitPanic
BuildLoopEvents ==
  Setup \/ CollectProject \/ CollectPulses \/ CollectNothing \/ IdleEmpty
MidLoopCommand ==
  \/ MidLoopStop \/ MidLoopPause \/ MidLoopSyncStart \/ MidLoopSyncContinue
  \/ MidLoopTempo \/ MidLoopIgnore
HandleRunning == RunResume \/ RunBuild \/ Fire \/ AfterEventEmpty
AdvanceLoop == AdvanceCommit \/ AdvancePublish \/ AdvanceRetime
HandlePaused ==
  \/ PausedResume \/ PausedSyncStart \/ PausedLocate \/ PausedStop
  \/ PausedTempo \/ PausedIgnore

PlayerStep ==
  \/ HandleStopped \/ HandleWaiting \/ InitProject \/ BuildLoopEvents
  \/ MidLoopCommand \/ HandleRunning \/ AdvanceLoop \/ HandlePaused

ClientStep ==
  \/ \E c \in Commands : Send(c)
  \/ \E p \in Project : CreateProject(p) \/ ModifyProject(p)
  \/ ClearStore

Next == PlayerStep \/ ClientStep

Spec == Init /\ [][Next]_vars

(* The operating system schedules the thread, and deadlines pass: an event *)
(* whose wait is interrupted again and again still fires.                  *)
Fairness == WF_vars(PlayerStep) /\ WF_vars(Fire)
FairSpec == Spec /\ Fairness

-----------------------------------------------------------------------------
(* Types.  A paused context is a record, a staged locate a tick.           *)

SoundingNotes == [channel : Nat, pitch : Nat]

(* Every variable has its type: the fields of PlayerLoop, the store, the   *)
(* channel and the state of the MIDI device.                               *)
TypeOK ==
  /\ state \in States /\ pc \in Locations /\ call \in Calls
  /\ queue \in Seq(Command)
  /\ active \in Project \cup {None} /\ pending \in Project \cup {None}
  /\ remaining \subseteq Event
  /\ pauseContext = None \/ (/\ pauseContext.events \subseteq Event
                            /\ pauseContext.loopDuration \in Nat \ {0})
  /\ carryOver \subseteq Event /\ nextCarryOver \subseteq Event
  /\ loopDuration \in Nat \ {0}
  /\ loopElapsedTicks \in Nat /\ currentTick \in Nat
  /\ loopCount \in Nat /\ loopDurationTicks \in Nat
  /\ isClockMode \in BOOLEAN
  /\ tempo \in Nat
  /\ pendingSyncBpm \in Nat \cup {None} /\ pendingSongPosition \in Nat \cup {None}
  /\ configured \in Songs \cup {None}
  /\ activeNotes \subseteq SoundingNotes /\ bent \subseteq Nat
  /\ transport \in {"stopped", "rolling"}

(* "When any stop or pause command is received while notes are sounding,   *)
(* flush_notes immediately sends NoteOff": whatever the order in which     *)
(* commands, store writes and loop ends come, no note sounds unless the    *)
(* published state is Running.                                             *)
SilentUnlessRunning == state # "Running" => activeNotes = {}

(* tick and loop_count are back at zero whenever the thread sits in        *)
(* Stopped or Waiting, by whichever of the four ways there it came         *)
(* (do_stop, do_clock_stop, handle_paused, handle_waiting).                *)
StoppedAtZero ==
  pc = "Loop" /\ state \in {"Stopped", "Waiting"} => currentTick = 0 /\ loopCount = 0

(* is_clock_mode is the memory of a 0xFA that no 0xFC has followed yet: it *)
(* never outlives the session, so a later standalone start emits no clock. *)
ClockModeRolling ==
  isClockMode => state \in {"Running", "Paused"} /\ transport = "rolling"

(* "The engine carries the sounding note into the next iteration and emits *)
(* the NoteOff at the correct tick": a sounding note always has a NoteOff  *)
(* scheduled in this pass or in one of the two carry-over lists, however   *)
(* projects are swapped, passes end and playback pauses (apart from the    *)
(* moment in which a Continue has the list rebuilt).                       *)
ScheduledEvents ==
  remaining \cup carryOver \cup nextCarryOver
            \cup (IF pauseContext = None THEN {} ELSE pauseContext.events)

Rebuilding == pc \in {"Setup", "Collect", "Idle"} /\ call # "Pass"

NoStuckNote ==
  ~Rebuilding => \A n \in activeNotes :
    \E e \in ScheduledEvents : e.kind = "NoteOff" /\ Sounding(e) = n

(* The u64 subtraction of advance_loop never wraps: a carried NoteOff is   *)
(* due at least one tick into the next pass, and within the longest loop.  *)
CarryInRange ==
  \A e \in carryOver : \E s \in Songs : e.tick \in 1 .. LoopDuration[s]

(* The events still to fire lie at or after the published position, so     *)
(* the position that clients poll never runs backwards within a pass.      *)
NothingLeftBehind ==
  pc \in {"Play", "AfterEvent"} => \A e \in remaining : e.tick >= currentTick

(* Resetting on every stop and pause keeps a synth from staying detuned.   *)
CentredWhenSilent == state # "Running" => bent = {}

(* Every NoteOn about to be played was preceded by the program changes of  *)
(* its own song: the two reads of the store in build_loop_events agree.    *)
NotesOfConfiguredSong ==
  pc \in {"Play", "AfterEvent"} =>
    \A e \in remaining : e.kind = "NoteOn" => e \in NoteOns(configured)

(* "Retaining the current loop position for a seamless resume": from the   *)
(* moment a pass is built until the loop is stopped or the pass ends, the  *)
(* events still to come change only by the one that fires; a pause and a   *)
(* resume in between neither lose nor repeat any, and leave the published  *)
(* position alone.                                                         *)
Upcoming == remaining \cup (IF pauseContext = None THEN {} ELSE pauseContext.events)

FiresOne ==
  /\ state = "Running" /\ state' = "Running"
  /\ \E e \in NextEvents(Upcoming) :
       Upcoming' = Upcoming \ {e} /\ currentTick' = e.tick

SeamlessResume ==
  [][ (pc # "Collect" /\ state \in {"Running", "Paused"} /\ state' # "Stopped")
        => \/ Upcoming' = Upcoming /\ UNCHANGED position
           \/ FiresOne
           \/ pc = "Retime" ]_vars

(* The thread never panics: whatever is cleared or created while it looks  *)
(* at the store, it goes on receiving commands.                            *)
PlayerAlive == pc # "Dead"

-----------------------------------------------------------------------------
(* The abstract transport: the thread's published state and position and   *)
(* the notes that sound on the device.                                     *)

T == INSTANCE Transport
       WITH Sounds <- SoundingNotes, state <- state, tick <- currentTick,
            loops <- loopCount, sounding <- activeNotes

(* Seen from outside, the thread behaves as the documented state machine:  *)
(* a pause freezes the position, a resume keeps it, a stop and a MIDI      *)
(* Start reset it, and notes sound in Running alone.                       *)
ImplementsTransport == T!Spec

-----------------------------------------------------------------------------
(* The engine as its clients see it.                                       *)

EnginePhase ==
  CASE pc = "Init" \/ (pc = "WaitCheck" /\ call = "Promoted") -> "Starting"
    [] pc \in {"Setup", "Collect"} /\ state # "Running" -> "Locating"
    [] pc = "Idle" /\ state # "Running" -> "Blind"
    [] pc = "Dead" -> "Dead"
    [] OTHER -> "Ready"

EngineQueue == [i \in DOMAIN queue |-> queue[i].name]

EngineStarting == IF EnginePhase = "Starting" \/ pc = "Dead" THEN call ELSE "None"

Clients == INSTANCE Engine
  WITH Projects <- Project, queue <- EngineQueue, phase <- EnginePhase,
       starting <- EngineStarting

(* The thread treats its clients as Engine says, whatever it is in the     *)
(* middle of: which commands it hears in which state, when a queued        *)
(* project replaces the active one, and what slaves are told.  The daemon  *)
(* and the sync receiver are checked against Engine in its place.          *)
ImplementsEngine == Clients!EngineSpec

-----------------------------------------------------------------------------
(* The invariant behind SilentUnlessRunning, StoppedAtZero,                *)
(* ClockModeRolling and ImplementsTransport.  The published state alone is *)
(* not inductive: what a step may do depends on where the thread is in the *)
(* code and on whose behalf.                                               *)

Playing == {"Play", "AfterEvent", "Publish", "Retime"}
Awaiting == {"WaitCommit", "WaitCheck", "WaitReceive"}
Building == {"Setup", "Collect", "Idle"}

CallAgrees ==
  /\ pc \in Playing \cup {"Loop", "WaitCommit", "WaitReceive"} => call = "None"
  /\ pc = "WaitCheck" => call \in {"None", "Promoted"}
  /\ pc = "Init" =>
       call \in {"Promoted", "Start", "ClockStart", "SyncStart", "SyncContinue"}

StateAgrees ==
  /\ pc \in Playing => state = "Running"
  /\ pc \in Awaiting => state = "Waiting"
  /\ pc = "Init" => state = IF call = "Promoted" THEN "Waiting" ELSE "Stopped"
  /\ pc = "Dead" => state \in {"Stopped", "Waiting"}
  /\ pc \in Building => \/ call = "Pass" /\ state = "Running"
                        \/ call = "Reposition" /\ state \in {"Running", "Paused"}
                        \/ call = "RepositionRun" /\ state = "Stopped"

(* handle_stopped locates before it publishes Running.                     *)
AtRest ==
  state \in {"Stopped", "Waiting"} =>
    loopCount = 0 /\ (pc \notin Building => currentTick = 0)

TransportInv ==
  CallAgrees /\ StateAgrees /\ AtRest /\ SilentUnlessRunning /\ ClockModeRolling

-----------------------------------------------------------------------------
(* Liveness, under Fairness.                                               *)

Queued(name) == \E i \in 1 .. Len(queue) : queue[i].name = name

(* A loop-stop that was answered "ok" does stop the loop.                  *)
StopHonoured == Queued("Stop") ~> state = "Stopped"

(* A loop-start with a project loaded does start the loop.                 *)
StartHonoured == (Queued("Start") /\ active # None) ~> state = "Running"

(* "modify-project takes effect at the next loop boundary": a queued       *)
(* project does not stay queued while the loop runs.                       *)
PendingCommitted ==
  (pending # None /\ state = "Running") ~> (pending = None \/ state # "Running")

(* A pass that was begun ends: at its loop boundary or with the state.     *)
PassEnds == pc = "Play" ~> pc # "Play" /\ pc # "AfterEvent"

=============================================================================
