------------------------------- MODULE Engine -------------------------------
(***************************************************************************)
(* The loop engine as its clients see it: LoopEngine (loop_engine/mod.rs)  *)
(* with its command channel and published EngineState, the ProjectStore,   *)
(* and what the player thread (loop_engine/player.rs) does with a command  *)
(* in each state.  Event lists, positions and tempo are left out, a step   *)
(* of the thread is one change of what is left.  Player implements this    *)
(* module; Daemon and ClockReceiver are composed with it.                  *)
(***************************************************************************)
EXTENDS Naturals, Sequences

CONSTANTS
  None,          \* Option::None
  Projects,      \* the projects that pass validation
  QueueBound     \* bound on the length of the (unbounded) mpsc channel

VARIABLES
  state,           \* the published EngineState
  phase,           \* what the thread is in the middle of
  starting,        \* the command being started, or "Promoted"
  queue,           \* the names of the LoopCommands in the channel
  active, pending, \* the ProjectStore
  isClockMode,
  transport        \* what the last 0xFA/0xFB/0xFC told the slaves

engineVars ==
  <<state, phase, starting, queue, active, pending, isClockMode, transport>>

EngineState == {"Stopped", "Waiting", "Running", "Paused"}

LoopCommand ==
  {"Start", "Stop", "ClockStart", "ClockPause", "ClockResume", "ClockStop",
   "SyncStart", "SyncContinue", "SyncStop", "SyncSongPosition", "SyncBpmUpdate"}

Phases ==
  {"Ready",      \* receives commands as its state says
   "Starting",   \* has seen a project, or not looked; about to unwrap it
   "Locating",   \* rebuilds the list of a stopped or paused loop
   "Blind",      \*   the same, having found no project: polls once
   "Dead"}       \* the thread has panicked

StartCommands == {"Start", "ClockStart", "SyncStart", "SyncContinue"}

Receives(names) == queue # <<>> /\ Head(queue) \in names
Pop == queue' = Tail(queue)
Ready(s) == phase = "Ready" /\ state = s

(* A rebuild inside handle_stopped ends in Running, whatever happened.     *)
ReturnTo(s) ==
  /\ state' = IF phase = "Blind" /\ state = "Stopped" THEN "Running" ELSE s
  /\ phase' = "Ready"

EngineInit ==
  /\ state = "Stopped" /\ phase = "Ready" /\ starting = "None"
  /\ queue = <<>>
  /\ active = None /\ pending = None
  /\ isClockMode = FALSE
  /\ transport = "stopped"

-----------------------------------------------------------------------------
(* handle_stopped.  ClockStart does not ask whether there is a project.    *)

BeginOrWait ==
  /\ Ready("Stopped") /\ Receives(StartCommands) /\ Pop
  /\ IF active # None \/ Head(queue) = "ClockStart"
       THEN phase' = "Starting" /\ starting' = Head(queue) /\ UNCHANGED state
       ELSE state' = "Waiting" /\ UNCHANGED <<phase, starting>>
  /\ UNCHANGED <<active, pending, isClockMode, transport>>

StoppedDrop ==
  /\ Ready("Stopped") /\ Receives(LoopCommand \ StartCommands) /\ Pop
  /\ UNCHANGED <<state, phase, starting, active, pending, isClockMode, transport>>

(* init_running_from_project and the rest of the branch that called it; a  *)
(* Continue may have a staged position to locate first.                    *)
StartRunning ==
  /\ phase = "Starting" /\ active # None
  /\ isClockMode' = CASE starting = "Start" -> FALSE
                      [] starting = "ClockStart" -> TRUE
                      [] OTHER -> isClockMode
  /\ transport' = IF starting = "ClockStart" THEN "rolling" ELSE transport
  /\ \/ state' = "Running" /\ phase' = "Ready"
     \/ starting = "SyncContinue" /\ phase' = "Locating" /\ UNCHANGED state
  /\ starting' = "None"
  /\ UNCHANGED <<queue, active, pending>>

Panic ==
  /\ phase = "Starting" /\ active = None
  /\ phase' = "Dead"
  /\ queue' = <<>>
  /\ UNCHANGED <<state, starting, active, pending, isClockMode, transport>>

-----------------------------------------------------------------------------
(* handle_waiting: the thread promotes a queued project or finds one.      *)

Promote ==
  /\ Ready("Waiting")
  /\ \/ pending # None /\ active' = pending /\ pending' = None
     \/ active # None /\ UNCHANGED <<active, pending>>
  /\ phase' = "Starting" /\ starting' = "Promoted"
  /\ UNCHANGED <<state, queue, isClockMode, transport>>

WaitingReceive ==
  /\ Ready("Waiting") /\ queue # <<>> /\ Pop
  /\ state' = IF Receives({"Stop", "SyncStop"}) THEN "Stopped" ELSE state
  /\ UNCHANGED <<phase, starting, active, pending, isClockMode, transport>>

-----------------------------------------------------------------------------
(* handle_mid_loop_command, while a pass is played, and while a rebuild    *)
(* without a project polls the channel in some other state.                *)

MidLoop == Ready("Running") \/ phase = "Blind"

MidLoopStop ==
  /\ MidLoop /\ Receives({"Stop", "ClockStop"}) /\ Pop
  /\ transport' = IF Head(queue) = "ClockStop" \/ isClockMode THEN "stopped"
                                                              ELSE transport
  /\ isClockMode' = FALSE
  /\ ReturnTo("Stopped")
  /\ UNCHANGED <<starting, active, pending>>

MidLoopPause ==
  /\ MidLoop /\ Receives({"ClockPause", "SyncStop"}) /\ Pop
  /\ ReturnTo("Paused")
  /\ UNCHANGED <<starting, active, pending, isClockMode, transport>>

(* Continue rebuilds the list, and so does a Start from the top.           *)
MidLoopOther ==
  /\ MidLoop
  /\ Receives(LoopCommand \ {"Stop", "ClockStop", "ClockPause", "SyncStop"}) /\ Pop
  /\ IF Receives({"SyncContinue"}) /\ phase = "Blind"
       THEN phase' = "Locating" /\ UNCHANGED state
       ELSE ReturnTo(state)
  /\ UNCHANGED <<starting, active, pending, isClockMode, transport>>

(* The loop boundary: advance_loop.                                        *)
CommitPending ==
  /\ Ready("Running") /\ pending # None
  /\ active' = pending /\ pending' = None
  /\ UNCHANGED <<state, phase, starting, queue, isClockMode, transport>>

-----------------------------------------------------------------------------
(* handle_paused                                                           *)

PausedResume ==
  /\ Ready("Paused")
  /\ Receives({"ClockResume", "SyncContinue", "SyncStart"}) /\ Pop
  /\ state' = "Running"
  /\ transport' = IF Head(queue) = "ClockResume" THEN "rolling" ELSE transport
  /\ UNCHANGED <<phase, starting, active, pending, isClockMode>>

PausedLocate ==
  /\ Ready("Paused") /\ Receives({"SyncSongPosition"}) /\ Pop
  /\ phase' = "Locating"
  /\ UNCHANGED <<state, starting, active, pending, isClockMode, transport>>

PausedStop ==
  /\ Ready("Paused") /\ Receives({"Stop", "ClockStop"}) /\ Pop
  /\ state' = "Stopped"
  /\ transport' = "stopped"
  /\ isClockMode' = FALSE
  /\ UNCHANGED <<phase, starting, active, pending>>

PausedDrop ==
  /\ Ready("Paused")
  /\ Receives({"Start", "ClockStart", "ClockPause", "SyncStop", "SyncBpmUpdate"})
  /\ Pop
  /\ UNCHANGED <<state, phase, starting, active, pending, isClockMode, transport>>

(* build_loop_events on behalf of locate_song_position.                    *)
LocateEnds ==
  /\ phase = "Locating"
  /\ IF active # None \/ isClockMode
       THEN phase' = "Ready" /\ state' = IF state = "Stopped" THEN "Running" ELSE state
       ELSE phase' = "Blind" /\ UNCHANGED state
  /\ UNCHANGED <<starting, queue, active, pending, isClockMode, transport>>

BlindEnds ==
  /\ phase = "Blind" /\ queue = <<>>
  /\ ReturnTo(state)
  /\ UNCHANGED <<starting, queue, active, pending, isClockMode, transport>>

EngineStep ==
  \/ BeginOrWait \/ StoppedDrop \/ StartRunning \/ Panic
  \/ Promote \/ WaitingReceive
  \/ MidLoopStop \/ MidLoopPause \/ MidLoopOther \/ CommitPending
  \/ PausedResume \/ PausedLocate \/ PausedStop \/ PausedDrop
  \/ LocateEnds \/ BlindEnds

-----------------------------------------------------------------------------
(* The methods of LoopEngine and ProjectStore.                             *)

(* A send to a dead thread fails, and the error is ignored.                *)
Send(c) ==
  /\ Len(queue) < QueueBound
  /\ queue' = IF phase = "Dead" THEN queue ELSE Append(queue, c)
  /\ UNCHANGED <<state, phase, starting, active, pending, isClockMode, transport>>

StoreUnchanged == UNCHANGED <<state, phase, starting, queue, isClockMode, transport>>

SetPending(p) == pending' = p /\ UNCHANGED active /\ StoreUnchanged

(* set_pending and commit_pending under one write lock.                    *)
SetActive(p) == active' = p /\ pending' = None /\ StoreUnchanged

Clear == active' = None /\ pending' = None /\ StoreUnchanged

ClientStep ==
  \/ \E c \in LoopCommand : Send(c)
  \/ \E p \in Projects : SetPending(p) \/ SetActive(p)
  \/ Clear

EngineSpec == EngineInit /\ [][EngineStep \/ ClientStep]_engineVars

EngineTypeOK ==
  /\ state \in EngineState /\ phase \in Phases
  /\ starting \in StartCommands \cup {"None", "Promoted"}
  /\ queue \in Seq(LoopCommand)
  /\ active \in Projects \cup {None} /\ pending \in Projects \cup {None}
  /\ isClockMode \in BOOLEAN
  /\ transport \in {"stopped", "rolling"}

=============================================================================
