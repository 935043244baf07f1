------------------------------- MODULE Daemon -------------------------------
(***************************************************************************)
(* The propeller daemon: the connection handlers of ipc/handler.rs, the    *)
(* accept loop of ipc/server.rs, the settings of ipc/types.rs and the life *)
(* of daemon.rs from serving to exit, on top of Engine.                    *)
(*                                                                         *)
(* Atomicity.  Each connection is a tokio task of its own on a thread      *)
(* pool; one action is one acquisition of a lock (settings, store, engine  *)
(* state), one send on the channel, or one write to the socket.  step says *)
(* where a handler is between two of them.  A handler that acquires a lock *)
(* while it holds another (handle_status) is one action: what it holds     *)
(* cannot change until it is done, and no handler takes the two locks in   *)
(* the opposite order.                                                     *)
(***************************************************************************)
EXTENDS Engine, FiniteSets

CONSTANTS
  Clients,       \* the connections open at a time; each may be reused
  Requests,      \* Requests[c]: the requests client c sends
  InitialMode,   \* --clock, --sync or neither
  HasReceiver    \* started with --sync: sync_clock_state is present

EngineMode == {"standalone", "clock", "sync"}

(* A project is the song it plays; the tempo in its header is left out.    *)
(* arg is the project of create and modify, the tempo of set-bpm, the mode *)
(* of set-mode.  A request that is no JSON, has no command or an unknown   *)
(* one, and list-midi-ports, which asks the system, touch no state.        *)
ProjectRequests == {"create-project", "modify-project", "project", "clear-project"}
LoopRequests == {"loop-start", "loop-stop", "get-position"}
RequestNames ==
  ProjectRequests \cup LoopRequests \cup
  {"set-bpm", "set-mode", "clock-start", "clock-pause", "clock-resume",
   "clock-stop", "list-midi-ports", "status", "stop", "malformed"}

Min == 20
Max == 300

ASSUME DaemonAssumption ==
  /\ InitialMode \in EngineMode
  /\ HasReceiver \in BOOLEAN
  /\ \A c \in Clients : \A r \in Requests[c] : r.name \in RequestNames

VARIABLES
  mode,          \* EngineSettings.mode; its bpm is only ever reported
  request,       \* request[c]: what the connection asked for, None at rest
  step,          \* step[c]: where its handler is; at rest, how it was answered
  read,          \* read[c]: what the handler has read and still uses
  wrote,         \* wrote[c]: history, the request in hand has changed something
  signalled,     \* shutdown_tx has been taken
  main,          \* where daemon::run is
  manner         \* history: how the daemon has been used so far

daemonVars ==
  <<mode, request, step, read, wrote, signalled, main, manner>>
vars == <<engineVars, daemonVars>>

MainSteps ==
  {"Serving",    \* in select!
   "ReadState",  \* clock_stop_on_shutdown: about to read the state
   "SendStop", "Drain",
   "Unlink",     \* about to remove the socket file
   "Exited"}

(* calm: one request at a time, each to a daemon that has finished the one *)
(* before.  forced: the same, with a clock-start while not in clock mode.  *)
(* careless: overlapping requests, or the clock-resume of a loop that was  *)
(* not started as a clock master's.                                        *)
Manners == {"calm", "forced", "careless"}

-----------------------------------------------------------------------------
(* The pieces handlers are made of.                                        *)

Alive == main # "Exited"
At(c, s) == Alive /\ step[c] = s
Asks(c, names) == At(c, "Dispatch") /\ request[c].name \in names

EngineIdle ==
  /\ queue = <<>> /\ phase \in {"Ready", "Dead"}
  /\ state = "Waiting" => active = None /\ pending = None
AtRest(c) == step[c] \in {"Ok", "Error"}
Quiet == EngineIdle /\ ~signalled /\ \A c \in Clients : AtRest(c)

KeepSettings == UNCHANGED mode
KeepEngine == UNCHANGED engineVars
KeepLife == UNCHANGED <<signalled, main, manner>>

Continue(c, s) ==
  /\ step' = [step EXCEPT ![c] = s]
  /\ UNCHANGED request /\ KeepLife

(* The response is written, with status "ok" or "error", and the           *)
(* connection done.                                                        *)
Answer(c, status) ==
  /\ step' = [step EXCEPT ![c] = status]
  /\ request' = [request EXCEPT ![c] = None]
  /\ read' = [read EXCEPT ![c] = None]
  /\ KeepLife

(* All that is left of the request is what its answer promised.            *)
Done(c) == Answer(c, "Ok") /\ wrote' = [wrote EXCEPT ![c] = FALSE]

Remember(c, value) == read' = [read EXCEPT ![c] = value]
Wrote(c) == wrote' = [wrote EXCEPT ![c] = TRUE]

SendAndAnswer(c, command) ==
  /\ Send(command)
  /\ KeepSettings
  /\ Done(c)

(* A response and nothing else: errors, and queries.                       *)
Respond(c, status) ==
  Answer(c, status) /\ KeepEngine /\ KeepSettings /\ UNCHANGED wrote

Refuse(c) == Respond(c, "Error")

-----------------------------------------------------------------------------
(* A client connects, and its request line is read.                        *)

Submit(c, r) ==
  /\ main = "Serving" /\ AtRest(c)
  /\ step' = [step EXCEPT ![c] = "Dispatch"]
  /\ request' = [request EXCEPT ![c] = r]
  /\ wrote' = [wrote EXCEPT ![c] = FALSE]
  /\ manner' = CASE ~Quiet \/ (r.name = "clock-resume" /\ ~isClockMode) -> "careless"
                 [] Quiet /\ r.name = "clock-start" /\ mode # "clock" /\ manner = "calm" -> "forced"
                 [] OTHER -> manner
  /\ UNCHANGED <<read, signalled, main>> /\ KeepSettings /\ KeepEngine

(* Requests answered without a change: status and project read the store   *)
(* and the settings under their locks, get-position the player's counters. *)
Query(c) ==
  /\ Asks(c, {"malformed", "list-midi-ports", "status", "project"})
  /\ Respond(c, IF request[c].name = "malformed" THEN "Error" ELSE "Ok")

HandleGetPosition(c) ==
  /\ Asks(c, {"get-position"})
  /\ Respond(c, "Ok")

HandleCreateProject(c) ==
  /\ Asks(c, {"create-project"})
  /\ IF request[c].arg \notin Projects
       THEN Refuse(c)
       ELSE SetActive(request[c].arg) /\ KeepSettings /\ Done(c)

HandleModifyProject(c) ==
  /\ Asks(c, {"modify-project"})
  /\ IF request[c].arg \notin Projects
       THEN Refuse(c)
       ELSE SetPending(request[c].arg) /\ KeepSettings /\ Done(c)

HandleClearProject(c) ==
  /\ Asks(c, {"clear-project"})
  /\ Clear
  /\ Wrote(c) /\ KeepSettings /\ UNCHANGED read
  /\ Continue(c, "SendStop")

(* Mutant: the tempo is stored before the mode is looked at.               *)
SetBpmTooEarly(c) ==
  /\ Asks(c, {"set-bpm"})
  /\ IF mode = "sync" \/ request[c].arg \notin Min .. Max
       THEN Answer(c, "Error") /\ Wrote(c) /\ KeepEngine /\ KeepSettings
       ELSE /\ Wrote(c) /\ Continue(c, "CopyActive")
            /\ KeepEngine /\ KeepSettings /\ UNCHANGED read

(* handle_set_bpm: the mode under the settings lock, the checks, the tempo *)
(* stored, a copy of the active project with that tempo, the copy queued.  *)
HandleSetBpm(c) ==
  /\ Asks(c, {"set-bpm"})
  /\ IF mode = "sync" THEN Refuse(c)
     ELSE IF request[c].arg \notin Min .. Max THEN Refuse(c)
     ELSE /\ Wrote(c) /\ Continue(c, "CopyActive")
          /\ KeepEngine /\ KeepSettings /\ UNCHANGED read

(* Mutant: what is copied is the queued project.                           *)
SetBpmCopyPending(c) ==
  /\ At(c, "CopyActive")
  /\ IF active = None
       THEN Done(c) /\ KeepEngine /\ KeepSettings
       ELSE /\ Remember(c, pending)
            /\ Continue(c, "QueueCopy")
            /\ KeepEngine /\ KeepSettings /\ UNCHANGED wrote

SetBpmCopy(c) ==
  /\ At(c, "CopyActive")
  /\ IF active = None
       THEN Done(c) /\ KeepEngine /\ KeepSettings
       ELSE /\ Remember(c, active)
            /\ Continue(c, "QueueCopy")
            /\ KeepEngine /\ KeepSettings /\ UNCHANGED wrote

SetBpmQueue(c) ==
  /\ At(c, "QueueCopy")
  /\ SetPending(read[c])
  /\ KeepSettings /\ Done(c)

(* handle_set_mode: three acquisitions of the settings lock and one of the *)
(* engine's state.                                                         *)
HandleSetMode(c) ==
  /\ Asks(c, {"set-mode"})
  /\ IF request[c].arg \notin EngineMode THEN Refuse(c)
     ELSE IF request[c].arg = "sync" /\ ~HasReceiver THEN Refuse(c)
     ELSE /\ Remember(c, mode)
          /\ Continue(c, "CheckState")
          /\ KeepEngine /\ KeepSettings /\ UNCHANGED wrote

LeavesClock(c) ==
  read[c] = "clock" /\ request[c].arg # "clock" /\ state \in {"Running", "Paused"}

(* Mutant: only a running engine is stopped.                               *)
SetModeCheckRunning(c) ==
  /\ At(c, "CheckState")
  /\ Continue(c, IF LeavesClock(c) /\ state = "Running" THEN "LeaveClock" ELSE "SetMode")
  /\ KeepEngine /\ KeepSettings /\ UNCHANGED <<read, wrote>>

SetModeCheck(c) ==
  /\ At(c, "CheckState")
  /\ Continue(c, IF LeavesClock(c) THEN "LeaveClock" ELSE "SetMode")
  /\ KeepEngine /\ KeepSettings /\ UNCHANGED <<read, wrote>>

SetModeLeave(c) ==
  /\ At(c, "LeaveClock")
  /\ Send("ClockStop")
  /\ Wrote(c) /\ Continue(c, "SetMode")
  /\ KeepSettings /\ UNCHANGED read

SetModeWrite(c) ==
  /\ At(c, "SetMode")
  /\ mode' = request[c].arg
  /\ KeepEngine /\ Done(c)

(* loop-start and loop-stop act by mode.                                   *)
HandleLoopStart(c) ==
  /\ Asks(c, {"loop-start"})
  /\ IF mode = "sync" THEN Refuse(c)
     ELSE /\ Continue(c, IF mode = "clock" THEN "NeedProject" ELSE "SendStart")
          /\ KeepEngine /\ KeepSettings /\ UNCHANGED <<read, wrote>>

HandleLoopStop(c) ==
  /\ Asks(c, {"loop-stop"})
  /\ IF mode = "sync" THEN Refuse(c)
     ELSE /\ Continue(c, IF mode = "clock" THEN "SendClockStop" ELSE "SendStop")
          /\ KeepEngine /\ KeepSettings /\ UNCHANGED <<read, wrote>>

RequireProject(c) ==
  /\ \/ Asks(c, {"clock-start"})
     \/ At(c, "NeedProject")
  /\ IF active = None THEN Refuse(c)
     ELSE /\ Continue(c, "SendClockStart")
          /\ KeepEngine /\ KeepSettings /\ UNCHANGED <<read, wrote>>

SendCommand(c) ==
  \/ At(c, "SendStart") /\ SendAndAnswer(c, "Start")
  \/ At(c, "SendStop") /\ SendAndAnswer(c, "Stop")
  \/ At(c, "SendClockStart") /\ SendAndAnswer(c, "ClockStart")
  \/ At(c, "SendClockStop") /\ SendAndAnswer(c, "ClockStop")
  \/ Asks(c, {"clock-pause"}) /\ SendAndAnswer(c, "ClockPause")
  \/ Asks(c, {"clock-resume"}) /\ SendAndAnswer(c, "ClockResume")
  \/ Asks(c, {"clock-stop"}) /\ SendAndAnswer(c, "ClockStop")

(* stop: the response is written and flushed before the signal is given.   *)
HandleStop(c) ==
  /\ Asks(c, {"stop"})
  /\ step' = [step EXCEPT ![c] = "Signal"]
  /\ KeepEngine /\ KeepSettings /\ KeepLife /\ UNCHANGED <<request, read, wrote>>

(* The sender is taken by the first stop; a second one finds none.         *)
SignalShutdown(c) ==
  /\ At(c, "Signal")
  /\ signalled' = TRUE
  /\ step' = [step EXCEPT ![c] = "Ok"]
  /\ request' = [request EXCEPT ![c] = None]
  /\ KeepEngine /\ KeepSettings /\ UNCHANGED <<read, wrote, main, manner>>

HandlerStep(c) ==
  \/ Query(c) \/ HandleGetPosition(c)
  \/ HandleCreateProject(c) \/ HandleModifyProject(c) \/ HandleClearProject(c)
  \/ HandleSetBpm(c) \/ SetBpmCopy(c) \/ SetBpmQueue(c)
  \/ HandleSetMode(c) \/ SetModeCheck(c) \/ SetModeLeave(c) \/ SetModeWrite(c)
  \/ HandleLoopStart(c) \/ HandleLoopStop(c) \/ RequireProject(c) \/ SendCommand(c)
  \/ HandleStop(c) \/ SignalShutdown(c)

-----------------------------------------------------------------------------
(* daemon::run after select!, with clock_stop_on_shutdown.                 *)

KeepHandlers == KeepSettings /\ UNCHANGED <<request, step, read, wrote, signalled>>

LeaveSelect ==
  /\ main = "Serving" /\ signalled
  /\ main' = "ReadState"
  /\ KeepEngine /\ KeepHandlers /\ UNCHANGED manner

(* SIGTERM, or the listener failing.                                       *)
Terminate ==
  /\ main = "Serving"
  /\ main' = "ReadState"
  /\ manner' = IF Quiet THEN manner ELSE "careless"
  /\ KeepEngine /\ KeepHandlers

(* Mutant: a paused loop needs no stop.                                    *)
ShutdownReadRunning ==
  /\ main = "ReadState"
  /\ main' = IF state = "Running" THEN "SendStop" ELSE "Unlink"
  /\ KeepEngine /\ KeepHandlers /\ UNCHANGED manner

ShutdownRead ==
  /\ main = "ReadState"
  /\ main' = IF state \in {"Running", "Paused"} THEN "SendStop" ELSE "Unlink"
  /\ KeepEngine /\ KeepHandlers /\ UNCHANGED manner

ShutdownSend ==
  /\ main = "SendStop"
  /\ Send("ClockStop")
  /\ main' = "Drain"
  /\ KeepHandlers /\ UNCHANGED manner

ShutdownDrained ==
  /\ main = "Drain" /\ state = "Stopped"
  /\ main' = "Unlink"
  /\ KeepEngine /\ KeepHandlers /\ UNCHANGED manner

(* The player did not answer within 100 ms.                                *)
ShutdownTimeout ==
  /\ main = "Drain"
  /\ main' = "Unlink"
  /\ manner' = "careless"
  /\ KeepEngine /\ KeepHandlers

(* The process ends, and with it its threads and connections.              *)
Unlink ==
  /\ main = "Unlink"
  /\ main' = "Exited"
  /\ queue' = <<>>
  /\ request' = [c \in Clients |-> None] /\ step' = [c \in Clients |-> "Ok"]
  /\ read' = [c \in Clients |-> None] /\ wrote' = [c \in Clients |-> FALSE]
  /\ UNCHANGED <<state, phase, starting, active, pending, isClockMode, transport>>
  /\ KeepSettings /\ UNCHANGED <<signalled, manner>>

MainStep ==
  \/ LeaveSelect \/ ShutdownRead \/ ShutdownSend \/ ShutdownDrained
  \/ ShutdownTimeout \/ Unlink

PlayerThread == Alive /\ EngineStep /\ UNCHANGED daemonVars

Gone == ~Alive /\ UNCHANGED vars

-----------------------------------------------------------------------------
Init ==
  /\ EngineInit
  /\ mode = InitialMode
  /\ request = [c \in Clients |-> None]
  /\ step = [c \in Clients |-> "Ok"]
  /\ read = [c \in Clients |-> None]
  /\ wrote = [c \in Clients |-> FALSE]
  /\ signalled = FALSE
  /\ main = "Serving"
  /\ manner = "calm"

Next ==
  \/ \E c \in Clients : (\E r \in Requests[c] : Submit(c, r)) \/ HandlerStep(c)
  \/ Terminate \/ MainStep
  \/ PlayerThread
  \/ Gone

Spec == Init /\ [][Next]_vars

-----------------------------------------------------------------------------
NextSong == IF pending # None THEN pending ELSE active

TypeOK ==
  /\ EngineTypeOK
  /\ mode \in EngineMode
  /\ step \in [Clients -> {"Ok", "Error", "Dispatch", "CopyActive", "QueueCopy",
                           "CheckState", "LeaveClock", "SetMode", "NeedProject",
                           "SendStart", "SendStop", "SendClockStart",
                           "SendClockStop", "Signal"}]
  /\ \A c \in Clients : ~AtRest(c) => request[c] \in Requests[c]
  /\ \A c \in Clients : step[c] = "QueueCopy" => read[c] \in Projects
  /\ signalled \in BOOLEAN /\ manner \in Manners
  /\ main \in MainSteps

(* A request that is answered with an error has changed nothing on its way *)
(* there: no setting, no project, no command sent.                         *)
ErrorsChangeNothing ==
  \A c \in Clients : step[c] = "Error" => ~wrote[c]

(* "This ensures the MIDI 0xFC byte is sent to connected devices before    *)
(* the process exits": whoever shuts a daemon down that is not in the      *)
(* middle of something leaves no slave rolling and no loop playing,        *)
(* whatever the modes, starts, pauses and project changes before.          *)
CleanExit ==
  main = "Exited" /\ manner # "careless" => transport = "stopped" /\ state \notin {"Running", "Paused"}

(* Leaving clock mode stops the slaves: with one request at a time and no  *)
(* explicit clock command, slaves roll in clock mode alone.                *)
ClockOnlyInClockMode ==
  manner = "calm" /\ Quiet /\ mode # "clock" => transport = "stopped"

(* set-bpm "changes tempo while the loop is playing": the song the next    *)
(* boundary plays is the one it would have played without it.              *)
TempoChangesOnlyTempo ==
  [][ \A c \in Clients : At(c, "QueueCopy") => NextSong' = NextSong ]_vars

=============================================================================
