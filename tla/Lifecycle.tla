------------------------------ MODULE Lifecycle ------------------------------
(***************************************************************************)
(* Daemons coming and going behind one socket path: the startup guard, the *)
(* commands of main.rs that start and stop a daemon (and those of          *)
(* propeller-clock's), the process from daemon-run to exit, and the        *)
(* interactive console of tui.rs, which restarts the daemon to change its  *)
(* settings.                                                               *)
(*                                                                         *)
(* The path names a socket file or nothing.  A file outlives its daemon if *)
(* that crashes; whoever removes the file removes what the path names      *)
(* then.  A wait of ten seconds times out only if what it waits for is not *)
(* under way.                                                              *)
(***************************************************************************)
EXTENDS Naturals, FiniteSets

CONSTANTS
  None,
  Processes,     \* identities of daemon processes, reused when gone
  OutPort,       \* the MIDI output port there is while plugged, besides the
                 \*   virtual one the daemon opens itself
  InPort,        \* the MIDI input port there is while plugged
  Shells,        \* the users of the command line
  ShellOps,      \* what they run
  Keys           \* the keys pressed in the console

Mode == {"standalone", "clock", "sync"}

(* The settings of a daemon: None is the virtual port, or no sync port.    *)
Settings == [mode : Mode, out : {OutPort, None}, in : {InPort, None}]

ASSUME LifecycleAssumption ==
  /\ None \notin Processes \cup ShellOps
  /\ \A o \in ShellOps :
       /\ o.name \in {"start", "ensure", "stop", "status", "kill"}
       /\ o.name \in {"start", "ensure"} => o.with \in Settings
  /\ Keys \subseteq {"d", "o", "m", "y", "c"}

VARIABLES
  file,          \* the process whose socket the path names, or None
  phase,         \* phase[p]: how far a process is
  settings,      \* settings[p]
  plugged,       \* the device with these ports is there
  op, at,        \* per shell: the command being run, and where it is
  console,       \* where the console is
  asked,         \*   the daemon that its status request is with, or None
  restarting,    \*   its stop is followed by a spawn
  running,       \*   Console.daemon_running
  shown,         \*   Console.mode, output_port, sync_port
  ours,          \* history: the processes that the console has spawned
                 \*   (kept while not careless)
  last,          \* history: the command that ended last and how, unless careless
  careless       \* history: commands have overlapped, or something happened to
                 \*   a daemon in the middle of one

launchVars == <<settings, ours>>
processVars == <<file, phase, launchVars>>
shellVars == <<op, at>>
consoleVars == <<console, asked, restarting, running, shown>>
history == <<last, careless>>
vars == <<processVars, plugged, shellVars, consoleVars, history>>

Phases ==
  {"gone", "opening",   \* cmd_daemon_run before the bind
   "bound",             \* connects, but nobody accepts yet
   "serving",
   "closing"}           \* out of select!: the listener is closed, the file is there

Alive(p) == phase[p] # "gone"
Connectable == file # None /\ phase[file] \in {"bound", "serving"}
Serving == file # None /\ phase[file] = "serving"

InTransition == \E p \in Processes : phase[p] \in {"opening", "bound", "closing"}
Quiet == ~InTransition /\ (\A s \in Shells : at[s] = "Rest") /\ console = "Idle"

Became(p, ph) == phase' = [phase EXCEPT ![p] = ph]

-----------------------------------------------------------------------------
(* The daemon process.                                                     *)

Elsewhere == UNCHANGED <<plugged, shellVars, consoleVars, history>>

Available(port) == port # None /\ plugged

(* open_port, open_virtual, and --sync, which is an error without a port.  *)
Opens(cfg) ==
  /\ cfg.out = None \/ Available(cfg.out)
  /\ cfg.mode = "sync" => cfg.in # None

(* cmd_daemon_run, up to daemon::run.                                      *)
OpenPorts(p) ==
  /\ phase[p] = "opening" /\ ~Opens(settings[p])
  /\ Became(p, "gone")
  /\ UNCHANGED <<file, launchVars>> /\ Elsewhere

(* A socket file in the way, stale or not, is an error.                    *)
Bind(p) ==
  /\ phase[p] = "opening" /\ Opens(settings[p])
  /\ IF file = None
       THEN file' = p /\ Became(p, "bound")
       ELSE UNCHANGED file /\ Became(p, "gone")
  /\ UNCHANGED launchVars /\ Elsewhere

(* MidiClockReceiver::new may fail; the socket file is left then.          *)
Serve(p) ==
  /\ phase[p] = "bound"
  /\ Became(p, IF settings[p].mode = "sync" /\ ~Available(settings[p].in)
                 THEN "gone" ELSE "serving")
  /\ UNCHANGED <<file, launchVars>> /\ Elsewhere

(* The drain, and remove_file, whoever has bound that path by now.         *)
Exit(p) ==
  /\ phase[p] = "closing"
  /\ file' = None
  /\ Became(p, "gone")
  /\ UNCHANGED launchVars /\ Elsewhere

Crash(p) ==
  /\ phase[p] = "serving"
  /\ Became(p, "gone")
  /\ last' = None
  /\ careless' = (careless \/ ~Quiet)
  /\ UNCHANGED <<file, launchVars, plugged, shellVars, consoleVars>>

ProcessStep(p) == OpenPorts(p) \/ Bind(p) \/ Serve(p) \/ Exit(p) \/ Crash(p)

Unplug ==
  /\ plugged /\ plugged' = FALSE
  /\ last' = None
  /\ careless' = (careless \/ ~Quiet)
  /\ UNCHANGED <<processVars, shellVars, consoleVars>>

-----------------------------------------------------------------------------
(* Pieces of the commands.                                                 *)

(* An identity that is still being asked is not free.                      *)
Spawn(cfg, byConsole) ==
  \E p \in Processes :
    /\ ~Alive(p) /\ p # asked
    /\ phase' = [phase EXCEPT ![p] = "opening"]
    /\ settings' = [settings EXCEPT ![p] = cfg]
    /\ ours' = CASE careless -> {}
                 [] ~careless /\ byConsole -> ours \cup {p}
                 [] OTHER -> ours \ {p}
    /\ UNCHANGED file

(* A daemon that comes up, or goes, within the ten seconds.                *)
ComingUp == \E p \in Processes : phase[p] \in {"opening", "bound"}
GoingDown == \E p \in Processes : phase[p] = "closing"

(* A stop request is answered, and the daemon leaves select!.              *)
SendStop == Serving /\ phase' = [phase EXCEPT ![file] = "closing"]

GoTo(s, next) == at' = [at EXCEPT ![s] = next] /\ UNCHANGED <<op, history>>

Ended(command) == last' = IF careless THEN None ELSE command

Ends(s, outcome) ==
  /\ at' = [at EXCEPT ![s] = "Rest"]
  /\ op' = [op EXCEPT ![s] = None]
  /\ Ended([name |-> op[s].name, outcome |-> outcome, with |-> op[s].with])
  /\ UNCHANGED careless

(* handle_client_error, for a connection that is refused.                  *)
NotRunning(s) == ~Connectable /\ Ends(s, "NotRunning")

Shell(s, where) == at[s] = where
KeepProcesses == UNCHANGED processVars
KeepConsole == UNCHANGED <<consoleVars, plugged>>

-----------------------------------------------------------------------------
(* The command line.                                                       *)

Enter(s, o) ==
  /\ at[s] = "Rest"
  /\ op' = [op EXCEPT ![s] = o]
  /\ at' = [at EXCEPT ![s] = CASE o.name = "start" -> "Exists"
                               [] o.name = "ensure" -> "Validate"
                               [] OTHER -> "Request"]
  /\ careless' = (careless \/ ~Quiet)
  /\ last' = None
  /\ KeepProcesses /\ KeepConsole

(* startup_guard::check                                                    *)
GuardExists(s) ==
  /\ Shell(s, "Exists")
  /\ GoTo(s, IF file # None THEN "Connect"
             ELSE IF op[s].name = "start" THEN "Validate" ELSE "Spawn")
  /\ KeepProcesses /\ KeepConsole

(* Mutant: every file that is there is taken for a stale one.             *)
GuardNeverConnects(s) ==
  /\ Shell(s, "Connect")
  /\ GoTo(s, "Remove")
  /\ KeepProcesses /\ KeepConsole

(* start gives up if a daemon is there; propeller-clock uses it.           *)
GuardConnect(s) ==
  /\ Shell(s, "Connect")
  /\ IF ~Connectable THEN GoTo(s, "Remove")
     ELSE IF op[s].name = "start" THEN Ends(s, "AlreadyRunning")
     ELSE GoTo(s, "Request")
  /\ KeepProcesses /\ KeepConsole

GuardRemove(s) ==
  /\ Shell(s, "Remove")
  /\ file' = None
  /\ GoTo(s, IF op[s].name = "start" THEN "Validate" ELSE "Spawn")
  /\ UNCHANGED <<phase, launchVars>> /\ KeepConsole

(* PROPELLER_MIDI_PORT and PROPELLER_SYNC_PORT must name ports that are    *)
(* there; so must PROPELLER_CLOCK_PORT, before propeller-clock's guard.    *)
Missing(cfg) ==
  \/ cfg.out # None /\ ~Available(cfg.out)
  \/ cfg.mode = "sync" /\ ~Available(cfg.in)

Validate(s) ==
  /\ Shell(s, "Validate")
  /\ IF Missing(op[s].with)
       THEN Ends(s, "NoPort")
       ELSE GoTo(s, IF op[s].name = "start" THEN "Spawn" ELSE "Exists")
  /\ KeepProcesses /\ KeepConsole

SpawnDaemon(s) ==
  /\ Shell(s, "Spawn")
  /\ Spawn(op[s].with, FALSE)
  /\ GoTo(s, "Probe") /\ KeepConsole

(* Mutant: a socket that connects will do.                                 *)
ProbeConnects(s) ==
  /\ Shell(s, "Probe")
  /\ \/ Connectable /\ (IF op[s].name = "start" THEN Ends(s, "Ok") ELSE GoTo(s, "Request"))
     \/ ~Connectable /\ ~ComingUp /\ Ends(s, "Timeout")
  /\ KeepProcesses /\ KeepConsole

(* Until status is answered: "a plain connect() check is insufficient".    *)
Probe(s) ==
  /\ Shell(s, "Probe")
  /\ \/ Serving /\ (IF op[s].name = "start" THEN Ends(s, "Ok") ELSE GoTo(s, "Request"))
     \/ ~Serving /\ ~ComingUp /\ Ends(s, "Timeout")
  /\ KeepProcesses /\ KeepConsole

(* One request over one connection; a stop waits for the file to go.       *)
Request(s) ==
  /\ Shell(s, "Request") /\ op[s].name \in {"stop", "status", "ensure"}
  /\ \/ NotRunning(s) /\ KeepProcesses
     \/ Serving /\ op[s].name # "stop" /\ Ends(s, "Ok") /\ KeepProcesses
     \/ op[s].name = "stop" /\ SendStop /\ UNCHANGED <<file, launchVars>> /\ GoTo(s, "WaitGone")
  /\ KeepConsole

WaitGone(s) ==
  /\ Shell(s, "WaitGone")
  /\ \/ file = None /\ Ends(s, "Ok")
     \/ file # None /\ ~GoingDown /\ Ends(s, "Timeout")
  /\ KeepProcesses /\ KeepConsole

(* kill: SIGTERM to a daemon, and no wait.  Before serving it has no       *)
(* handler for it.                                                         *)
Terminate(s) ==
  /\ Shell(s, "Request") /\ op[s].name = "kill"
  /\ \/ \E p \in Processes :
          Alive(p) /\ Became(p, IF phase[p] \in {"opening", "bound"} THEN "gone" ELSE "closing")
     \/ (\A p \in Processes : ~Alive(p)) /\ UNCHANGED phase
  /\ Ends(s, "Ok") /\ UNCHANGED <<file, launchVars>> /\ KeepConsole

ShellStep(s) ==
  \/ \E o \in ShellOps : Enter(s, o)
  \/ GuardExists(s) \/ GuardConnect(s) \/ GuardRemove(s) \/ Validate(s)
  \/ SpawnDaemon(s) \/ Probe(s) \/ Request(s) \/ WaitGone(s) \/ Terminate(s)

-----------------------------------------------------------------------------
(* The console.  A key is handled to its end, then the status fetched.     *)

KeepShell == UNCHANGED <<shellVars, plugged>>
To(next) == console' = next

NextMode(m) ==
  CASE m = "standalone" -> "clock" [] m = "clock" -> "sync" [] m = "sync" -> "standalone"
NextPort(port, named) == IF port = None THEN named ELSE None

(* apply_if_running: stop, then spawn.                                     *)
Apply(wanted) ==
  /\ shown' = wanted
  /\ IF running THEN To("Stop") /\ restarting' = TRUE
                ELSE To("Refresh") /\ UNCHANGED restarting
  /\ UNCHANGED running

Key(k) ==
  /\ console = "Idle" /\ k \in Keys
  /\ CASE k = "d" -> /\ To(IF running THEN "Stop" ELSE "Spawn")
                     /\ UNCHANGED <<restarting, running, shown>>
       [] k = "o" -> Apply([shown EXCEPT !.out = NextPort(@, OutPort)])
       [] k = "m" -> Apply([shown EXCEPT !.mode =
                              IF NextMode(@) = "sync" /\ shown.in = None
                                THEN NextMode("sync") ELSE NextMode(@)])
       [] k = "y" -> LET wanted == [shown EXCEPT !.in = NextPort(@, InPort)]
                     IN  IF shown.mode = "sync" THEN Apply(wanted)
                         ELSE shown' = wanted /\ To("Refresh") /\ UNCHANGED <<restarting, running>>
       [] k = "c" -> To("Refresh") /\ UNCHANGED <<restarting, running, shown>>
  /\ last' = None
  /\ careless' = (careless \/ ~Quiet)
  /\ UNCHANGED asked /\ KeepProcesses /\ KeepShell

(* stop_daemon                                                             *)
ConsoleStop ==
  /\ console = "Stop" /\ (Connectable => Serving)
  /\ IF Serving THEN SendStop /\ UNCHANGED <<file, launchVars>> ELSE KeepProcesses
  /\ To("WaitGone")
  /\ UNCHANGED <<asked, restarting, running, shown, history>> /\ KeepShell

(* Mutant: the restart is not done with when the daemon is gone.           *)
ConsoleWaitGoneAgain ==
  /\ console = "WaitGone"
  /\ \/ file = None /\ running' = FALSE
     \/ file # None /\ ~GoingDown /\ UNCHANGED running
  /\ To(IF restarting THEN "Spawn" ELSE "Refresh")
  /\ UNCHANGED <<asked, restarting, shown, history>> /\ KeepProcesses /\ KeepShell

ConsoleWaitGone ==
  /\ console = "WaitGone"
  /\ \/ file = None /\ running' = FALSE
     \/ file # None /\ ~GoingDown /\ UNCHANGED running
  /\ To(IF restarting THEN "Spawn" ELSE "Refresh")
  /\ restarting' = FALSE
  /\ UNCHANGED <<asked, shown, history>> /\ KeepProcesses /\ KeepShell

(* spawn_daemon: no startup guard here.                                    *)
ConsoleSpawn ==
  /\ console = "Spawn"
  /\ Spawn([shown EXCEPT !.in = IF shown.mode = "sync" THEN @ ELSE None], TRUE)
  /\ To("Probe")
  /\ UNCHANGED <<asked, restarting, running, shown, history>> /\ KeepShell

ConsoleProbe ==
  /\ console = "Probe"
  /\ \/ Serving /\ running' = TRUE
     \/ ~Serving /\ ~ComingUp /\ UNCHANGED running
  /\ To("Refresh")
  /\ UNCHANGED <<asked, restarting, shown, history>> /\ KeepProcesses /\ KeepShell

(* refresh_from_status connects: a connection that is refused is a daemon  *)
(* that is not there.                                                      *)
Refreshed(outcome) == Ended([name |-> "refresh", outcome |-> outcome, with |-> None])

(* Mutant: a connection that is refused changes nothing.                   *)
RefreshKeepsRunning ==
  /\ console = "Refresh"
  /\ IF Connectable
       THEN To("Reading") /\ asked' = file /\ UNCHANGED <<running, shown, last>>
       ELSE To("Idle") /\ UNCHANGED <<asked, running, shown>> /\ Refreshed("Ok")
  /\ UNCHANGED <<restarting, careless>> /\ KeepProcesses /\ KeepShell

Refresh ==
  /\ console = "Refresh"
  /\ IF Connectable
       THEN To("Reading") /\ asked' = file /\ UNCHANGED <<running, shown, last>>
       ELSE To("Idle") /\ running' = FALSE /\ UNCHANGED <<asked, shown>> /\ Refreshed("Ok")
  /\ UNCHANGED <<restarting, careless>> /\ KeepProcesses /\ KeepShell

(* What status says of the ports: the virtual one has no name, and the     *)
(* sync port is one of sync mode.  A name that is absent changes nothing.  *)
Reported(cfg) ==
  [mode |-> cfg.mode,
   out |-> IF cfg.out = None THEN shown.out ELSE cfg.out,
   in |-> IF cfg.mode = "sync" /\ cfg.in # None THEN cfg.in ELSE shown.in]

(* The answer is read: a daemon that has left select! may still give one.  *)
(* A connection that is closed without an answer changes nothing.          *)
RefreshRead ==
  /\ console = "Reading" /\ phase[asked] # "bound"
  /\ \/ /\ phase[asked] \in {"serving", "closing"}
        /\ running' = TRUE /\ shown' = Reported(settings[asked])
        /\ Refreshed(IF phase[asked] = "serving" THEN "Ok" ELSE "Late")
     \/ /\ phase[asked] # "serving"
        /\ UNCHANGED <<running, shown>>
        /\ Refreshed("NoAnswer")
  /\ To("Idle") /\ asked' = None
  /\ UNCHANGED <<restarting, careless>> /\ KeepProcesses /\ KeepShell

(* The poll of 200 ms without a key.                                       *)
Poll ==
  /\ console = "Idle"
  /\ To("Refresh")
  /\ UNCHANGED <<asked, restarting, running, shown, history>> /\ KeepProcesses /\ KeepShell

ConsoleStep ==
  \/ \E k \in Keys : Key(k)
  \/ ConsoleStop \/ ConsoleWaitGone \/ ConsoleSpawn \/ ConsoleProbe
  \/ Refresh \/ RefreshRead \/ Poll

-----------------------------------------------------------------------------
(* The console opens on a machine without a daemon or a socket file: its   *)
(* first refresh finds nothing and it spawns.                              *)
Init ==
  /\ file = None
  /\ phase = [p \in Processes |-> "gone"]
  /\ settings = [p \in Processes |-> [mode |-> "standalone", out |-> None, in |-> None]]
  /\ plugged = TRUE
  /\ op = [s \in Shells |-> None] /\ at = [s \in Shells |-> "Rest"]
  /\ console = "Spawn" /\ asked = None /\ restarting = FALSE /\ running = FALSE
  /\ ours = {}
  /\ shown = [mode |-> "standalone", out |-> None, in |-> None]
  /\ last = None /\ careless = FALSE

Next ==
  \/ \E p \in Processes : ProcessStep(p)
  \/ \E s \in Shells : ShellStep(s)
  \/ ConsoleStep
  \/ Unplug

Spec == Init /\ [][Next]_vars

-----------------------------------------------------------------------------
TypeOK ==
  /\ file \in Processes \cup {None}
  /\ phase \in [Processes -> Phases]
  /\ settings \in [Processes -> Settings] /\ shown \in Settings
  /\ \A s \in Shells : op[s] = None <=> at[s] = "Rest"
  /\ console \in {"Idle", "Stop", "WaitGone", "Spawn", "Probe", "Refresh", "Reading"}
  /\ asked \in Processes \cup {None} /\ (asked # None <=> console = "Reading")
  /\ ours \subseteq Processes
  /\ restarting => console \in {"Stop", "WaitGone"}
  /\ restarting \in BOOLEAN /\ running \in BOOLEAN
  /\ plugged \in BOOLEAN /\ careless \in BOOLEAN

(* "Single-instance guard": commands given one after the other never leave *)
(* two daemons, nor one that cannot be reached, whatever crashed between.  *)
OneDaemon ==
  ~careless /\ Quiet =>
    /\ Cardinality({p \in Processes : Alive(p)}) <= 1
    /\ \A p \in Processes : Alive(p) => file = p

(* What a command says when it ends is so: after start the daemon serves   *)
(* with the settings asked for; when it says "already running", after      *)
(* ensure and after status one serves; after stop none does and the file   *)
(* is gone; and where a stop or status finds nothing running, nothing is.  *)
(* No start, ensure or stop waits in vain, not even after a crash has left *)
(* its file ("stale socket recovery").                                     *)
AnswersTrue ==
  ~careless /\ last # None /\ last.name # "refresh" =>
    /\ last.outcome \in {"Ok", "AlreadyRunning"} /\ last.name \notin {"stop", "kill"} => Serving
    /\ last.outcome = "Ok" /\ last.name = "start" => settings[file] = last.with
    /\ last.outcome = "Ok" /\ last.name = "stop" => file = None
    /\ \/ last.outcome = "Ok" /\ last.name = "stop"
       \/ last.outcome = "NotRunning"
       => \A p \in Processes : ~Alive(p)
    /\ last.outcome = "NotRunning" => last.name \in {"stop", "status"}
    /\ last.outcome # "Timeout"

(* draw: what the user reads of the daemon.                                *)
Screen ==
  [daemon |-> IF running THEN "running" ELSE "stopped",
   mode |-> shown.mode, port |-> shown.out, sync |-> shown.in]

(* When its status has been answered, the console draws the daemon that is *)
(* there, the mode it runs in, its output port and, in sync mode, its sync *)
(* port.  The one exception: of a daemon that a command line has started   *)
(* on the virtual port, status names no port, and the console goes on      *)
(* drawing the one that the daemon before it had.                          *)
ConsoleTruthful ==
  /\ ~careless /\ Quiet /\ last # None
  /\ last.name = "refresh" /\ last.outcome = "Ok"
  =>
  /\ Screen.daemon = "running" <=> Serving
  /\ Serving =>
       /\ Screen.mode = settings[file].mode
       /\ \/ Screen.port = settings[file].out
          \/ settings[file].out = None /\ file \notin ours
       /\ Screen.mode = "sync" => Screen.sync = settings[file].in

=============================================================================
