---------------------------- MODULE LifecycleProofs ----------------------------
(***************************************************************************)
(* Proofs about daemons coming and going behind one socket path, for any   *)
(* number of processes and users, any ports and any commands: every        *)
(* property the run "console" checks.                                      *)
(***************************************************************************)
EXTENDS Lifecycle, FiniteSetTheorems, TLAPS

-----------------------------------------------------------------------------
(* The parts of the inductive invariant.                                   *)

Places ==
  {"Rest", "Exists", "Connect", "Remove", "Validate", "Spawn", "Probe", "Request", "WaitGone"}

Starting == {"start", "ensure"}

ProcessTypes ==
  /\ file \in Processes \cup {None}
  /\ phase \in [Processes -> Phases]
  /\ settings \in [Processes -> Settings] /\ ours \subseteq Processes

ShellTypes ==
  /\ op \in [Shells -> ShellOps \cup {None}] /\ at \in [Shells -> Places]
  /\ \A s \in Shells :
       /\ op[s] = None <=> at[s] = "Rest"
       /\ at[s] \in {"Exists", "Connect", "Remove", "Validate", "Spawn", "Probe"}
            => op[s].name \in Starting
       /\ at[s] = "WaitGone" => op[s].name = "stop"

ConsoleTypes ==
  /\ shown \in Settings
  /\ console \in {"Idle", "Stop", "WaitGone", "Spawn", "Probe", "Refresh", "Reading"}
  /\ asked \in Processes \cup {None} /\ (asked # None <=> console = "Reading")
  /\ restarting => console \in {"Stop", "WaitGone"}
  /\ restarting \in BOOLEAN /\ running \in BOOLEAN

OtherTypes == plugged \in BOOLEAN /\ careless \in BOOLEAN

Types == ProcessTypes /\ ShellTypes /\ ConsoleTypes /\ OtherTypes

(* While nobody is careless, one user acts on the daemon: a command in one *)
(* shell, or a key of the console, which otherwise only looks.             *)
Busy(s) == at[s] # "Rest"
Watching == console \in {"Idle", "Refresh", "Reading"}

OneActor ==
  /\ \A s, t \in Shells : Busy(s) /\ Busy(t) => s = t
  /\ \A s \in Shells : Busy(s) => Watching

(* The file is the socket of every process that has got past the bind, so  *)
(* there is one of these, and one at most that has not.                    *)
Settled == \A p \in Processes : phase[p] \in {"gone", "serving"}
NobodyAlive == \A p \in Processes : phase[p] = "gone"

Processing ==
  /\ \A p \in Processes : phase[p] \in {"bound", "serving", "closing"} => file = p
  /\ \A p, q \in Processes : phase[p] = "opening" /\ phase[q] = "opening" => p = q
  /\ \A p, q \in Processes : phase[p] = "opening" => phase[q] # "closing"
  /\ \A p \in Processes : phase[p] \in {"bound", "serving"} /\ settings[p].mode = "sync"
       => settings[p].in # None

(* Who is waited for: a process that cannot bind may outlive the wait of   *)
(* the console, which has found another daemon serving.                    *)
Waited ==
  /\ \A p \in Processes : phase[p] = "bound" =>
       console = "Probe" \/ \E s \in Shells : at[s] = "Probe"
  /\ \A p \in Processes : phase[p] = "opening" =>
       file # None \/ console = "Probe" \/ \E s \in Shells : at[s] = "Probe"
  /\ \A p \in Processes : phase[p] = "closing" =>
       /\ console = "WaitGone" \/ Watching
       /\ \A s \in Shells : at[s] \in {"Rest", "WaitGone"}
  /\ console \in {"Stop", "Spawn"} => Settled
  /\ console = "WaitGone" =>
       \A p \in Processes : phase[p] \in {"gone", "closing"}

(* The daemon a command has started comes up, the one it stops goes.       *)
Rising(cfg) ==
  \E p \in Processes :
    /\ phase[p] \in {"opening", "bound", "serving"}
    /\ phase[p] = "opening" => file = None
    /\ settings[p] = cfg /\ p \notin ours
    /\ \A q \in Processes : Alive(q) => q = p

Commands ==
  \A s \in Shells :
    /\ at[s] \in {"Exists", "Connect", "Remove", "Validate", "Spawn", "Request"} => Settled
    /\ at[s] = "Remove" => NobodyAlive
    /\ at[s] = "Validate" /\ op[s].name = "start" => file = None
    /\ at[s] = "Spawn" => file = None
    /\ at[s] \in {"Spawn", "Probe"} => ~Missing(op[s].with)
    /\ at[s] \in {"Exists", "Connect", "Remove"} /\ op[s].name = "ensure"
         => ~Missing(op[s].with)
    /\ at[s] = "Request" /\ op[s].name = "ensure" => Serving
    /\ at[s] = "Probe" => Rising(op[s].with)
    /\ at[s] = "WaitGone" =>
         \/ file = None /\ NobodyAlive
         \/ \E p \in Processes : phase[p] = "closing"

(* The daemon that the console asks is the one behind the path, unless it  *)
(* has been stopped meanwhile.                                             *)
Asking ==
  console = "Reading" =>
    \/ file = asked /\ phase[asked] \in {"bound", "serving", "closing"}
    \/ NobodyAlive /\ \A s \in Shells : at[s] \in {"Rest", "WaitGone"}

(* The console knows the output port of a daemon of its own, since it      *)
(* changes that setting by a restart, unless it has found the daemon gone. *)
Owned ==
  /\ Watching => \A p \in ours : phase[p] = "serving" =>
                   running /\ shown.out = settings[p].out
  /\ console = "Spawn" => \A p \in ours : phase[p] = "gone"
  /\ console = "Probe" => \A p \in ours : Alive(p) => shown.out = settings[p].out

(* What was answered last is still so.                                     *)
Answered ==
  last # None =>
    /\ Watching
    /\ last.name # "refresh" =>
         /\ \A s \in Shells : at[s] = "Rest"
         /\ last.outcome \in {"Ok", "AlreadyRunning"} /\ last.name \notin {"stop", "kill"}
              => Serving
         /\ last.outcome = "Ok" /\ last.name = "start" => settings[file] = last.with
         /\ last.outcome = "Ok" /\ last.name = "stop" => file = None /\ NobodyAlive
         /\ last.outcome = "NotRunning" => NobodyAlive /\ last.name \in {"stop", "status"}
         /\ last.outcome # "Timeout"

ScreenInv ==
  /\ last # None /\ last.name = "refresh" /\ last.outcome = "Ok"
  /\ \A s \in Shells : at[s] = "Rest"
  =>
  /\ running <=> Serving
  /\ Serving =>
       /\ shown.mode = settings[file].mode
       /\ shown.out = settings[file].out \/ (settings[file].out = None /\ file \notin ours)
       /\ shown.mode = "sync" => shown.in = settings[file].in

Careful ==
  OneActor /\ Processing /\ Waited /\ Commands /\ Asking /\ Owned /\ Answered /\ ScreenInv

CarefulInv ==
  ~careless => Careful

-----------------------------------------------------------------------------
(* Types.                                                                  *)

LEMMA TypesOK == Types => TypeOK
BY DEF Types, TypeOK, ProcessTypes, ShellTypes, ConsoleTypes, OtherTypes

LEMMA Same ==
  /\ ProcessTypes /\ UNCHANGED processVars => ProcessTypes'
  /\ ShellTypes /\ UNCHANGED shellVars => ShellTypes'
  /\ ConsoleTypes /\ UNCHANGED consoleVars => ConsoleTypes'
BY DEF ProcessTypes, ShellTypes, ConsoleTypes, processVars, launchVars, shellVars, consoleVars

LEMMA InitTyped == Init => Types
<1> SUFFICES ASSUME Init PROVE Types
  OBVIOUS
<1>1. [mode |-> "standalone", out |-> None, in |-> None] \in Settings
  BY DEF Settings, Mode
<1>2. ProcessTypes
  BY <1>1 DEF Init, ProcessTypes, Phases
<1>3. ShellTypes
  BY DEF Init, ShellTypes, Places
<1>4. ConsoleTypes /\ OtherTypes
  BY <1>1 DEF Init, ConsoleTypes, OtherTypes
<1> QED
  BY <1>2, <1>3, <1>4 DEF Types

LEMMA ProcessTyped ==
  ASSUME Types, NEW p \in Processes, ProcessStep(p)
  PROVE  Types'
<1>1. ProcessTypes /\ ShellTypes /\ ConsoleTypes /\ OtherTypes
  BY DEF Types
<1>2. ProcessTypes'
  BY <1>1 DEF ProcessStep, OpenPorts, Bind, Serve, Exit, Crash, ProcessTypes, Phases, Became,
     launchVars
<1>3. UNCHANGED <<shellVars, consoleVars, plugged>>
  BY DEF ProcessStep, OpenPorts, Bind, Serve, Exit, Crash, Elsewhere
<1>4. careless' \in BOOLEAN
  BY <1>1 DEF ProcessStep, OpenPorts, Bind, Serve, Exit, Crash, Elsewhere, history, OtherTypes
<1> QED
  BY <1>1, <1>2, <1>3, <1>4, Same DEF Types, OtherTypes

LEMMA SpawnTyped ==
  ASSUME ProcessTypes, NEW cfg \in Settings, NEW byConsole, Spawn(cfg, byConsole)
  PROVE  ProcessTypes'
BY DEF ProcessTypes, Spawn, Phases

LEMMA SendStopTyped ==
  ASSUME ProcessTypes, SendStop, UNCHANGED <<file, launchVars>>
  PROVE  ProcessTypes'
BY DEF ProcessTypes, SendStop, Phases, launchVars

LEMMA GoToTyped ==
  ASSUME Types, NEW s \in Shells, NEW next \in Places, GoTo(s, next), KeepConsole,
         next # "Rest", at[s] # "Rest",
         next \in {"Exists", "Connect", "Remove", "Validate", "Spawn", "Probe"}
           => op[s].name \in Starting,
         next = "WaitGone" => op[s].name = "stop"
  PROVE  ShellTypes' /\ ConsoleTypes' /\ OtherTypes'
BY DEF GoTo, KeepConsole, Types, ShellTypes, ConsoleTypes, OtherTypes, consoleVars, history

LEMMA EndsTyped ==
  ASSUME Types, NEW s \in Shells, NEW outcome, Ends(s, outcome), KeepConsole
  PROVE  ShellTypes' /\ ConsoleTypes' /\ OtherTypes'
BY DEF Ends, KeepConsole, Types, ShellTypes, ConsoleTypes, OtherTypes, consoleVars, Places

LEMMA EnterTyped ==
  ASSUME Types, NEW s \in Shells, NEW o \in ShellOps, Enter(s, o)
  PROVE  Types'
<1>1. ProcessTypes /\ ShellTypes /\ ConsoleTypes /\ OtherTypes
  BY DEF Types
<1>2. /\ UNCHANGED <<processVars, consoleVars, plugged>>
      /\ careless' \in BOOLEAN
  BY <1>1 DEF Enter, KeepProcesses, KeepConsole, OtherTypes
<1>3. /\ op' = [op EXCEPT ![s] = o] /\ o # None
      /\ \/ o.name = "start" /\ at' = [at EXCEPT ![s] = "Exists"]
         \/ o.name = "ensure" /\ at' = [at EXCEPT ![s] = "Validate"]
         \/ at' = [at EXCEPT ![s] = "Request"]
  BY LifecycleAssumption DEF Enter
<1>4. ShellTypes'
  BY <1>1, <1>3 DEF ShellTypes, Places, Starting
<1> QED
  BY <1>1, <1>2, <1>4, Same DEF Types, OtherTypes

LEMMA ShellTyped ==
  ASSUME Types, NEW s \in Shells, ShellStep(s)
  PROVE  Types'
<1>1. /\ ProcessTypes /\ ShellTypes /\ ConsoleTypes /\ OtherTypes
      /\ op[s] = None <=> at[s] = "Rest"
      /\ op[s] # None => op[s] \in ShellOps
  BY DEF Types, ShellTypes
<1>2. /\ at[s] \in {"Exists", "Connect", "Remove", "Validate", "Spawn", "Probe"}
           => op[s].name \in {"start", "ensure"}
      /\ Starting = {"start", "ensure"}
  BY <1>1 DEF ShellTypes, Starting
<1>k. KeepProcesses => ProcessTypes'
  BY <1>1, Same DEF KeepProcesses
<1> SUFFICES Types' \/ (ProcessTypes' /\ ShellTypes' /\ ConsoleTypes' /\ OtherTypes')
  BY DEF Types
<1> USE DEF Shell, Places
<1>3. ASSUME NEW o \in ShellOps, Enter(s, o) PROVE Types'
  BY <1>3, EnterTyped
<1>4. CASE GuardExists(s)
  BY <1>4, <1>2, <1>k, GoToTyped DEF GuardExists
<1>5. CASE GuardConnect(s)
  BY <1>5, <1>2, <1>k, GoToTyped, EndsTyped DEF GuardConnect
<1>6. CASE GuardRemove(s)
  <2>1. ProcessTypes'
    BY <1>6, <1>1 DEF GuardRemove, ProcessTypes, launchVars
  <2> QED
    BY <1>6, <2>1, <1>2, GoToTyped DEF GuardRemove
<1>7. CASE Validate(s)
  BY <1>7, <1>2, <1>k, GoToTyped, EndsTyped DEF Validate
<1>8. CASE SpawnDaemon(s)
  <2>1. op[s].with \in Settings
    BY <1>8, <1>1, <1>2, LifecycleAssumption DEF SpawnDaemon
  <2> QED
    BY <1>8, <2>1, <1>1, <1>2, SpawnTyped, GoToTyped DEF SpawnDaemon
<1>9. CASE Probe(s)
  BY <1>9, <1>2, <1>k, GoToTyped, EndsTyped DEF Probe
<1>10. CASE Request(s)
  BY <1>10, <1>1, <1>k, GoToTyped, EndsTyped, SendStopTyped DEF Request, NotRunning
<1>11. CASE WaitGone(s)
  BY <1>11, <1>k, EndsTyped DEF WaitGone
<1>12. CASE Terminate(s)
  <2>1. ProcessTypes'
    BY <1>12, <1>1 DEF Terminate, ProcessTypes, Became, Phases, launchVars
  <2> QED
    BY <1>12, <2>1, EndsTyped DEF Terminate
<1> QED
  BY <1>3, <1>4, <1>5, <1>6, <1>7, <1>8, <1>9, <1>10, <1>11, <1>12 DEF ShellStep

LEMMA NextSettings ==
  ASSUME NEW cfg \in Settings
  PROVE  /\ [cfg EXCEPT !.out = NextPort(@, OutPort)] \in Settings
         /\ [cfg EXCEPT !.in = NextPort(@, InPort)] \in Settings
         /\ [cfg EXCEPT !.mode = IF NextMode(@) = "sync" /\ cfg.in = None
                                   THEN NextMode("sync") ELSE NextMode(@)] \in Settings
         /\ [cfg EXCEPT !.in = IF cfg.mode = "sync" THEN @ ELSE None] \in Settings
BY DEF Settings, Mode, NextPort, NextMode

LEMMA ApplyTyped ==
  ASSUME ConsoleTypes, console = "Idle", NEW wanted \in Settings, Apply(wanted), UNCHANGED asked
  PROVE  ConsoleTypes'
BY DEF ConsoleTypes, Apply, To

LEMMA KeyTyped ==
  ASSUME Types, NEW k \in Keys, Key(k)
  PROVE  Types'
<1>1. ProcessTypes /\ ShellTypes /\ ConsoleTypes /\ OtherTypes /\ shown \in Settings
  BY DEF Types, ConsoleTypes
<1>2. /\ UNCHANGED <<processVars, shellVars, plugged>>
      /\ careless' \in BOOLEAN /\ console = "Idle" /\ UNCHANGED asked
  BY <1>1 DEF Key, KeepProcesses, KeepShell, OtherTypes
<1>3. ~restarting
  BY <1>1, <1>2 DEF ConsoleTypes
<1>4. k \in {"d", "o", "m", "y", "c"}
  BY LifecycleAssumption
<1>5. ConsoleTypes'
  <2>1. CASE k = "d"
    BY <2>1, <1>1, <1>3 DEF Key, ConsoleTypes, To
  <2>2. CASE k = "o"
    BY <2>2, <1>1, <1>2, NextSettings, ApplyTyped DEF Key
  <2>3. CASE k = "m"
    BY <2>3, <1>1, <1>2, NextSettings, ApplyTyped DEF Key
  <2>4. CASE k = "y"
    <3>1. CASE shown.mode = "sync"
      BY <2>4, <3>1, <1>1, <1>2, NextSettings, ApplyTyped DEF Key
    <3>2. CASE shown.mode # "sync"
      BY <2>4, <3>2, <1>1, <1>3, NextSettings DEF Key, ConsoleTypes, To
    <3> QED
      BY <3>1, <3>2
  <2>5. CASE k = "c"
    BY <2>5, <1>1, <1>3 DEF Key, ConsoleTypes, To
  <2> QED
    BY <1>4, <2>1, <2>2, <2>3, <2>4, <2>5
<1> QED
  BY <1>1, <1>2, <1>5, Same DEF Types, OtherTypes

LEMMA ConsoleTyped == Types /\ ConsoleStep => Types'
<1> SUFFICES ASSUME Types, ConsoleStep PROVE Types'
  OBVIOUS
<1>1. /\ ProcessTypes /\ ShellTypes /\ ConsoleTypes /\ OtherTypes
      /\ shown \in Settings
  BY DEF Types, ConsoleTypes
<1>k. KeepProcesses => ProcessTypes'
  BY <1>1, Same DEF KeepProcesses
<1>2. ASSUME NEW k \in Keys, Key(k) PROVE Types'
  BY <1>2, KeyTyped
<1>3. ASSUME KeepShell, UNCHANGED careless, ProcessTypes', ConsoleTypes' PROVE Types'
  BY <1>1, <1>3, Same DEF Types, KeepShell, OtherTypes
<1>4. CASE ConsoleStop
  <2>1. ProcessTypes'
    BY <1>4, <1>1, <1>k, SendStopTyped DEF ConsoleStop
  <2>2. ConsoleTypes'
    BY <1>4, <1>1 DEF ConsoleStop, ConsoleTypes, To
  <2> QED
    BY <1>4, <2>1, <2>2, <1>3 DEF ConsoleStop, history
<1>5. CASE ConsoleWaitGone
  <2>1. ConsoleTypes'
    BY <1>5, <1>1 DEF ConsoleWaitGone, ConsoleTypes, To
  <2> QED
    BY <1>5, <2>1, <1>k, <1>3 DEF ConsoleWaitGone, history
<1>6. CASE ConsoleSpawn
  <2>1. ProcessTypes'
    <3> DEFINE cfg == [shown EXCEPT !.in = IF shown.mode = "sync" THEN @ ELSE None]
    <3>1. cfg \in Settings
      BY <1>1, NextSettings
    <3>2. Spawn(cfg, TRUE)
      BY <1>6 DEF ConsoleSpawn
    <3> HIDE DEF cfg
    <3> QED
      BY <1>1, <3>1, <3>2, SpawnTyped
  <2>2. ConsoleTypes'
    BY <1>6, <1>1 DEF ConsoleSpawn, ConsoleTypes, To
  <2> QED
    BY <1>6, <2>1, <2>2, <1>3 DEF ConsoleSpawn, history
<1>7. CASE ConsoleProbe
  <2>1. ConsoleTypes'
    BY <1>7, <1>1 DEF ConsoleProbe, ConsoleTypes, To
  <2> QED
    BY <1>7, <2>1, <1>k, <1>3 DEF ConsoleProbe, history
<1>8. CASE Refresh
  <2>1. Connectable => file \in Processes
    BY <1>1, LifecycleAssumption DEF Connectable, ProcessTypes
  <2>2. ConsoleTypes'
    BY <1>8, <1>1, <2>1, LifecycleAssumption DEF Refresh, ConsoleTypes, To
  <2> QED
    BY <1>8, <2>2, <1>k, <1>3 DEF Refresh
<1>10. CASE RefreshRead
  <2>1. asked \in Processes /\ settings[asked] \in Settings
    BY <1>10, <1>1 DEF RefreshRead, ConsoleTypes, ProcessTypes
  <2>2. Reported(settings[asked]) \in Settings
    BY <1>1, <2>1 DEF Reported, Settings
  <2>3. shown' \in Settings /\ running' \in BOOLEAN
    BY <1>10, <1>1, <2>2 DEF RefreshRead, ConsoleTypes
  <2>4. ConsoleTypes'
    BY <1>10, <1>1, <2>3, LifecycleAssumption DEF RefreshRead, ConsoleTypes, To
  <2> QED
    BY <1>10, <2>4, <1>k, <1>3 DEF RefreshRead
<1>9. CASE Poll
  <2>1. ConsoleTypes'
    BY <1>9, <1>1 DEF Poll, ConsoleTypes, To
  <2> QED
    BY <1>9, <2>1, <1>k, <1>3 DEF Poll, history
<1> QED
  BY <1>2, <1>4, <1>5, <1>6, <1>7, <1>8, <1>9, <1>10 DEF ConsoleStep

LEMMA StepTyped == Types /\ [Next]_vars => Types'
<1> SUFFICES ASSUME Types, [Next]_vars PROVE Types'
  OBVIOUS
<1>1. ProcessTypes /\ ShellTypes /\ ConsoleTypes /\ OtherTypes
  BY DEF Types
<1>2. CASE Unplug
  <2>1. OtherTypes' /\ UNCHANGED <<processVars, shellVars, consoleVars>>
    BY <1>1, <1>2 DEF Unplug, OtherTypes
  <2> QED
    BY <1>1, <2>1, Same DEF Types
<1>3. CASE UNCHANGED vars
  BY <1>1, <1>3, Same DEF Types, vars, OtherTypes, history
<1> QED
  BY <1>2, <1>3, ProcessTyped, ShellTyped, ConsoleTyped DEF Next

LEMMA TypeInvariant == Spec => []Types
BY InitTyped, StepTyped, PTL DEF Spec

(* Every variable keeps its type, whoever acts on the daemon when; and     *)
(* the console is never left about to restart a daemon it does not stop.   *)
THEOREM TypeCorrect == Spec => []TypeOK
BY TypeInvariant, TypesOK, PTL

-----------------------------------------------------------------------------
(* What the parts say of a moment at which nothing happens.                *)

LEMMA QuietSettled ==
  ASSUME Types, Quiet
  PROVE  Settled /\ (\A s \in Shells : at[s] = "Rest") /\ console = "Idle"
BY DEF Types, ProcessTypes, Phases, Quiet, InTransition, Settled

LEMMA SettledServing ==
  ASSUME Types, Settled, Processing
  PROVE  /\ Connectable <=> Serving
         /\ NobodyAlive \/ Serving
         /\ \A p \in Processes : Alive(p) <=> (phase[p] = "serving" /\ file = p)
         /\ file = None => NobodyAlive
BY LifecycleAssumption
DEF Types, ProcessTypes, Settled, Processing, NobodyAlive, Serving, Connectable, Alive

LEMMA FoundPorts ==
  ASSUME NEW cfg, ~Missing(cfg)
  PROVE  Opens(cfg) /\ ~(cfg.mode = "sync" /\ ~Available(cfg.in))
BY DEF Missing, Opens, Available

-----------------------------------------------------------------------------
(* The daemon process.                                                     *)

LEMMA ProcessStill ==
  ASSUME Elsewhere
  PROVE  UNCHANGED <<op, at, console, asked, restarting, running, shown, last, careless, plugged>>
BY DEF Elsewhere, shellVars, consoleVars, history

(* A process that gives up was not waited for by a command: such a one has *)
(* found its ports, and no file in its way.                                *)
LEMMA GivesUp ==
  ASSUME Types, Careful, NEW p \in Processes, phase[p] = "opening", Became(p, "gone"),
         ~Opens(settings[p]) \/ file # None,
         UNCHANGED <<file, launchVars>>, Elsewhere
  PROVE  Careful'
<1>1. /\ phase'[p] = "gone" /\ \A q \in Processes \ {p} : phase'[q] = phase[q]
      /\ UNCHANGED <<op, at, console, asked, running, shown, last, plugged, file, settings, ours>>
  BY ProcessStill DEF Became, Types, ProcessTypes, launchVars
<1>2. ASSUME NEW s \in Shells PROVE at[s] \notin {"Probe"}
  <2>1. SUFFICES ASSUME at[s] = "Probe" PROVE FALSE
    OBVIOUS
  <2>2. Rising(op[s].with) /\ ~Missing(op[s].with)
    BY <2>1 DEF Careful, Commands
  <2>3. settings[p] = op[s].with /\ file = None
    BY <2>2 DEF Rising, Alive
  <2> QED
    BY <2>2, <2>3, FoundPorts
<1>3. (Serving' <=> Serving) /\ (NobodyAlive => NobodyAlive')
      /\ (Settled => Settled') /\ ~Settled
  BY <1>1 DEF Serving, NobodyAlive, Settled, Types, ProcessTypes
<1>4. OneActor' /\ Processing'
  BY <1>1 DEF Careful, OneActor, Processing, Busy, Watching
<1>5. Waited'
  BY <1>1, <1>2, <1>3 DEF Careful, Waited, Watching
<1>6. Commands'
  BY <1>1, <1>2, <1>3 DEF Careful, Commands
<1>7. Answered' /\ ScreenInv'
  BY <1>1, <1>3 DEF Careful, Answered, ScreenInv, Watching
<1>8. Asking' /\ Owned'
  BY <1>1 DEF Careful, Asking, Owned, NobodyAlive, Watching, Alive,
     Types, ConsoleTypes, ProcessTypes
<1> QED
  BY <1>4, <1>5, <1>6, <1>7, <1>8 DEF Careful

LEMMA BindCareful ==
  ASSUME Types, Careful, NEW p \in Processes, phase[p] = "opening", file = None, Opens(settings[p]),
         file' = p, Became(p, "bound"), UNCHANGED launchVars, Elsewhere
  PROVE  Careful'
<1>1. /\ phase'[p] = "bound" /\ \A q \in Processes \ {p} : phase'[q] = phase[q]
      /\ UNCHANGED <<op, at, console, asked, running, shown, last, plugged, settings, ours>>
      /\ p # None /\ file = None /\ file' = p
  BY ProcessStill, LifecycleAssumption DEF Became, Types, ProcessTypes, launchVars
<1>2. \A q \in Processes \ {p} : phase[q] = "gone"
  BY <1>1, LifecycleAssumption DEF Careful, Processing, Types, ProcessTypes, Phases
<1>3. ~Serving /\ ~Serving' /\ ~NobodyAlive /\ ~Settled
  BY <1>1 DEF Serving, NobodyAlive, Settled
<1>4. OneActor' /\ Processing'
  BY <1>1, <1>2 DEF Careful, OneActor, Processing, Busy, Watching, Opens
<1>5. Waited'
  BY <1>1, <1>2, <1>3 DEF Careful, Waited
<1>6. ASSUME NEW s \in Shells, at[s] = "Probe" PROVE Rising(op[s].with)'
  BY <1>1, <1>6 DEF Careful, Commands, Rising, Alive
<1>7. Commands'
  BY <1>1, <1>2, <1>3, <1>6 DEF Careful, Commands, Missing, Available
<1>8. Answered' /\ ScreenInv'
  BY <1>1, <1>3 DEF Careful, Answered, ScreenInv, Watching
<1>9. Asking' /\ Owned'
  <2>1. console # "Reading"
    BY <1>1 DEF Careful, Asking, NobodyAlive, Types, ConsoleTypes
  <2>2. console # "Spawn"
    BY <1>3 DEF Careful, Waited
  <2> QED
    BY <1>1, <2>1, <2>2 DEF Careful, Asking, Owned, Watching, Alive, Types, ProcessTypes
<1> QED
  BY <1>4, <1>5, <1>7, <1>8, <1>9 DEF Careful

LEMMA ServeCareful ==
  ASSUME Types, Careful, NEW p \in Processes, Serve(p)
  PROVE  Careful'
<1>1. /\ phase[p] = "bound" /\ phase'[p] \in {"gone", "serving"}
      /\ \A q \in Processes \ {p} : phase'[q] = phase[q]
      /\ UNCHANGED <<op, at, console, asked, running, shown, last, plugged, settings, ours, file>>
      /\ settings[p].mode = "sync" /\ ~Available(settings[p].in) <=> phase'[p] = "gone"
  BY ProcessStill DEF Serve, Became, Types, ProcessTypes, launchVars
<1>2. file = p
  BY <1>1 DEF Careful, Processing
<1>3. \A q \in Processes \ {p} : phase[q] \in {"gone", "opening"}
  BY <1>2 DEF Careful, Processing, Types, ProcessTypes, Phases
<1>4. ~Serving /\ ~NobodyAlive /\ ~Settled
  BY <1>1, <1>2 DEF Serving, NobodyAlive, Settled
<1>5. console = "Probe" \/ \E s \in Shells : at[s] = "Probe"
  BY <1>1 DEF Careful, Waited
<1>6. OneActor' /\ Processing'
  BY <1>1, <1>3 DEF Careful, OneActor, Processing, Busy, Watching
<1>7. Waited'
  BY <1>1, <1>3, <1>4 DEF Careful, Waited
<1>8. ASSUME NEW s \in Shells, at[s] = "Probe" 
      PROVE  Rising(op[s].with)' /\ phase'[p] = "serving" /\ p \notin ours
  <2>1. Rising(op[s].with) /\ ~Missing(op[s].with)
    BY <1>8 DEF Careful, Commands
  <2>2. /\ settings[p] = op[s].with /\ p \notin ours
        /\ \A q \in Processes : Alive(q) => q = p
    BY <1>1, <2>1 DEF Rising, Alive
  <2>3. phase'[p] = "serving"
    BY <1>1, <2>1, <2>2, FoundPorts
  <2> QED
    BY <1>1, <2>1, <2>2, <2>3 DEF Rising, Alive
<1>9. Commands'
  BY <1>1, <1>3, <1>4, <1>8 DEF Careful, Commands, Missing, Available
<1>10. Answered' /\ ScreenInv'
  <2>1. last = None \/ (last.name = "refresh" /\ \E s \in Shells : at[s] # "Rest")
    BY <1>5 DEF Careful, Answered, Watching
  <2> QED
    BY <1>1, <2>1 DEF Careful, Answered, ScreenInv, Watching
<1>11. ASSUME Watching PROVE phase'[p] = "serving" /\ p \notin ours
  <2>1. PICK s \in Shells : at[s] = "Probe"
    BY <1>5, <1>11 DEF Watching
  <2> QED
    BY <2>1, <1>8
<1>12. Asking'
  BY <1>1, <1>2, <1>4, <1>11 DEF Careful, Asking, Watching
<1>13. Owned'
  <2>1. console # "Spawn"
    BY <1>4 DEF Careful, Waited
  <2> QED
    BY <1>1, <1>11, <2>1 DEF Careful, Owned, Watching, Alive, Types, ProcessTypes
<1> QED
  BY <1>6, <1>7, <1>9, <1>10, <1>12, <1>13 DEF Careful

LEMMA ExitCareful ==
  ASSUME Types, Careful, NEW p \in Processes, Exit(p)
  PROVE  Careful'
<1>1. /\ phase[p] = "closing" /\ phase'[p] = "gone" /\ file' = None
      /\ \A q \in Processes \ {p} : phase'[q] = phase[q]
      /\ UNCHANGED <<op, at, console, asked, running, shown, last, plugged, settings, ours>>
  BY ProcessStill DEF Exit, Became, Types, ProcessTypes, launchVars
<1>2. file = p
  BY <1>1 DEF Careful, Processing
<1>3. \A q \in Processes \ {p} : phase[q] = "gone"
  BY <1>1, <1>2 DEF Careful, Processing, Types, ProcessTypes, Phases
<1>4. NobodyAlive' /\ ~Serving' /\ ~Serving /\ ~Settled /\ ~NobodyAlive
  BY <1>1, <1>2, <1>3 DEF NobodyAlive, Serving, Settled
<1>5. Settled' /\ \A q \in Processes : phase'[q] = "gone"
  BY <1>4 DEF NobodyAlive, Settled
<1>6. OneActor' /\ Processing'
  BY <1>1, <1>5 DEF Careful, OneActor, Processing, Busy, Watching
<1>7. Waited'
  BY <1>1, <1>5 DEF Careful, Waited
<1>8. \A s \in Shells : at[s] \in {"Rest", "WaitGone"}
  BY <1>1 DEF Careful, Waited
<1>9. Commands'
  BY <1>1, <1>4, <1>5, <1>8 DEF Careful, Commands
<1>10. Answered' /\ ScreenInv'
  BY <1>1, <1>4 DEF Careful, Answered, ScreenInv, Watching
<1>11. Asking' /\ Owned'
  BY <1>1, <1>4, <1>5, <1>8 DEF Asking, Owned, Alive, Types, ProcessTypes
<1> QED
  BY <1>6, <1>7, <1>9, <1>10, <1>11 DEF Careful

(* Nothing is known of a daemon that crashed, but for what is left of it.  *)
LEMMA CrashCareful ==
  ASSUME Types, Careful, NEW p \in Processes, Crash(p), ~careless'
  PROVE  Careful'
<1>1. /\ phase'[p] = "gone" /\ \A q \in Processes \ {p} : phase'[q] = phase[q]
      /\ UNCHANGED <<op, at, console, asked, running, shown, file, settings, ours>>
      /\ last' = None /\ Quiet
  BY DEF Crash, Became, Types, ProcessTypes, launchVars, shellVars, consoleVars
<1>2. Settled /\ (\A s \in Shells : at[s] = "Rest") /\ console = "Idle"
  BY <1>1, QuietSettled
<1>3. \A q \in Processes : phase'[q] = phase[q] \/ phase'[q] = "gone"
  BY <1>1
<1>4. OneActor' /\ Processing'
  BY <1>1, <1>3 DEF Careful, OneActor, Processing, Busy, Watching
<1>5. Waited'
  BY <1>1, <1>2, <1>3 DEF Careful, Waited, Settled
<1>6. Commands'
  BY <1>1, <1>2 DEF Commands
<1>7. Answered' /\ ScreenInv'
  BY <1>1 DEF Answered, ScreenInv
<1>8. Asking' /\ Owned'
  BY <1>1, <1>2, <1>3 DEF Careful, Asking, Owned, Watching, Types, ProcessTypes
<1> QED
  BY <1>4, <1>5, <1>6, <1>7, <1>8 DEF Careful

LEMMA ProcessCareful ==
  ASSUME Types, Careful, NEW p \in Processes, ProcessStep(p), ~careless'
  PROVE  Careful'
BY GivesUp, BindCareful, ServeCareful, ExitCareful, CrashCareful
DEF ProcessStep, OpenPorts, Bind

LEMMA UnplugCareful ==
  ASSUME Types, Careful, Unplug, ~careless'
  PROVE  Careful'
<1>0. last' = None /\ Quiet
  BY DEF Unplug, Quiet
<1>1. /\ UNCHANGED <<file, phase, settings, ours, op, at, console, asked, running, shown>>
      /\ last' = None /\ Quiet
  BY <1>0 DEF Unplug, processVars, launchVars, shellVars, consoleVars
<1>2. Settled /\ (\A s \in Shells : at[s] = "Rest") /\ console = "Idle"
  BY <1>1, QuietSettled
<1>3. OneActor' /\ Processing' /\ Waited'
  BY <1>1 DEF Careful, OneActor, Processing, Busy, Watching, Waited, Settled
<1>4. Commands'
  BY <1>1, <1>2 DEF Commands
<1>5. Answered' /\ ScreenInv'
  BY <1>1 DEF Answered, ScreenInv
<1>6. Asking' /\ Owned'
  BY <1>1, <1>2 DEF Careful, Asking, Owned, Watching
<1> QED
  BY <1>3, <1>4, <1>5, <1>6 DEF Careful

-----------------------------------------------------------------------------
(* The command line.                                                       *)

(* A command moves on and leaves the daemon alone.                         *)
LEMMA Moves ==
  ASSUME Types, Careful, NEW s \in Shells, KeepConsole, KeepProcesses,
         at[s] \notin {"Rest", "WaitGone"}, Settled,
         NEW next \in {"Exists", "Connect", "Remove", "Validate", "Spawn", "Request"},
         GoTo(s, next),
         next = "Remove" => NobodyAlive,
         next = "Validate" /\ op[s].name = "start" => file = None,
         next = "Spawn" => file = None /\ ~Missing(op[s].with),
         next \in {"Exists", "Connect", "Remove"} /\ op[s].name = "ensure"
           => ~Missing(op[s].with),
         next = "Request" /\ op[s].name = "ensure" => Serving
  PROVE  Careful'
<1>1. /\ at'[s] = next /\ \A t \in Shells \ {s} : at'[t] = at[t]
      /\ UNCHANGED <<file, phase, settings, ours, op, console, asked, running, shown>>
      /\ UNCHANGED <<last, plugged>>
  BY DEF GoTo, KeepConsole, KeepProcesses, processVars, launchVars, consoleVars, history,
     Types, ShellTypes
<1>2. \A t \in Shells \ {s} : at[t] = "Rest" /\ at'[t] = "Rest"
  BY <1>1 DEF Careful, OneActor, Busy
<1>3. OneActor' /\ Processing'
  BY <1>1, <1>2 DEF Careful, OneActor, Processing, Busy, Watching
<1>4. Waited'
  BY <1>1 DEF Careful, OneActor, Busy, Waited, Settled, Watching
<1>5. Commands'
  BY <1>1, <1>2 DEF Commands, Settled, NobodyAlive, Missing, Available, Serving
<1>6. last = None \/ last.name = "refresh"
  BY DEF Careful, Answered
<1>7. Answered' /\ ScreenInv'
  BY <1>1, <1>6 DEF Careful, Answered, ScreenInv, Watching
<1>8. Asking' /\ Owned'
  BY <1>1 DEF Careful, Asking, Owned, Watching, Alive
<1> QED
  BY <1>3, <1>4, <1>5, <1>7, <1>8 DEF Careful

(* A command is answered and leaves the daemon alone.                      *)
LEMMA Answers ==
  ASSUME Types, Careful, NEW s \in Shells, NEW outcome, Ends(s, outcome), KeepConsole,
         KeepProcesses, at[s] # "Rest", ~careless,
         \A p \in Processes : phase[p] # "bound" /\ (phase[p] = "opening" => file # None),
         outcome \in {"Ok", "AlreadyRunning"} /\ op[s].name \notin {"stop", "kill"} => Serving,
         outcome = "Ok" /\ op[s].name = "start" => settings[file] = op[s].with,
         outcome = "Ok" /\ op[s].name = "stop" => file = None /\ NobodyAlive,
         outcome = "NotRunning" => NobodyAlive /\ op[s].name \in {"stop", "status"},
         outcome # "Timeout"
  PROVE  Careful'
<1>0. op[s] \in ShellOps
  BY DEF Types, ShellTypes
<1>1. /\ at'[s] = "Rest" /\ \A t \in Shells \ {s} : at'[t] = at[t]
      /\ UNCHANGED <<file, phase, settings, ours, console, asked, running, shown, plugged>>
      /\ last' = [name |-> op[s].name, outcome |-> outcome, with |-> op[s].with]
      /\ op[s].name # "refresh"
  BY <1>0, LifecycleAssumption
  DEF Ends, Ended, KeepConsole, KeepProcesses, processVars, launchVars, consoleVars,
      Types, ShellTypes
<1>2. \A t \in Shells : at'[t] = "Rest"
  BY <1>1 DEF Careful, OneActor, Busy
<1>3. Watching
  BY DEF Careful, OneActor, Busy
<1>4. OneActor' /\ Processing'
  BY <1>1, <1>2 DEF Careful, OneActor, Processing, Busy, Watching
<1>5. Waited'
  BY <1>1, <1>2, <1>3 DEF Careful, Waited, Watching
<1>6. Commands'
  BY <1>2 DEF Commands
<1>7. (Serving' <=> Serving) /\ (NobodyAlive' <=> NobodyAlive)
  BY <1>1 DEF Serving, NobodyAlive
<1>8. Answered'
  BY <1>1, <1>2, <1>3, <1>7 DEF Answered, Watching
<1>9. ScreenInv'
  BY <1>1 DEF ScreenInv
<1>10. Asking' /\ Owned'
  BY <1>1, <1>2, <1>7 DEF Careful, Asking, Owned, Watching, Alive
<1> QED
  BY <1>4, <1>5, <1>6, <1>8, <1>9, <1>10 DEF Careful

LEMMA EnterCareful ==
  ASSUME Types, Careful, NEW s \in Shells, NEW o \in ShellOps, Enter(s, o), ~careless'
  PROVE  Careful'
<1>1. /\ \A t \in Shells \ {s} : at'[t] = at[t]
      /\ UNCHANGED <<file, phase, settings, ours, console, asked, running, shown>>
      /\ last' = None /\ Quiet
      /\ op'[s] = o
      /\ \/ at'[s] \in {"Exists", "Request"} /\ o.name # "ensure"
         \/ at'[s] = "Validate" /\ o.name = "ensure"
  BY DEF Enter, KeepProcesses, KeepConsole, processVars, launchVars, consoleVars, Types, ShellTypes
<1>2. Settled /\ (\A t \in Shells : at[t] = "Rest") /\ console = "Idle"
  BY <1>1, QuietSettled
<1>3. OneActor' /\ Processing'
  BY <1>1, <1>2 DEF Careful, OneActor, Processing, Busy, Watching
<1>4. Waited'
  BY <1>1, <1>2 DEF Careful, Waited, Settled
<1>5. Settled' /\ \A t \in Shells \ {s} : at'[t] = "Rest"
  BY <1>1, <1>2 DEF Settled
<1>6. Commands'
  BY <1>1, <1>5 DEF Commands
<1>7. Answered' /\ ScreenInv'
  BY <1>1 DEF Answered, ScreenInv
<1>8. Asking' /\ Owned'
  BY <1>1, <1>2 DEF Careful, Asking, Owned, Watching
<1> QED
  BY <1>3, <1>4, <1>6, <1>7, <1>8 DEF Careful

LEMMA GuardCareful ==
  ASSUME Types, Careful, NEW s \in Shells,
         ~careless, GuardExists(s) \/ GuardConnect(s) \/ Validate(s)
  PROVE  Careful'
<1>1. /\ at[s] \in {"Exists", "Connect", "Validate"} /\ op[s].name \in {"start", "ensure"}
      /\ KeepProcesses /\ KeepConsole /\ Settled /\ Processing
  BY DEF GuardExists, GuardConnect, Validate, Shell, Careful, Commands, Types, ShellTypes, Starting
<1>2. /\ Connectable <=> Serving
      /\ NobodyAlive \/ Serving
      /\ \A p \in Processes : phase[p] # "bound" /\ phase[p] # "opening"
  BY <1>1, SettledServing DEF Settled
<1>3. CASE GuardExists(s)
  <2>1. op[s].name = "ensure" => ~Missing(op[s].with)
    BY <1>3 DEF GuardExists, Shell, Careful, Commands
  <2> QED
    BY <1>1, <1>3, <2>1, Moves DEF GuardExists, Shell, Places
<1>4. CASE GuardConnect(s)
  <2>1. op[s].name = "ensure" => ~Missing(op[s].with)
    BY <1>4 DEF GuardConnect, Shell, Careful, Commands
  <2> QED
    BY <1>1, <1>2, <1>4, <2>1, Moves, Answers DEF GuardConnect, Shell, Places
<1>5. CASE Validate(s)
  <2>1. op[s].name = "start" => file = None
    BY <1>5 DEF Validate, Shell, Careful, Commands
  <2> QED
    BY <1>1, <1>2, <1>5, <2>1, Moves, Answers DEF Validate, Shell, Places
<1> QED
  BY <1>3, <1>4, <1>5

LEMMA RemoveCareful ==
  ASSUME Types, Careful, NEW s \in Shells, GuardRemove(s)
  PROVE  Careful'
<1>1. /\ \A t \in Shells \ {s} : at'[t] = at[t]
      /\ UNCHANGED <<phase, settings, ours, op, console, asked, running, shown, last, plugged>>
      /\ file' = None /\ at[s] = "Remove" /\ op[s].name \in {"start", "ensure"}
      /\ \/ op[s].name = "start" /\ at'[s] = "Validate"
         \/ op[s].name = "ensure" /\ at'[s] = "Spawn"
  BY DEF GuardRemove, launchVars, GoTo, Shell, KeepConsole, consoleVars, history,
     Types, ShellTypes, Starting
<1>2. /\ \A t \in Shells \ {s} : at'[t] = "Rest"
      /\ NobodyAlive /\ Settled /\ Watching /\ (op[s].name = "ensure" => ~Missing(op[s].with))
  BY <1>1 DEF Careful, Commands, OneActor, Busy
<1>3. NobodyAlive' /\ Settled' /\ ~Serving /\ ~Serving' /\ \A p \in Processes : phase'[p] = "gone"
  BY <1>1, <1>2 DEF NobodyAlive, Serving, Settled, Types, ProcessTypes
<1>4. OneActor' /\ Processing'
  BY <1>1, <1>2, <1>3 DEF OneActor, Processing, Busy, Watching
<1>5. Waited'
  BY <1>1, <1>3 DEF Waited
<1>6. Commands'
  BY <1>1, <1>2, <1>3 DEF Commands, Missing, Available
<1>7. last = None \/ last.name = "refresh"
  BY <1>1 DEF Careful, Answered
<1>8. Answered' /\ ScreenInv'
  BY <1>1, <1>2, <1>7 DEF Answered, ScreenInv, Watching
<1>9. Asking' /\ Owned'
  <2>1. console # "Reading"
    BY <1>1, <1>2 DEF Careful, Asking, NobodyAlive, Types, ConsoleTypes
  <2> QED
    BY <1>1, <1>2, <2>1 DEF Careful, Asking, Owned, Watching
<1> QED
  BY <1>4, <1>5, <1>6, <1>8, <1>9 DEF Careful

LEMMA ShellSpawns ==
  ASSUME Types, NEW cfg, Spawn(cfg, FALSE), ~careless
  PROVE  \E p \in Processes :
           /\ phase[p] = "gone" /\ phase'[p] = "opening" /\ settings'[p] = cfg
           /\ \A q \in Processes \ {p} : phase'[q] = phase[q] /\ settings'[q] = settings[q]
           /\ ours' = ours \ {p} /\ UNCHANGED file
BY DEF Spawn, Alive, Types, ProcessTypes

LEMMA ConsoleSpawns ==
  ASSUME Types, NEW cfg, Spawn(cfg, TRUE), ~careless
  PROVE  \E p \in Processes :
           /\ phase[p] = "gone" /\ phase'[p] = "opening" /\ settings'[p] = cfg
           /\ \A q \in Processes \ {p} : phase'[q] = phase[q] /\ settings'[q] = settings[q]
           /\ ours' = ours \cup {p} /\ UNCHANGED file
BY DEF Spawn, Alive, Types, ProcessTypes

LEMMA SpawnCareful ==
  ASSUME Types, Careful, NEW s \in Shells, ~careless, SpawnDaemon(s)
  PROVE  Careful'
<1>1. /\ \A t \in Shells \ {s} : at'[t] = at[t]
      /\ UNCHANGED <<op, console, asked, running, shown, last, plugged>>
      /\ at[s] = "Spawn" /\ at'[s] = "Probe"
  BY DEF SpawnDaemon, GoTo, Shell, KeepConsole, consoleVars, history, Types, ShellTypes
<1>a. Spawn(op[s].with, FALSE)
  BY DEF SpawnDaemon
<1>2. PICK p \in Processes :
        /\ phase[p] = "gone" /\ phase'[p] = "opening" /\ settings'[p] = op[s].with
        /\ \A q \in Processes \ {p} : phase'[q] = phase[q] /\ settings'[q] = settings[q]
        /\ ours' = ours \ {p} /\ UNCHANGED file
  BY <1>a, ShellSpawns
<1>3. /\ \A t \in Shells \ {s} : at'[t] = "Rest"
      /\ file = None /\ Settled /\ Watching /\ ~Missing(op[s].with) /\ Processing
  BY <1>1 DEF Careful, Commands, OneActor, Busy
<1>4. \A q \in Processes \ {p} : phase'[q] = "gone"
  BY <1>2, <1>3, SettledServing DEF NobodyAlive
<1>5. OneActor' /\ Processing'
  BY <1>1, <1>2, <1>3, <1>4 DEF OneActor, Processing, Busy, Watching
<1>6. Waited'
  BY <1>1, <1>2, <1>3, <1>4 DEF Waited, Watching
<1>7. Rising(op[s].with)'
  BY <1>1, <1>2, <1>3, <1>4 DEF Rising, Alive
<1>8. Commands'
  BY <1>1, <1>3, <1>7 DEF Commands, Missing, Available
<1>9. last = None \/ last.name = "refresh"
  BY <1>1 DEF Careful, Answered
<1>10. Answered' /\ ScreenInv'
  BY <1>1, <1>3, <1>9 DEF Answered, ScreenInv, Watching
<1>11. Asking' /\ Owned'
  <2>1. console # "Reading"
    BY <1>1, <1>3 DEF Careful, Asking, Types, ConsoleTypes
  <2> QED
    BY <1>1, <1>2, <1>3, <2>1 DEF Careful, Asking, Owned, Watching, Types, ProcessTypes
<1> QED
  BY <1>5, <1>6, <1>8, <1>10, <1>11 DEF Careful

(* The wait of a start ends when its daemon serves, and not before.        *)
LEMMA ProbeCareful ==
  ASSUME Types, Careful, NEW s \in Shells, ~careless, Probe(s)
  PROVE  Careful'
<1>1. at[s] = "Probe" /\ KeepProcesses /\ KeepConsole /\ op[s].name \in {"start", "ensure"}
  BY DEF Probe, Shell, Types, ShellTypes, Starting
<1>2. Rising(op[s].with) /\ Processing
  BY <1>1 DEF Careful, Commands
<1>3. PICK p \in Processes :
        /\ phase[p] \in {"opening", "bound", "serving"}
        /\ phase[p] = "opening" => file = None
        /\ settings[p] = op[s].with
        /\ \A q \in Processes : Alive(q) => q = p
  BY <1>2 DEF Rising
<1>4. ~Serving => ComingUp
  BY <1>2, <1>3, LifecycleAssumption DEF Serving, ComingUp, Processing
<1>5. Serving => file = p /\ phase[p] = "serving"
  BY <1>3, LifecycleAssumption DEF Serving, Alive, Types, ProcessTypes
<1>6. ASSUME Serving
      PROVE  /\ settings[file] = op[s].with
             /\ \A q \in Processes : phase[q] \in {"gone", "serving"}
  BY <1>3, <1>5, <1>6 DEF Alive
<1>7. CASE Serving /\ Ends(s, "Ok")
  BY <1>1, <1>6, <1>7, Answers
<1>8. CASE Serving /\ GoTo(s, "Request")
  BY <1>1, <1>6, <1>8, Moves DEF Places, Settled
<1> QED
  BY <1>4, <1>7, <1>8 DEF Probe

(* A stop that is under way: the daemon closes, and nothing else lives.    *)
LEMMA StopPointwise ==
  ASSUME Types, Settled, Processing, SendStop, UNCHANGED <<file, launchVars>>
  PROVE  \E p \in Processes :
           /\ file = p /\ phase[p] = "serving" /\ phase'[p] = "closing"
           /\ \A q \in Processes \ {p} : phase[q] = "gone" /\ phase'[q] = "gone"
BY DEF SendStop, Serving, Settled, Processing, Types, ProcessTypes

LEMMA RequestCareful ==
  ASSUME Types, Careful, NEW s \in Shells, ~careless, Request(s)
  PROVE  Careful'
<1>1. /\ at[s] = "Request" /\ KeepConsole /\ Settled /\ Processing
      /\ \A p \in Processes : phase[p] # "bound" /\ phase[p] # "opening"
      /\ op[s].name = "ensure" => Serving
      /\ Connectable <=> Serving
      /\ NobodyAlive \/ Serving
      /\ op[s].name \in {"stop", "status", "ensure"}
  BY SettledServing DEF Request, Shell, Careful, Commands, Settled
<1>2. CASE NotRunning(s) /\ KeepProcesses
  BY <1>1, <1>2, Answers DEF NotRunning
<1>3. CASE Serving /\ op[s].name # "stop" /\ Ends(s, "Ok") /\ KeepProcesses
      /\ op[s].name \in {"stop", "status", "ensure"}
  BY <1>1, <1>3, Answers
<1>4. CASE /\ op[s].name = "stop" /\ SendStop /\ UNCHANGED <<file, launchVars>>
           /\ GoTo(s, "WaitGone")
  <2>1. /\ \A t \in Shells \ {s} : at'[t] = at[t]
        /\ at'[s] = "WaitGone"
        /\ UNCHANGED <<op, console, asked, running, shown, last, plugged>>
    BY <1>1, <1>4 DEF GoTo, KeepConsole, consoleVars, history, Types, ShellTypes
  <2>2. PICK p \in Processes :
          /\ file = p /\ phase[p] = "serving" /\ phase'[p] = "closing"
          /\ \A q \in Processes \ {p} : phase[q] = "gone" /\ phase'[q] = "gone"
    BY <1>1, <1>4, StopPointwise
  <2>3. (\A t \in Shells \ {s} : at'[t] = "Rest") /\ Watching
    BY <1>1, <2>1 DEF Careful, OneActor, Busy
  <2>4. OneActor' /\ Processing'
    BY <1>4, <2>1, <2>2, <2>3 DEF OneActor, Processing, Busy, Watching
  <2>5. Waited'
    BY <2>1, <2>2, <2>3 DEF Waited, Watching
  <2>6. Commands'
    BY <2>1, <2>2, <2>3 DEF Commands
  <2>7. last = None \/ last.name = "refresh"
    BY <1>1 DEF Careful, Answered
  <2>8. Answered' /\ ScreenInv'
    BY <2>1, <2>3, <2>7 DEF Answered, ScreenInv, Watching
  <2>9. Asking' /\ Owned'
    BY <1>1, <2>1, <2>2, <2>3, <1>4 DEF Careful, Asking, Owned, NobodyAlive, Watching, launchVars,
       Types, ConsoleTypes, ProcessTypes
  <2> QED
    BY <2>4, <2>5, <2>6, <2>8, <2>9 DEF Careful
<1> QED
  BY <1>2, <1>3, <1>4 DEF Request

LEMMA WaitGoneCareful ==
  ASSUME Types, Careful, NEW s \in Shells, ~careless, WaitGone(s)
  PROVE  Careful'
<1>1. /\ at[s] = "WaitGone" /\ KeepConsole /\ KeepProcesses /\ op[s].name = "stop"
      /\ \/ file = None /\ NobodyAlive
         \/ \E p \in Processes : phase[p] = "closing"
  BY DEF WaitGone, Shell, Careful, Commands, Types, ShellTypes
<1>2. (\E p \in Processes : phase[p] = "closing") => file # None
  BY LifecycleAssumption DEF Careful, Processing
<1>3. CASE file = None /\ Ends(s, "Ok")
  BY <1>1, <1>2, <1>3, Answers DEF NobodyAlive
<1>4. ~(file # None /\ ~GoingDown)
  BY <1>1 DEF GoingDown
<1> QED
  BY <1>3, <1>4 DEF WaitGone

LEMMA TerminateCareful ==
  ASSUME Types, Careful, NEW s \in Shells, ~careless, Terminate(s)
  PROVE  Careful'
<1>0. /\ at[s] = "Request" /\ op[s].name = "kill" /\ KeepConsole /\ Ends(s, "Ok")
      /\ UNCHANGED <<file, launchVars>> /\ Settled /\ Processing /\ Watching
  BY DEF Terminate, Shell, Careful, Commands, OneActor, Busy
<1>1. /\ \A t \in Shells \ {s} : at'[t] = at[t]
      /\ at'[s] = "Rest"
      /\ UNCHANGED <<console, asked, running, shown, plugged>>
      /\ last' = [name |-> "kill", outcome |-> "Ok", with |-> op[s].with]
  BY <1>0 DEF Ends, Ended, KeepConsole, consoleVars, Types, ShellTypes
<1>2. \A t \in Shells : at'[t] = "Rest"
  BY <1>0, <1>1 DEF Careful, OneActor, Busy
<1>3. \A q \in Processes : phase'[q] = phase[q] \/ (phase[q] = "serving" /\ phase'[q] = "closing")
  BY <1>0 DEF Terminate, Became, Alive, Settled, Types, ProcessTypes
<1>4. \A q \in Processes : phase'[q] \in {"gone", "serving", "closing"}
  BY <1>0, <1>3 DEF Settled
<1>5. OneActor' /\ Processing'
  BY <1>0, <1>1, <1>2, <1>3, <1>4 DEF OneActor, Processing, Busy, Watching, launchVars
<1>6. Waited'
  BY <1>0, <1>1, <1>2, <1>4 DEF Waited, Watching
<1>7. Commands' /\ Answered' /\ ScreenInv'
  BY <1>0, <1>1, <1>2 DEF Commands, Answered, ScreenInv, Watching
<1>8. Asking' /\ Owned'
  BY <1>0, <1>1, <1>2, <1>3 DEF Careful, Asking, Owned, NobodyAlive, Watching, launchVars,
     Types, ConsoleTypes, ProcessTypes
<1> QED
  BY <1>5, <1>6, <1>7, <1>8 DEF Careful

LEMMA ShellCareful ==
  ASSUME Types, Careful, NEW s \in Shells, ~careless, ShellStep(s), ~careless'
  PROVE  Careful'
BY EnterCareful, GuardCareful, RemoveCareful, SpawnCareful, ProbeCareful, RequestCareful,
   WaitGoneCareful, TerminateCareful DEF ShellStep

-----------------------------------------------------------------------------
(* The console.                                                            *)

(* While the console acts, no command runs, and what was answered before   *)
(* is history.                                                             *)
LEMMA Acting ==
  ASSUME Careful, console \in {"Stop", "WaitGone", "Spawn", "Probe"}
  PROVE  (\A s \in Shells : at[s] = "Rest") /\ last = None
BY DEF Careful, OneActor, Busy, Watching, Answered

(* What is left to show when no command runs and no answer is held.        *)
LEMMA ActsCareful ==
  ASSUME \A s \in Shells : at'[s] = "Rest", last' = None, Processing', Waited', Owned',
         console' # "Reading"
  PROVE  Careful'
BY DEF Careful, OneActor, Busy, Commands, Asking, Answered, ScreenInv

LEMMA KeyCareful ==
  ASSUME Types, Careful, NEW k \in Keys, Key(k), ~careless'
  PROVE  Careful'
<1>0. k \in {"d", "o", "m", "y", "c"}
  BY LifecycleAssumption
<1>1. /\ UNCHANGED <<file, phase, settings, ours, op, at, running>> /\ last' = None /\ Quiet
      /\ console' \in {"Stop", "Spawn", "Refresh"}
      /\ console' = "Spawn" => ~running
      /\ console' = "Refresh" => ~running \/ shown'.out = shown.out
  <2>1. UNCHANGED <<file, phase, settings, ours, op, at>> /\ last' = None /\ Quiet
    BY DEF Key, KeepProcesses, KeepShell, processVars, launchVars, shellVars
  <2>2. shown \in Settings
    BY DEF Types, ConsoleTypes
  <2>3. /\ console' \in {"Stop", "Spawn", "Refresh"} /\ UNCHANGED running
        /\ console' = "Spawn" => ~running
        /\ console' = "Refresh" => ~running \/ shown'.out = shown.out
    BY <1>0, <2>2 DEF Key, Apply, To, Settings
  <2> QED
    BY <2>1, <2>3
<1>2. Settled /\ (\A s \in Shells : at[s] = "Rest") /\ console = "Idle"
  BY <1>1, QuietSettled
<1>3. Processing' /\ Waited'
  BY <1>1, <1>2 DEF Careful, Processing, Waited, Settled
<1>4. \A p \in ours : phase[p] = "serving" => running /\ shown.out = settings[p].out
  BY <1>2 DEF Careful, Owned, Watching
<1>5. \A p \in ours : phase[p] \in {"gone", "serving"}
  BY <1>2 DEF Settled, Types, ProcessTypes
<1>6. Owned'
  BY <1>1, <1>4, <1>5 DEF Owned, Watching
<1> QED
  BY <1>1, <1>2, <1>3, <1>6, ActsCareful

LEMMA ConsoleActsCareful ==
  ASSUME Types, Careful, ~careless,
         ConsoleStop \/ ConsoleWaitGone \/ ConsoleSpawn \/ ConsoleProbe
  PROVE  Careful'
<1>1. /\ console \in {"Stop", "WaitGone", "Spawn", "Probe"}
      /\ UNCHANGED <<op, at, last>>
  BY DEF ConsoleStop, ConsoleWaitGone, ConsoleSpawn, ConsoleProbe, KeepShell, shellVars, history
<1>2. /\ (\A s \in Shells : at'[s] = "Rest") /\ last' = None
      /\ console' # "Reading"
  BY <1>1, Acting DEF ConsoleStop, ConsoleWaitGone, ConsoleSpawn, ConsoleProbe, To
<1>3. Processing /\ Waited /\ Owned /\ \A s \in Shells : at[s] = "Rest"
  BY <1>1, Acting DEF Careful
<1> SUFFICES Processing' /\ Waited' /\ Owned'
  BY <1>2, ActsCareful
<1>4. CASE ConsoleStop
  <2>1. Settled /\ console' = "WaitGone"
    BY <1>3, <1>4 DEF ConsoleStop, Waited, To
  <2>2. CASE Serving
    <3>1. PICK p \in Processes :
            /\ file = p /\ phase[p] = "serving" /\ phase'[p] = "closing"
            /\ \A q \in Processes \ {p} : phase[q] = "gone" /\ phase'[q] = "gone"
      BY <1>3, <1>4, <2>1, <2>2, StopPointwise DEF ConsoleStop
    <3> QED
      BY <1>2, <1>4, <2>1, <2>2, <3>1
      DEF ConsoleStop, Processing, Waited, Owned, Watching, launchVars
  <2>3. CASE ~Serving
    <3>1. UNCHANGED <<file, phase, settings, ours>>
      BY <1>4, <2>3 DEF ConsoleStop, KeepProcesses, processVars, launchVars
    <3>2. NobodyAlive
      BY <1>3, <2>1, <2>3, SettledServing
    <3> QED
      BY <1>3, <2>1, <3>1, <3>2 DEF Processing, Waited, Owned, Watching, NobodyAlive
  <2> QED
    BY <2>2, <2>3
<1>5. CASE ConsoleWaitGone
  <2>1. /\ \A p \in Processes : phase[p] \in {"gone", "closing"}
        /\ UNCHANGED <<file, phase, settings, ours>> /\ console' \in {"Spawn", "Refresh"}
        /\ file = None \/ ~GoingDown
    BY <1>3, <1>5 DEF ConsoleWaitGone, Waited, KeepProcesses, processVars, launchVars, To
  <2>2. \A p \in Processes : phase[p] = "gone"
    BY <1>3, <2>1, LifecycleAssumption DEF Processing, GoingDown
  <2> QED
    BY <1>3, <2>1, <2>2 DEF Processing, Waited, Settled, Owned, Types, ProcessTypes
<1>6. CASE ConsoleSpawn
  <2>1. Settled /\ console' = "Probe" /\ console = "Spawn" /\ UNCHANGED shown
    BY <1>3, <1>6 DEF ConsoleSpawn, Waited, To
  <2> DEFINE cfg == [shown EXCEPT !.in = IF shown.mode = "sync" THEN @ ELSE None]
  <2>c. cfg.out = shown.out
    BY DEF Types, ConsoleTypes, Settings
  <2>s. Spawn(cfg, TRUE)
    BY <1>6 DEF ConsoleSpawn
  <2> HIDE DEF cfg
  <2>2. PICK p \in Processes :
          /\ phase[p] = "gone" /\ phase'[p] = "opening" /\ settings'[p] = cfg
          /\ \A q \in Processes \ {p} : phase'[q] = phase[q] /\ settings'[q] = settings[q]
          /\ ours' = ours \cup {p} /\ UNCHANGED file
    BY <2>s, ConsoleSpawns
  <2>3. Processing'
    BY <1>3, <2>1, <2>2 DEF Processing, Settled
  <2>4. Waited'
    BY <2>1, <2>2 DEF Waited, Settled
  <2>5. Owned'
    <3>1. \A q \in ours \ {p} : phase'[q] = "gone"
      BY <1>3, <2>1, <2>2 DEF Owned, Types, ProcessTypes
    <3> QED
      BY <2>1, <2>2, <2>c, <3>1 DEF Owned, Watching, Alive
  <2> QED
    BY <2>3, <2>4, <2>5
<1>7. CASE ConsoleProbe
  <2>1. /\ UNCHANGED <<file, phase, settings, ours>> /\ console' = "Refresh" /\ console = "Probe"
        /\ Serving \/ ~ComingUp
    BY <1>7 DEF ConsoleProbe, KeepProcesses, processVars, launchVars, To
  <2>2. /\ \A p \in Processes : phase[p] # "bound" /\ phase[p] # "closing"
        /\ \A p \in Processes : phase[p] = "opening" => file # None
    BY <1>3, <2>1 DEF Processing, Waited, Serving, ComingUp, Watching
  <2>3. Processing' /\ Waited'
    BY <1>2, <1>3, <2>1, <2>2 DEF Processing, Waited, Watching
  <2>4. Serving \/ \A p \in Processes : phase[p] # "serving"
    BY <1>3, LifecycleAssumption DEF Processing, Serving
  <2>5. Owned'
    <3>1. (Serving => running') /\ UNCHANGED shown
      BY <1>7 DEF ConsoleProbe
    <3> QED
      BY <1>3, <2>1, <2>4, <3>1 DEF Owned, Watching, Alive, Types, ProcessTypes
  <2> QED
    BY <2>3, <2>5
<1> QED
  BY <1>4, <1>5, <1>6, <1>7

(* Looking changes nothing.                                                *)
LEMMA LooksCareful ==
  ASSUME Types, Careful, Watching, Watching',
         UNCHANGED <<file, phase, settings, ours, op, at, plugged>>
  PROVE  OneActor' /\ Processing' /\ Waited' /\ Commands'
<1>1. OneActor' /\ Processing' /\ Waited'
  BY DEF Careful, OneActor, Processing, Waited, Busy, Watching, Settled
<1>2. Commands'
  BY DEF Careful, Commands, Settled, NobodyAlive, Missing, Available, Rising, Alive, Serving
<1> QED
  BY <1>1, <1>2

LEMMA RefreshCareful ==
  ASSUME Types, Careful, Refresh, ~careless
  PROVE  Careful'
<1>1. /\ UNCHANGED <<file, phase, settings, ours, op, at, plugged, shown>>
      /\ Watching /\ Watching' /\ console = "Refresh"
  BY DEF Refresh, KeepProcesses, KeepShell, processVars, launchVars, shellVars, Watching, To
<1>2. (Serving' <=> Serving) /\ (NobodyAlive' <=> NobodyAlive)
  BY <1>1 DEF Serving, NobodyAlive
<1>3. CASE Connectable
  <2>1. /\ UNCHANGED <<running, last>> /\ asked' = file
        /\ console' = "Reading"
    BY <1>3 DEF Refresh, To
  <2>2. Asking'
    BY <1>1, <1>3, <2>1 DEF Asking, Connectable
  <2>3. Owned'
    BY <1>1, <2>1 DEF Careful, Owned, Watching
  <2>4. Answered' /\ ScreenInv'
    BY <1>1, <1>2, <2>1 DEF Careful, Answered, ScreenInv
  <2> QED
    BY <1>1, <2>2, <2>3, <2>4, LooksCareful DEF Careful
<1>4. CASE ~Connectable
  <2>1. /\ running' = FALSE /\ console' = "Idle"
        /\ last' = [name |-> "refresh", outcome |-> "Ok", with |-> None]
    BY <1>4 DEF Refresh, Refreshed, Ended, To
  <2>2. ~Serving /\ \A p \in Processes : phase[p] # "serving"
    BY <1>4, LifecycleAssumption DEF Careful, Processing, Connectable, Serving
  <2>3. Asking' /\ Owned'
    BY <1>1, <2>1, <2>2 DEF Asking, Owned, Watching, Types, ProcessTypes
  <2>4. Answered' /\ ScreenInv'
    BY <1>1, <1>2, <2>1, <2>2 DEF Answered, ScreenInv
  <2> QED
    BY <1>1, <2>3, <2>4, LooksCareful DEF Careful
<1> QED
  BY <1>3, <1>4

(* An answer read from a daemon of the console's own names the port that   *)
(* the console shows already.                                              *)
LEMMA RefreshReadCareful ==
  ASSUME Types, Careful, RefreshRead, ~careless
  PROVE  Careful'
<1>1. /\ UNCHANGED <<file, phase, settings, ours, op, at, plugged>>
      /\ Watching /\ Watching' /\ console = "Reading" /\ console' = "Idle"
  BY DEF RefreshRead, KeepProcesses, KeepShell, processVars, launchVars, shellVars, Watching, To
<1>2. (Serving' <=> Serving) /\ (NobodyAlive' <=> NobodyAlive)
  BY <1>1 DEF Serving, NobodyAlive
<1>3. /\ asked \in Processes /\ settings[asked] \in Settings
  BY <1>1, LifecycleAssumption DEF Types, ConsoleTypes, ProcessTypes
<1>4. \A p \in Processes : phase[p] = "serving" => file = p /\ asked = p
  BY <1>1 DEF Careful, Processing, Asking, NobodyAlive
<1>5. PICK outcome :
        /\ last' = [name |-> "refresh", outcome |-> outcome, with |-> None]
        /\ outcome = "Ok" => /\ phase[asked] = "serving"
                             /\ running' = TRUE /\ shown' = Reported(settings[asked])
  BY DEF RefreshRead, Refreshed, Ended
<1>6. \/ running' = TRUE /\ shown' = Reported(settings[asked])
      \/ UNCHANGED <<running, shown>>
  BY DEF RefreshRead
<1>7. LET said == Reported(settings[asked])
      IN  /\ said.mode = settings[asked].mode
          /\ said.out = IF settings[asked].out = None THEN shown.out ELSE settings[asked].out
          /\ said.mode = "sync" /\ settings[asked].in # None => said.in = settings[asked].in
  BY DEF Reported
<1>8. ASSUME NEW p \in ours, phase[p] = "serving"
      PROVE  running' /\ shown'.out = settings[p].out
  <2>1. p = asked /\ running /\ shown.out = settings[p].out
    BY <1>1, <1>4, <1>8 DEF Careful, Owned, Types, ProcessTypes
  <2> QED
    BY <1>6, <1>7, <2>1
<1>9. Asking' /\ Owned'
  BY <1>1, <1>8 DEF Asking, Owned
<1>10. Answered'
  BY <1>1, <1>5 DEF Answered
<1>11. ScreenInv'
  <2>1. SUFFICES ASSUME phase[asked] = "serving", running' = TRUE,
                        shown' = Reported(settings[asked])
                 PROVE  ScreenInv'
    BY <1>5 DEF ScreenInv
  <2>2. file = asked /\ Serving'
    BY <1>1, <1>2, <1>3, <1>4, <2>1, LifecycleAssumption DEF Serving
  <2>3. settings[asked].mode = "sync" => settings[asked].in # None
    BY <1>3, <2>1 DEF Careful, Processing
  <2>4. asked \in ours => shown'.out = settings[asked].out
    BY <1>8, <2>1
  <2> QED
    BY <1>1, <1>7, <2>1, <2>2, <2>3, <2>4 DEF ScreenInv
<1> QED
  BY <1>1, <1>9, <1>10, <1>11, LooksCareful DEF Careful

LEMMA PollCareful ==
  ASSUME Types, Careful, Poll
  PROVE  Careful'
<1>1. /\ UNCHANGED <<file, phase, settings, ours, op, at, plugged, last, shown, running>>
      /\ Watching /\ Watching' /\ console' = "Refresh"
  BY DEF Poll, KeepProcesses, KeepShell, processVars, launchVars, shellVars, history, Watching, To
<1>2. (Serving' <=> Serving) /\ (NobodyAlive' <=> NobodyAlive)
  BY <1>1 DEF Serving, NobodyAlive
<1>3. Answered' /\ ScreenInv'
  BY <1>1, <1>2 DEF Careful, Answered, ScreenInv
<1>4. Asking' /\ Owned'
  BY <1>1 DEF Careful, Asking, Owned
<1> QED
  BY <1>1, <1>3, <1>4, LooksCareful DEF Careful

-----------------------------------------------------------------------------
(* The theorems.                                                           *)

LEMMA CarelessStays == Types /\ [Next]_vars /\ careless => careless'
BY DEF Next, vars, history, ProcessStep, OpenPorts, Bind, Serve, Exit, Crash, Elsewhere, Unplug,
       ShellStep, Enter, GuardExists, GuardConnect, GuardRemove, Validate, SpawnDaemon, Probe,
       Request, NotRunning, WaitGone, Terminate, GoTo, Ends, Ended,
       ConsoleStep, Key, ConsoleStop, ConsoleWaitGone, ConsoleSpawn, ConsoleProbe, Refresh,
       RefreshRead, Refreshed, Poll

LEMMA InitCareful == Init => CarefulInv
BY DEF Init, CarefulInv, Careful, OneActor, Busy, Watching, Processing, Waited, Settled, Commands,
       Asking, Owned, Answered, ScreenInv

LEMMA StepCareful == Types /\ CarefulInv /\ [Next]_vars => CarefulInv'
<1> SUFFICES ASSUME Types, CarefulInv, [Next]_vars, ~careless' PROVE Careful'
  BY DEF CarefulInv
<1>1. Careful /\ ~careless
  BY CarelessStays DEF CarefulInv
<1>2. CASE UNCHANGED vars
  BY <1>1, <1>2
  DEF vars, processVars, launchVars, shellVars, consoleVars, history, Careful, OneActor, Busy,
      Watching, Processing, Waited, Settled, Commands, NobodyAlive, Missing, Available, Rising,
      Alive,
      Asking, Owned, Answered, ScreenInv, Serving
<1>3. CASE ConsoleStep
  BY <1>1, <1>3, KeyCareful, ConsoleActsCareful, RefreshCareful, RefreshReadCareful,
     PollCareful DEF ConsoleStep
<1> QED
  BY <1>1, <1>2, <1>3, ProcessCareful, ShellCareful, UnplugCareful DEF Next

LEMMA CarefulInvariant == Spec => [](Types /\ CarefulInv)
BY InitTyped, StepTyped, InitCareful, StepCareful, PTL DEF Spec

(* The single-instance guard: commands and keys given one after the other  *)
(* never leave two daemons, nor one behind a path that names no socket or  *)
(* another's, whichever daemons crashed, failed to open their ports or     *)
(* were killed in between.                                                 *)
THEOREM SingleInstance == Spec => []OneDaemon
<1>1. ASSUME Types, CarefulInv PROVE OneDaemon
  <2>1. SUFFICES ASSUME ~careless, Quiet
                 PROVE  /\ Cardinality({p \in Processes : Alive(p)}) <= 1
                        /\ \A p \in Processes : Alive(p) => file = p
    BY DEF OneDaemon
  <2>2. \A p \in Processes : Alive(p) => file = p
    BY <1>1, <2>1, QuietSettled, SettledServing DEF CarefulInv, Careful
  <2>3. {p \in Processes : Alive(p)} \in {{}, {file}}
    BY <2>2
  <2>4. Cardinality({}) = 0 /\ Cardinality({file}) = 1
    BY FS_EmptySet, FS_Singleton
  <2> QED
    BY <2>2, <2>3, <2>4
<1> QED
  BY <1>1, CarefulInvariant, PTL

(* What a command says when it ends is so, and stays so until somebody     *)
(* does something: after "started" a daemon serves with the settings asked *)
(* for; after "already running", and once ensure or status have been       *)
(* answered, one serves; after "stopped" none is left and the path is      *)
(* free; where stop or status find nothing running, nothing is; and no     *)
(* start, ensure or stop of a careful user waits its ten seconds in vain.  *)
THEOREM AnswersHold == Spec => []AnswersTrue
<1>1. ASSUME Types, CarefulInv PROVE AnswersTrue
  <2>1. SUFFICES ASSUME ~careless, last # None, last.name # "refresh" PROVE AnswersTrue
    BY DEF AnswersTrue
  <2>2. Answered
    BY <1>1, <2>1 DEF CarefulInv, Careful
  <2> QED
    BY <2>1, <2>2 DEF AnswersTrue, Answered, NobodyAlive, Alive
<1> QED
  BY <1>1, CarefulInvariant, PTL

(* When its status has been answered, the console draws the daemon that is *)
(* there, the mode it runs in and the sync port of a daemon in sync mode,  *)
(* after whatever restarts, also those that failed.  The output port drawn *)
(* is the daemon's, with one exception: of a daemon that a command line    *)
(* has started on the virtual port, status names no port, and the console  *)
(* goes on drawing the one it drew before.                                 *)
THEOREM ScreenTrue == Spec => []ConsoleTruthful
<1>1. ASSUME Types, CarefulInv PROVE ConsoleTruthful
  <2>1. SUFFICES ASSUME ~careless, Quiet, last # None, last.name = "refresh", last.outcome = "Ok"
                 PROVE  ConsoleTruthful
    BY DEF ConsoleTruthful
  <2>2. ScreenInv /\ \A s \in Shells : at[s] = "Rest"
    BY <1>1, <2>1 DEF CarefulInv, Careful, Quiet
  <2>3. running \in BOOLEAN
    BY <1>1 DEF Types, ConsoleTypes
  <2> QED
    BY <2>1, <2>2, <2>3 DEF ConsoleTruthful, ScreenInv, Screen
<1> QED
  BY <1>1, CarefulInvariant, PTL

=============================================================================
