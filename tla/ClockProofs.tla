----------------------------- MODULE ClockProofs -----------------------------
(***************************************************************************)
(* Proofs about propeller-clock, for all tempos, latencies, clients,       *)
(* requests and bounds: every property the run "clock" checks.             *)
(*                                                                         *)
(* The daemon alone and the daemon beside its console take the steps of    *)
(* ServedNext, which lets every client ask for anything.  Invariants are   *)
(* proved of ServedNext, and so hold of Spec and of ConsoleSpec.           *)
(***************************************************************************)
EXTENDS ClockConsole, TLAPS

ServedNext ==
  \/ ClockThread \/ Tick
  \/ \E c \in Clients : (\E r : Submit(c, r)) \/ HandlerStep(c)
  \/ Terminate \/ MainStep

-----------------------------------------------------------------------------
(* The parts of the inductive invariant.                                   *)

Commands ==
  [name : {"Start", "Pause", "Resume", "Stop"}, arg : {None}]
    \cup [name : {"SetBpm"}, arg : Bpms] \cup [name : {"Seek"}, arg : Positions]

ThreadTypes ==
  /\ current \in ClockState /\ published \in ClockState
  /\ polling \in BOOLEAN /\ phasePulse \in 0 .. PhaseBound
  /\ age \in Int /\ rate \in Bpms

PortTypes ==
  /\ bpm \in Bpms /\ pulseCount \in 0 .. TickModulus - 1
  /\ position \in Positions /\ located \in Positions
  /\ transport \in {"stopped", "paused", "rolling"}
  /\ sinceOut \in Nat /\ gap \in Int

(* A handler past its checks has an argument the thread can use.           *)
Checked ==
  \A c \in Clients :
    /\ step[c] = "SendBpm" => request[c].arg \in Bpms
    /\ step[c] = "SendSeek" \/ (step[c] = "Send" /\ request[c].name = "seek")
         => request[c].arg \in Positions

Steps == {"Done", "Dispatch", "Send", "SendSeek", "SendBpm", "Signal"}

HandlerTypes ==
  /\ step \in [Clients -> Steps] /\ DOMAIN request = Clients
  /\ signalled \in BOOLEAN /\ careless \in BOOLEAN
  /\ main \in {"Serving", "ReadState", "SendStop", "Drain", "Return", "Exited"}
  /\ Checked

TypeInv == ThreadTypes /\ PortTypes /\ queue \in Seq(Commands) /\ HandlerTypes

(* The devices do what the thread's state says, and the history of pulses  *)
(* starts with it: the next pulse is due when some tempo's interval has    *)
(* gone by since the last, whatever the tempo has become meanwhile.        *)
StateOfTransport ==
  [Stopped |-> "stopped", Running |-> "rolling", Paused |-> "paused"]

PhaseInv ==
  /\ transport = StateOfTransport[current]
  /\ EvenPulses
  /\ current = "Running" => age <= Deadline
  /\ gap # NoPulse =>
       current = "Running" /\ \E b \in Bpms : sinceOut = age - Deadline + Interval[b]

(* While nobody is careless at most one request that sends anything is in  *)
(* hand, and it found the thread with nothing to do.                       *)
Busy(c) == ~AtRest(c) /\ ~(step[c] = "Dispatch" /\ request[c].name = "status")
Names == {queue[i].name : i \in DOMAIN queue}
Settled == queue = <<>> /\ published = current
Stopping ==
  /\ Names \subseteq {"Stop"}
  /\ queue # <<>> \/ current = "Stopped"
  /\ current \in {published, "Stopped"}

OneAtATime ==
  /\ \A c, d \in Clients : Busy(c) /\ Busy(d) => c = d
  /\ \A c \in Clients : Busy(c) =>
       /\ main = "Serving" /\ ~signalled
       /\ IF step[c] = "Signal" THEN Stopping ELSE Settled
  /\ signalled => Stopping
  /\ main \in {"ReadState", "SendStop"} => Stopping \/ Settled
  /\ main = "Drain" => Stopping
  /\ main \in {"Return", "Exited"} => Stopping /\ current = "Stopped"

(* What is published and not yet in force is on its way, in a handler or   *)
(* alone in the channel.                                                   *)
TempoOnItsWay ==
  /\ "SetBpm" \notin Names /\ (\A c \in Clients : step[c] # "SendBpm") => bpm = rate
  /\ \A c \in Clients : step[c] = "SendBpm" => bpm = request[c].arg
  /\ \A i \in DOMAIN queue : queue[i].name = "SetBpm" => queue[i].arg = bpm

PositionOnItsWay ==
  /\ "Seek" \notin Names /\ (\A c \in Clients : step[c] # "SendSeek")
       => position = located
  /\ \A c \in Clients :
       step[c] = "SendSeek" => position = request[c].arg /\ current = "Stopped"
  /\ \A c \in Clients :
       step[c] = "Send" /\ request[c].name = "seek" => current = "Stopped"
  /\ "Seek" \in Names =>
       /\ Len(queue) = 1 /\ Head(queue).arg = position
       /\ current = "Stopped"

CalmInv ==
  ~careless =>
    OneAtATime /\ TempoOnItsWay /\ (SppEnabled => PositionOnItsWay)

(* Where only the console tunes, the tempo published last is the last in   *)
(* the channel, whoever sends what between.                                *)
LastTempo ==
  IF "SetBpm" \in Names
    THEN \E i \in DOMAIN queue :
           /\ queue[i] = Command("SetBpm", bpm)
           /\ \A j \in DOMAIN queue : j > i => queue[j].name # "SetBpm"
    ELSE rate = bpm

ConsoleRests ==
  main = "Serving" /\ console \in {"Opening", "Idle", "Fetch"} => AtRest(Console)

OthersTuneNothing ==
  \A c \in Clients \ {Console} :
    /\ step[c] = "Dispatch" => request[c] \in Requests[c]
    /\ step[c] # "SendBpm"

ShownTempo ==
  main = "Serving" /\ console = "Idle" /\ shownBpm # None => shownBpm = bpm

TempoInOrder ==
  /\ main # "Exited" /\ step[Console] # "SendBpm" => LastTempo
  /\ step[Console] = "SendBpm" => bpm = request[Console].arg

ScreenInv ==
  /\ disconnected => main # "Serving"
  /\ ConsoleRests
  /\ OnlyConsoleTunes => OthersTuneNothing /\ TempoInOrder /\ ShownTempo

-----------------------------------------------------------------------------
(* The channel.                                                            *)

LEMMA Taken ==
  ASSUME TypeInv, NEW names, Takes(names)
  PROVE  /\ queue # <<>> /\ queue' = Tail(queue) /\ queue' \in Seq(Commands)
         /\ Head(queue) \in Commands /\ Head(queue).name \in names
         /\ Head(queue).name = "SetBpm" => Head(queue).arg \in Bpms
         /\ Head(queue).name = "Seek" => Head(queue).arg \in Positions
         /\ published = current /\ main # "Exited"
<1>1. queue # <<>> /\ queue' = Tail(queue) /\ Head(queue).name \in names
  BY DEF Takes, Receiving
<1>2. Head(queue) \in Commands /\ Tail(queue) \in Seq(Commands)
  BY <1>1 DEF TypeInv
<1> QED
  BY <1>1, <1>2 DEF Takes, Receiving, Publishing, Commands

LEMMA Sent ==
  ASSUME TypeInv, NEW k \in Commands, Send(k)
  PROVE  /\ queue' = Append(queue, k) /\ queue' \in Seq(Commands)
BY DEF Send, TypeInv

-----------------------------------------------------------------------------
(* Types.                                                                  *)

LEMMA Constants ==
  /\ \A b \in Bpms : Interval[b] \in Nat \ {0}
  /\ InitialBpm \in Bpms /\ 0 \in Positions
  /\ StartLatency \in Nat /\ -StartLatency \in Int
  /\ 0 \in 0 .. TickModulus - 1 /\ 0 \in 0 .. PhaseBound
  /\ TickModulus \in Nat \ {0} /\ PhaseBound \in Nat \ {0}
  /\ NoPulse \in Int /\ OnePulse \in Int
BY ClockAssumption DEF NoPulse, OnePulse

LEMMA TypeInvOK == TypeInv => TypeOK
BY DEF TypeInv, TypeOK, ThreadTypes, PortTypes, HandlerTypes, Steps, Commands, CommandNames

LEMMA InitTyped == Init => TypeInv
<1> SUFFICES ASSUME Init PROVE TypeInv
  OBVIOUS
<1>1. ThreadTypes
  <2>1. age \in Int /\ phasePulse \in 0 .. PhaseBound
    BY Constants DEF Init
  <2>2. rate \in Bpms
    BY Constants DEF Init
  <2>3. current \in ClockState /\ published \in ClockState
    BY DEF Init, ClockState
  <2>4. polling \in BOOLEAN
    BY DEF Init
  <2> QED
    BY <2>1, <2>2, <2>3, <2>4 DEF ThreadTypes
<1>2. PortTypes
  BY Constants DEF Init, PortTypes
<1>3. HandlerTypes
  BY DEF Init, Checked, HandlerTypes, Steps
<1> QED
  BY <1>1, <1>2, <1>3 DEF Init, TypeInv

LEMMA DeadlineType == TypeInv => Deadline \in Int /\ Interval[rate] \in Nat \ {0}
<1> SUFFICES ASSUME TypeInv PROVE Deadline \in Int /\ Interval[rate] \in Nat \ {0}
  OBVIOUS
<1>1. Interval[rate] \in Nat \ {0} /\ phasePulse \in Nat
  BY Constants DEF TypeInv, ThreadTypes
<1> QED
  BY <1>1 DEF Deadline

(* The thread leaves the handlers alone.                                   *)
LEMMA ThreadKeeps ==
  ClockThread \/ Tick => UNCHANGED handlers
BY DEF ClockThread, Tick, Publish, DoStart, DoStop, Pause, Resume, SetBpm, DoSeek, Ignore,
       Pulse, PollNothing, handlers, KeepPort, KeepNumbers, thread, numbers, portVars

(* Outside Publish and the clock itself it takes a command.                *)
LEMMA ThreadTakes ==
  ASSUME ClockThread \/ Tick
  PROVE  \/ UNCHANGED queue
         \/ Takes(CommandNames)
BY DEF ClockThread, Tick, Publish, DoStart, DoStop, Pause, Resume, SetBpm, DoSeek, Ignore,
       Pulse, PollNothing, Takes, CommandNames

LEMMA ThreadTyped == TypeInv /\ (ClockThread \/ Tick) => TypeInv'
<1> SUFFICES ASSUME TypeInv, ClockThread \/ Tick PROVE TypeInv'
  OBVIOUS
<1>1. HandlerTypes'
  BY ThreadKeeps DEF handlers, HandlerTypes, Checked, TypeInv
<1>2. queue' \in Seq(Commands)
  BY ThreadTakes, Taken DEF TypeInv
<1> USE DEF thread, numbers, portVars, KeepPort, KeepNumbers
<1>3. ThreadTypes' /\ PortTypes'
  <2> USE Constants DEF TypeInv, ThreadTypes, PortTypes
  <2>1. CASE Publish
    BY <2>1 DEF Publish
  <2>2. CASE DoStart
    BY <2>2 DEF DoStart, ClockState
  <2>3. CASE DoStop
    <3>1. age' \in Int
      BY <2>3 DEF DoStop
    <3>2. ThreadTypes'
      BY <2>3, <3>1 DEF DoStop, ClockState
    <3>3. PortTypes'
      BY <2>3 DEF DoStop
    <3> QED
      BY <3>2, <3>3
  <2>4. CASE Pause
    <3>1. age' \in Int
      BY <2>4 DEF Pause
    <3>2. ThreadTypes'
      BY <2>4, <3>1 DEF Pause, ClockState
    <3>3. PortTypes'
      BY <2>4 DEF Pause
    <3> QED
      BY <3>2, <3>3
  <2>5. CASE Resume
    <3>1. phasePulse * Interval[rate] \in Int
      BY DeadlineType DEF Deadline
    <3> QED
      BY <2>5, <3>1 DEF Resume, ClockState
  <2>6. CASE SetBpm
    <3>1. rate' \in Bpms
      BY <2>6, Taken DEF SetBpm
    <3>2. age' \in Int /\ phasePulse' \in 0 .. PhaseBound
      BY <2>6, DeadlineType DEF SetBpm
    <3> QED
      BY <2>6, <3>1, <3>2 DEF SetBpm
  <2>7. CASE DoSeek
    <3>1. located' \in Positions
      BY <2>7, Taken DEF DoSeek
    <3> QED
      BY <2>7, <3>1 DEF DoSeek
  <2>8. CASE Ignore
    BY <2>8 DEF Ignore
  <2>9. CASE Pulse
    <3>1. age' \in Int /\ phasePulse' \in 0 .. PhaseBound
      BY <2>9, DeadlineType DEF Pulse
    <3>2. pulseCount' \in 0 .. TickModulus - 1
      BY <2>9 DEF Pulse
    <3> QED
      BY <2>9, <3>1, <3>2 DEF Pulse
  <2>10. CASE PollNothing
    BY <2>10 DEF PollNothing
  <2>11. CASE Tick
    BY <2>11 DEF Tick
  <2> QED
    BY <2>1, <2>2, <2>3, <2>4, <2>5, <2>6, <2>7, <2>8, <2>9, <2>10, <2>11 DEF ClockThread
<1> QED
  BY <1>1, <1>2, <1>3 DEF TypeInv

(* Whoever else takes a step leaves the thread and the devices alone.      *)
Others ==
  \/ \E c \in Clients : (\E r : Submit(c, r)) \/ HandlerStep(c)
  \/ Terminate \/ MainStep

LEMMA ServedCases == ServedNext => ClockThread \/ Tick \/ Others
BY DEF ServedNext, Others

LEMMA OthersKeep ==
  Others => UNCHANGED <<thread, published, portVars>>
BY DEF Others, Submit, HandlerStep, HandleTransport, HandleChecked, SendPauseOrResume,
       StorePosition, SendSeek, StoreBpm, SendBpm, HandleStatus, Signal, Terminate, MainStep,
       LeaveSelect, StopAndWait, SendStop, Drain, Return, KeepThread, KeepPort, Stays

LEMMA OthersTyped == TypeInv /\ Others => TypeInv'
<1> SUFFICES ASSUME TypeInv, Others PROVE TypeInv'
  OBVIOUS
<1>1. ThreadTypes' /\ UNCHANGED portVars
  BY OthersKeep DEF TypeInv, ThreadTypes, thread
<1> SUFFICES /\ UNCHANGED numbers \/ PortTypes'
             /\ queue' \in Seq(Commands)
             /\ HandlerTypes'
  BY <1>1 DEF TypeInv, PortTypes, numbers, portVars
<1> USE DEF KeepNumbers, TypeInv, HandlerTypes, Checked, Steps
<1>2. ASSUME NEW c \in Clients, NEW r, Submit(c, r)
      PROVE  UNCHANGED numbers /\ queue' \in Seq(Commands) /\ HandlerTypes'
  BY <1>2 DEF Submit, numbers
<1>3. ASSUME NEW c \in Clients, HandlerStep(c)
      PROVE  (UNCHANGED numbers \/ PortTypes') /\ queue' \in Seq(Commands) /\ HandlerTypes'
  <2> USE DEF GoTo, KeepLife, Asks
  <2>1. CASE HandleTransport(c)
    <3>1. PICK k \in Commands : Send(k)
      BY <2>1 DEF HandleTransport, Command, Commands
    <3> QED
      BY <2>1, <3>1, Sent DEF HandleTransport
  <2>2. CASE HandleChecked(c)
    BY <2>2 DEF HandleChecked
  <2>3. CASE SendPauseOrResume(c)
    <3>1. PICK k \in Commands : Send(k)
      BY <2>3 DEF SendPauseOrResume, Command, Commands
    <3> QED
      BY <2>3, <3>1, Sent DEF SendPauseOrResume
  <2>4. CASE StorePosition(c)
    <3>1. PortTypes'
      BY <2>4, <1>1 DEF StorePosition, PortTypes, portVars
    <3> QED
      BY <2>4, <3>1 DEF StorePosition
  <2>5. CASE SendSeek(c)
    <3>1. Command("Seek", request[c].arg) \in Commands
      BY <2>5 DEF SendSeek, Command, Commands
    <3> QED
      BY <2>5, <3>1, Sent DEF SendSeek
  <2>6. CASE StoreBpm(c)
    <3>1. PortTypes'
      BY <2>6, <1>1 DEF StoreBpm, PortTypes, portVars
    <3> QED
      BY <2>6, <3>1 DEF StoreBpm
  <2>7. CASE SendBpm(c)
    <3>1. Command("SetBpm", request[c].arg) \in Commands
      BY <2>7 DEF SendBpm, Command, Commands
    <3> QED
      BY <2>7, <3>1, Sent DEF SendBpm
  <2>8. CASE HandleStatus(c)
    BY <2>8 DEF HandleStatus
  <2>9. CASE Signal(c)
    BY <2>9 DEF Signal
  <2> QED
    BY <1>3, <2>1, <2>2, <2>3, <2>4, <2>5, <2>6, <2>7, <2>8, <2>9 DEF HandlerStep
<1>4. CASE Terminate
  BY <1>4 DEF Terminate, Stays
<1>5. CASE MainStep
  <2>1. CASE SendStop
    <3>1. Command("Stop", None) \in Commands
      BY DEF Command, Commands
    <3> QED
      BY <2>1, <3>1, Sent DEF SendStop, Stays
  <2>2. CASE Return
    BY <2>2 DEF Return
  <2>3. CASE LeaveSelect \/ StopAndWait \/ Drain
    BY <2>3 DEF LeaveSelect, StopAndWait, Drain, Stays
  <2> QED
    BY <1>5, <2>1, <2>2, <2>3 DEF MainStep
<1> QED
  BY <1>2, <1>3, <1>4, <1>5 DEF Others

LEMMA StepTyped == TypeInv /\ [ServedNext]_vars => TypeInv'
<1>1. CASE UNCHANGED vars
  BY <1>1 DEF vars, thread, numbers, portVars, handlers, TypeInv, ThreadTypes, PortTypes,
              HandlerTypes, Checked
<1> QED
  BY <1>1, ThreadTyped, OthersTyped, ServedCases

-----------------------------------------------------------------------------
(* Transport and phase.                                                    *)

LEMMA InitPhase == Init => PhaseInv
BY DEF Init, PhaseInv, StateOfTransport, EvenPulses, NoPulse

(* What no step of the thread but those that start, stop or pulse disturbs.*)
LEMMA PhaseKept ==
  ASSUME PhaseInv, UNCHANGED <<current, age, phasePulse, rate, transport, sinceOut, gap>>
  PROVE  PhaseInv'
BY DEF PhaseInv, EvenPulses, Deadline

LEMMA ThreadPhase == TypeInv /\ PhaseInv /\ (ClockThread \/ Tick) => PhaseInv'
<1> SUFFICES ASSUME TypeInv, PhaseInv, ClockThread \/ Tick PROVE PhaseInv'
  OBVIOUS
<1> USE DEF thread, portVars, KeepPort
<1>1. CASE Publish \/ DoSeek \/ Ignore \/ PollNothing
  BY <1>1, PhaseKept DEF Publish, DoSeek, Ignore, PollNothing
<1>2. CASE DoStart
  <2>1. Deadline' = 0
    <3>1. Interval[rate] \in Nat /\ Deadline' = 0 * Interval[rate]
      BY <1>2, DeadlineType DEF DoStart, Deadline
    <3> QED
      BY <3>1
  <2> QED
    BY <1>2, <2>1, Constants DEF DoStart, PhaseInv, EvenPulses, StateOfTransport, NoPulse
<1>3. CASE DoStop \/ Pause
  BY <1>3 DEF DoStop, Pause, PhaseInv, EvenPulses, StateOfTransport, NoPulse
<1>4. CASE Resume
  <2>1. Deadline' = Deadline /\ age' = Deadline /\ Deadline \in Int
    BY <1>4, DeadlineType DEF Resume, Deadline
  <2> QED
    BY <1>4, <2>1 DEF Resume, PhaseInv, EvenPulses, StateOfTransport, NoPulse
<1>5. CASE SetBpm
  <2>1. CASE current = "Running"
    (* The distance to the next deadline is what the change keeps.         *)
    <3>1. Deadline' = 0 /\ age' = age - Deadline
      <4>1. rate' \in Bpms
        BY <1>5, Taken DEF SetBpm
      <4>2. Interval[rate'] \in Nat /\ Deadline' = 0 * Interval[rate']
        BY <1>5, <2>1, <4>1, Constants DEF SetBpm, Deadline
      <4> QED
        BY <1>5, <2>1, <4>2 DEF SetBpm
    <3>2. age' - Deadline' = age - Deadline /\ age' <= Deadline'
      BY <2>1, <3>1, DeadlineType DEF PhaseInv, TypeInv, ThreadTypes
    <3>3. UNCHANGED <<current, transport, sinceOut, gap>>
      BY <1>5 DEF SetBpm
    <3> QED
      BY <2>1, <3>2, <3>3 DEF PhaseInv, EvenPulses
  <2>2. CASE current # "Running"
    BY <1>5, <2>2 DEF SetBpm, PhaseInv, EvenPulses
  <2> QED
    BY <2>1, <2>2
<1>6. CASE Pulse
  <2>1. /\ current = "Running" /\ UNCHANGED <<current, transport, rate>>
        /\ age = Deadline /\ sinceOut' = 0
    BY <1>6, DeadlineType DEF Pulse, Due, PhaseInv, TypeInv, ThreadTypes
  <2>2. age' - Deadline' + Interval[rate] = 0 /\ age' <= Deadline'
    <3> DEFINE I == Interval[rate]
    <3>1. I \in Nat /\ phasePulse \in Nat /\ age \in Int
      BY DeadlineType DEF TypeInv, ThreadTypes
    <3>2. (phasePulse + 1) * I = phasePulse * I + I
      <4> HIDE DEF I
      <4> QED
        BY <3>1
    <3>3. phasePulse * I \in Int
      BY <3>1
    <3>4. CASE phasePulse < PhaseBound
      <4>1. age' = phasePulse * I /\ Deadline' = phasePulse * I + I
        BY <1>6, <2>1, <3>2, <3>4 DEF Pulse, Deadline
      <4> QED
        BY <4>1, <3>1, <3>3
    <3>5. CASE ~(phasePulse < PhaseBound)
      <4>1. age' = phasePulse * I - I /\ Deadline' = phasePulse * I
        BY <1>6, <2>1, <3>5 DEF Pulse, Deadline
      <4> QED
        BY <4>1, <3>1, <3>3
    <3> QED
      BY <3>4, <3>5
  <2>3. rate \in Bpms
    BY DEF TypeInv, ThreadTypes
  (* Due since the last deadline plus some tempo's interval, and sent.     *)
  <2>4. gap # NoPulse => \E b \in Bpms : gap' = Interval[b]
    <3>1. gap # NoPulse => \E b \in Bpms : sinceOut = Interval[b]
      BY <2>1, DeadlineType, Constants DEF PhaseInv, TypeInv, ThreadTypes, PortTypes
    <3> QED
      BY <1>6, <3>1 DEF Pulse
  <2>5. gap = NoPulse => gap' = OnePulse
    BY <1>6 DEF Pulse
  <2>6. EvenPulses'
    BY <2>4, <2>5 DEF EvenPulses, OnePulse
  <2> QED
    BY <2>1, <2>2, <2>3, <2>6 DEF PhaseInv
<1>7. CASE Tick
  <2>1. Deadline' = Deadline
    BY <1>7 DEF Tick, Deadline
  <2>2. /\ current = "Running" /\ UNCHANGED <<current, transport, gap>>
        /\ age' = age + 1 /\ sinceOut' = sinceOut + 1 /\ age < Deadline
    BY <1>7, DeadlineType DEF Tick, Due, TypeInv, ThreadTypes
  <2>3. age \in Int /\ sinceOut \in Nat /\ Deadline \in Int
    BY DeadlineType DEF TypeInv, ThreadTypes, PortTypes
  <2>4. age' <= Deadline'
    BY <2>1, <2>2, <2>3
  <2>5. \A b \in Bpms : sinceOut = age - Deadline + Interval[b]
                          => sinceOut' = age' - Deadline' + Interval[b]
    BY <2>1, <2>2, <2>3, Constants
  <2> QED
    BY <2>2, <2>4, <2>5 DEF PhaseInv, EvenPulses
<1> QED
  BY <1>1, <1>2, <1>3, <1>4, <1>5, <1>6, <1>7 DEF ClockThread

LEMMA StepPhase == TypeInv /\ PhaseInv /\ [ServedNext]_vars => PhaseInv'
<1>1. Others \/ UNCHANGED vars =>
        UNCHANGED <<current, age, phasePulse, rate, transport, sinceOut, gap>>
  BY OthersKeep DEF vars, thread, portVars
<1> QED
  BY <1>1, PhaseKept, ThreadPhase, ServedCases

-----------------------------------------------------------------------------
(* Requests one at a time.                                                 *)

LEMMA NamesSent ==
  ASSUME TypeInv, NEW k \in Commands, Send(k)
  PROVE  /\ queue' # <<>> /\ Names' = Names \cup {k.name}
         /\ queue = <<>> => queue' = <<k>>
<1>1. queue' = Append(queue, k) /\ queue \in Seq(Commands)
  BY Sent DEF TypeInv
<1>2. /\ DOMAIN queue' = DOMAIN queue \cup {Len(queue) + 1}
      /\ \A i \in DOMAIN queue : queue'[i] = queue[i]
      /\ queue'[Len(queue) + 1] = k /\ queue' # <<>>
  BY <1>1
<1>3. Names' = Names \cup {k.name}
  BY <1>2 DEF Names
<1>4. queue = <<>> => queue' = <<k>>
  BY <1>1
<1> QED
  BY <1>2, <1>3, <1>4

LEMMA NamesTaken ==
  ASSUME TypeInv, NEW names, Takes(names)
  PROVE  /\ Names = Names' \cup {Head(queue).name}
         /\ Len(queue) = 1 => queue' = <<>> /\ Names' = {} /\ Names = {Head(queue).name}
         /\ \A i \in DOMAIN queue' : i + 1 \in DOMAIN queue /\ queue'[i] = queue[i + 1]
<1>1. queue' = Tail(queue) /\ queue # <<>> /\ queue \in Seq(Commands)
  BY Taken DEF TypeInv
<1>2. /\ 1 \in DOMAIN queue /\ Head(queue) = queue[1]
      /\ \A i \in DOMAIN queue' : i + 1 \in DOMAIN queue /\ queue'[i] = queue[i + 1]
      /\ \A i \in DOMAIN queue : i = 1 \/ (i - 1 \in DOMAIN queue' /\ queue[i] = queue'[i - 1])
  BY <1>1
<1>3. Names = Names' \cup {Head(queue).name}
  BY <1>2 DEF Names
<1>4. Len(queue) = 1 => queue' = <<>>
  BY <1>1
<1>5. queue' = <<>> => Names' = {}
  BY DEF Names
<1> QED
  BY <1>2, <1>3, <1>4, <1>5

LEMMA NoNames == queue = <<>> => Names = {}
BY DEF Names

(* A thread that is settled at most goes on playing.                       *)
LEMMA SettledKept ==
  ASSUME Settled, ClockThread \/ Tick
  PROVE  /\ Settled'
         /\ UNCHANGED <<queue, current, rate, position, bpm, located>>
BY DEF Settled, ClockThread, Tick, Publish, DoStart, DoStop, Pause, Resume, SetBpm, DoSeek,
       Ignore, Pulse, PollNothing, Takes, Receiving, Publishing, KeepPort, KeepNumbers,
       thread, numbers, portVars

(* With nothing but Stops to come it stops, and stays so.                  *)
LEMMA StoppingKept ==
  ASSUME TypeInv, Stopping, ClockThread \/ Tick
  PROVE  Stopping' /\ (current = "Stopped" => current' = "Stopped")
<1>1. ASSUME NEW names, Takes(names)
      PROVE  "Stop" \in names /\ Head(queue).name = "Stop" /\ published = current
             /\ Names' \subseteq {"Stop"}
  BY <1>1, NamesTaken, Taken DEF Stopping
<1> USE DEF Stopping, thread, KeepPort, KeepNumbers
<1>2. CASE Publish
  BY <1>2 DEF Publish, Names
<1>3. CASE DoStop
  BY <1>1, <1>3 DEF DoStop
<1>4. CASE Ignore
  BY <1>1, <1>4 DEF Ignore, Listening
<1>5. CASE DoStart \/ Pause \/ Resume \/ SetBpm \/ DoSeek
  BY <1>1, <1>5 DEF DoStart, Pause, Resume, SetBpm, DoSeek
<1>6. CASE Pulse \/ PollNothing \/ Tick
  BY <1>6 DEF Pulse, PollNothing, Tick, Names
<1> QED
  BY <1>2, <1>3, <1>4, <1>5, <1>6 DEF ClockThread

LEMMA BusyKept == UNCHANGED handlers => \A c \in Clients : Busy(c)' <=> Busy(c)
BY DEF handlers, Busy, AtRest

LEMMA ThreadOneAtATime ==
  TypeInv /\ OneAtATime /\ (ClockThread \/ Tick) => OneAtATime'
<1> SUFFICES ASSUME TypeInv, OneAtATime, ClockThread \/ Tick PROVE OneAtATime'
  OBVIOUS
<1>1. UNCHANGED handlers
  BY ThreadKeeps
<1>2. \A c \in Clients : Busy(c)' <=> Busy(c)
  BY <1>1, BusyKept
<1>3. (Settled => Settled') /\ (Stopping => Stopping')
      /\ (Stopping /\ current = "Stopped" => current' = "Stopped")
  BY SettledKept, StoppingKept
<1> QED
  BY <1>1, <1>2, <1>3 DEF OneAtATime, handlers

(* A handler between its checks and its send has the channel to itself.    *)
LEMMA BusySettled ==
  ASSUME OneAtATime, NEW c \in Clients,
         step[c] \in {"Send", "SendSeek", "SendBpm"} \/ (Busy(c) /\ step[c] # "Signal")
  PROVE  Settled /\ Busy(c) /\ main = "Serving" /\ ~signalled
         /\ \A d \in Clients \ {c} : ~Busy(d)
BY DEF OneAtATime, Busy, AtRest

LEMMA ThreadTempo ==
  ASSUME TypeInv, OneAtATime, TempoOnItsWay, ClockThread \/ Tick
  PROVE  TempoOnItsWay'
<1> USE DEF TempoOnItsWay, thread, numbers, KeepPort, KeepNumbers
<1>1. UNCHANGED <<request, step>>
  BY ThreadKeeps DEF handlers
<1>2. ASSUME NEW names, Takes(names)
      PROVE  \A c \in Clients : step[c] # "SendBpm"
  BY <1>2, BusySettled DEF Settled, Takes, Receiving
<1>3. CASE SetBpm
  <2>1. Takes({"SetBpm"}) /\ rate' = Head(queue).arg /\ UNCHANGED bpm
    BY <1>3 DEF SetBpm
  <2>2. /\ Head(queue).name = "SetBpm" /\ queue # <<>>
        /\ 1 \in DOMAIN queue /\ Head(queue) = queue[1]
    BY <2>1, Taken DEF TypeInv
  <2>3. rate' = bpm'
    BY <2>1, <2>2
  <2> QED
    BY <1>1, <1>2, <2>1, <2>3, NamesTaken
<1>4. CASE DoStart \/ DoStop \/ Pause \/ Resume \/ DoSeek \/ Ignore
  <2>1. PICK names : Takes(names) /\ "SetBpm" \notin names
    BY <1>4 DEF DoStart, DoStop, Pause, Resume, DoSeek, Ignore
  <2>2. UNCHANGED <<rate, bpm>>
    BY <1>4 DEF DoStart, DoStop, Pause, Resume, DoSeek, Ignore
  <2>3. Head(queue).name # "SetBpm"
    BY <2>1, Taken
  <2> QED
    BY <1>1, <1>2, <2>1, <2>2, <2>3, NamesTaken
<1>5. CASE Publish \/ Pulse \/ PollNothing \/ Tick
  <2>1. UNCHANGED <<rate, bpm, queue>>
    BY <1>5 DEF Publish, Pulse, PollNothing, Tick
  <2> QED
    BY <1>1, <2>1 DEF Names
<1> QED
  BY <1>3, <1>4, <1>5 DEF ClockThread

LEMMA ThreadPosition ==
  ASSUME TypeInv, OneAtATime, PositionOnItsWay, SppEnabled, ClockThread \/ Tick
  PROVE  PositionOnItsWay'
<1> USE DEF thread, numbers, portVars, KeepPort, KeepNumbers
<1>1. UNCHANGED <<request, step>>
  BY ThreadKeeps DEF handlers
<1>2. ASSUME NEW names, Takes(names)
      PROVE  \A c \in Clients : step[c] \notin {"Send", "SendSeek"}
  BY <1>2, BusySettled DEF Settled, Takes, Receiving
(* A Seek is alone in the channel: it is taken, or not there.              *)
<1>3. ASSUME NEW names, Takes(names), Head(queue).name # "Seek"
      PROVE  "Seek" \notin Names /\ "Seek" \notin Names' /\ position = located
  BY <1>2, <1>3, NamesTaken DEF PositionOnItsWay
<1>4. CASE DoStart \/ DoStop
  <2>1. "Seek" \notin Names' /\ position' = located'
    BY <1>3, <1>4, Taken DEF DoStart, DoStop
  <2>2. \A c \in Clients : step'[c] \notin {"Send", "SendSeek"}
    BY <1>1, <1>2, <1>4 DEF DoStart, DoStop
  <2> QED
    BY <2>1, <2>2 DEF PositionOnItsWay
<1>5. CASE Pause \/ Resume \/ SetBpm
  <2>1. "Seek" \notin Names' /\ position' = located'
    BY <1>3, <1>5, Taken DEF Pause, Resume, SetBpm
  <2>2. \A c \in Clients : step'[c] \notin {"Send", "SendSeek"}
    BY <1>1, <1>2, <1>5 DEF Pause, Resume, SetBpm
  <2> QED
    BY <2>1, <2>2 DEF PositionOnItsWay
<1>6. CASE DoSeek
  <2>1. Head(queue).name = "Seek" /\ Takes({"Seek"})
    BY <1>6, Taken DEF DoSeek
  <2>2. "Seek" \in Names
    BY <2>1, NamesTaken
  <2>3. Names' = {} /\ located' = position /\ UNCHANGED position
    BY <1>6, <2>1, <2>2, NamesTaken DEF DoSeek, PositionOnItsWay
  <2>4. \A c \in Clients : step'[c] \notin {"Send", "SendSeek"}
    BY <1>1, <1>2, <2>1
  <2> QED
    BY <2>3, <2>4 DEF PositionOnItsWay
<1>7. CASE Ignore
  <2>1. PICK names : Takes(names)
    BY <1>7 DEF Ignore
  <2>2. Head(queue).name # "Seek"
    <3>1. current = "Stopped" => Head(queue).name # "Seek"
      BY <1>7, Taken DEF Ignore, Listening
    <3>2. Head(queue).name = "Seek" => current = "Stopped"
      BY <2>1, NamesTaken DEF PositionOnItsWay
    <3> QED
      BY <3>1, <3>2
  <2>3. "Seek" \notin Names' /\ position' = located'
    BY <1>3, <1>7, <2>1, <2>2 DEF Ignore
  <2>4. \A c \in Clients : step'[c] \notin {"Send", "SendSeek"}
    BY <1>1, <1>2, <2>1
  <2> QED
    BY <2>3, <2>4 DEF PositionOnItsWay
<1>8. CASE Publish \/ Pulse \/ PollNothing \/ Tick
  <2>1. UNCHANGED <<current, position, located, queue>>
    BY <1>8 DEF Publish, Pulse, PollNothing, Tick
  <2> QED
    BY <1>1, <2>1 DEF Names, PositionOnItsWay
<1> QED
  BY <1>4, <1>5, <1>6, <1>7, <1>8 DEF ClockThread

(* A request that finds everything quiet finds the thread settled.         *)
LEMMA SubmitCalm ==
  ASSUME TypeInv, CalmInv, ~careless', NEW c \in Clients, NEW r, Submit(c, r)
  PROVE  OneAtATime' /\ TempoOnItsWay' /\ (SppEnabled => PositionOnItsWay')
<1>1. /\ ~careless /\ (r.name # "status" => Quiet)
      /\ main = "Serving" /\ AtRest(c) /\ OneAtATime
      /\ UNCHANGED <<queue, published, current, main, signalled, bpm, rate, position, located>>
  BY DEF Submit, CalmInv, thread, numbers, portVars, KeepPort
<1>2. /\ step' = [step EXCEPT ![c] = "Dispatch"] /\ step \in [Clients -> Steps]
      /\ request' = [request EXCEPT ![c] = r] /\ DOMAIN request = Clients
  BY DEF Submit, TypeInv, HandlerTypes
<1>3. \A d \in Clients \ {c} : (Busy(d)' <=> Busy(d)) /\ step'[d] = step[d]
                               /\ request'[d] = request[d]
  BY <1>2 DEF Busy, AtRest
<1>4. step'[c] = "Dispatch" /\ (Busy(c)' <=> r.name # "status") /\ ~Busy(c)
  BY <1>1, <1>2 DEF Busy, AtRest
<1>5. r.name # "status" =>
        Settled /\ ~signalled /\ \A d \in Clients : ~Busy(d)
  BY <1>1 DEF Quiet, Drained, Publishing, Settled, Busy
<1>6. (Settled' <=> Settled) /\ (Stopping' <=> Stopping) /\ Names' = Names
  BY <1>1 DEF Settled, Stopping, Names
<1>7. OneAtATime'
  BY <1>1, <1>3, <1>4, <1>5, <1>6 DEF OneAtATime
<1>8. TempoOnItsWay'
  BY <1>1, <1>3, <1>4, <1>6 DEF CalmInv, TempoOnItsWay, AtRest
<1>9. SppEnabled => PositionOnItsWay'
  BY <1>1, <1>3, <1>4, <1>6 DEF CalmInv, PositionOnItsWay, AtRest
<1> QED
  BY <1>7, <1>8, <1>9

(* A handler's step: its own program counter moves, its request is kept or *)
(* done with, and whoever reads it.                                        *)
LEMMA HandlerMoves ==
  ASSUME TypeInv, NEW c \in Clients, HandlerStep(c)
  PROVE  /\ \A d \in Clients \ {c} :
              (Busy(d)' <=> Busy(d)) /\ step'[d] = step[d] /\ request'[d] = request[d]
         /\ ~AtRest(c)
         /\ AtRest(c)' \/ request'[c] = request[c]
         /\ UNCHANGED <<current, published, rate, located, main, careless>>
<1>1. UNCHANGED <<current, published, rate, located>>
  BY OthersKeep DEF Others, thread, portVars
<1>2. UNCHANGED <<main, careless>> /\ ~AtRest(c)
  BY DEF HandlerStep, HandleTransport, HandleChecked, SendPauseOrResume, StorePosition,
         SendSeek, StoreBpm, SendBpm, HandleStatus, Signal, GoTo, KeepLife, Asks, AtRest
<1>3. step \in [Clients -> Steps] /\ DOMAIN request = Clients
  BY DEF TypeInv, HandlerTypes
<1>4. PICK s \in Steps : /\ step' = [step EXCEPT ![c] = s]
                         /\ request' = IF s = "Done"
                                         THEN [request EXCEPT ![c] = None] ELSE request
  <2>1. ASSUME NEW s \in Steps, GoTo(c, s)
        PROVE  /\ step' = [step EXCEPT ![c] = s]
               /\ request' = IF s = "Done"
                               THEN [request EXCEPT ![c] = None] ELSE request
    BY <2>1 DEF GoTo
  <2>2. CASE HandleTransport(c) \/ HandleChecked(c) \/ SendPauseOrResume(c)
             \/ StorePosition(c) \/ SendSeek(c)
    BY <2>1, <2>2 DEF HandleTransport, HandleChecked, SendPauseOrResume, StorePosition,
                      SendSeek, Steps
  <2>3. CASE StoreBpm(c) \/ SendBpm(c) \/ HandleStatus(c)
    BY <2>1, <2>3 DEF StoreBpm, SendBpm, HandleStatus, Steps
  <2>4. CASE Signal(c)
    BY <2>4 DEF Signal, Steps
  <2> QED
    BY <2>2, <2>3, <2>4 DEF HandlerStep
<1>5. step'[c] = s
  BY <1>3, <1>4
<1> QED
  BY <1>1, <1>2, <1>3, <1>4, <1>5 DEF Busy, AtRest

LEMMA HandlerCalm ==
  ASSUME TypeInv, CalmInv, ~careless', NEW c \in Clients, HandlerStep(c)
  PROVE  OneAtATime' /\ TempoOnItsWay' /\ (SppEnabled => PositionOnItsWay')
<1>1. /\ OneAtATime /\ TempoOnItsWay /\ (SppEnabled => PositionOnItsWay)
      /\ UNCHANGED <<current, published, rate, located, main, careless>>
      /\ \A d \in Clients \ {c} : (Busy(d)' <=> Busy(d)) /\ step'[d] = step[d]
                                  /\ request'[d] = request[d]
      /\ ~AtRest(c) /\ (AtRest(c)' \/ request'[c] = request[c])
  BY HandlerMoves DEF CalmInv
<1>2. step' \in [Clients -> Steps] /\ step \in [Clients -> Steps]
  BY OthersTyped DEF Others, TypeInv, HandlerTypes
(* Only a status may be answered while another request is in hand.         *)
<1>3. CASE ~Busy(c)
  <2>1. HandleStatus(c) /\ step'[c] = "Done"
    BY <1>1, <1>2, <1>3
    DEF Busy, AtRest, HandlerStep, HandleTransport, HandleChecked, SendPauseOrResume,
        StorePosition, SendSeek, StoreBpm, SendBpm, HandleStatus, Signal, GoTo, Asks
  <2>2. UNCHANGED <<queue, bpm, position, signalled>> /\ Names' = Names
    BY <2>1 DEF HandleStatus, GoTo, KeepLife, KeepNumbers, numbers, Names
  <2>3. ~Busy(c)' /\ step[c] = "Dispatch"
    BY <2>1 DEF Busy, AtRest, HandleStatus, Asks
  <2>4. (Settled' <=> Settled) /\ (Stopping' <=> Stopping)
    BY <1>1, <2>2 DEF Settled, Stopping
  <2>5. OneAtATime'
    BY <1>1, <1>3, <2>2, <2>3, <2>4 DEF OneAtATime
  <2>6. TempoOnItsWay' /\ (SppEnabled => PositionOnItsWay')
    BY <1>1, <2>1, <2>2, <2>3 DEF TempoOnItsWay, PositionOnItsWay
  <2> QED
    BY <2>5, <2>6
<1>4. CASE Signal(c)
  <2>1. /\ UNCHANGED <<queue, bpm, position>> /\ step[c] = "Signal" /\ step'[c] = "Done"
        /\ Names' = Names
    BY <1>2, <1>4 DEF Signal, KeepNumbers, numbers, Names
  <2>2. Busy(c) /\ ~Busy(c)' /\ Stopping /\ \A d \in Clients \ {c} : ~Busy(d)
    BY <1>1, <2>1 DEF Busy, AtRest, OneAtATime
  <2>3. Stopping'
    BY <1>1, <2>1, <2>2 DEF Stopping
  <2>4. OneAtATime'
    BY <1>1, <2>2, <2>3 DEF OneAtATime
  <2>5. TempoOnItsWay' /\ (SppEnabled => PositionOnItsWay')
    BY <1>1, <2>1 DEF TempoOnItsWay, PositionOnItsWay
  <2> QED
    BY <2>4, <2>5
(* The rest: what it finds is settled, and nobody else is busy.            *)
<1>5. CASE Busy(c) /\ ~Signal(c)
  <2>1. step[c] # "Signal"
    BY <1>2, <1>5 DEF HandlerStep, HandleTransport, HandleChecked, SendPauseOrResume,
        StorePosition, SendSeek, StoreBpm, SendBpm, HandleStatus, Asks
  <2>2. /\ Settled /\ main = "Serving" /\ ~signalled
        /\ \A d \in Clients \ {c} : ~Busy(d)
        /\ Names = {} /\ queue = <<>>
    BY <1>1, <1>5, <2>1, BusySettled, NoNames DEF Settled
  <2>3. \A d \in Clients \ {c} :
          ~Busy(d)' /\ step'[d] \notin {"Send", "SendSeek", "SendBpm"}
    BY <1>1, <2>2 DEF Busy, AtRest
  <2>4. UNCHANGED signalled
    BY <1>5 DEF HandlerStep, HandleTransport, HandleChecked, SendPauseOrResume,
        StorePosition, SendSeek, StoreBpm, SendBpm, HandleStatus, GoTo, KeepLife
  <2>5. ASSUME step'[c] # "Signal", AtRest(c)' \/ UNCHANGED queue
        PROVE  OneAtATime'
    BY <1>1, <2>2, <2>3, <2>4, <2>5 DEF OneAtATime, Busy, AtRest, Settled
  <2>6. CASE HandleTransport(c)
    <3>1. PICK k \in Commands : Send(k) /\ k.name \in {"Start", "Stop"}
                                /\ (request[c].name = "stop" => k.name = "Stop")
      BY <2>6 DEF HandleTransport, Command, Commands
    <3>2. queue' = <<k>> /\ Names' = {k.name}
      BY <2>2, <3>1, NamesSent
    <3>3. /\ UNCHANGED <<bpm, position>> /\ step[c] = "Dispatch"
          /\ step'[c] = IF request[c].name = "stop" THEN "Signal" ELSE "Done"
      BY <1>2, <2>6 DEF HandleTransport, GoTo, KeepNumbers, numbers, Asks
    <3>4. CASE request[c].name = "stop"
      <4>1. Stopping'
        BY <1>1, <2>2, <3>1, <3>2, <3>4 DEF Stopping, Settled
      <4>2. OneAtATime'
        BY <1>1, <2>2, <2>3, <2>4, <3>3, <3>4, <4>1 DEF OneAtATime
      <4> QED
        BY <1>1, <2>2, <2>3, <3>1, <3>2, <3>3, <3>4, <4>2
        DEF TempoOnItsWay, PositionOnItsWay, Busy, AtRest
    <3>5. CASE request[c].name # "stop"
      <4>1. OneAtATime'
        BY <2>5, <3>3, <3>5 DEF AtRest
      <4> QED
        BY <1>1, <2>2, <2>3, <3>1, <3>2, <3>3, <3>5, <4>1
        DEF TempoOnItsWay, PositionOnItsWay, Busy, AtRest
    <3> QED
      BY <3>4, <3>5
  <2>7. CASE HandleChecked(c)
    <3>1. /\ UNCHANGED <<bpm, position, queue>> /\ step[c] = "Dispatch"
          /\ step'[c] \in {"Send", "Done"}
          /\ step'[c] = "Send" /\ request[c].name = "seek" => published = "Stopped"
      BY <1>2, <2>7 DEF HandleChecked, GoTo, KeepNumbers, numbers, Asks
    <3>2. OneAtATime'
      BY <2>5, <3>1
    <3>3. Names' = {}
      BY <2>2, <3>1, NoNames DEF Names
    <3> QED
      BY <1>1, <2>2, <2>3, <3>1, <3>2, <3>3
      DEF TempoOnItsWay, PositionOnItsWay, Settled, Busy, AtRest
  <2>8. CASE SendPauseOrResume(c)
    <3>1. PICK k \in Commands : Send(k) /\ k.name \in {"Pause", "Resume"}
      BY <2>8 DEF SendPauseOrResume, Command, Commands
    <3>2. queue' = <<k>> /\ Names' = {k.name}
      BY <2>2, <3>1, NamesSent
    <3>3. UNCHANGED <<bpm, position>> /\ step[c] = "Send" /\ step'[c] = "Done"
          /\ request[c].name # "seek"
      BY <1>2, <2>8 DEF SendPauseOrResume, GoTo, KeepNumbers, numbers
    <3>4. OneAtATime'
      BY <2>5, <3>3 DEF AtRest
    <3> QED
      BY <1>1, <2>2, <2>3, <3>1, <3>2, <3>3, <3>4
      DEF TempoOnItsWay, PositionOnItsWay, Busy, AtRest
  <2>9. CASE StorePosition(c)
    <3>1. /\ UNCHANGED <<bpm, queue>> /\ position' = request[c].arg
          /\ step[c] = "Send" /\ request[c].name = "seek" /\ step'[c] = "SendSeek"
      BY <1>2, <2>9 DEF StorePosition, GoTo
    <3>2. OneAtATime'
      BY <2>5, <3>1
    <3>3. Names' = {}
      BY <2>2, <3>1, NoNames DEF Names
    <3>4. request'[c] = request[c]
      BY <1>1, <3>1 DEF AtRest
    <3> QED
      BY <1>1, <2>2, <2>3, <3>1, <3>2, <3>3, <3>4
      DEF TempoOnItsWay, PositionOnItsWay, Busy, AtRest
  <2>10. CASE SendSeek(c)
    <3>1. PICK k \in Commands : Send(k) /\ k = Command("Seek", request[c].arg)
      BY <2>10 DEF SendSeek, Command, Commands, TypeInv, HandlerTypes, Checked
    <3>2. queue' = <<k>> /\ Names' = {"Seek"}
      BY <2>2, <3>1, NamesSent DEF Command
    <3>3. UNCHANGED <<bpm, position>> /\ step[c] = "SendSeek" /\ step'[c] = "Done"
      BY <1>2, <2>10 DEF SendSeek, GoTo, KeepNumbers, numbers
    <3>4. OneAtATime'
      BY <2>5, <3>3 DEF AtRest
    <3>5. Len(queue') = 1 /\ Head(queue') = k /\ DOMAIN queue' = {1} /\ queue'[1] = k
      BY <3>2
    <3> QED
      BY <1>1, <2>2, <2>3, <3>1, <3>2, <3>3, <3>4, <3>5
      DEF TempoOnItsWay, PositionOnItsWay, Busy, AtRest, Command
  <2>11. CASE StoreBpm(c)
    <3>1. /\ UNCHANGED <<position, queue>> /\ step[c] = "Dispatch"
          /\ \/ step'[c] = "SendBpm" /\ bpm' = request[c].arg
             \/ step'[c] = "Done" /\ UNCHANGED bpm
      BY <1>2, <2>11 DEF StoreBpm, GoTo, Asks
    <3>2. OneAtATime'
      BY <2>5, <3>1
    <3>3. Names' = {} /\ DOMAIN queue' = {}
      BY <2>2, <3>1, NoNames DEF Names
    <3>4. step'[c] = "SendBpm" => request'[c] = request[c]
      BY <1>1, <3>1 DEF AtRest
    <3> QED
      BY <1>1, <2>2, <2>3, <3>1, <3>2, <3>3, <3>4
      DEF TempoOnItsWay, PositionOnItsWay, Busy, AtRest
  <2>12. CASE SendBpm(c)
    <3>1. PICK k \in Commands : Send(k) /\ k = Command("SetBpm", request[c].arg)
      BY <2>12 DEF SendBpm, Command, Commands, TypeInv, HandlerTypes, Checked
    <3>2. queue' = <<k>> /\ Names' = {"SetBpm"}
      BY <2>2, <3>1, NamesSent DEF Command
    <3>3. UNCHANGED <<bpm, position>> /\ step[c] = "SendBpm" /\ step'[c] = "Done"
      BY <1>2, <2>12 DEF SendBpm, GoTo, KeepNumbers, numbers
    <3>4. OneAtATime'
      BY <2>5, <3>3 DEF AtRest
    <3>5. DOMAIN queue' = {1} /\ queue'[1] = k
      BY <3>2
    <3> QED
      BY <1>1, <2>2, <2>3, <3>1, <3>2, <3>3, <3>4, <3>5
      DEF TempoOnItsWay, PositionOnItsWay, Busy, AtRest, Command
  <2> QED
    BY <1>5, <2>6, <2>7, <2>8, <2>9, <2>10, <2>11, <2>12
    DEF HandlerStep, HandleStatus, Busy, Asks
<1> QED
  BY <1>3, <1>4, <1>5

(* The main thread: nobody is busy once it has left the select.            *)
LEMMA MainCalm ==
  ASSUME TypeInv, CalmInv, ~careless', Terminate \/ MainStep
  PROVE  OneAtATime' /\ TempoOnItsWay' /\ (SppEnabled => PositionOnItsWay')
<1>1. /\ ~careless /\ UNCHANGED <<current, published, rate, located, bpm, position, signalled>>
      /\ OneAtATime /\ TempoOnItsWay /\ (SppEnabled => PositionOnItsWay)
  <2>1. ~careless
    BY DEF Terminate, MainStep, LeaveSelect, StopAndWait, SendStop, Drain, Return
  <2>2. UNCHANGED <<current, published, rate, located>>
    BY OthersKeep DEF Others, thread, portVars
  <2>3. UNCHANGED <<bpm, position, signalled>>
    BY DEF Terminate, MainStep, LeaveSelect, StopAndWait, SendStop, Drain, Return,
           Stays, KeepNumbers, numbers
  <2> QED
    BY <2>1, <2>2, <2>3 DEF CalmInv
<1>2. ASSUME UNCHANGED <<step, request>>
      PROVE  \A c \in Clients : (Busy(c)' <=> Busy(c)) /\ step'[c] = step[c]
                                /\ request'[c] = request[c]
  BY <1>2 DEF Busy, AtRest
<1>3. ASSUME UNCHANGED queue
      PROVE  Names' = Names /\ (Settled' <=> Settled) /\ (Stopping' <=> Stopping)
  BY <1>1, <1>3 DEF Names, Settled, Stopping
<1>4. ASSUME UNCHANGED <<step, request, queue>>
      PROVE  TempoOnItsWay' /\ (SppEnabled => PositionOnItsWay')
  BY <1>1, <1>2, <1>3, <1>4 DEF TempoOnItsWay, PositionOnItsWay
<1>5. CASE Terminate
  <2>1. /\ UNCHANGED <<step, request, queue>> /\ main' = "ReadState"
        /\ Settled /\ ~signalled /\ \A c \in Clients : ~Busy(c)
    BY <1>5 DEF Terminate, Stays, Quiet, Drained, Publishing, Settled, Busy
  <2>2. OneAtATime'
    BY <1>1, <1>2, <1>3, <2>1 DEF OneAtATime
  <2> QED
    BY <1>4, <2>1, <2>2
<1>6. CASE LeaveSelect
  <2>1. UNCHANGED <<step, request, queue>> /\ main' = "ReadState" /\ signalled
    BY <1>6 DEF LeaveSelect, Stays
  <2>2. OneAtATime'
    BY <1>1, <1>2, <1>3, <2>1 DEF OneAtATime
  <2> QED
    BY <1>4, <2>1, <2>2
<1>7. \A c \in Clients : main # "Serving" => ~Busy(c)
  BY <1>1 DEF OneAtATime
<1>8. CASE StopAndWait
  <2>1. /\ UNCHANGED <<step, request, queue>> /\ main = "ReadState"
        /\ main' = IF published \in {"Running", "Paused"} THEN "SendStop" ELSE "Return"
    BY <1>8 DEF StopAndWait, Stays
  <2>2. Stopping \/ Settled
    BY <1>1, <2>1 DEF OneAtATime
  <2>3. main' = "Return" => current = "Stopped" /\ Stopping
    BY <1>1, <2>1, <2>2, NoNames
    DEF Stopping, Settled, TypeInv, ThreadTypes, ClockState
  <2>4. OneAtATime'
    BY <1>1, <1>2, <1>3, <1>7, <2>1, <2>2, <2>3 DEF OneAtATime
  <2> QED
    BY <1>4, <2>1, <2>4
<1>9. CASE SendStop
  <2>1. /\ UNCHANGED <<step, request>> /\ main = "SendStop" /\ main' = "Drain"
        /\ Send(Command("Stop", None)) /\ Command("Stop", None) \in Commands
    BY <1>9 DEF SendStop, Stays, Command, Commands
  <2>2. Names \subseteq {"Stop"} /\ current \in {published, "Stopped"}
    BY <1>1, <2>1, NoNames DEF OneAtATime, Stopping, Settled
  <2>3. queue' # <<>> /\ Names' \subseteq {"Stop"}
    BY <2>1, <2>2, NamesSent DEF Command
  <2>4. Stopping'
    BY <1>1, <2>2, <2>3 DEF Stopping
  <2>5. OneAtATime'
    BY <1>1, <1>2, <1>7, <2>1, <2>4 DEF OneAtATime
  <2>6. TempoOnItsWay' /\ (SppEnabled => PositionOnItsWay')
    <3>1. \A i \in DOMAIN queue' : queue'[i].name = "Stop"
      BY <2>3 DEF Names
    <3>2. \A c \in Clients : step'[c] \notin {"Send", "SendSeek", "SendBpm"}
      BY <1>2, <1>7, <2>1 DEF Busy, AtRest
    <3> QED
      BY <1>1, <1>2, <2>1, <2>2, <2>3, <3>1, <3>2 DEF TempoOnItsWay, PositionOnItsWay
  <2> QED
    BY <2>5, <2>6
<1>10. CASE Drain
  <2>1. /\ UNCHANGED <<step, request, queue>> /\ main = "Drain" /\ main' = "Return"
        /\ published = "Stopped"
    BY <1>10 DEF Drain, Stays
  <2>2. Stopping /\ current = "Stopped"
    BY <1>1, <2>1 DEF OneAtATime, Stopping
  <2>3. OneAtATime'
    BY <1>1, <1>2, <1>3, <1>7, <2>1, <2>2 DEF OneAtATime
  <2> QED
    BY <1>4, <2>1, <2>3
<1>11. CASE Return
  <2>1. /\ queue' = <<>> /\ main = "Return" /\ main' = "Exited"
        /\ \A c \in Clients : step'[c] = "Done"
    BY <1>11 DEF Return
  <2>2. Stopping /\ current = "Stopped" /\ Names' = {}
    BY <1>1, <2>1, NoNames DEF OneAtATime, Names
  <2>3. Stopping' /\ \A c \in Clients : ~Busy(c)'
    BY <1>1, <2>1, <2>2 DEF Stopping, Busy, AtRest
  <2>4. OneAtATime'
    BY <1>1, <2>1, <2>2, <2>3 DEF OneAtATime
  <2>5. TempoOnItsWay' /\ (SppEnabled => PositionOnItsWay')
    <3>1. \A c \in Clients : step[c] \notin {"SendSeek", "SendBpm"}
      BY <1>7, <2>1 DEF Busy, AtRest
    <3>2. Names \subseteq {"Stop"}
      BY <2>2 DEF Stopping
    <3> QED
      BY <1>1, <2>1, <2>2, <3>1, <3>2 DEF TempoOnItsWay, PositionOnItsWay
  <2> QED
    BY <2>4, <2>5
<1> QED
  BY <1>5, <1>6, <1>8, <1>9, <1>10, <1>11 DEF MainStep

LEMMA InitCalm == Init => CalmInv
BY DEF Init, CalmInv, OneAtATime, TempoOnItsWay, PositionOnItsWay, Busy, AtRest, Settled,
       Stopping, Names

LEMMA StepCalm == TypeInv /\ CalmInv /\ [ServedNext]_vars => CalmInv'
<1> SUFFICES ASSUME TypeInv, CalmInv, [ServedNext]_vars, ~careless'
             PROVE  OneAtATime' /\ TempoOnItsWay' /\ (SppEnabled => PositionOnItsWay')
  BY DEF CalmInv
<1>1. CASE ClockThread \/ Tick
  <2>1. ~careless
    BY <1>1, ThreadKeeps DEF handlers
  <2> QED
    BY <1>1, <2>1, ThreadOneAtATime, ThreadTempo, ThreadPosition DEF CalmInv
<1>2. CASE Others
  BY <1>2, SubmitCalm, HandlerCalm, MainCalm DEF Others
<1>3. CASE UNCHANGED vars
  BY <1>3 DEF vars, thread, numbers, portVars, handlers, CalmInv, OneAtATime, TempoOnItsWay,
              PositionOnItsWay, Busy, AtRest, Settled, Stopping, Names
<1> QED
  BY <1>1, <1>2, <1>3, ServedCases

-----------------------------------------------------------------------------
(* The console.                                                            *)

LEMMA NextServed == [Next]_vars => [ServedNext]_vars
BY DEF Next, ServedNext, Gone

LEMMA ConsoleServed == [ConsoleNext]_allVars => [ServedNext]_vars
<1>1. ConsoleStep => [ServedNext]_vars
  <2>1. Console \in Clients
    BY ConsoleAssumption
  <2> QED
    BY <2>1 DEF ConsoleStep, Press, Answered, CutOff, Poll, Fetch, Fetched, KeepDaemon,
                ServedNext, HandlerStep
<1> QED
  BY <1>1, NextServed DEF ConsoleNext, DaemonStep, allVars

ConsoleTypes ==
  /\ console \in {"Opening", "Idle", "Acting", "Fetch", "Fetching"}
  /\ shownBpm # None => shownBpm \in Bpms
  /\ disconnected \in BOOLEAN

LEMMA ConsoleTyped ==
  TypeInv /\ ConsoleTypes /\ [ConsoleNext]_allVars => ConsoleTypes'
<1> SUFFICES ASSUME TypeInv, ConsoleTypes, [ConsoleNext]_allVars PROVE ConsoleTypes'
  OBVIOUS
<1> USE DEF ConsoleTypes, KeepScreen
<1>1. CASE ConsoleStep
  <2>1. bpm \in Bpms
    BY DEF TypeInv, PortTypes
  <2> QED
    BY <1>1, <2>1 DEF ConsoleStep, Press, Answered, CutOff, Poll, Fetch, Fetched
<1>2. CASE DaemonStep \/ UNCHANGED allVars
  BY <1>2 DEF DaemonStep, allVars, consoleVars
<1> QED
  BY <1>1, <1>2 DEF ConsoleNext

(* The last tempo stays the last when another command is queued, or the    *)
(* first is taken that does not set it.                                    *)
LEMMA LastTempoSent ==
  ASSUME TypeInv, NEW k \in Commands, Send(k), UNCHANGED <<rate, bpm>>,
         \/ k.name # "SetBpm" /\ LastTempo
         \/ k = Command("SetBpm", bpm)
  PROVE  LastTempo'
<1>1. queue' = Append(queue, k) /\ queue \in Seq(Commands)
  BY Sent DEF TypeInv
<1>2. /\ DOMAIN queue = 1 .. Len(queue) /\ Len(queue) \in Nat
      /\ DOMAIN queue' = 1 .. Len(queue) + 1
      /\ \A i \in DOMAIN queue : queue'[i] = queue[i]
      /\ queue'[Len(queue) + 1] = k
  BY <1>1
<1>3. CASE k.name # "SetBpm" /\ LastTempo
  <2>1. "SetBpm" \in Names' <=> "SetBpm" \in Names
    BY <1>3, NamesSent
  <2>2. ASSUME NEW i \in DOMAIN queue, queue[i] = Command("SetBpm", bpm),
               \A j \in DOMAIN queue : j > i => queue[j].name # "SetBpm"
        PROVE  /\ i \in DOMAIN queue' /\ queue'[i] = Command("SetBpm", bpm)
               /\ \A j \in DOMAIN queue' : j > i => queue'[j].name # "SetBpm"
    BY <1>2, <1>3, <2>2
  <2>3. CASE "SetBpm" \in Names
    BY <1>3, <2>1, <2>2, <2>3 DEF LastTempo
  <2>4. CASE "SetBpm" \notin Names
    BY <1>3, <2>1, <2>4 DEF LastTempo
  <2> QED
    BY <2>3, <2>4
<1>4. CASE k = Command("SetBpm", bpm)
  <2>1. "SetBpm" \in Names'
    BY <1>4, NamesSent DEF Command
  <2>2. /\ Len(queue) + 1 \in DOMAIN queue'
        /\ \A j \in DOMAIN queue' : j > Len(queue) + 1 => queue'[j].name # "SetBpm"
    BY <1>2
  <2> QED
    BY <1>2, <1>4, <2>1, <2>2 DEF LastTempo
<1> QED
  BY <1>3, <1>4

LEMMA LastTempoTaken ==
  ASSUME TypeInv, NEW names, Takes(names), UNCHANGED bpm, LastTempo,
         rate' = IF Head(queue).name = "SetBpm" THEN Head(queue).arg ELSE rate
  PROVE  LastTempo'
<1>1. queue # <<>> /\ queue \in Seq(Commands) /\ queue' = Tail(queue)
  BY Taken DEF TypeInv
<1>2. /\ DOMAIN queue = 1 .. Len(queue) /\ Len(queue) \in Nat \ {0} /\ Head(queue) = queue[1]
      /\ DOMAIN queue' = 1 .. Len(queue) - 1
      /\ \A i \in DOMAIN queue' : queue'[i] = queue[i + 1]
  BY <1>1
<1>3. CASE "SetBpm" \notin Names
  <2>1. "SetBpm" \notin Names' /\ Head(queue).name # "SetBpm"
    BY <1>3, NamesTaken
  <2> QED
    BY <1>3, <2>1 DEF LastTempo
<1>4. CASE "SetBpm" \in Names
  <2>1. PICK i \in DOMAIN queue : /\ queue[i] = Command("SetBpm", bpm)
                                  /\ \A j \in DOMAIN queue : j > i => queue[j].name # "SetBpm"
    BY <1>4 DEF LastTempo
  <2>2. CASE i = 1
    <3>1. rate' = bpm'
      BY <1>2, <2>1, <2>2 DEF Command
    <3>2. \A j \in DOMAIN queue' : queue'[j].name # "SetBpm"
      BY <1>2, <2>1, <2>2
    <3> QED
      BY <3>1, <3>2 DEF LastTempo, Names
  <2>3. CASE i # 1
    <3>1. i - 1 \in DOMAIN queue' /\ queue'[i - 1] = Command("SetBpm", bpm')
      BY <1>2, <2>1, <2>3
    <3>2. \A j \in DOMAIN queue' : j > i - 1 => queue'[j].name # "SetBpm"
      BY <1>2, <2>1, <2>3
    <3>3. "SetBpm" \in Names'
      BY <3>1 DEF Names, Command
    <3> QED
      BY <3>1, <3>2, <3>3 DEF LastTempo
  <2> QED
    BY <2>2, <2>3
<1> QED
  BY <1>3, <1>4

LEMMA LastTempoKept ==
  ASSUME UNCHANGED <<queue, rate, bpm>>, LastTempo
  PROVE  LastTempo'
BY DEF LastTempo, Names

LEMMA ThreadLastTempo ==
  ASSUME TypeInv, LastTempo, ClockThread \/ Tick
  PROVE  LastTempo'
<1> USE DEF thread, numbers, KeepNumbers
<1>1. CASE SetBpm
  BY <1>1, LastTempoTaken, Taken DEF SetBpm
<1>2. CASE DoStart \/ DoStop \/ Pause \/ Resume \/ DoSeek \/ Ignore
  <2>1. PICK names : Takes(names) /\ "SetBpm" \notin names
    BY <1>2 DEF DoStart, DoStop, Pause, Resume, DoSeek, Ignore
  <2>2. UNCHANGED <<rate, bpm>>
    BY <1>2 DEF DoStart, DoStop, Pause, Resume, DoSeek, Ignore
  <2> QED
    BY <2>1, <2>2, LastTempoTaken, Taken
<1>3. CASE Publish \/ Pulse \/ PollNothing \/ Tick
  BY <1>3, LastTempoKept DEF Publish, Pulse, PollNothing, Tick
<1> QED
  BY <1>1, <1>2, <1>3 DEF ClockThread

(* Nothing returns to the select, or from the end.                         *)
LEMMA MainForward ==
  ASSUME [ServedNext]_vars
  PROVE  /\ main # "Serving" => main' # "Serving"
         /\ main = "Exited" => main' = "Exited"
<1>1. CASE ClockThread \/ Tick
  BY <1>1, ThreadKeeps DEF handlers
<1>2. ASSUME NEW c \in Clients, (\E r : Submit(c, r)) \/ HandlerStep(c)
      PROVE  UNCHANGED main
  BY <1>2 DEF Submit, HandlerStep, HandleTransport, HandleChecked, SendPauseOrResume,
              StorePosition, SendSeek, StoreBpm, SendBpm, HandleStatus, Signal, GoTo, KeepLife
<1>3. CASE Terminate \/ MainStep
  BY <1>3 DEF Terminate, MainStep, LeaveSelect, StopAndWait, SendStop, Drain, Return
<1>4. CASE UNCHANGED vars
  BY <1>4 DEF vars, handlers
<1> QED
  BY <1>1, <1>2, <1>3, <1>4 DEF ServedNext

(* A handler at rest is no step of the daemon's: only its client moves it, *)
(* and the console's asks through the console.                             *)
LEMMA DaemonRests == TypeInv /\ Next /\ AtRest(Console) => AtRest(Console)'
<1> SUFFICES ASSUME TypeInv, Next, AtRest(Console) PROVE AtRest(Console)'
  OBVIOUS
<1>1. CASE ClockThread \/ Tick
  BY <1>1, ThreadKeeps DEF handlers, AtRest
<1>2. ASSUME NEW c \in Clients, NEW r \in Requests[c], Submit(c, r)
      PROVE  AtRest(Console)'
  BY <1>2, ConsoleAssumption DEF Submit, AtRest, TypeInv, HandlerTypes
<1>3. ASSUME NEW c \in Clients, HandlerStep(c)
      PROVE  AtRest(Console)'
  BY <1>3, HandlerMoves, ConsoleAssumption DEF AtRest
<1>4. CASE Terminate \/ MainStep
  BY <1>4, ConsoleAssumption
  DEF Terminate, MainStep, LeaveSelect, StopAndWait, SendStop, Drain, Return, Stays, AtRest
<1>5. CASE Gone
  BY <1>5 DEF Gone, vars, handlers, AtRest
<1> QED
  BY <1>1, <1>2, <1>3, <1>4, <1>5 DEF Next

(* The tempo the daemon publishes changes at the console's handler alone.  *)
LEMMA HandlerTunes ==
  ASSUME TypeInv, OnlyConsoleTunes, OthersTuneNothing, TempoInOrder, main # "Exited",
         NEW c \in Clients, HandlerStep(c)
  PROVE  /\ OthersTuneNothing' /\ TempoInOrder'
         /\ AtRest(Console) => UNCHANGED bpm
<1>1. /\ \A d \in Clients \ {c} :
           (Busy(d)' <=> Busy(d)) /\ step'[d] = step[d] /\ request'[d] = request[d]
      /\ UNCHANGED <<rate, main>> /\ ~AtRest(c) /\ (AtRest(c)' \/ request'[c] = request[c])
  BY HandlerMoves
<1>2. step' \in [Clients -> Steps] /\ step \in [Clients -> Steps] /\ Console \in Clients
  BY OthersTyped, ConsoleAssumption DEF Others, TypeInv, HandlerTypes
<1>3. CASE StoreBpm(c)
  <2>1. /\ UNCHANGED queue /\ step[c] = "Dispatch" /\ request[c].name = "bpm"
        /\ IF request[c].arg \in Bpms
             THEN bpm' = request[c].arg /\ step'[c] = "SendBpm" /\ UNCHANGED request
             ELSE UNCHANGED bpm /\ step'[c] = "Done"
    BY <1>2, <1>3 DEF StoreBpm, GoTo, Asks
  <2>2. CASE c = Console
    <3>1. OthersTuneNothing'
      BY <1>1, <2>2 DEF OthersTuneNothing
    <3>2. LastTempo
      BY <2>1, <2>2 DEF TempoInOrder
    <3>3. TempoInOrder'
      BY <1>1, <2>1, <2>2, <3>2, LastTempoKept DEF TempoInOrder
    <3> QED
      BY <1>1, <2>2, <3>1, <3>3
  <2>3. CASE c # Console
    <3>1. request[c].arg \notin Bpms
      BY <2>1, <2>3 DEF OnlyConsoleTunes, OthersTuneNothing
    <3>2. OthersTuneNothing'
      BY <1>1, <2>1, <3>1 DEF OthersTuneNothing
    <3>3. TempoInOrder'
      BY <1>1, <1>2, <2>1, <2>3, <3>1, LastTempoKept DEF TempoInOrder
    <3> QED
      BY <2>1, <3>1, <3>2, <3>3
  <2> QED
    BY <2>2, <2>3
<1>4. CASE SendBpm(c)
  <2>1. step[c] = "SendBpm" /\ step'[c] = "Done" /\ UNCHANGED bpm
    BY <1>2, <1>4 DEF SendBpm, GoTo, KeepNumbers, numbers
  <2>2. c = Console
    BY <2>1 DEF OthersTuneNothing
  <2>3. PICK k \in Commands : Send(k) /\ k = Command("SetBpm", request[c].arg)
    BY <1>4 DEF SendBpm, Command, Commands, TypeInv, HandlerTypes, Checked
  <2>4. LastTempo'
    BY <1>1, <2>1, <2>2, <2>3, LastTempoSent DEF TempoInOrder
  <2> QED
    BY <1>1, <2>1, <2>2, <2>4 DEF OthersTuneNothing, TempoInOrder
<1>5. CASE ~StoreBpm(c) /\ ~SendBpm(c)
  <2>1. /\ UNCHANGED bpm /\ step'[c] \notin {"Dispatch", "SendBpm"} /\ step[c] # "SendBpm"
        /\ UNCHANGED queue \/ \E k \in Commands : Send(k) /\ k.name # "SetBpm"
    <3>1. CASE HandleTransport(c) \/ SendPauseOrResume(c) \/ SendSeek(c)
      BY <1>2, <3>1
      DEF HandleTransport, SendPauseOrResume, SendSeek, GoTo, Asks, KeepNumbers, numbers,
          Command, Commands, TypeInv, HandlerTypes, Checked
    <3>2. CASE HandleChecked(c) \/ StorePosition(c) \/ HandleStatus(c) \/ Signal(c)
      BY <1>2, <3>2
      DEF HandleChecked, StorePosition, HandleStatus, Signal, GoTo, Asks, KeepNumbers, numbers
    <3> QED
      BY <1>5, <3>1, <3>2 DEF HandlerStep
  <2>2. OthersTuneNothing'
    BY <1>1, <2>1 DEF OthersTuneNothing
  <2>3. step[Console] # "SendBpm" => LastTempo'
    BY <1>1, <2>1, LastTempoKept, LastTempoSent DEF TempoInOrder
  <2>4. step'[Console] = "SendBpm" => step[Console] = "SendBpm" /\ request'[Console] = request[Console]
    BY <1>1, <1>2, <2>1
  <2>5. TempoInOrder'
    BY <1>1, <1>2, <2>1, <2>3, <2>4 DEF TempoInOrder
  <2> QED
    BY <2>1, <2>2, <2>5
<1> QED
  BY <1>3, <1>4, <1>5

LEMMA TunesKept ==
  ASSUME OthersTuneNothing, TempoInOrder, UNCHANGED <<queue, rate, bpm, step, request, main>>
  PROVE  OthersTuneNothing' /\ TempoInOrder'
BY LastTempoKept DEF OthersTuneNothing, TempoInOrder

LEMMA DaemonTunes ==
  ASSUME TypeInv, OnlyConsoleTunes, OthersTuneNothing, TempoInOrder, Next
  PROVE  /\ OthersTuneNothing' /\ TempoInOrder'
         /\ AtRest(Console) => UNCHANGED bpm
<1>1. CASE ClockThread \/ Tick
  <2>1. UNCHANGED <<step, request, main, bpm>>
    BY <1>1, ThreadKeeps
    DEF handlers, ClockThread, Tick, Publish, DoStart, DoStop, Pause, Resume, SetBpm, DoSeek,
        Ignore, Pulse, PollNothing, KeepNumbers, numbers
  <2> QED
    BY <1>1, <2>1, ThreadLastTempo DEF OthersTuneNothing, TempoInOrder
<1>2. ASSUME NEW c \in Clients, NEW r \in Requests[c], Submit(c, r)
      PROVE  OthersTuneNothing' /\ TempoInOrder' /\ UNCHANGED bpm
  <2>1. c # Console /\ Console \in Clients
    BY ConsoleAssumption
  <2>2. /\ step' = [step EXCEPT ![c] = "Dispatch"] /\ request' = [request EXCEPT ![c] = r]
        /\ step \in [Clients -> Steps] /\ DOMAIN request = Clients
        /\ UNCHANGED <<queue, rate, bpm, main>>
    BY <1>2 DEF Submit, thread, numbers, TypeInv, HandlerTypes
  <2>3. step'[Console] = step[Console] /\ request'[Console] = request[Console]
    BY <2>1, <2>2
  <2> QED
    BY <2>1, <2>2, <2>3, LastTempoKept DEF OthersTuneNothing, TempoInOrder
<1>3. ASSUME NEW c \in Clients, HandlerStep(c)
      PROVE  /\ OthersTuneNothing' /\ TempoInOrder'
             /\ AtRest(Console) => UNCHANGED bpm
  <2>1. main # "Exited"
    BY <1>3 DEF HandlerStep, HandleTransport, HandleChecked, SendPauseOrResume, StorePosition,
                SendSeek, StoreBpm, SendBpm, HandleStatus, Signal, Asks
  <2> QED
    BY <1>3, <2>1, HandlerTunes
<1>4. CASE Terminate \/ MainStep
  <2>1. UNCHANGED <<rate, bpm>>
    BY <1>4, OthersKeep
    DEF Others, thread, Terminate, MainStep, LeaveSelect, StopAndWait, SendStop, Drain,
        Return, Stays, KeepNumbers, numbers
  <2>2. CASE SendStop
    <3>1. PICK k \in Commands : Send(k) /\ k.name # "SetBpm"
      BY <2>2 DEF SendStop, Command, Commands
    <3>2. UNCHANGED <<step, request>> /\ main # "Exited"
      BY <2>2 DEF SendStop, Stays
    <3> QED
      BY <2>1, <3>1, <3>2, LastTempoSent DEF OthersTuneNothing, TempoInOrder
  <2>3. CASE Return
    BY <2>1, <2>3, ConsoleAssumption DEF Return, OthersTuneNothing, TempoInOrder
  <2>4. CASE Terminate \/ LeaveSelect \/ StopAndWait \/ Drain
    <3>1. UNCHANGED <<step, request, queue>> /\ main # "Exited"
      BY <2>4 DEF Terminate, LeaveSelect, StopAndWait, Drain, Stays
    <3> QED
      BY <2>1, <3>1, LastTempoKept DEF OthersTuneNothing, TempoInOrder
  <2> QED
    BY <1>4, <2>1, <2>2, <2>3, <2>4 DEF MainStep
<1>5. CASE Gone
  BY <1>5, TunesKept DEF Gone, vars, thread, numbers, handlers
<1> QED
  BY <1>1, <1>2, <1>3, <1>4, <1>5 DEF Next

LEMMA InitScreen == ConsoleInit => ScreenInv
BY ConsoleAssumption
DEF ConsoleInit, Init, ScreenInv, ConsoleRests, OthersTuneNothing, TempoInOrder, ShownTempo,
    LastTempo, Names, AtRest

LEMMA DaemonScreen == TypeInv /\ ScreenInv /\ DaemonStep => ScreenInv'
<1> SUFFICES ASSUME TypeInv, ScreenInv, DaemonStep PROVE ScreenInv'
  OBVIOUS
<1>1. /\ UNCHANGED <<console, shownBpm, disconnected>>
      /\ main # "Serving" => main' # "Serving"
  BY MainForward, NextServed DEF DaemonStep, consoleVars
<1>2. ConsoleRests'
  BY <1>1, DaemonRests DEF DaemonStep, ScreenInv, ConsoleRests
<1>3. OnlyConsoleTunes => OthersTuneNothing' /\ TempoInOrder' /\ ShownTempo'
  BY <1>1, DaemonTunes DEF DaemonStep, ScreenInv, ConsoleRests, ShownTempo
<1> QED
  BY <1>1, <1>2, <1>3 DEF ScreenInv, OnlyConsoleTunes

(* The console's own steps.                                                *)
LEMMA PressedTunes ==
  ASSUME TypeInv, OthersTuneNothing, TempoInOrder, NEW r, Submit(Console, r)
  PROVE  /\ OthersTuneNothing' /\ TempoInOrder' /\ UNCHANGED bpm
         /\ main = "Serving" /\ UNCHANGED main
<1>1. /\ UNCHANGED <<queue, rate, bpm, main>> /\ main = "Serving" /\ Console \in Clients
      /\ AtRest(Console)
      /\ step' = [step EXCEPT ![Console] = "Dispatch"] /\ step \in [Clients -> Steps]
      /\ request' = [request EXCEPT ![Console] = r] /\ DOMAIN request = Clients
  BY ConsoleAssumption DEF Submit, thread, numbers, TypeInv, HandlerTypes
<1>2. /\ step'[Console] = "Dispatch" /\ step[Console] # "SendBpm"
      /\ \A d \in Clients \ {Console} : step'[d] = step[d] /\ request'[d] = request[d]
  BY <1>1 DEF AtRest
<1> QED
  BY <1>1, <1>2, LastTempoKept DEF OthersTuneNothing, TempoInOrder

LEMMA FetchedTunes ==
  ASSUME TypeInv, OthersTuneNothing, TempoInOrder, HandleStatus(Console)
  PROVE  /\ OthersTuneNothing' /\ TempoInOrder' /\ UNCHANGED <<bpm, main>>
         /\ step'[Console] = "Done"
<1>1. /\ UNCHANGED <<queue, bpm, main, rate>> /\ Console \in Clients
      /\ step[Console] = "Dispatch"
      /\ step' = [step EXCEPT ![Console] = "Done"] /\ step \in [Clients -> Steps]
      /\ request' = [request EXCEPT ![Console] = None] /\ DOMAIN request = Clients
  BY ConsoleAssumption
  DEF HandleStatus, GoTo, Asks, KeepLife, KeepNumbers, KeepThread, thread, numbers, TypeInv,
      HandlerTypes
<1>2. /\ step'[Console] = "Done"
      /\ \A d \in Clients \ {Console} : step'[d] = step[d] /\ request'[d] = request[d]
  BY <1>1
<1> QED
  BY <1>1, <1>2, LastTempoKept DEF OthersTuneNothing, TempoInOrder

LEMMA ConsoleScreen == TypeInv /\ ScreenInv /\ ConsoleStep => ScreenInv'
<1> SUFFICES ASSUME TypeInv, ScreenInv, ConsoleStep PROVE ScreenInv'
  OBVIOUS
<1> USE DEF ScreenInv, ConsoleRests, ShownTempo, OnlyConsoleTunes
<1>1. ASSUME KeepDaemon, OnlyConsoleTunes
      PROVE  OthersTuneNothing' /\ TempoInOrder'
  BY <1>1, TunesKept DEF KeepDaemon, vars, thread, numbers, handlers
<1>2. KeepDaemon => UNCHANGED <<main, bpm>> /\ (AtRest(Console)' <=> AtRest(Console))
  BY DEF KeepDaemon, vars, numbers, handlers, AtRest
<1>3. ASSUME NEW k \in Keys, Press(k)
      PROVE  ScreenInv'
  <2>1. CASE Connects
    <3>1. UNCHANGED <<main, disconnected>> /\ console' = "Acting"
      BY <1>3, <2>1 DEF Press, Submit, KeepScreen
    <3> QED
      BY <1>3, <2>1, <3>1, PressedTunes DEF Press
  <2>2. CASE ~Connects
    BY <1>1, <1>2, <1>3, <2>2 DEF Press, KeepScreen, Connects
  <2> QED
    BY <2>1, <2>2
<1>4. CASE Answered \/ CutOff \/ Poll
  BY <1>1, <1>2, <1>4 DEF Answered, CutOff, Poll, KeepScreen
<1>5. CASE Fetch
  <2>1. CASE Connects
    <3>1. UNCHANGED <<main, disconnected>> /\ console' = "Fetching"
      BY <1>5, <2>1 DEF Fetch, Submit
    <3> QED
      BY <1>5, <2>1, <3>1, PressedTunes DEF Fetch
  <2>2. CASE ~Connects
    BY <1>1, <1>2, <1>5, <2>2 DEF Fetch, Connects
  <2> QED
    BY <2>1, <2>2
<1>6. CASE Fetched
  <2>1. AtRest(Console)' /\ UNCHANGED <<bpm, main>>
    BY <1>6, ConsoleAssumption
    DEF Fetched, HandleStatus, GoTo, KeepLife, KeepNumbers, numbers, AtRest, TypeInv,
        HandlerTypes
  <2> QED
    BY <1>6, <2>1, FetchedTunes DEF Fetched
<1> QED
  BY <1>3, <1>4, <1>5, <1>6 DEF ConsoleStep

LEMMA StepScreen == TypeInv /\ ScreenInv /\ [ConsoleNext]_allVars => ScreenInv'
<1>1. CASE UNCHANGED allVars
  BY <1>1, LastTempoKept, TunesKept
  DEF allVars, vars, consoleVars, thread, numbers, handlers, ScreenInv, ConsoleRests,
      ShownTempo, OnlyConsoleTunes, AtRest
<1> QED
  BY <1>1, ConsoleScreen, DaemonScreen DEF ConsoleNext

-----------------------------------------------------------------------------
(* The devices on the port see what ClockTransport promises.               *)

Seen == <<transport, pulseCount, located>>

LEMMA ThreadImplements ==
  ASSUME TypeInv, PhaseInv, ClockThread \/ Tick
  PROVE  Port!TransportNext \/ UNCHANGED Seen
<1> USE DEF thread, numbers, portVars, KeepPort, KeepNumbers, Seen
<1>0. transport = StateOfTransport[current] /\ current \in ClockState
  BY DEF PhaseInv, TypeInv, ThreadTypes
<1>1. CASE DoStart
  BY <1>1 DEF DoStart, Port!TransportNext, Port!StartFromTop
<1>2. CASE DoStop
  <2>1. current \in {"Running", "Paused"}
    BY <1>2 DEF DoStop, Listening
  <2>2. transport \in {"rolling", "paused"}
    BY <1>0, <2>1 DEF StateOfTransport
  <2> QED
    BY <1>2, <2>2 DEF DoStop, Port!TransportNext, Port!StopForGood
<1>3. CASE Pause
  <2>1. transport = "rolling"
    BY <1>0, <1>3 DEF Pause, Listening, StateOfTransport
  <2> QED
    BY <1>3, <2>1 DEF Pause, Port!TransportNext, Port!PauseThere
<1>4. CASE Resume
  <2>1. transport = "paused"
    BY <1>0, <1>4 DEF Resume, StateOfTransport
  <2> QED
    BY <1>4, <2>1 DEF Resume, Port!TransportNext, Port!ContinueThere
<1>5. CASE DoSeek
  <2>1. transport = "stopped" /\ UNCHANGED <<transport, pulseCount>>
    BY <1>0, <1>5 DEF DoSeek, StateOfTransport
  <2>2. located' \in Positions
    BY <1>5, Taken DEF DoSeek, TypeInv, PortTypes
  <2> QED
    BY <2>1, <2>2 DEF Port!TransportNext, Port!Locate
<1>6. CASE Pulse
  <2>1. transport = "rolling"
    BY <1>0, <1>6 DEF Pulse, StateOfTransport
  <2> QED
    BY <1>6, <2>1 DEF Pulse, Port!TransportNext, Port!TimingClock
<1>7. CASE Publish \/ SetBpm \/ Ignore \/ PollNothing \/ Tick
  BY <1>7 DEF Publish, SetBpm, Ignore, PollNothing, Tick
<1> QED
  BY <1>1, <1>2, <1>3, <1>4, <1>5, <1>6, <1>7 DEF ClockThread

LEMMA OthersUnseen == Others \/ UNCHANGED vars => UNCHANGED Seen
<1>1. Others => UNCHANGED pulseCount
  BY DEF Others, Submit, HandlerStep, HandleTransport, HandleChecked, SendPauseOrResume,
         StorePosition, SendSeek, StoreBpm, SendBpm, HandleStatus, Signal, Terminate, MainStep,
         LeaveSelect, StopAndWait, SendStop, Drain, Return, Stays, KeepNumbers, numbers
<1> QED
  BY <1>1, OthersKeep DEF Seen, vars, numbers, portVars

LEMMA StepImplements ==
  TypeInv /\ PhaseInv /\ [ServedNext]_vars => [Port!TransportNext]_(Port!transportVars)
<1> SUFFICES ASSUME TypeInv, PhaseInv, [ServedNext]_vars
             PROVE  Port!TransportNext \/ UNCHANGED Seen
  BY DEF Seen, Port!transportVars
<1> QED
  BY ServedCases, ThreadImplements, OthersUnseen

-----------------------------------------------------------------------------
(* What holds of the daemon, whoever its clients are.                      *)

DaemonInv == TypeInv /\ PhaseInv /\ CalmInv

LEMMA DaemonInvariant == Init /\ [][ServedNext]_vars => []DaemonInv
<1>1. Init => DaemonInv
  BY InitTyped, InitPhase, InitCalm DEF DaemonInv
<1>2. DaemonInv /\ [ServedNext]_vars => DaemonInv'
  BY StepTyped, StepPhase, StepCalm DEF DaemonInv
<1> QED
  BY <1>1, <1>2, PTL

LEMMA ConsoleRunsDaemon == ConsoleSpec => Init /\ [][ServedNext]_vars
<1>1. ConsoleInit => Init
  BY DEF ConsoleInit
<1> QED
  BY <1>1, ConsoleServed, PTL DEF ConsoleSpec

LEMMA ConsoleInvariant == ConsoleSpec => [](ConsoleTypes /\ ScreenInv)
<1>1. ConsoleInit => ConsoleTypes /\ ScreenInv
  BY InitScreen DEF ConsoleInit, ConsoleTypes
<1>2. /\ DaemonInv /\ ConsoleTypes /\ ScreenInv /\ [ConsoleNext]_allVars
      => (ConsoleTypes /\ ScreenInv)'
  BY ConsoleTyped, StepScreen DEF DaemonInv
<1> QED
  BY <1>1, <1>2, ConsoleRunsDaemon, DaemonInvariant, PTL DEF ConsoleSpec

LEMMA StatusTrue == DaemonInv => StatusTruthful
<1> SUFFICES ASSUME DaemonInv, Quiet, ~careless
             PROVE  bpm = rate /\ (SppEnabled => position = located)
  BY DEF StatusTruthful
<1>1. Names = {} /\ \A c \in Clients : step[c] \notin {"Send", "SendSeek", "SendBpm"}
  BY NoNames DEF Quiet, Drained, AtRest
<1> QED
  BY <1>1 DEF DaemonInv, CalmInv, TempoOnItsWay, PositionOnItsWay

(* Every variable of the daemon and of its console keeps its type: a tempo *)
(* or position out of range never reaches the thread.                      *)
THEOREM ConsoleTypeCorrect == ConsoleSpec => []ConsoleTypeOK
<1>1. TypeInv /\ ConsoleTypes => ConsoleTypeOK
  BY TypeInvOK DEF ConsoleTypeOK, ConsoleTypes
<1>2. DaemonInv => TypeInv
  BY DEF DaemonInv
<1> QED
  BY <1>1, <1>2, ConsoleRunsDaemon, DaemonInvariant, ConsoleInvariant, PTL

(* Two pulses with no start, pause or stop between them are apart by the   *)
(* interval of some tempo, however often the tempo has changed since:      *)
(* update_bpm rebases the anchor.                                          *)
THEOREM PulsesEven == ConsoleSpec => []EvenPulses
<1>1. DaemonInv => EvenPulses
  BY DEF DaemonInv, PhaseInv
<1> QED
  BY <1>1, ConsoleRunsDaemon, DaemonInvariant, PTL

(* A daemon told to exit by one client at a time, or by a signal while it  *)
(* has nothing to do, has stopped the devices when it is gone.             *)
THEOREM ExitsClean == ConsoleSpec => []CleanExit
<1>1. DaemonInv => CleanExit
  BY DEF DaemonInv, PhaseInv, CalmInv, OneAtATime, CleanExit, StateOfTransport
<1> QED
  BY <1>1, ConsoleRunsDaemon, DaemonInvariant, PTL

(* The status reports the tempo and position in force, between requests    *)
(* made one at a time; and the console draws the tempo in force wherever   *)
(* only its keys change it, whatever else is sent meanwhile, and says      *)
(* "disconnected" only of a daemon that does not serve.  This is about     *)
(* tempo and connection: the clock state it also draws is not covered.     *)
THEOREM ScreenTrue == ConsoleSpec => []ScreenTruthful
<1>1. DaemonInv /\ ScreenInv => ScreenTruthful
  <2> SUFFICES ASSUME ScreenInv
               PROVE  /\ (OnlyConsoleTunes /\ console = "Idle" /\ main = "Serving" /\ Drained
                            /\ Screen.bpm # None) => Screen.bpm = rate
                      /\ Screen.footer = "disconnected" => main # "Serving"
    BY StatusTrue DEF ScreenTruthful
  <2>1. Screen.bpm = shownBpm /\ (Screen.footer = "disconnected" => disconnected)
    BY DEF Screen
  <2>2. ASSUME OnlyConsoleTunes, console = "Idle", main = "Serving", Drained, shownBpm # None
        PROVE  shownBpm = rate
    <3>1. step[Console] # "SendBpm" /\ shownBpm = bpm
      BY <2>2 DEF ScreenInv, ConsoleRests, ShownTempo, AtRest
    <3>2. LastTempo /\ "SetBpm" \notin Names
      BY <2>2, <3>1, NoNames DEF ScreenInv, TempoInOrder, Drained
    <3> QED
      BY <3>1, <3>2 DEF LastTempo
  <2> QED
    BY <2>1, <2>2 DEF ScreenInv
<1> QED
  BY <1>1, ConsoleRunsDaemon, DaemonInvariant, ConsoleInvariant, PTL

(* The messages on the port are those of a MIDI clock master: pulses only  *)
(* while the devices roll, a Continue only after a pause, a locate only    *)
(* while stopped, whatever the clients ask in whatever order.              *)
THEOREM ClockImplementsTransport == ConsoleSpec => ImplementsClockTransport
<1>1. Init => Port!TransportInit
  BY DEF Init, Port!TransportInit
<1>2. DaemonInv /\ [ServedNext]_vars => [Port!TransportNext]_(Port!transportVars)
  BY StepImplements DEF DaemonInv
<1> QED
  BY <1>1, <1>2, ConsoleRunsDaemon, DaemonInvariant, PTL
  DEF ImplementsClockTransport, Port!TransportSpec

(* The same of the daemon without a console beside it.                     *)
THEOREM DaemonAlone ==
  Spec => [](TypeOK /\ EvenPulses /\ CleanExit /\ StatusTruthful) /\ ImplementsClockTransport
<1>1. Init /\ [][Next]_vars => Init /\ [][ServedNext]_vars
  BY NextServed, PTL
<1>2. DaemonInv => TypeOK /\ EvenPulses /\ CleanExit /\ StatusTruthful
  BY TypeInvOK, StatusTrue
  DEF DaemonInv, PhaseInv, CalmInv, OneAtATime, CleanExit, StateOfTransport
<1>3. Init => Port!TransportInit
  BY DEF Init, Port!TransportInit
<1>4. DaemonInv /\ [ServedNext]_vars => [Port!TransportNext]_(Port!transportVars)
  BY StepImplements DEF DaemonInv
<1> QED
  BY <1>1, <1>2, <1>3, <1>4, DaemonInvariant, PTL
  DEF Spec, ImplementsClockTransport, Port!TransportSpec

=============================================================================
