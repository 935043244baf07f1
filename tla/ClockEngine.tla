----------------------------- MODULE ClockEngine -----------------------------
(***************************************************************************)
(* propeller-clock, the MIDI clock master: the clock thread of engine.rs   *)
(* with the deadlines of scheduler.rs, the connection handlers of ipc.rs,  *)
(* and the shutdown of daemon.rs.                                          *)
(*                                                                         *)
(* Atomicity.  The thread's own data and the counters only status reads    *)
(* change with the message it sends; the published state follows in a step *)
(* of its own (set_state), and handlers read it between any two steps.     *)
(***************************************************************************)
EXTENDS Integers, Sequences

CONSTANTS
  None,
  Clients,       \* the connections open at a time; each may be reused
  Requests,      \* Requests[c]: the requests client c sends
  Interval,      \* Interval[b]: the time between two pulses at tempo b
  InitialBpm,
  StartLatency,  \* from 0xFA to the first pulse
  SppEnabled,    \* PROPELLER_CLOCK_SPP
  Positions,     \* the positions a seek may name
  TickModulus,   \* pulse_count is a u64: counted modulo this
  PhaseBound,    \* bound: pulses since the anchor, see Pulse
  QueueBound     \* bound on the length of the (unbounded) channel

Bpms == DOMAIN Interval

ASSUME ClockAssumption ==
  /\ \A b \in Bpms : Interval[b] \in Nat \ {0}
  /\ InitialBpm \in Bpms /\ SppEnabled \in BOOLEAN
  /\ {StartLatency, TickModulus, PhaseBound, QueueBound} \subseteq Nat \ {0}
  /\ Positions \subseteq Nat /\ 0 \in Positions

VARIABLES
  current,       \* the thread's state
  published,     \* ClockEngine.state
  queue,         \* ClockCommands in the channel
  polling,       \* a pulse has been sent, the channel not yet looked at
  phasePulse,    \* pulses since the anchor
  age,           \* now minus anchor while running, else not kept
  rate,          \* the scheduler's tempo
  pulseCount, position, bpm,   \* ClockEngine's published numbers
  transport,     \* what the devices on the port do
  located,       \* where the last Song Position Pointer has put them
  sinceOut,      \* history: time since the last pulse, start or resume
  gap,           \* history: the last interval between two pulses
  request, step, \* per connection: what it asked for, where its handler is;
                 \*   "Done" once it has answered, accepting or refusing
  signalled, main,  \* as in the propeller daemon
  careless       \* history: a request other than status came before the last
                 \*   had been carried out

(* gap before two pulses have been sent since a start or resume.           *)
NoPulse == -2
OnePulse == -1

portVars == <<transport, located, sinceOut, gap>>
thread == <<current, polling, phasePulse, age, rate>>
numbers == <<pulseCount, position, bpm>>
handlers == <<request, step, signalled, main, careless>>
vars == <<thread, published, queue, numbers, portVars, handlers>>

ClockState == {"Stopped", "Running", "Paused"}
Command(n, a) == [name |-> n, arg |-> a]
CommandNames == {"Start", "Pause", "Resume", "Stop", "SetBpm", "Seek"}

-----------------------------------------------------------------------------
(* The clock thread, run_clock_loop.                                       *)

Deadline == phasePulse * Interval[rate]
Due == age >= Deadline

Publishing == published # current
Receiving == queue # <<>> /\ ~Publishing /\ main # "Exited"
Takes(names) == Receiving /\ Head(queue).name \in names /\ queue' = Tail(queue)

KeepNumbers == UNCHANGED numbers
KeepPort == UNCHANGED portVars

(* In Running a command is taken while the thread sleeps before a pulse,   *)
(* or right after one.                                                     *)
Listening == current = "Running" /\ (polling \/ ~Due)

(* set_state: the thread's own copy first.                                 *)
Publish ==
  /\ Publishing /\ main # "Exited"
  /\ published' = current
  /\ UNCHANGED <<thread, queue, numbers, handlers>> /\ KeepPort

(* do_start, in every state.                                               *)
DoStart ==
  /\ Takes({"Start"})
  /\ current = "Running" => Listening
  /\ current' = "Running"
  /\ phasePulse' = 0 /\ age' = -StartLatency
  /\ pulseCount' = 0 /\ position' = 0
  /\ transport' = "rolling" /\ located' = 0
  /\ sinceOut' = 0 /\ gap' = NoPulse
  /\ polling' = FALSE
  /\ UNCHANGED <<published, rate, bpm, handlers>>

DoStop ==
  /\ Takes({"Stop"})
  /\ current = "Paused" \/ Listening
  /\ current' = "Stopped"
  /\ phasePulse' = 0
  /\ pulseCount' = 0 /\ position' = 0
  /\ transport' = "stopped" /\ located' = 0
  /\ age' = 0 /\ sinceOut' = 0 /\ gap' = NoPulse
  /\ polling' = FALSE
  /\ UNCHANGED <<published, rate, bpm, handlers>>

Pause ==
  /\ Takes({"Pause"}) /\ Listening
  /\ current' = "Paused"
  /\ transport' = "paused"
  /\ age' = 0 /\ sinceOut' = 0 /\ gap' = NoPulse
  /\ polling' = FALSE
  /\ UNCHANGED <<published, phasePulse, rate, numbers, located, handlers>>

(* The next pulse is due at once, whatever the tempo has become meanwhile. *)
Resume ==
  /\ Takes({"Resume"}) /\ current = "Paused"
  /\ current' = "Running"
  /\ age' = phasePulse * Interval[rate]
  /\ transport' = "rolling"
  /\ sinceOut' = 0 /\ gap' = NoPulse
  /\ UNCHANGED <<published, polling, phasePulse, rate, numbers, located, handlers>>

(* Mutant: the rate changes, the anchor does not.                          *)
SetBpmWithoutRebase ==
  /\ Takes({"SetBpm"})
  /\ current = "Running" => Listening
  /\ rate' = Head(queue).arg
  /\ polling' = FALSE
  /\ UNCHANGED <<current, published, phasePulse, age, numbers, handlers>> /\ KeepPort

(* update_bpm; while running the anchor moves to the next deadline first.  *)
SetBpm ==
  /\ Takes({"SetBpm"})
  /\ current = "Running" => Listening
  /\ IF current = "Running"
       THEN age' = age - Deadline /\ phasePulse' = 0
       ELSE UNCHANGED <<age, phasePulse>>
  /\ rate' = Head(queue).arg
  /\ polling' = FALSE
  /\ UNCHANGED <<current, published, numbers, handlers>> /\ KeepPort

(* Mutant: a seek that comes late is passed on.                            *)
DoSeekAlways ==
  /\ Takes({"Seek"})
  /\ current = "Running" => Listening
  /\ located' = IF SppEnabled THEN Head(queue).arg ELSE located
  /\ polling' = FALSE
  /\ UNCHANGED <<current, published, phasePulse, age, rate, numbers, transport,
                 sinceOut, gap, handlers>>

DoSeek ==
  /\ Takes({"Seek"}) /\ current = "Stopped"
  /\ located' = IF SppEnabled THEN Head(queue).arg ELSE located
  /\ UNCHANGED <<thread, published, numbers, transport, sinceOut, gap, handlers>>

(* What the state has no use for.                                          *)
Ignore ==
  /\ \/ current = "Stopped" /\ Takes({"Pause", "Resume", "Stop"})
     \/ Listening /\ Takes({"Resume", "Seek"})
     \/ current = "Paused" /\ Takes({"Pause", "Seek"})
  /\ polling' = FALSE
  /\ UNCHANGED <<current, published, phasePulse, age, rate, numbers, handlers>> /\ KeepPort

(* Beyond PhaseBound the model moves the anchor along instead.             *)
Pulse ==
  /\ current = "Running" /\ ~Publishing /\ ~polling /\ Due /\ main # "Exited"
  /\ IF phasePulse < PhaseBound
       THEN phasePulse' = phasePulse + 1 /\ UNCHANGED age
       ELSE UNCHANGED phasePulse /\ age' = age - Interval[rate]
  /\ pulseCount' = (pulseCount + 1) % TickModulus
  /\ gap' = IF gap = NoPulse THEN OnePulse ELSE sinceOut
  /\ sinceOut' = 0
  /\ polling' = TRUE
  /\ UNCHANGED <<current, published, queue, rate, position, bpm, transport, located, handlers>>

PollNothing ==
  /\ polling /\ queue = <<>>
  /\ polling' = FALSE
  /\ UNCHANGED <<current, published, queue, phasePulse, age, rate, numbers, handlers>>
  /\ KeepPort

ClockThread ==
  \/ Publish \/ DoStart \/ DoStop \/ Pause \/ Resume \/ SetBpm \/ DoSeek \/ Ignore
  \/ Pulse \/ PollNothing

(* The thread is prompt: a pulse that is due is sent.                      *)
Tick ==
  /\ current = "Running" /\ ~Publishing /\ ~polling /\ ~Due /\ main # "Exited"
  /\ age' = age + 1
  /\ sinceOut' = sinceOut + 1
  /\ UNCHANGED <<current, published, queue, polling, phasePulse, rate, numbers, transport,
                 located, gap, handlers>>

-----------------------------------------------------------------------------
(* The connection handlers.                                                *)

AtRest(c) == step[c] = "Done"
Drained == queue = <<>> /\ ~Publishing /\ ~polling
Quiet == Drained /\ ~signalled /\ \A c \in Clients : AtRest(c)

KeepThread == UNCHANGED <<thread, published>> /\ KeepPort
KeepLife == UNCHANGED <<signalled, main, careless>>

Submit(c, r) ==
  /\ main = "Serving" /\ AtRest(c)
  /\ request' = [request EXCEPT ![c] = r]
  /\ step' = [step EXCEPT ![c] = "Dispatch"]
  /\ careless' = (careless \/ (r.name # "status" /\ ~Quiet))
  /\ UNCHANGED <<thread, published, queue, numbers, signalled, main>> /\ KeepPort

Asks(c, names) ==
  main # "Exited" /\ step[c] = "Dispatch" /\ request[c].name \in names

GoTo(c, s) ==
  /\ step' = [step EXCEPT ![c] = s]
  /\ request' = IF s = "Done" THEN [request EXCEPT ![c] = None] ELSE request
  /\ KeepLife

Send(command) ==
  /\ Len(queue) < QueueBound
  /\ queue' = Append(queue, command)

(* start, halt and stop ask nothing; a stop goes on to the shutdown.       *)
HandleTransport(c) ==
  /\ Asks(c, {"start", "halt", "stop"})
  /\ Send(Command(IF request[c].name = "start" THEN "Start" ELSE "Stop", None))
  /\ GoTo(c, IF request[c].name = "stop" THEN "Signal" ELSE "Done")
  /\ KeepNumbers /\ KeepThread

(* pause, resume and seek look at the published state first, seek at its   *)
(* position before that.                                                   *)
HandleChecked(c) ==
  /\ Asks(c, {"pause", "resume", "seek"})
  /\ LET required == CASE request[c].name = "pause" -> "Running"
                       [] request[c].name = "resume" -> "Paused"
                       [] request[c].name = "seek" -> "Stopped"
         outOfRange == request[c].name = "seek" /\ request[c].arg \notin Positions
     IN  GoTo(c, IF published = required /\ ~outOfRange THEN "Send" ELSE "Done")
  /\ UNCHANGED queue /\ KeepNumbers /\ KeepThread

SendPauseOrResume(c) ==
  /\ step[c] = "Send" /\ main # "Exited" /\ request[c].name \in {"pause", "resume"}
  /\ Send(Command(IF request[c].name = "pause" THEN "Pause" ELSE "Resume", None))
  /\ GoTo(c, "Done")
  /\ KeepNumbers /\ KeepThread

(* seek and set_bpm publish the value, then send it.                       *)
StorePosition(c) ==
  /\ step[c] = "Send" /\ main # "Exited" /\ request[c].name = "seek"
  /\ position' = request[c].arg
  /\ GoTo(c, "SendSeek")
  /\ UNCHANGED <<queue, pulseCount, bpm>> /\ KeepThread

SendSeek(c) ==
  /\ step[c] = "SendSeek" /\ main # "Exited"
  /\ Send(Command("Seek", request[c].arg))
  /\ GoTo(c, "Done")
  /\ KeepNumbers /\ KeepThread

(* Mutant: a tempo out of range is stored before it is refused.            *)
StoreBpmUnchecked(c) ==
  /\ Asks(c, {"bpm"})
  /\ bpm' = request[c].arg
  /\ GoTo(c, IF request[c].arg \in Bpms THEN "SendBpm" ELSE "Done")
  /\ UNCHANGED <<queue, pulseCount, position>> /\ KeepThread

StoreBpm(c) ==
  /\ Asks(c, {"bpm"})
  /\ IF request[c].arg \in Bpms
       THEN bpm' = request[c].arg /\ GoTo(c, "SendBpm")
       ELSE UNCHANGED bpm /\ GoTo(c, "Done")
  /\ UNCHANGED <<queue, pulseCount, position>> /\ KeepThread

SendBpm(c) ==
  /\ step[c] = "SendBpm" /\ main # "Exited"
  /\ Send(Command("SetBpm", request[c].arg))
  /\ GoTo(c, "Done")
  /\ KeepNumbers /\ KeepThread

HandleStatus(c) ==
  /\ Asks(c, {"status"})
  /\ GoTo(c, "Done")
  /\ UNCHANGED queue /\ KeepNumbers /\ KeepThread

Signal(c) ==
  /\ step[c] = "Signal" /\ main # "Exited"
  /\ signalled' = TRUE
  /\ step' = [step EXCEPT ![c] = "Done"]
  /\ request' = [request EXCEPT ![c] = None]
  /\ UNCHANGED <<queue, main, careless>> /\ KeepNumbers /\ KeepThread

HandlerStep(c) ==
  \/ HandleTransport(c) \/ HandleChecked(c) \/ SendPauseOrResume(c)
  \/ StorePosition(c) \/ SendSeek(c) \/ StoreBpm(c) \/ SendBpm(c)
  \/ HandleStatus(c) \/ Signal(c)

-----------------------------------------------------------------------------
(* daemon::run after select!, with stop_and_wait.                          *)

Stays ==
  KeepNumbers /\ KeepThread /\ UNCHANGED <<request, step, signalled>>

LeaveSelect ==
  /\ main = "Serving" /\ signalled
  /\ main' = "ReadState"
  /\ UNCHANGED <<queue, careless>> /\ Stays

Terminate ==
  /\ main = "Serving"
  /\ main' = "ReadState"
  /\ careless' = (careless \/ ~Quiet)
  /\ UNCHANGED queue /\ Stays

(* Mutant: a paused clock is not stopped.                                  *)
StopAndWaitRunning ==
  /\ main = "ReadState"
  /\ main' = IF published = "Running" THEN "SendStop" ELSE "Return"
  /\ UNCHANGED <<queue, careless>> /\ Stays

StopAndWait ==
  /\ main = "ReadState"
  /\ main' = IF published \in {"Running", "Paused"} THEN "SendStop" ELSE "Return"
  /\ UNCHANGED <<queue, careless>> /\ Stays

SendStop ==
  /\ main = "SendStop"
  /\ Send(Command("Stop", None))
  /\ main' = "Drain"
  /\ UNCHANGED careless /\ Stays

(* Within 100 ms, or else.                                                 *)
Drain ==
  /\ main = "Drain"
  /\ main' = "Return"
  /\ careless' = (careless \/ published # "Stopped")
  /\ UNCHANGED queue /\ Stays

(* The process ends, and with it its threads and connections.              *)
Return ==
  /\ main = "Return"
  /\ main' = "Exited"
  /\ queue' = <<>>
  /\ request' = [c \in Clients |-> None] /\ step' = [c \in Clients |-> "Done"]
  /\ UNCHANGED <<signalled, careless>> /\ KeepNumbers /\ KeepThread

MainStep == LeaveSelect \/ StopAndWait \/ SendStop \/ Drain \/ Return

Gone == main = "Exited" /\ UNCHANGED vars

-----------------------------------------------------------------------------
Init ==
  /\ current = "Stopped" /\ published = "Stopped" /\ queue = <<>>
  /\ polling = FALSE /\ phasePulse = 0 /\ age = 0
  /\ rate = InitialBpm /\ bpm = InitialBpm
  /\ pulseCount = 0 /\ position = 0
  /\ transport = "stopped" /\ located = 0 /\ sinceOut = 0 /\ gap = NoPulse
  /\ request = [c \in Clients |-> None] /\ step = [c \in Clients |-> "Done"]
  /\ signalled = FALSE /\ main = "Serving" /\ careless = FALSE

Next ==
  \/ ClockThread \/ Tick
  \/ \E c \in Clients : (\E r \in Requests[c] : Submit(c, r)) \/ HandlerStep(c)
  \/ Terminate \/ MainStep
  \/ Gone

Spec == Init /\ [][Next]_vars

-----------------------------------------------------------------------------
TypeOK ==
  /\ current \in ClockState /\ published \in ClockState
  /\ \A i \in DOMAIN queue : queue[i].name \in CommandNames
  /\ polling \in BOOLEAN /\ phasePulse \in 0 .. PhaseBound
  /\ age \in Int /\ rate \in Bpms /\ bpm \in Bpms
  /\ pulseCount \in 0 .. TickModulus - 1
  /\ position \in Positions /\ located \in Positions
  /\ transport \in {"stopped", "paused", "rolling"}
  /\ sinceOut \in Nat /\ gap \in Int
  /\ step \in [Clients -> {"Done", "Dispatch", "Send", "SendSeek", "SendBpm", "Signal"}]
  /\ signalled \in BOOLEAN /\ careless \in BOOLEAN
  /\ main \in {"Serving", "ReadState", "SendStop", "Drain", "Return", "Exited"}

(* The port sees what ClockTransport promises: pulses only while devices   *)
(* roll, a Continue only after a pause, a locate only while stopped, and   *)
(* the published tick counts the pulses since the last Start.              *)
Port == INSTANCE ClockTransport WITH ticks <- pulseCount
ImplementsClockTransport == Port!TransportSpec

(* "Rebase anchor to the current phase so only the rate changes, not the   *)
(* phase already elapsed": whatever tempo changes, pauses and restarts, no *)
(* two pulses are closer or farther apart than at some tempo.              *)
EvenPulses ==
  gap >= 0 => \E b \in Bpms : gap = Interval[b]

(* Status, between requests made one at a time, reports the tempo and the  *)
(* song position the clock runs at and the devices were told.              *)
StatusTruthful ==
  Quiet /\ ~careless => bpm = rate /\ (SppEnabled => position = located)

(* "Ensures a trailing MIDI Stop reaches the port before the daemon        *)
(* process exits", whichever way it is told to.                            *)
CleanExit ==
  main = "Exited" /\ ~careless => transport = "stopped"

=============================================================================
