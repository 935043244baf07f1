# A formal model of propeller-engine

propeller is a MIDI loop player that runs as a daemon. Clients upload a project
(a loop with notes and pitch bends) over a Unix socket; a player thread plays it
in a loop, on its own clock, as MIDI clock master, or following an external MIDI
clock. propeller-clock is a second daemon, a MIDI clock master alone. Both have
a command line and a terminal console.

This directory holds TLA+ modules translated from the Rust sources, TLC
configurations that check them on small instances, and theorems checked by
TLAPS. `PROJECT.json` maps every definition to the source lines it stands for
and lists the hazards of the code with the properties about them.

## 1. The system

| Part | Source (`src/crates/`) | State | Operations | Talks to |
| --- | --- | --- | --- | --- |
| Player thread | `propeller/src/loop_engine/player.rs` | state (Stopped, Waiting, Running, Paused), pause context, carry-over lists, clock mode, tempo, staged tempo and locate | one handler per state, event-list building, playing, loop boundary | receives commands; reads and commits the store; publishes state and position; drives the device |
| Event lists | `player.rs` (`build_loop_events`) | none | build, sort, overflow, re-base | the player |
| Scheduler | `loop_engine/scheduler.rs` | tempo | deadlines, tempo updates, anchor of a resume | the player |
| Loop engine handle | `loop_engine/mod.rs` | channel, published state and position | one send per command, `clock_stop_on_shutdown` | handlers, clock receiver |
| Project store | `propeller/src/domain/store.rs` | `active`, `pending` | set, commit, clear (one `RwLock`) | player and handlers |
| Validation | `domain/validation.rs`, `project.rs` | none | `validate` | the handlers |
| IPC handlers, server | `ipc/handler.rs`, `types.rs`, `server.rs` | settings (mode, bpm) | one per socket command | store, engine handle |
| Daemon | `daemon.rs` | socket, shutdown channel | bind, serve, stop the slaves, unlink | handlers, engine handle |
| MIDI clock receiver | `midi_clock/mod.rs`, `tracker.rs` | sync state, tempo, pulse history | pulse, start, continue, stop, position, loss | engine handle, MIDI output |
| MIDI bytes and ports | `midi_port.rs`, `loop_engine/midi.rs`, `propeller-clock/src/midi.rs` | the port | encode, send, classify | player, receiver, clock thread |
| Startup guard | `propeller-common/src/startup_guard.rs` | the socket file | check and clear | other daemons |
| propeller-clock | `propeller-clock/src/engine.rs`, `scheduler.rs`, `ipc.rs`, `daemon.rs` | clock state, pulse count, position, tempo | start, pause, resume, halt, bpm, seek, stop | its clients, its port |
| Command lines, consoles | `main.rs`, `client.rs`, `tui.rs` of both | what the console shows | start, stop, one request per subcommand or key; the console restarts its daemon to change settings | the daemons |
| Logging, socket paths | `logger.rs`, `socket_path.rs` | none | | |

Four kinds of threads share propeller's data: the player, one task per client
connection, the MIDI input callback, and the receiver thread behind it. They
share the store (one lock, taken anew for every read), the settings (another),
the channel to the player (unbounded), the output port (a mutex per message) and
the published state and position. Processes share the socket path and the file
it names.

What is hard here:

- **Interleaving.** The player looks at the store up to three times in one
  handler, a request handler takes a lock anew for every look at the settings,
  the store and the engine, and others write in between.
- **Commands in every place.** The same command is handled by five functions of
  the player (`handle_stopped`, `handle_waiting`, `handle_paused`,
  `handle_sleep_result`, `handle_mid_loop_command`), and once more when a list
  is built without data.
- **Nested builds.** `do_sync_continue` and `locate_song_position` build an
  event list from inside a command handler, and that build may itself receive a
  command.
- **What outlives a pass.** Sounding notes, bent wheels, carried NoteOffs, the
  pause context, the anchor and the elapsed position survive the project they
  came from.
- **Order at the boundary.** Commit, publish, re-time and re-base happen one
  after the other while clients keep writing.
- **Lost clocks.** A loss is declared by a timeout that any message may race,
  and told to the player and to the slaves in two further steps.
- **Shutdown.** The slaves are to be stopped by a thread that may be doing
  something else, within 100 ms.
- **Processes.** A socket file outlives a crash, connects before anybody serves,
  and is removed by name.

What makes each part correct:

- player: a note sounds only while Running, every sounding note has a NoteOff to
  come, a stop resets, a pause and a resume neither lose nor repeat an event,
  commands and queued projects take effect;
- event lists: carried NoteOffs fall into the pass that follows, the played list
  and the program changes belong to the same project;
- scheduler: a pass has its full length;
- store: a queued project is committed at a boundary;
- validation, bytes: only playable projects get in, the first fault is named,
  a listener on the port reads what was meant;
- handlers: an answer with an error has changed nothing, mode and clock output
  agree, a tempo change does not undo an edit;
- daemon: nobody is left rolling after the exit;
- receiver: the sync state, the player and the relayed clock stay in step, a
  lost clock pauses the loop, a clock on time is not lost;
- lifecycle: one daemon per socket, commands answer what is true, the console
  shows what runs;
- propeller-clock: even pulses, a port that behaves like a clock master's, a
  true status, a stop before the exit.

## 2. The modules

```
LoopEvents              the event lists of a pass             (pure operators)
  Player                the player thread with store, channel and device
    MCPlayer              instances
    PlayerSafety            types and the invariants          (proofs)
      PlayerRefinement        Transport and Engine            (proofs)
Transport               the documented transport; Player implements it
Engine                  the player as its clients see it; Player implements it
  Daemon                request handlers, settings, shutdown, on Engine
    MCDaemon              instances
    DaemonProofs            types, errors, exit, slaves       (proofs)
  ClockReceiver         sync mode: device, callback, tracker, receiver, on Engine
    ReceiverProofs          the invariants of sync mode       (proofs)
Timing                  anchors and deadlines
  TimingProofs            passes have their full length       (proofs)
  MCTiming                instance
ClockEngine             propeller-clock: thread, handlers, shutdown
  ClockConsole            with its console
    MCClockEngine           instance
    ClockProofs             pulses, exit, screen, transport   (proofs)
ClockTransport          a MIDI clock master; ClockEngine implements it
Lifecycle               processes, socket file, command line, console
  MCLifecycle             instance
  LifecycleProofs         one daemon, answers, screen         (proofs)
Validation, MidiBytes   projects and bytes                    (pure operators)
  Wire                    from a client's JSON to the output port
    MCWire                  instance
  WireProofs              faults, the store, the bytes        (proofs)
```

Player is too large to compose with many clients, or with a clock that keeps
time. So the composition is done in two steps: Player implements Engine
(`ImplementsEngine`, checked under local and under sync commands and proved), and Daemon
and ClockReceiver add the clients to Engine.

**LoopEvents.** A song is a loop length with sets of notes and bends; a project
is a song at a tempo. An event list is a set of events with a partial order
(tick, then priority): the code sorts with an unstable sort on this key, so the
order of events with the same key is left open. `SongAssumption` is what
`validate` lets into the store. `Rebase` subtracts modulo 2^64 as a release
build does; a debug build would panic where it wraps, and `CarryInRange` says
that it never does.

**Player.** One action is one access to shared state: one receive, one
acquisition of the store's lock, or one published position. `pc` says where the
thread is between two of them, `call` on whose behalf.

| Code | Actions |
| --- | --- |
| `handle_stopped` | `StoppedStart`, `StoppedClockStart`, `StoppedStage`, `StoppedIgnore` |
| `init_running_from_project` and what follows it | `InitRunning`, `InitPanic` |
| `handle_waiting` | `WaitPoll`, `WaitCommit`, `WaitCheck`, `WaitReceive` |
| `build_loop_events` | `Setup` (first lock), `CollectProject`, `CollectPulses`, `CollectNothing` (second lock), `IdleEmpty` |
| `handle_sleep_result`, `handle_mid_loop_command` | `MidLoop...`, one per kind of command |
| `handle_running`, `play_events` | `RunResume`, `RunBuild`, `Fire`, `AfterEventEmpty` |
| `advance_loop` | `AdvanceCommit`, `AdvancePublish`, `AdvanceRetime` |
| `handle_paused` | `Paused...` |
| `LoopEngine::*`, IPC handlers | `Send`, `CreateProject`, `ModifyProject`, `ClearStore` |

The device is three variables that no code keeps but a listener hears: the notes
that sound, the channels whose wheel is off centre, and whether the last of
0xFA/0xFB/0xFC told the slaves to roll. Time is abstracted: while the thread
waits, the deadline may pass (`Fire`) or a command may arrive. This includes
every schedule the code can produce, and more. Tempi are kept in tenths of a
BPM, because `bpm()` rounds. `None` is `Option::None`.

Left out: errors of MIDI sends (logged and ignored by the code), velocities,
instruments (only which song's program changes were sent last), the
disconnection of the channel (the handle lives as long as the process), and the
20 ms start latency (Timing has it).

**Transport.** The documented state machine (`docs/internals.md`, "Player State
Machine") and the documented behaviour of `tick` and `loop_count`, without
threads, channels, stores or lists. It has one licence beyond the documents: a
MIDI Start that arrives while a paused player is building a list for a locate
rewinds and leaves it paused, because the code drops the outcome there.

**Engine.** The player's state machine without lists, positions and tempo:
`phase` says what the thread is in the middle of ("Starting" between the look at
the store and its use, "Locating" and "Blind" in a nested rebuild, "Dead" after
the panic). Songs are opaque.

**Timing.** The anchor from which `Scheduler` computes every deadline, with time
as a number and a pass as the set of ticks at which it has events. Every place
that moves the anchor is an action: `Start`, `Restart`, `Advance`, `Resume`;
so is every place that changes the rate. The thread may be late by any amount.

**Daemon.** One action per lock, send or write of a request handler; `step[c]`
says where connection `c` is in between.

| Code | Actions |
| --- | --- |
| a client connects, the line is read | `Submit` |
| `dispatch` | `HandleLoopStart`, `HandleLoopStop`, `RequireProject`, `SendCommand`, `Query`, `HandleGetPosition` |
| `handle_create_project`, `handle_project`, `handle_clear_project` | `HandleCreateProject`, `HandleModifyProject`, `HandleClearProject` then a send |
| `handle_set_bpm` | `HandleSetBpm`, `SetBpmCopy`, `SetBpmQueue` |
| `handle_set_mode` | `HandleSetMode`, `SetModeCheck`, `SetModeLeave`, `SetModeWrite` |
| `connection_handler`, stop | `HandleStop` (the answer), `SignalShutdown` |
| `daemon::run` after `select!`, `clock_stop_on_shutdown` | `LeaveSelect` or `Terminate`, `ShutdownRead`, `ShutdownSend`, `ShutdownDrained` or `ShutdownTimeout`, `Unlink` |

`settings.bpm` is stored and reported and read by nothing else: left out.
`wrote` and `manner` are history: whether the request in hand has changed
something, and whether requests have overlapped so far.

**ClockReceiver.** The device that sends the clock (external: it pulses every
`Long` units, or `Short` after a pulse that was handled late; it starts,
continues, stops and locates at any moment, with or without pulses, and falls
silent), the callback, which relays a message if `ForwardingEnabled` (`Relay`)
and then queues it (`Deliver`; `relaying` is the message between the two), the
PulseTracker, and `run_receiver` with the steps between a state change, the send
to the player and the relayed stop. Two variables are history. `raced`: a
message was in the callback while a loss was being told. `unclocked`: a Continue
was accepted after the loss, with no pulse, Start or Stop received since. The tracker is kept as `history`, the ages of the pulses it has in
its window, oldest first: time since the last pulse is the last age, an interval
is the difference of two, the average the first less the last over their number.
An interval longer than `GapCap` counts as `GapCap`, which bounds the ages.

**ClockEngine, ClockTransport, ClockConsole.** The clock thread with its
deadlines as integers: `age` is now minus the anchor. `Publish` is separate from
what the thread does, as `set_state` comes after the message; handlers see the
published state only. `ClockTransport` says what a MIDI 1.0 clock master may
send and what the published tick counts. ClockConsole adds the event loop of the
console: a key, its request, the answer, the status, the poll.

**Lifecycle.** The path names a socket file or nothing; a process is opening its
ports, bound, serving, closing or gone; shells run start, stop, status and kill,
and propeller-clock's start and console ("ensure"), each one probe, connect or
removal at a time; the console's keys restart the daemon with other settings.
A refresh of the console is two steps, `Refresh` (the connection, refused or
made to the process `asked`) and `RefreshRead` (its answer, or none); `Reported`
is what the answer does to the screen. `ours` is history: the daemons that the
console has spawned.
Both programs share these steps: propeller's `cmd_start` and propeller-clock's
`ensure_daemon_running` differ in what they do when a daemon is there.

**Validation, MidiBytes, Wire.** serde's ranges, the conversion of tracks,
`validate` as the chain of its checks, each of which returns its fault early
(`FirstFault`); the encoders and `classify_clock_message`. Wire moves whole projects from a client through the
store to the port and back to a client, one request a step.

## 3. What TLC checks

| Run | Module | Shows |
| --- | --- | --- |
| `player_local` | MCPlayer | Under standalone and clock commands, with create, modify and clear at any moment: types, silence outside Running, position zero when stopped, clock mode only in a rolling session, every sounding note has a NoteOff to come, a pause and resume lose and repeat no event, and the player does what Engine says. |
| `player_sync` | MCPlayer | Under an external clock with locates and tempo updates, and modify-project: the player implements `Transport` and Engine; bends are centred; nothing to come lies behind the position; notes follow the program changes of their own song; carried NoteOffs stay in range. |
| `player_live` | MCPlayer | With fairness: stop stops, start starts, queued projects are committed, passes end. |
| `daemon` | MCDaemon | Two clients whose requests overlap in any way, and a shutdown at any moment: an error has changed nothing. Where requests do not overlap: slaves roll in clock mode alone and are stopped before the exit. |
| `sync` | ClockReceiver | A clock that starts, stops, jitters, locates and goes silent at any time: a lost clock pauses the loop, a clock on time is not lost, a tempo is published only while tracking and owes nothing to what came before the last Start, slaves roll while the loop plays. With fairness: a device that is gone for good is noticed in the end and the loop rests, in whatever state the clock was. Both the pause and the notice except a Continue that came after the loss with nothing behind it. |
| `clock` | MCClockEngine | propeller-clock under its console and a second client: pulses are as far apart as a tempo says, the port sees a clock master, status reports the tempo and position in force, the console draws the tempo in force where only its keys change it, devices are stopped before the exit. |
| `console` | MCLifecycle | Starts, stops, signals, crashes and an unplugged device, while a console restarts the daemon: one daemon serves; what start, ensure, stop and status say is so; after a refresh that was answered the console draws the daemon that is there, its mode, its output port (except that of a daemon on the virtual port that a command line has started) and, in sync mode, its sync port. |
| `wire` | MCWire | Every project of the instance: what gets into the store is playable and survives a round trip, the first fault is reported, a listener reads what was meant. |

Four runs are expected to fail, each showing a disagreement between the code and
its documents (`findings` in `PROJECT.json` quotes them):

| Run | Shows |
| --- | --- |
| `stop_ignored` | A project without events is valid. In standalone mode its pass never reads the channel, so `loop-stop` is answered and ignored, for ever (under fairness). |
| `clear_panics` | `clear-project` between the check for a project and its use panics the player thread. |
| `edit_lost` | `set-bpm` queues a copy of the active project and with it overwrites the edit that `modify-project` has queued. |
| `cut_short` | `advance_loop` runs after the last event of a pass, not at its end; if the next project has another tempo, the rest of the bar is cut off. |

### Instances and bounds

*Player.* Songs: `pad` (two ticks, a note that rings into the next pass, a bend
that leaves the wheel off centre), `stab` (one tick, a note that ends exactly
with the loop, a bend to another value on the same channel), `riff` (one tick,
another channel, no bend), `rest` (no events). One model tick stands for twenty
of the code, so a pulse falls on every tick. `QueueBound` is 1 or 2: every
receive takes one command and a client may send again between any two steps, so
a longer queue adds delays and no new order of commands to the safety runs; the
liveness run uses 2 so that a command can wait behind another. `LoopCountCap` 1
tells "none" from "some" completed passes. Two songs are enough for a list and a
carry-over list of different songs to meet; two ticks are enough for a list to
be cut in the middle. `TickModulus` is 64 instead of 2^64, larger than any tick
of the instance, so that a wrap would be seen. `player_sync` leaves
`create-project` and `clear-project` out, which reach the program-change race,
stale carry-over lists and stale pause contexts listed in section 4;
`NoStuckNote` is asked where no Continue comes from outside.

*Daemon.* Two connections, each reused without end, `QueueBound` 1: two handlers
are enough for every pair of steps to interleave, and a handler that finds the
channel full waits, which an unbounded channel turns into a slow player. One
project that is valid and one that `validate` refuses; `edit_lost` has two.

*ClockReceiver.* A pulse every 3 units, a late one leaves 1 to the next, a
window of 2 intervals for 24 and a first timeout of 4 for one second: the window
fills and slides, and its average can be pulled down by a short gap, or up by a
silence, which counts as an interval of `GapCap` (4). `InboxBound` 1 and
`QueueBound` 1 make the callback wait where the code would queue: still one
message may be in the callback or the inbox while another is with the receiver
and a command is in the channel, and section 5 proves the invariants for every bound
and window. `ForwardingEnabled` is TRUE: without forwarding the receiver only
does less. `ShortFirst` is FALSE, see section 4.

*ClockEngine.* Tempi 20 and 21 with intervals 3 and 2, so that neither interval
is a multiple of the other; `PhaseBound` 2: beyond two pulses the model moves
the anchor along with `phase_pulse`, which changes no deadline; pulses counted
modulo 2. The console counts from 20 to 21 and is clamped there; the other
client asks for 301 and for position 16384, which are refused, and seeks.

*Lifecycle.* Two processes, which no action tells apart (hence SYMMETRY), one
shell beside the console. A daemon that is gone frees its identity. A wait of
ten seconds times out only if nothing it waits for is under way.

*Wire.* `U32` is 32768 instead of 2^32, so that twice a loop length may not fit
it, where the code compares in u64; `U8` is 256. Headers and tracks at and beyond every limit, alone and
with a second fault behind the first.

*Timing.* One song at two tempi, three ticks with events at the first two, so
that the end of the pass is silent; eight units of time and two passes.
`cut_short` may stop: time is bounded.

Deadlock is checked in every other run: a client, or time, can always go on, and
a daemon that has exited stutters (`Gone`).

### Fairness

*Player.* `WF(PlayerStep)`: the thread is a plain OS thread, its sleeps are
bounded, and a receive on a channel with a command in it returns. `WF(Fire)`:
each deadline is a fixed instant (a tempo change recomputes it from the same
anchor), so however many commands interrupt the wait, time reaches it. Clients
are not fair: they may stop sending.

*ClockReceiver.* `WF(Deliver)`: a callback that has begun ends, its send does
not block. `WF(ReceiverStep)`, `WF(PlayerThread)`: two OS threads, and
every receive in them returns; the player's does while it plays because the
project has events (run `stop_ignored` is about one that has none). `WF(Tick)`:
time passes. The device is not fair. `SilenceNoticed` is asked of a device that
is gone and sends nothing more, not even a locate: each message restarts the
timeout. It is not asked to have pulsed before it went, or to pulse after a
Start or Continue.

The other runs ask for safety only. The bounded waits of the code (100 ms, ten
seconds) are actions that may happen instead of what they wait for.

### Preconditions in the properties

Several properties are asked of what the history variables call undisturbed use.
What happens otherwise is real and is in section 4.

- `CleanExit` (Daemon): `manner # "careless"`, that is, no request came before
  the last was carried out, SIGTERM found the daemon at rest, the player
  answered within 100 ms and no clock-resume hit a loop that was not started in
  clock mode. `ClockOnlyInClockMode` also excludes an explicit clock-start in
  another mode, which is documented to work.
- `SlavesFollowLoop`: `~raced`.
- `SilencePausesLoop`, `SilenceNoticed`: `unclocked` is the exception they name.
- `ScreenTruthful`: its tempo is asked for where no other client tunes.
- `StatusTruthful`, `CleanExit` (ClockEngine): `~careless`, as above.
- `OneDaemon`, `AnswersTrue`, `ConsoleTruthful`: `~careless`: no command while
  another runs, nothing happens to a daemon in the middle of one. Crashes
  between commands and a stale file are included. `ConsoleTruthful` is asked
  right after a refresh that found the daemon serving or gone; a poll follows
  within 200 ms. `ours` tells the daemons of which it excepts the output port.
- `BytesUnderstood` leaves out pitches and velocities above 127.

Each property has a mutant, an operator next to the definition it replaces
(`FlushForgotten`, `RelayWithoutContinue`, `GuardNeverConnects`, ...): a
plausible bug for which TLC finds that property violated.

## 4. Observations

Behaviour met while modelling: found by TLC when a restriction named above is
lifted, or read off the code. What the four failing runs of section 3 show is
not repeated.

Player.
- A MIDI Continue during playback, in the pass after a `modify-project`,
  rebuilds the list without the old project's carried NoteOff: the note hangs
  (`player.rs:288`; `docs/json-socket-interface.md:297`).
- After a `modify-project` that drops a bent channel, a stop does not centre
  that channel (`player.rs:501`; `docs/known-issues.md:127`).
- MIDI Start resets the published tick but not `loop_elapsed_ticks`; a Continue
  that follows at once resumes from the old place (`player.rs:249`, `:291`;
  `docs/json-socket-interface.md:273`).
- A NoteOff carried into a shorter loop is played, and its tick published,
  beyond that loop's end (`player.rs:476`).
- In sync mode a boundary without a fresh tempo update reverts to the project's
  tempo and moves the anchor to the current moment (`player.rs:670`).
- A tempo staged while paused is applied after the resume has computed its
  anchor at the old rate, so the first event after it is mistimed.
- A `create-project` between the two reads of the store in `build_loop_events`
  plays one song under the program changes of another; if the store was empty at
  the first read, its bends are on channels that no stop centres
  (`player.rs:499`, `:519`).
- A `clear-project` while a list is built leaves what the build would have
  replaced. The carry-over of a pass that was paused and stopped stays for a
  clock session that then has no project, and is rebased by the length of
  another song. A stop during a locate keeps the paused list, which the next
  start plays: its events may lie behind the published position, and its program
  changes are those of another song.
- A pause right after the last event of a pass leaves an empty list: the resume
  then waits a whole silent pass. A pause in the silent end of a bar belongs to
  the pass that follows, so that the resume skips the rest of the bar
  (`player.rs:803`).

Daemon.
- Of overlapping requests: `set-mode` next to `loop-start` leaves slaves rolling
  outside clock mode; a `set-bpm` that has copied the project undoes a
  `clear-project`; a start still in the channel at a shutdown leaves slaves
  rolling.
- A field of the wrong type is answered "unknown_command".
- `get-position` reads three numbers without a lock.

Clock receiver.
- A Continue received in `Lost` is accepted as long as there are two pulses in
  the window, and does not leave `Lost`. If no pulse, Start or Stop follows it,
  the loop plays on for ever without a clock: the timeout acts on the other
  states only, so no second loss is declared (`midi_clock/mod.rs:213`, `:237`;
  `docs/internals.md:400` says that a timeout pauses). Runs of `sync` do reach
  it; `SilencePausesLoop` and `SilenceNoticed` except it by `unclocked`.
- A device that keeps sending messages without pulses (locates, say) restarts
  the timeout with each one and keeps the loop playing (`mod.rs:189`).
- A pause of the device stays in the window of 24 intervals
  (`docs/known-issues.md:109`).
- If the very first interval after a Start is short (`ShortFirst`), a running
  clock is declared lost.
- Without any clock, "waiting" becomes "lost" after one second (`README.md:406`).
- A Continue before two pulses is rejected by the player's side and relayed to
  the slaves; a Start that meets a loss being told is followed by the 0xFC of
  the loss.

propeller-clock.
- A start followed at once by a stop or SIGTERM exits without a trailing Stop:
  the state was still "stopped" when it was looked at.
- Of two concurrent `bpm` requests the one published and the one in force may
  differ; the same with a seek and a start.
- A seek is forgotten by the start that follows it: Start is from the top.
- A key pressed before the first status has been fetched counts from the lowest
  tempo.

Lifecycle.
- The console may draw an output port that the daemon does not have. It shows
  the daemon on a port; a command line stops that daemon and starts one on the
  virtual port. Status then has no
  `midi_port_name` (`ipc/handler.rs:392`), `refresh_from_status` leaves the
  picker where it was (`tui.rs:131`), and no later poll changes that.
  `README.md:221` promises the live MIDI output port. `ConsoleTruthful` excepts
  this case and no other. The sync port is left in the same way (`tui.rs:138`):
  a daemon in sync mode always has one to report, and of one in another mode the
  console goes on drawing the port it would restart sync mode with.
- A status that is cut off by the daemon's exit leaves the screen as it was,
  "running" included, until the next poll (`tui.rs:148`).
- The console spawns without the startup guard: a stale file is an error each
  time until a command line removes it (`README.md:597`).
- Choosing "none" for the sync port in sync mode restarts the daemon with
  `--sync` and no port, which dies (`README.md:234`); a restart by the console
  also drops `--no-clock-forward`.
- Two starts that race for a stale file end in two daemons, one unreachable; an
  exit removes by name the socket of a daemon that has started meanwhile.
- A receiver that cannot open its port fails after the bind and leaves the file.

Validation.
- Pitch and velocity are cut to eight bits and never compared with 127
  (`docs/json-socket-interface.md:225`).
- The limit in the error message, `2 * loop_duration`, is computed in u32
  (`validation.rs:98`): it wraps in a release build and panics in a debug build.

## 5. What is proved

The theorems hold for every value of the constants that the named assumptions
admit. In each module the inductive invariant is stated first, in parts, then
come lemmas on the operators, one lemma per step of the specification, and the
theorems. Every inductive invariant was checked by TLC before it was proved.

**Player** (PlayerSafety, PlayerRefinement): for all songs that pass validation,
all tempi, command alphabets, store operations and bounds, from `SongAssumption`,
`TickAssumption` and `EnvironmentAssumption`.

| Theorem | States |
| --- | --- |
| `TypeCorrect` | `Spec => []TypeOK` |
| `TransportInvariant` | `Spec => []TransportInv` |
| `SilenceAtRest` | `Spec => []SilentUnlessRunning` |
| `ClockModeBounded` | `Spec => []ClockModeRolling` |
| `ZeroWhenStopped` | `Spec => []StoppedAtZero` |
| `PositionForward` | `NoClear => (Spec => []NothingLeftBehind)` |
| `CarriesInRange` | `NoClear => (Spec => []CarryInRange)` |
| `NoNoteHangs` | `NoLocates => (Spec => []NoStuckNote)` |
| `ResumeSeamless` | `NoJumps => (Spec => SeamlessResume)` |
| `WheelsCentred` | `NoClear /\ SameChannels => (Spec => []CentredWhenSilent)` |
| `OwnProgramChanges` | `NoClear /\ NoCreate => (Spec => []NotesOfConfiguredSong)` |
| `PlayerImplementsTransport` | `Spec => ImplementsTransport` |
| `PlayerImplementsEngine` | `Spec => ImplementsEngine` |

The published state alone is not inductive: whether a step may sound a note or
keep the position depends on where in the code it is taken and for whom.
`TransportInv` therefore adds `CallAgrees` (which purposes go with which
location), `StateAgrees` (which states go with both; in particular only a
Running player plays, and a list built inside a start is built in Stopped) and
`AtRest` (a stopped player has counted no pass, and is at tick zero unless a
locate inside a start is on its way). Each handler then preserves it, with one
step per action; `Bookkeeping`, `ReturnSafe`, `ProceedSafe` and `RunningOn` hold
what most of them share.

The other invariants rest on it. `PassInv` is about the pass in hand: a list is
in one place, with `play_events` or with the paused context it left
(`PlaceInv`); its events lie at or after the published tick (`TicksInv`); and
what is carried over belongs to the song that was playing, so that the
subtraction of its length leaves a tick of the next pass (`CarryInv`). `NoteInv`
pairs each note that sounds with a NoteOff still to come, in the list or carried,
and each NoteOn still to come with a NoteOff behind it. `WheelInv` keeps bends,
sounding or to come, on the channels of the song set up last, and `SongInv` does
the same for NoteOns.

The hypotheses are about what clients do. Each is needed: without it TLC finds a
behaviour that violates the property, and section 4 says what happens there.

- `NoClear`: nobody clears the store. A `clear-project` during a build
  leaves carried notes and paused lists of a project that is gone, and may panic
  the thread (run `clear_panics`).
- `NoLocates`, `NoJumps`: no MIDI Continue or Song Position Pointer, and for
  `ResumeSeamless` no MIDI Start either: standalone and clock mode, which the
  daemon is in for good when it is started without a sync port. A Continue
  rebuilds the list without what was carried over; rewinding is what the other
  two are for.
- `SameChannels`: all songs bend the same channels.
- `NoCreate`: the active project changes at loop boundaries alone. A
  `create-project` between the two reads of the store in `build_loop_events`
  plays one song under the program changes of another.

The refinements map the thread to what a listener or a client sees of it.
Transport takes `state`, `currentTick`, `loopCount` and `activeNotes` as they
are, Engine the queue, the store and the phase the thread is in; `TransportInv`
says, for each action, which abstract action it is. The hard steps of the
second one are those in which the thread looks at the store in one action and
acts in another: Engine is between the two as well (`EngineStarting`).

**Daemon** (DaemonProofs): for all clients, requests, projects and bounds, from
`DaemonAssumption`.

| Theorem | States |
| --- | --- |
| `EngineTypeCorrect` | `EngineSpec => []EngineTypeOK` |
| `DaemonTypeCorrect` | `Spec => []TypeOK` |
| `ErrorsHarmless` | `Spec => []ErrorsChangeNothing` |
| `ExitClean` | `Spec => []CleanExit` |
| `SlavesStopWithMode` | `Spec => []ClockOnlyInClockMode` |

`TypeInv` adds to the types what the handlers never send, so that a loop at rest
is no clock master. The two properties of one request at a time need to know
what that means for the engine: `OneAtATime` says that a handler at work finds
the engine idle, but for the last step of a `set-mode` that has just sent its
ClockStop (`Leaving`). Slaves roll only under a clock master (`RollingInv`), and
a clock master is in clock mode or about to be stopped (`ModeInv`).

**ClockReceiver** (ReceiverProofs): for every window of at least two intervals,
every interval, timeout and bound, from `ReceiverAssumption`.

| Theorem | States |
| --- | --- |
| `TypeCorrect` | `Spec => []TypeOK` |
| `TempoOfLiveClock` | `Spec => []BpmOnlyWhileTracking` |
| `FreshTempo` | `Spec => []TempoFresh` |
| `OnTimeClockHeld` | `~ShortFirst => (Spec => []ClockHeld)` |
| `SilencePauses` | `Spec => []SilencePausesLoop` |
| `SlavesFollow` | `Spec => []SlavesFollowLoop` |

What the receiver decides depends on the device through the ages of the pulses
it keeps. `DeviceInv` and `OwedInv` relate these to the device and to what is in
the inbox; `Spaced` says what the device's jitter leaves in the window: of two
intervals in a row one at least is `Long`, and so is the first. The average of n
such intervals is more than `Long` times (n - 1) / 2n, hence 3.5 times the
average is more than `Long`, which is `OnTimeClockHeld`. Without `~ShortFirst`
the window may hold one short interval alone and the theorem is false (section
4). `SilenceInv` follows the SyncStop of a loss on its way: in the receiver's
hands, in the channel with no restart behind it, or carried out. `SlavesInv`
does the same for a Stop that was relayed. Both need that the player, wherever
it is when it takes a SyncStop, ends at rest (`QuietQueue`).

**propeller-clock** (ClockProofs): for all tempi with any intervals, latencies,
clients, requests and bounds, from `ClockAssumption` and `ConsoleAssumption`.

| Theorem | States |
| --- | --- |
| `ConsoleTypeCorrect` | `ConsoleSpec => []ConsoleTypeOK` |
| `PulsesEven` | `ConsoleSpec => []EvenPulses` |
| `ExitsClean` | `ConsoleSpec => []CleanExit` |
| `ScreenTrue` | `ConsoleSpec => []ScreenTruthful` |
| `ClockImplementsTransport` | `ConsoleSpec => ImplementsClockTransport` |
| `DaemonAlone` | types, pulses, exit and transport of the daemon without a console, `Spec` |

The invariants are proved of `ServedNext`, a next-state relation in which every
client may ask for anything; the daemon alone and the daemon beside its console
both refine it. `PhaseInv`: the devices do what the thread's state says, and the
next pulse is due when the interval of some tempo has passed since the last,
however often the anchor has moved. `CalmInv`: with one request at a time, the
tempo or position that is published and not yet in force is on its way, in one
handler or alone in the channel. `ScreenTrue` is about the tempo and position of
status and about the tempo and the word "disconnected" on the screen; the clock
state, which the console also draws, is not covered. `ScreenInv` is about the console's keys among
requests of others: the last tempo in the channel is the one published.

**Lifecycle** (LifecycleProofs): for any number of processes, shells, ports and
commands, from `LifecycleAssumption`.

| Theorem | States |
| --- | --- |
| `TypeCorrect` | `Spec => []TypeOK` |
| `SingleInstance` | `Spec => []OneDaemon` |
| `AnswersHold` | `Spec => []AnswersTrue` |
| `ScreenTrue` | `Spec => []ConsoleTruthful` |

`CarefulInv` says what one user at a time means. `Processing`: whoever has got
past its bind owns the path, so there is one of these. `Waited`: every process
on its way up or down has somebody who waits for it; a daemon that cannot bind
may outlive that wait, when the console finds another one serving. `Commands`:
what each command has found out so far is still true at its next step.
`Asking`: the daemon that the console is reading from is the one behind the
path, unless it has been stopped meanwhile. `Owned`: the console knows the
output port of the daemons it has spawned, since it changes that setting by a
restart. `AnswersHold` covers start, ensure, stop and status with all their
outcomes; `ScreenTrue` covers the daemon, its mode, the sync port of a daemon in
sync mode, and the output port but for the one case of section 4.

**Timing** (TimingProofs): for all songs, tick lengths, latencies and delays,
from `TimingConstants` (the types of the constants) and `OneTempo` (one tempo in
use, a whole number of BPM, and no measured tempo).

| Theorem | States |
| --- | --- |
| `SteadyTempoFinishesPasses` | `Spec => PassesFinish /\ BoundariesOnTime`: what run `cut_short` refutes for two tempi holds where no tempo changes, and each boundary is anchored at the end of the pass exactly |

The theorem is about boundaries. It does not say that every pass lasts: a pause
in the silent end of a bar falls into the pass that follows, whose list is
built; the resume plays that one at once (`player.rs:803`), so that the rest of
the bar is skipped (section 4), with one tempo too. And `OneTempo` excludes sync
mode and set-bpm along with projects of another tempo.

The invariant `Steady` is that times and ticks are numbers and that the
scheduler's tempo is the project's; then `advance_loop` takes the branch that
moves the anchor by exactly the length of the pass (`AdvanceIsOnTime`), and no
other step counts a pass (`OnlyAdvanceCounts`). The least element of a set of
ticks exists by well-foundedness, cited from the library.

**Projects and bytes** (WireProofs): for all uploads, numbers, lengths and field
widths, from `WidthAssumption` (a u8 is not wider than a u32) and
`WireAssumption` (an upload is a project with any integers in it, a tempo is a
u32, the port delivers whole messages).

| Theorem | States |
| --- | --- |
| `RefusedForItsFirstFault` | `Spec => []FirstFaultReported` |
| `StoreIsSound` | `Spec => []StoreSound` |
| `BytesAreUnderstood` | `Spec => []BytesUnderstood` |
| `SongPositionUnderstood`, `ClockMessagesUnderstood`, `RelayIsFaithful`, `VoiceMessagesIgnored`, `BendsExact` | the encoders and the classifier undo each other, for all bytes, channels and positions |

`FirstFault` returns the least index at which a check fails, which exists by
well-foundedness; a lemma for each level of `validate` (a note, a bend, a track,
the project) says which faults it may return and what has passed before it.
`StoreInv` then keeps the store to playable projects whose fields fit. That a
stored project goes to JSON and back unchanged is a statement about sequences
converted element by element; the bytes are arithmetic on quotients and
remainders by 16 and 128.

### What is only model-checked

`StopHonoured`, `StartHonoured`, `PendingCommitted`, `PassEnds` (run
`player_live`) and `SilenceNoticed` (run `sync`) say that something happens in
the end. They rest on fairness, hence on ENABLED, which the installed provers do
not reason about; TLC checks them on the instances of section 3. Every other
property of the passing runs is the conclusion of a theorem above. What the four
failing runs show is a fact about one behaviour each and needs no proof. Of
`PassesFinish`, TimingProofs proves the case of one tempo.

## 6. Plan

*Done:* all modules of section 2; every safety invariant, every action property
and every refinement of the passing runs is proved.

*Left:*

1. Weaker hypotheses where the code allows it: `WheelsCentred` for songs on
   different channels as long as no project replaces another while a wheel is
   bent; `CarriesInRange` and `PositionForward` with `clear-project` where no
   list is being built.
2. The composition itself: that Daemon and ClockReceiver, which use Engine, keep
   their properties over Player rests on `PlayerImplementsEngine` and on their
   being closed under Engine's stuttering; this is argued in section 2 and not
   proved.
3. Lemmas that would make the four failing runs general: which projects and
   tempi they need.

Not modelled: parsing of arguments and of JSON text, the wording of answers and
messages, the layout and scrolling of the consoles, project files, log files and
the lookup of the socket path (pure input and output, nothing in the other parts
depends on them); floating point (tempi are tenths of a BPM, averages whole
units); the microseconds of the pulse tracker; MIDI drivers. The unit and
integration tests in the sources are not modelled either; they were read as
statements about the code.
