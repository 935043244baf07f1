--------------------------- MODULE ReceiverProofs ---------------------------
(***************************************************************************)
(* The invariants of sync mode, for every window, interval, timeout and    *)
(* number of messages on their way.  What the receiver decides depends on  *)
(* the device only through the ages of the pulses it keeps: HistoryTypes   *)
(* and Spaced say what they can be, DeviceInv how they go with what is on  *)
(* its way, and from these follows that the timeout is longer than the     *)
(* interval of a device that is on time.                                   *)
(***************************************************************************)
EXTENDS ClockReceiver, TLAPS

-----------------------------------------------------------------------------
SyncCommand ==
  {"SyncStart", "SyncContinue", "SyncStop", "SyncSongPosition", "SyncBpmUpdate"}
Restarts == {"SyncStart", "SyncContinue"}

(* What is on its way to the receiver: in the callback's hands or sent.    *)
Sent == IF relaying = None THEN inbox ELSE Append(inbox, relaying)

OnItsWay(m) == \E i \in DOMAIN Sent : Sent[i] = m

-----------------------------------------------------------------------------
(* The player, as sync mode drives it.                                     *)

EngineInv ==
  /\ state \in EngineState
  /\ active \in Projects \cup {None} /\ pending \in Projects \cup {None}
  /\ transport \in {"stopped", "rolling"}
  /\ queue \in Seq(SyncCommand)
  /\ isClockMode = FALSE
  /\ phase \in {"Ready", "Starting", "Locating"}
  /\ starting \in {"None", "SyncStart", "SyncContinue", "Promoted"}
  /\ phase = "Starting" => active # None /\ state \in {"Stopped", "Waiting"}
  /\ state \in {"Running", "Paused"} \/ phase = "Locating" => active # None
  /\ phase = "Locating" => state # "Running"

ReceiverTypes ==
  /\ device \in {"off", "pulsing"}
  /\ sincePulse \in 0 .. GapCap /\ owed \in 0 .. 2
  /\ relaying \in ClockMessage \cup {None} /\ inbox \in Seq(ClockMessage)
  /\ waited \in Nat
  /\ clockState \in SyncClockState
  /\ bpm \in 0 .. GapCap \cup {None}
  /\ step \in {"Receive", "Send", "ForwardStop"}
  /\ step = "Send" => sending \in SyncCommand
  /\ step # "Send" => sending = "None"
  /\ step = "ForwardStop" => clockState = "Lost"
  /\ downstream \in {"stopped", "rolling"}
  /\ raced \in BOOLEAN /\ fresh \in BOOLEAN /\ unclocked \in BOOLEAN

-----------------------------------------------------------------------------
(* The ages of the pulses.                                                 *)

Last == history[Len(history)]
Since(i) == history[i] - Last
LastLong == Len(history) >= 2 /\ Since(Len(history) - 1) >= Long

(* No interval is longer than g.                                           *)
Bounded(g) == \A i \in DOMAIN history : Since(i) <= (Len(history) - i) * g

HistoryTypes ==
  /\ history \in Seq(Nat) /\ Len(history) <= Window + 1
  /\ history # <<>> => Last <= GapCap
  /\ \A i \in DOMAIN history : Since(i) >= 0
  /\ Bounded(GapCap)

BpmInv == bpm # None => clockState = "Tracking" /\ Established

(* No two intervals running are short, and the first one is not.           *)
Spaced ==
  /\ \A i \in 1 .. (Len(history) - 1) :
       /\ 2 * Since(i) >= (Len(history) - i - 1) * Long + 2 * Short
       /\ LastLong => 2 * Since(i) >= (Len(history) - i) * Long
  /\ Len(history) = 2 => LastLong
  /\ Len(history) >= 3 => Since(Len(history) - 2) >= Long + Short

OnePulse == \A i, j \in DOMAIN Sent : Sent[i] = "Pulse" /\ Sent[j] = "Pulse" => i = j

DeviceInv ==
  /\ OnItsWay("Pulse") => sincePulse = 0
  /\ OnePulse
  /\ ~OnItsWay("Pulse") /\ history # <<>> => Last = sincePulse
  /\ device = "pulsing" => sincePulse <= Long

(* A pulse follows every Start, as soon as it is owed no more.             *)
StartsOwed ==
  \A i \in DOMAIN Sent :
    Sent[i] = "Start" =>
      owed = 2 \/ (\E j \in DOMAIN Sent : j > i /\ Sent[j] = "Pulse")

(* What the history must be like for the next pulse to extend it.          *)
Extends == history # <<>> => (Last >= Long \/ (Last >= Short /\ LastLong))

PulseExtends ==
  \A j \in DOMAIN Sent :
    Sent[j] = "Pulse" /\ (\A i \in DOMAIN Sent : i < j => Sent[i] # "Start") => Extends

OwedInv ==
  /\ StartsOwed /\ PulseExtends
  /\ OnItsWay("Pulse") /\ owed = 0 =>
       history # <<>> /\ Last >= Long /\ ~OnItsWay("Start")
  /\ ~OnItsWay("Pulse") /\ owed = 0 => LastLong
  /\ ~OnItsWay("Pulse") /\ owed = 1 => history # <<>>

HeldInv ==
  device = "pulsing" /\ ~OnItsWay("Pulse") =>
    waited <= sincePulse /\ clockState # "Lost"

(* A device that has started and sends no pulses yet has sent none since.  *)
PulsesBeforeStart ==
  \A j \in DOMAIN Sent :
    Sent[j] = "Pulse" => \E i \in DOMAIN Sent : i > j /\ Sent[i] = "Start"

FreshInv ==
  /\ fresh /\ device = "off" => PulsesBeforeStart
  /\ fresh /\ ~OnItsWay("Start") =>
     /\ Bounded(Long)
     /\ history # <<>> => Last <= Long /\ device = "pulsing"
     /\ bpm # None => bpm <= Long

-----------------------------------------------------------------------------
(* The loop is at rest, or on its way there.                               *)

AtRest ==
  /\ state \in {"Stopped", "Paused"}
  /\ phase = "Ready" \/ (phase = "Locating" /\ state = "Paused")

QuietQueue ==
  \/ \E j \in DOMAIN queue :
       queue[j] = "SyncStop" /\ \A i \in DOMAIN queue : i > j => queue[i] \notin Restarts
  \/ AtRest /\ \A i \in DOMAIN queue : queue[i] \notin Restarts

Quieting ==
  \/ sending = "SyncStop"
  \/ (QuietQueue /\ sending \notin Restarts)

(* What run_receiver sends on a timeout is the last that the player gets.  *)
SilenceInv == clockState = "Lost" /\ ~unclocked => Quieting

(* What is on its way ends in a Stop, as far as starts and stops go.       *)
EndsInStop ==
  \E j \in DOMAIN Sent :
    Sent[j] = "Stop" /\ \A i \in DOMAIN Sent : i > j => Sent[i] \notin {"Start", "Continue"}

SlavesInv ==
  ForwardingEnabled /\ ~raced =>
    /\ downstream = "stopped" =>
         EndsInStop \/ (~OnItsWay("Start") /\ ~OnItsWay("Continue") /\ Quieting)
    /\ Losing => Sent = <<>> /\ Quieting

-----------------------------------------------------------------------------
(* Sequences.                                                              *)

LEMMA Popped ==
  ASSUME NEW S, NEW s \in Seq(S), s # <<>>
  PROVE  /\ Tail(s) \in Seq(S) /\ Head(s) \in S /\ Head(s) = s[1] /\ 1 \in DOMAIN s
         /\ DOMAIN Tail(s) = 1 .. (Len(s) - 1) /\ Len(Tail(s)) = Len(s) - 1
         /\ \A i \in DOMAIN Tail(s) : Tail(s)[i] = s[i + 1] /\ i + 1 \in DOMAIN s
         /\ DOMAIN s = 1 .. Len(s) /\ Len(s) \in Nat
OBVIOUS

LEMMA Appended ==
  ASSUME NEW S, NEW s \in Seq(S), NEW x \in S
  PROVE  /\ Append(s, x) \in Seq(S)
         /\ Len(Append(s, x)) = Len(s) + 1 /\ DOMAIN Append(s, x) = 1 .. (Len(s) + 1)
         /\ DOMAIN s = 1 .. Len(s) /\ Len(s) \in Nat
         /\ \A i \in DOMAIN s : Append(s, x)[i] = s[i]
         /\ Append(s, x)[Len(s) + 1] = x
         /\ Append(s, x) # <<>>
OBVIOUS

-----------------------------------------------------------------------------
(* The player.                                                             *)

LEMMA EngineKept == EngineInv /\ EngineStep => EngineInv'
<1> SUFFICES ASSUME EngineInv, EngineStep PROVE EngineInv'
  OBVIOUS
<1>1. ASSUME NEW names, Receives(names), Pop
      PROVE  queue' \in Seq(SyncCommand) /\ Head(queue) \in SyncCommand \cap names
  BY <1>1, Popped DEF EngineInv, Receives, Pop
<1> USE DEF EngineInv, EngineState
<1>2. CASE BeginOrWait
  <2>1. queue' \in Seq(SyncCommand) /\ Head(queue) \in Restarts
    BY <1>1, <1>2 DEF BeginOrWait, StartCommands, SyncCommand, Restarts
  <2> QED
    BY <1>2, <2>1 DEF BeginOrWait, Ready, Restarts
<1>3. CASE StoppedDrop \/ PausedDrop
  BY <1>1, <1>3 DEF StoppedDrop, PausedDrop
<1>4. CASE StartRunning
  BY <1>4 DEF StartRunning
<1>5. CASE Panic
  BY <1>5 DEF Panic
<1>6. CASE Promote
  BY <1>6, ReceiverAssumption DEF Promote, Ready
<1>7. CASE WaitingReceive
  <2>1. queue' \in Seq(SyncCommand)
    BY <1>7, Popped DEF WaitingReceive, Pop
  <2> QED
    BY <1>7, <2>1 DEF WaitingReceive, Ready
<1>8. CASE MidLoopStop \/ MidLoopPause
  <2>1. queue' \in Seq(SyncCommand)
    BY <1>1, <1>8 DEF MidLoopStop, MidLoopPause
  <2> QED
    BY <1>8, <2>1 DEF MidLoopStop, MidLoopPause, ReturnTo, MidLoop, Ready
<1>9. CASE MidLoopOther
  <2>1. queue' \in Seq(SyncCommand)
    BY <1>1, <1>9 DEF MidLoopOther
  <2> QED
    BY <1>9, <2>1 DEF MidLoopOther, ReturnTo, MidLoop, Ready
<1>10. CASE CommitPending
  BY <1>10, ReceiverAssumption DEF CommitPending, Ready
<1>11. CASE PausedResume \/ PausedStop
  <2>1. queue' \in Seq(SyncCommand)
    BY <1>1, <1>11 DEF PausedResume, PausedStop
  <2> QED
    BY <1>11, <2>1 DEF PausedResume, PausedStop, Ready
<1>12. CASE PausedLocate
  <2>1. queue' \in Seq(SyncCommand)
    BY <1>1, <1>12 DEF PausedLocate
  <2> QED
    BY <1>12, <2>1 DEF PausedLocate, Ready
<1>13. CASE LocateEnds
  BY <1>13 DEF LocateEnds
<1>14. CASE BlindEnds
  BY <1>14 DEF BlindEnds
<1> QED
  BY <1>2, <1>3, <1>4, <1>5, <1>6, <1>7, <1>8, <1>9, <1>10, <1>11, <1>12, <1>13, <1>14
     DEF EngineStep

LEMMA SendKept == ASSUME EngineInv, NEW c \in SyncCommand, Send(c) PROVE EngineInv'
BY DEF EngineInv, Send

LEMMA StoreKept == ASSUME EngineInv, NEW p \in Projects, SetActive(p) PROVE EngineInv'
BY ReceiverAssumption DEF EngineInv, SetActive, StoreUnchanged

(* A loop that comes to rest does so, whatever the thread does first.      *)
LEMMA QuietKept == EngineInv /\ QuietQueue /\ EngineStep => QuietQueue'
<1> SUFFICES ASSUME EngineInv, QuietQueue, EngineStep PROVE QuietQueue'
  OBVIOUS
<1> USE DEF EngineInv
<1> DEFINE Ends(j) == j \in DOMAIN queue /\ queue[j] = "SyncStop"
                      /\ \A i \in DOMAIN queue : i > j => queue[i] \notin Restarts
           None0 == \A i \in DOMAIN queue : queue[i] \notin Restarts
<1> DEFINE Thinks ==
             StartRunning \/ Promote \/ CommitPending \/ LocateEnds \/ BlindEnds
           Takes ==
             \/ BeginOrWait \/ StoppedDrop \/ WaitingReceive \/ MidLoopStop \/ MidLoopPause
             \/ MidLoopOther \/ PausedResume \/ PausedLocate \/ PausedStop \/ PausedDrop
<1>1. CASE Thinks
  <2>1. UNCHANGED queue
    BY <1>1 DEF StartRunning, Promote, CommitPending, LocateEnds, BlindEnds
  <2>2. AtRest => AtRest'
    BY <1>1 DEF AtRest, StartRunning, Promote, CommitPending, LocateEnds, BlindEnds, Ready,
                ReturnTo
  <2> QED
    BY <2>1, <2>2 DEF QuietQueue
<1>2. CASE Takes /\ queue # <<>> /\ Pop
  <2>1. /\ Head(queue) = queue[1] /\ 1 \in DOMAIN queue /\ Head(queue) \in SyncCommand
        /\ DOMAIN queue' = 1 .. (Len(queue) - 1) /\ DOMAIN queue = 1 .. Len(queue)
        /\ \A i \in DOMAIN queue' : queue'[i] = queue[i + 1] /\ i + 1 \in DOMAIN queue
        /\ Len(queue) \in Nat
    BY <1>2, Popped DEF Pop
  <2>2. ASSUME NEW j, Ends(j), j > 1
        PROVE  QuietQueue'
    <3>1. j - 1 \in DOMAIN queue' /\ queue'[j - 1] = "SyncStop"
      BY <2>1, <2>2
    <3>2. \A i \in DOMAIN queue' : i > j - 1 => queue'[i] \notin Restarts
      BY <2>1, <2>2
    <3> QED
      BY <3>1, <3>2 DEF QuietQueue
  <2>3. ASSUME Head(queue) \notin Restarts,
               \A i \in DOMAIN queue : i > 1 => queue[i] \notin Restarts,
               Head(queue) = "SyncStop" \/ AtRest
        PROVE  QuietQueue'
    <3>1. \A i \in DOMAIN queue' : queue'[i] \notin Restarts
      BY <2>1, <2>3
    <3>2. AtRest'
      <4> DEFINE c == Head(queue)
      <4>1. c \in {"SyncStop", "SyncSongPosition", "SyncBpmUpdate"}
        BY <2>1, <2>3 DEF SyncCommand, Restarts
      <4>2. \A names : Receives(names) => c \in names
        BY DEF Receives
      <4> HIDE DEF c
      <4>3. CASE BeginOrWait
        BY <4>1, <4>2, <4>3 DEF BeginOrWait, StartCommands
      <4>4. CASE StoppedDrop \/ PausedDrop \/ PausedLocate
        BY <4>4 DEF StoppedDrop, PausedDrop, PausedLocate, Ready, AtRest
      <4>5. CASE WaitingReceive
        <5>1. c = "SyncStop"
          BY <4>5, <2>3 DEF WaitingReceive, Ready, AtRest, c
        <5> QED
          BY <4>5, <5>1, <1>2 DEF WaitingReceive, Ready, AtRest, Receives, c
      <4>6. CASE MidLoopStop \/ PausedResume \/ PausedStop
        BY <4>1, <4>2, <4>6 DEF MidLoopStop, PausedResume, PausedStop
      <4>7. CASE MidLoopPause
        BY <4>7 DEF MidLoopPause, MidLoop, ReturnTo, AtRest, Ready
      <4>8. CASE MidLoopOther
        <5>1. c # "SyncStop"
          BY <4>2, <4>8 DEF MidLoopOther
        <5> QED
          BY <4>8, <5>1, <2>3 DEF MidLoopOther, MidLoop, AtRest, Ready, c
      <4> QED
        BY <1>2, <4>3, <4>4, <4>5, <4>6, <4>7, <4>8
    <3> QED
      BY <3>1, <3>2 DEF QuietQueue
  <2>4. CASE \E j : Ends(j)
    <3> PICK j : Ends(j)
      BY <2>4
    <3>1. CASE j = 1
      BY <2>1, <2>3, <3>1 DEF Restarts
    <3> QED
      BY <2>1, <2>2, <3>1
  <2>5. CASE AtRest /\ None0
    BY <2>1, <2>3, <2>5
  <2> QED
    BY <2>4, <2>5 DEF QuietQueue
<1>3. Takes => queue # <<>> /\ Pop
  BY DEF BeginOrWait, StoppedDrop, WaitingReceive, MidLoopStop, MidLoopPause, MidLoopOther,
         PausedResume, PausedLocate, PausedStop, PausedDrop, Receives
<1>4. ~Panic
  BY DEF Panic
<1> QED
  BY <1>1, <1>2, <1>3, <1>4 DEF EngineStep

LEMMA SendQuiet ==
  ASSUME EngineInv, NEW c \in SyncCommand, Send(c),
         c = "SyncStop" \/ (QuietQueue /\ c \notin Restarts)
  PROVE  QuietQueue'
<1>1. queue' = Append(queue, c) /\ AtRest' = AtRest
  BY DEF EngineInv, Send, AtRest
<1>2. /\ DOMAIN queue' = 1 .. (Len(queue) + 1) /\ DOMAIN queue = 1 .. Len(queue)
      /\ \A i \in DOMAIN queue : queue'[i] = queue[i]
      /\ queue'[Len(queue) + 1] = c /\ Len(queue) \in Nat
  BY <1>1, Appended DEF EngineInv
<1>3. CASE c = "SyncStop"
  <2>1. /\ Len(queue) + 1 \in DOMAIN queue' /\ queue'[Len(queue) + 1] = "SyncStop"
        /\ \A i \in DOMAIN queue' : i > Len(queue) + 1 => queue'[i] \notin Restarts
    BY <1>2, <1>3
  <2> QED
    BY <2>1 DEF QuietQueue
<1>4. CASE QuietQueue /\ c \notin Restarts
  <2>1. CASE AtRest /\ \A i \in DOMAIN queue : queue[i] \notin Restarts
    BY <1>1, <1>2, <1>4, <2>1 DEF QuietQueue
  <2>2. CASE \E j \in DOMAIN queue :
               queue[j] = "SyncStop" /\ \A i \in DOMAIN queue : i > j => queue[i] \notin Restarts
    <3> PICK j \in DOMAIN queue :
               queue[j] = "SyncStop" /\ \A i \in DOMAIN queue : i > j => queue[i] \notin Restarts
      BY <2>2
    <3>1. j \in DOMAIN queue' /\ queue'[j] = "SyncStop"
      BY <1>2
    <3>2. \A i \in DOMAIN queue' : i > j => queue'[i] \notin Restarts
      BY <1>2, <1>4
    <3> QED
      BY <3>1, <3>2 DEF QuietQueue
  <2> QED
    BY <1>4, <2>1, <2>2 DEF QuietQueue
<1> QED
  BY <1>3, <1>4

LEMMA StoreQuiet == ASSUME QuietQueue, NEW p \in Projects, SetActive(p) PROVE QuietQueue'
BY DEF QuietQueue, AtRest, SetActive, StoreUnchanged

-----------------------------------------------------------------------------
(* The tracker.                                                            *)

(* What one pulse does: the ages it keeps move up, the new pulse is last.  *)
LEMMA Extended ==
  ASSUME HistoryTypes, Update
  PROVE  \E d \in {0, 1} :
           /\ d = 1 => Len(history) = Window + 1
           /\ history' \in Seq(Nat) /\ Len(history') = Len(history) + 1 - d
           /\ Len(history') <= Window + 1 /\ Len(history') >= 1
           /\ DOMAIN history = 1 .. Len(history) /\ DOMAIN history' = 1 .. Len(history')
           /\ Len(history) \in Nat /\ (history # <<>> <=> Len(history) >= 1)
           /\ Last' = 0
           /\ \A i \in DOMAIN history' : Since(i)' = history'[i]
           /\ \A i \in 1 .. (Len(history') - 1) :
                i + d \in DOMAIN history /\ history'[i] = history[i + d]
<1> DEFINE n == Len(history)
           x == Append(history, 0)
<1> USE DEF HistoryTypes
<1>1. /\ x \in Seq(Nat) /\ Len(x) = n + 1 /\ DOMAIN x = 1 .. (n + 1) /\ x # <<>>
      /\ DOMAIN history = 1 .. n /\ n \in Nat
      /\ \A i \in DOMAIN history : x[i] = history[i]
      /\ x[n + 1] = 0
  <2>1. history \in Seq(Nat) /\ 0 \in Nat
    OBVIOUS
  <2> HIDE DEF HistoryTypes
  <2> QED
    BY <2>1, Appended
<1>2. history # <<>> <=> n >= 1
  BY <1>1
<1>3. CASE n + 1 > Window + 1
  <2>1. n = Window + 1 /\ Window \in Nat
    BY <1>1, <1>3, ReceiverAssumption
  <2>2. history' = Tail(x)
    BY <1>1, <1>3 DEF Update
  <2>3. /\ history' \in Seq(Nat) /\ Len(history') = n
        /\ DOMAIN history' = 1 .. n
        /\ \A i \in 1 .. n : history'[i] = x[i + 1]
    BY <1>1, <2>2, Popped
  <2>4. Last' = 0
    BY <1>1, <2>1, <2>3 DEF Last
  <2>5. \A i \in DOMAIN history' : Since(i)' = history'[i]
    BY <2>3, <2>4 DEF Since
  <2>6. \A i \in 1 .. (n - 1) : i + 1 \in DOMAIN history /\ history'[i] = history[i + 1]
    BY <1>1, <2>3
  <2>7. /\ history' \in Seq(Nat) /\ Len(history') = n + 1 - 1
        /\ Len(history') <= Window + 1 /\ Len(history') >= 1 /\ n = Window + 1
        /\ DOMAIN history' = 1 .. Len(history')
        /\ \A i \in 1 .. (Len(history') - 1) :
             i + 1 \in DOMAIN history /\ history'[i] = history[i + 1]
    BY <2>1, <2>3, <2>6
  <2> HIDE DEF n, x
  <2> QED
    BY <1>1, <1>2, <2>4, <2>5, <2>7 DEF n
<1>4. CASE ~(n + 1 > Window + 1)
  <2>1. history' = x
    BY <1>1, <1>4 DEF Update
  <2>2. Last' = 0
    BY <1>1, <2>1 DEF Last
  <2>3. \A i \in DOMAIN history' : Since(i)' = history'[i]
    BY <1>1, <2>1, <2>2 DEF Since
  <2>4. n + 1 <= Window + 1 /\ Window \in Nat
    BY <1>1, <1>4, ReceiverAssumption
  <2>5. \A i \in 1 .. (Len(history') - 1) : i + 0 \in DOMAIN history /\ history'[i] = history[i + 0]
    BY <1>1, <2>1
  <2>6. /\ history' \in Seq(Nat) /\ Len(history') = n + 1 - 0
        /\ Len(history') <= Window + 1 /\ Len(history') >= 1
        /\ DOMAIN history' = 1 .. Len(history')
    BY <1>1, <2>1, <2>4
  <2> HIDE DEF n, x
  <2> QED
    BY <1>1, <1>2, <2>2, <2>3, <2>5, <2>6 DEF n
<1> QED
  BY <1>3, <1>4

(* Time passes for all pulses alike, and not beyond the longest interval.  *)
LEMMA Older ==
  ASSUME HistoryTypes, history' = Aged(history), history # <<>>
  PROVE  /\ history' # <<>> /\ history' \in Seq(Nat) /\ Len(history') = Len(history)
         /\ DOMAIN history' = DOMAIN history
         /\ \A i \in DOMAIN history : Since(i)' = Since(i)
         /\ Last' = IF Last >= GapCap THEN Last ELSE Last + 1
         /\ Last \in Nat
<1> DEFINE n == Len(history)
<1> USE DEF HistoryTypes
<1>1. n \in Nat /\ n >= 1 /\ DOMAIN history = 1 .. n /\ n \in DOMAIN history
      /\ \A i \in DOMAIN history : history[i] \in Nat
  OBVIOUS
<1>2. CASE Last >= GapCap
  <2>1. history' = history
    BY <1>2 DEF Aged, Last
  <2> QED
    BY <1>1, <1>2, <2>1 DEF Last, Since
<1>3. CASE ~(Last >= GapCap)
  <2>1. history' = [i \in 1 .. n |-> history[i] + 1]
    BY <1>3 DEF Aged, Last
  <2>2. /\ history' \in Seq(Nat) /\ Len(history') = n /\ DOMAIN history' = 1 .. n
        /\ \A i \in 1 .. n : history'[i] = history[i] + 1
    BY <1>1, <2>1
  <2>3. Last' = Last + 1 /\ history' # <<>>
    BY <1>1, <2>2 DEF Last
  <2>4. \A i \in 1 .. n : Since(i)' = Since(i)
    BY <1>1, <2>2, <2>3 DEF Since, Last
  <2> QED
    BY <1>1, <1>3, <2>2, <2>3, <2>4 DEF Last
<1> QED
  BY <1>2, <1>3

LEMMA OneMore == ASSUME NEW k \in Nat, NEW g \in Nat PROVE (k + 1) * g = k * g + g
BY Z3

LEMMA LessTimes ==
  ASSUME NEW k \in Nat, NEW l \in Nat, NEW g \in Nat, k <= l
  PROVE  k * g <= l * g
BY Z3

LEMMA AverageAtMost ==
  ASSUME NEW total \in Nat, NEW count \in Nat, count >= 1, NEW g \in Nat, total <= count * g
  PROVE  total \div count \in 0 .. g
OBVIOUS

(* A bound on every interval, the one that ends now included, stays one.   *)
LEMMA BoundKept ==
  ASSUME HistoryTypes, Update, NEW g \in Nat, history # <<>> => Last <= g, Bounded(g)
  PROVE  Bounded(g)' /\ \A i \in DOMAIN history' : Since(i)' >= 0
<1> DEFINE n == Len(history)
<1>1. PICK d \in {0, 1} :
        /\ history' \in Seq(Nat) /\ Len(history') = n + 1 - d
        /\ Len(history') <= Window + 1 /\ Len(history') >= 1
        /\ DOMAIN history = 1 .. n /\ DOMAIN history' = 1 .. Len(history')
        /\ n \in Nat /\ (history # <<>> <=> n >= 1)
        /\ Last' = 0
        /\ \A i \in DOMAIN history' : Since(i)' = history'[i]
        /\ \A i \in 1 .. (Len(history') - 1) :
             i + d \in DOMAIN history /\ history'[i] = history[i + d]
  BY Extended
<1>3. ASSUME NEW i \in DOMAIN history'
      PROVE  Since(i)' >= 0 /\ Since(i)' <= (Len(history') - i) * g
  <2>1. CASE i = Len(history')
    <3>1. Since(i)' = 0
      BY <1>1, <2>1 DEF Last
    <3> QED
      BY <2>1, <3>1, <1>1
  <2>2. CASE i < Len(history')
    <3>1. i \in 1 .. (Len(history') - 1)
      BY <1>1, <2>2
    <3>2. i + d \in DOMAIN history /\ Since(i)' = history[i + d]
      BY <1>1, <3>1
    <3>nonempty. history # <<>>
      BY <3>2
    <3>3. /\ history[i + d] \in Nat /\ Last \in Nat /\ Last <= g
          /\ history[i + d] - Last >= 0 /\ history[i + d] - Last <= (n - (i + d)) * g
      <4>1. /\ history[i + d] \in Nat /\ Last \in Nat /\ Last <= g
            /\ Since(i + d) >= 0
        BY <3>2, <3>nonempty DEF HistoryTypes, Last
      <4>2. Since(i + d) <= (n - (i + d)) * g
        BY <3>2 DEF Bounded
      <4> QED
        BY <4>1, <4>2 DEF Since
    <3>4. ((n - (i + d)) + 1) * g = (n - (i + d)) * g + g
      <4>1. n - (i + d) \in Nat
        BY <1>1, <3>2
      <4> QED
        BY <4>1, OneMore
    <3>5. Len(history') - i = (n - (i + d)) + 1
      BY <1>1
    <3>6. (n - (i + d)) * g \in Nat
      <4>1. n - (i + d) \in Nat
        BY <1>1, <3>2
      <4> QED
        BY <4>1
    <3> HIDE DEF n
    <3> QED
      BY <3>2, <3>3, <3>4, <3>5, <3>6
  <2> QED
    BY <1>1, <2>1, <2>2
<1> QED
  BY <1>3 DEF Bounded

LEMMA HistoryUpdated == HistoryTypes /\ Update => HistoryTypes'
<1> SUFFICES ASSUME HistoryTypes, Update PROVE HistoryTypes'
  OBVIOUS
<1>1. GapCap \in Nat
  BY ReceiverAssumption
<1>2. Bounded(GapCap)' /\ \A i \in DOMAIN history' : Since(i)' >= 0
  BY <1>1, BoundKept DEF HistoryTypes
<1>3. history' \in Seq(Nat) /\ Len(history') <= Window + 1 /\ Last' = 0
  BY Extended
<1> QED
  BY <1>1, <1>2, <1>3 DEF HistoryTypes

LEMMA HistoryAged == HistoryTypes /\ history' = Aged(history) => HistoryTypes'
<1> SUFFICES ASSUME HistoryTypes, history' = Aged(history) PROVE HistoryTypes'
  OBVIOUS
<1>1. CASE history = <<>>
  BY <1>1 DEF Aged, HistoryTypes, Bounded, Last, Since
<1>2. CASE history # <<>>
  <2>1. /\ history' # <<>> /\ history' \in Seq(Nat) /\ Len(history') = Len(history)
        /\ DOMAIN history' = DOMAIN history
        /\ \A i \in DOMAIN history : Since(i)' = Since(i)
        /\ Last' = IF Last >= GapCap THEN Last ELSE Last + 1
        /\ Last \in Nat
    BY <1>2, Older
  <2>2. Last' <= GapCap
    BY <1>2, <2>1, ReceiverAssumption DEF HistoryTypes, Bounded
  <2> QED
    BY <2>1, <2>2 DEF HistoryTypes, Bounded
<1> QED
  BY <1>1, <1>2

LEMMA HistoryReset == HistoryTypes /\ Reset => HistoryTypes'
BY ReceiverAssumption DEF HistoryTypes, Bounded, Reset, Last, Since

(* The average is at most what every interval is at most.                  *)
LEMMA AverageBounded ==
  ASSUME NEW h \in Seq(Nat), Len(h) >= 2, NEW g \in Nat,
         h[1] >= h[Len(h)], h[1] - h[Len(h)] <= (Len(h) - 1) * g
  PROVE  AverageOf(h) \in 0 .. g
<1>1. Len(h) - 1 \in Nat /\ Len(h) - 1 >= 1 /\ h[1] \in Nat /\ h[Len(h)] \in Nat
  OBVIOUS
<1>2. h[1] - h[Len(h)] \in Nat
  BY <1>1
<1>3. (h[1] - h[Len(h)]) \div (Len(h) - 1) \in 0 .. g
  BY <1>1, <1>2, AverageAtMost
<1> QED
  BY <1>3 DEF AverageOf, TotalOf

-----------------------------------------------------------------------------
(* Types, and the published tempo.                                         *)

TypeInv == EngineInv /\ ReceiverTypes /\ HistoryTypes /\ BpmInv

LEMMA SyncLoop == SyncCommand \subseteq LoopCommand
BY DEF SyncCommand, LoopCommand

LEMMA TypeInvOK == TypeInv => TypeOK
<1> SUFFICES ASSUME TypeInv PROVE TypeOK
  OBVIOUS
<1>1. EngineTypeOK
  <2>1. queue \in Seq(LoopCommand)
    <3>1. queue \in Seq(SyncCommand)
      BY DEF TypeInv, EngineInv
    <3> QED
      BY <3>1, SyncLoop
  <2>2. starting \in StartCommands \cup {"None", "Promoted"} /\ phase \in Phases
    BY DEF TypeInv, EngineInv, StartCommands, Phases
  <2> QED
    BY <2>1, <2>2 DEF TypeInv, EngineInv, EngineTypeOK
<1>2. history \in Seq(0 .. (Window + 1) * GapCap)
  <2>1. /\ history \in Seq(Nat) /\ Len(history) <= Window + 1 /\ Len(history) \in Nat
        /\ DOMAIN history = 1 .. Len(history)
        /\ GapCap \in Nat /\ Window \in Nat
    BY ReceiverAssumption DEF TypeInv, HistoryTypes
  <2>2. ASSUME NEW i \in DOMAIN history
        PROVE  history[i] \in 0 .. (Window + 1) * GapCap
    <3>1. /\ history[i] \in Nat /\ Last \in Nat /\ Last <= GapCap
          /\ history[i] - Last <= (Len(history) - i) * GapCap
      BY <2>1 DEF TypeInv, HistoryTypes, Bounded, Since, Last
    <3>2. ((Len(history) - i) + 1) * GapCap = (Len(history) - i) * GapCap + GapCap
      <4>1. Len(history) - i \in Nat
        BY <2>1
      <4> QED
        BY <2>1, <4>1, OneMore
    <3>3. ((Len(history) - i) + 1) * GapCap <= (Window + 1) * GapCap
      <4>1. /\ (Len(history) - i) + 1 <= Window + 1 /\ (Len(history) - i) + 1 \in Nat
            /\ Window + 1 \in Nat
        BY <2>1
      <4> QED
        BY <2>1, <4>1, LessTimes
    <3>4. (Len(history) - i) * GapCap \in Nat /\ (Window + 1) * GapCap \in Nat
      <4>1. Len(history) - i \in Nat
        BY <2>1
      <4> QED
        BY <2>1, <4>1
    <3> QED
      BY <2>1, <3>1, <3>2, <3>3, <3>4
  <2> QED
    BY <2>1, <2>2
<1>3. sending \in LoopCommand \cup {"None"}
  BY SyncLoop DEF TypeInv, ReceiverTypes
<1> QED
  BY <1>1, <1>2, <1>3 DEF TypeOK, TypeInv, ReceiverTypes, HistoryTypes

LEMMA InitTyped == Init => TypeInv
<1> SUFFICES ASSUME Init PROVE TypeInv
  OBVIOUS
<1>1. EngineInv
  BY DEF Init, EngineInit, EngineInv, EngineState
<1>2. ReceiverTypes /\ BpmInv
  <2>1. GapCap \in 0 .. GapCap
    BY ReceiverAssumption
  <2>2. relaying = None /\ inbox \in Seq(ClockMessage) /\ waited \in Nat /\ owed \in 0 .. 2
    BY DEF Init
  <2>3. sincePulse \in 0 .. GapCap /\ bpm \in 0 .. GapCap \cup {None}
    BY <2>1 DEF Init
  <2>4. raced \in BOOLEAN /\ fresh \in BOOLEAN /\ unclocked \in BOOLEAN
    BY DEF Init
  <2> QED
    BY <2>2, <2>3, <2>4 DEF Init, ReceiverTypes, SyncClockState, BpmInv
<1>3. HistoryTypes
  BY ReceiverAssumption DEF Init, HistoryTypes, Bounded
<1> QED
  BY <1>1, <1>2, <1>3 DEF TypeInv

LEMMA EngineSame == EngineInv /\ UNCHANGED engineVars => EngineInv'
BY DEF EngineInv, engineVars

LEMMA SentTypes == TypeInv => Sent \in Seq(ClockMessage)
BY Appended DEF TypeInv, ReceiverTypes, Sent

LEMMA TailAppended ==
  ASSUME NEW S, NEW s \in Seq(S), s # <<>>, NEW x \in S
  PROVE  Tail(Append(s, x)) = Append(Tail(s), x) /\ Head(Append(s, x)) = Head(s)
OBVIOUS

(* What reading a message does, whichever it is.                           *)
LEMMA Received ==
  ASSUME TypeInv, NEW m, Receive(m)
  PROVE  /\ step = "Receive" /\ sending = "None" /\ m \in ClockMessage
         /\ Sent # <<>> /\ Sent[1] = m /\ 1 \in DOMAIN Sent
         /\ Sent' \in Seq(ClockMessage) /\ Len(Sent') = Len(Sent) - 1
         /\ DOMAIN Sent = 1 .. Len(Sent) /\ DOMAIN Sent' = 1 .. Len(Sent')
         /\ Len(Sent) \in Nat /\ Len(Sent') \in Nat
         /\ \A i \in DOMAIN Sent' : Sent'[i] = Sent[i + 1] /\ i + 1 \in DOMAIN Sent
         /\ waited' = 0
         /\ relaying' = relaying /\ inbox' \in Seq(ClockMessage)
         /\ UNCHANGED <<engineVars, deviceVars, downstream, raced>>
<1>1. Sent \in Seq(ClockMessage) /\ step = "Receive" /\ sending = "None"
  BY SentTypes DEF TypeInv, ReceiverTypes, Receive
<1>0. /\ inbox # <<>> /\ Head(inbox) = m /\ inbox' = Tail(inbox) /\ relaying' = relaying
      /\ inbox \in Seq(ClockMessage) /\ relaying \in ClockMessage \cup {None}
      /\ inbox' \in Seq(ClockMessage)
  BY Popped DEF Receive, TypeInv, ReceiverTypes
<1>2. Sent # <<>> /\ Head(Sent) = m /\ Sent' = Tail(Sent)
  <2>1. CASE relaying = None
    BY <1>0, <2>1 DEF Sent
  <2>2. CASE relaying # None
    <3>1. Sent = Append(inbox, relaying) /\ Sent' = Append(Tail(inbox), relaying)
      BY <1>0, <2>2 DEF Sent
    <3>2. relaying \in ClockMessage
      BY <1>0, <2>2
    <3> QED
      BY <1>0, <3>1, <3>2, TailAppended, Appended
  <2> QED
    BY <2>1, <2>2
<1>3. /\ Tail(Sent) \in Seq(ClockMessage) /\ Head(Sent) \in ClockMessage
      /\ Head(Sent) = Sent[1] /\ 1 \in DOMAIN Sent
      /\ DOMAIN Tail(Sent) = 1 .. (Len(Sent) - 1) /\ Len(Tail(Sent)) = Len(Sent) - 1
      /\ \A i \in DOMAIN Tail(Sent) : Tail(Sent)[i] = Sent[i + 1] /\ i + 1 \in DOMAIN Sent
      /\ DOMAIN Sent = 1 .. Len(Sent) /\ Len(Sent) \in Nat
  BY <1>1, <1>2, Popped
<1>4. Len(Sent') \in Nat
  BY <1>2, <1>3
<1> QED
  BY <1>0, <1>1, <1>2, <1>3, <1>4 DEF Receive, outputVars

(* What the device's sending one does.                                     *)
LEMMA Relayed ==
  ASSUME TypeInv, NEW m \in ClockMessage, Relay(m)
  PROVE  /\ Sent' \in Seq(ClockMessage) /\ Len(Sent') = Len(Sent) + 1
         /\ DOMAIN Sent = 1 .. Len(Sent) /\ DOMAIN Sent' = 1 .. (Len(Sent) + 1)
         /\ Len(Sent) \in Nat
         /\ \A i \in DOMAIN Sent : Sent'[i] = Sent[i]
         /\ Sent'[Len(Sent) + 1] = m
         /\ Sent' # <<>>
         /\ inbox' = inbox /\ relaying' = m
         /\ UNCHANGED <<engineVars, history, waited, clockState, bpm, step, sending, unclocked>>
<1>1. Sent \in Seq(ClockMessage) /\ Sent' = Append(Sent, m)
  <2>1. relaying = None /\ relaying' = m /\ inbox' = inbox
    BY DEF Relay
  <2>2. m # None
    BY ReceiverAssumption
  <2> QED
    BY <2>1, <2>2, SentTypes DEF Sent
<1> QED
  BY <1>1, Appended DEF Relay, receiverVars

DevicePart(m) ==
  \/ m = "Pulse" /\ DevicePulse
  \/ m = "Start" /\ DeviceStart
  \/ m = "Continue" /\ DeviceContinue
  \/ m = "Stop" /\ DeviceStop
  \/ m = "SongPosition" /\ DeviceLocate

LEMMA DeviceParts ==
  DeviceStep => DeviceSilent \/ \E m \in ClockMessage : DevicePart(m) /\ Relay(m)
BY DEF DeviceStep, DevicePart, ClockMessage, DevicePulse, DeviceStart, DeviceContinue,
       DeviceStop, DeviceLocate

LEMMA DeviceTyped == TypeInv /\ DeviceStep => TypeInv'
<1> SUFFICES ASSUME TypeInv, DeviceStep PROVE TypeInv'
  OBVIOUS
<1>1. CASE DeviceSilent
  <2>1. /\ UNCHANGED <<engineVars, relaying, inbox, history, waited, receiverVars>>
        /\ UNCHANGED <<downstream, raced>>
        /\ UNCHANGED <<sincePulse, owed>> /\ device' = "off" /\ fresh' = FALSE
    BY <1>1 DEF DeviceSilent, outputVars
  <2>2. EngineInv'
    BY <2>1, EngineSame DEF TypeInv
  <2>3. ReceiverTypes'
    BY <2>1 DEF TypeInv, ReceiverTypes, receiverVars
  <2>4. HistoryTypes' /\ BpmInv'
    BY <2>1 DEF TypeInv, HistoryTypes, Bounded, Last, Since, BpmInv, Established, receiverVars
  <2> QED
    BY <2>2, <2>3, <2>4 DEF TypeInv
<1>2. ASSUME NEW m \in ClockMessage, DevicePart(m), Relay(m)
      PROVE  TypeInv'
  <2>1. /\ inbox' = inbox /\ relaying' \in ClockMessage
        /\ UNCHANGED <<engineVars, history, waited, clockState, bpm, step, sending, unclocked>>
    BY <1>2, Relayed
  <2>2. /\ device' \in {"off", "pulsing"}
        /\ sincePulse' \in 0 .. GapCap /\ owed' \in 0 .. 2 /\ fresh' \in BOOLEAN
    <3>1. /\ device \in {"off", "pulsing"} /\ fresh \in BOOLEAN
          /\ sincePulse \in 0 .. GapCap /\ owed \in 0 .. 2 /\ 0 \in 0 .. GapCap
      BY ReceiverAssumption DEF TypeInv, ReceiverTypes
    <3>2. CASE DevicePulse
      BY <3>1, <3>2 DEF DevicePulse
    <3>3. CASE DeviceStart
      <4>1. owed' = 0 \/ owed' = 2
        BY <3>3, Zenon DEF DeviceStart
      <4>2. UNCHANGED <<device, sincePulse>> /\ fresh' = TRUE
        BY <3>3 DEF DeviceStart
      <4> QED
        BY <3>1, <4>1, <4>2
    <3>4. CASE DeviceContinue \/ DeviceStop \/ DeviceLocate
      BY <3>1, <3>4 DEF DeviceContinue, DeviceStop, DeviceLocate, deviceVars
    <3> QED
      BY <1>2, <3>2, <3>3, <3>4 DEF DevicePart
  <2>3. downstream' \in {"stopped", "rolling"} /\ raced' \in BOOLEAN
    BY <1>2 DEF TypeInv, ReceiverTypes, Relay, Losing
  <2> QED
    BY <2>1, <2>2, <2>3, EngineSame
       DEF TypeInv, ReceiverTypes, HistoryTypes, Bounded, Last, Since, BpmInv, Established
<1> QED
  BY <1>1, <1>2, DeviceParts

LEMMA AverageUpdated ==
  ASSUME HistoryTypes', Len(history') >= 2, NEW g \in Nat, Bounded(g)'
  PROVE  AverageOf(history') \in 0 .. g
<1>1. history' \in Seq(Nat) /\ 1 \in DOMAIN history'
  BY DEF HistoryTypes
<1>2. history'[1] - history'[Len(history')] >= 0
  BY <1>1 DEF HistoryTypes, Since, Last
<1>3. history'[1] - history'[Len(history')] <= (Len(history') - 1) * g
  BY <1>1 DEF Bounded, Since, Last
<1>4. history'[1] \in Nat /\ history'[Len(history')] \in Nat
  BY <1>1
<1>5. history'[1] >= history'[Len(history')]
  BY <1>2, <1>4
<1> QED
  BY <1>1, <1>3, <1>5, AverageBounded

LEMMA PulseTyped == TypeInv /\ ReceivePulse => TypeInv'
<1> SUFFICES ASSUME TypeInv, ReceivePulse PROVE TypeInv'
  OBVIOUS
<1>1. /\ step = "Receive" /\ sending = "None" /\ inbox' \in Seq(ClockMessage) /\ waited' = 0
      /\ relaying' = relaying
      /\ UNCHANGED <<engineVars, deviceVars, downstream, raced>>
  BY Received DEF ReceivePulse
<1>2. Update /\ clockState' = "Tracking" /\ unclocked' = FALSE
  BY DEF ReceivePulse
<1>3. HistoryTypes'
  BY <1>2, HistoryUpdated DEF TypeInv
<1>4. Len(history') >= 2 => AverageOf(history') \in 0 .. GapCap
  BY <1>3, AverageUpdated, ReceiverAssumption DEF HistoryTypes
<1>5. Established => Len(history') >= 2
  <2> SUFFICES ASSUME Established PROVE Len(history') >= 2
    OBVIOUS
  <2>1. \E d \in {0, 1} : /\ d = 1 => Len(history) = Window + 1
                          /\ Len(history') = Len(history) + 1 - d
                          /\ Len(history) \in Nat
    BY <1>2, Extended DEF TypeInv
  <2> QED
    BY <2>1 DEF Established
<1>6. CASE Len(history') < 2 \/ ~(AverageOf(history') > 0)
  <2>1. UNCHANGED <<bpm, step, sending>>
    BY <1>6 DEF ReceivePulse, Nothing
  <2>2. bpm # None => Established'
    BY <1>5 DEF TypeInv, BpmInv, Established
  <2> QED
    BY <1>1, <1>2, <1>3, <2>1, <2>2, EngineSame
       DEF TypeInv, ReceiverTypes, deviceVars, SyncClockState, BpmInv
<1>7. CASE ~(Len(history') < 2) /\ AverageOf(history') > 0
  <2>1. bpm' = AverageOf(history') /\ step' = "Send" /\ sending' = "SyncBpmUpdate"
    BY <1>7 DEF ReceivePulse, ToEngine
  <2>2. Len(history') >= 2
    BY <1>3, <1>7 DEF HistoryTypes, Bounded
  <2> QED
    BY <1>1, <1>2, <1>3, <1>4, <2>1, <2>2, EngineSame
       DEF TypeInv, ReceiverTypes, deviceVars, SyncClockState, BpmInv, Established, SyncCommand
<1> QED
  BY <1>6, <1>7

LEMMA OthersTyped ==
  TypeInv /\ (ReceiveStart \/ ReceiveContinue \/ ReceiveStop \/ ReceiveLocate) => TypeInv'
<1> SUFFICES ASSUME TypeInv,
                    ReceiveStart \/ ReceiveContinue \/ ReceiveStop \/ ReceiveLocate
             PROVE  TypeInv'
  OBVIOUS
<1>1. /\ step = "Receive" /\ sending = "None" /\ inbox' \in Seq(ClockMessage) /\ waited' = 0
      /\ relaying' = relaying
      /\ UNCHANGED <<engineVars, deviceVars, downstream, raced>>
  BY Received DEF ReceiveStart, ReceiveContinue, ReceiveStop, ReceiveLocate
<1>2. EngineInv'
  BY <1>1, EngineSame DEF TypeInv
<1>3. HistoryTypes'
  <2>1. Reset => HistoryTypes'
    BY HistoryReset DEF TypeInv
  <2>2. UNCHANGED history => HistoryTypes'
    BY DEF TypeInv, HistoryTypes, Bounded, Last, Since
  <2> QED
    BY <2>1, <2>2 DEF ReceiveStart, ReceiveContinue, ReceiveStop, ReceiveLocate
<1> USE DEF TypeInv, ReceiverTypes, BpmInv, Established, SyncCommand, SyncClockState,
            deviceVars, ToEngine
<1>4. CASE ReceiveStart
  BY <1>1, <1>2, <1>3, <1>4 DEF ReceiveStart
<1>5. CASE ReceiveContinue
  <2>1. /\ UNCHANGED <<history, clockState, bpm>> /\ unclocked' \in BOOLEAN
        /\ (step' = "Send" /\ sending' = "SyncContinue") \/ UNCHANGED <<step, sending>>
    BY <1>5 DEF ReceiveContinue, Nothing
  <2> QED
    BY <1>1, <1>2, <1>3, <2>1
<1>6. CASE ReceiveStop
  BY <1>1, <1>2, <1>3, <1>6 DEF ReceiveStop
<1>7. CASE ReceiveLocate
  BY <1>1, <1>2, <1>3, <1>7 DEF ReceiveLocate
<1> QED
  BY <1>4, <1>5, <1>6, <1>7

LEMMA TimeoutTyped == TypeInv /\ ReceiveTimeout => TypeInv'
<1> SUFFICES ASSUME TypeInv, ReceiveTimeout PROVE TypeInv'
  OBVIOUS
<1>1. /\ step = "Receive" /\ waited' = 0
      /\ UNCHANGED <<engineVars, deviceVars, relaying, inbox, history, downstream, unclocked>>
      /\ \/ clockState' = "Lost" /\ bpm' = None /\ step' = "Send" /\ sending' = "SyncStop"
         \/ UNCHANGED <<clockState, bpm, step, sending>>
      /\ raced' \in BOOLEAN
  BY DEF ReceiveTimeout, ToEngine, receiverVars, TypeInv, ReceiverTypes
<1>2. EngineInv' /\ HistoryTypes'
  BY <1>1, EngineSame DEF TypeInv, HistoryTypes, Bounded, Last, Since
<1>3. ReceiverTypes'
  BY <1>1 DEF TypeInv, ReceiverTypes, deviceVars, SyncClockState, SyncCommand
<1>4. BpmInv'
  BY <1>1 DEF TypeInv, BpmInv, Established
<1> QED
  BY <1>2, <1>3, <1>4 DEF TypeInv

LEMMA SentTyped == TypeInv /\ (SendToEngine \/ ForwardStop) => TypeInv'
<1> SUFFICES ASSUME TypeInv, SendToEngine \/ ForwardStop PROVE TypeInv'
  OBVIOUS
<1>1. /\ UNCHANGED <<deviceVars, relaying, inbox, history, waited, clockState, bpm, raced>>
      /\ UNCHANGED unclocked
      /\ sending' = "None"
      /\ step' \in {"Receive", "ForwardStop"}
      /\ step' = "ForwardStop" => clockState = "Lost"
      /\ downstream' \in {"stopped", "rolling"}
  BY DEF SendToEngine, ForwardStop, TypeInv, ReceiverTypes, outputVars
<1>2. EngineInv'
  <2>1. CASE SendToEngine
    <3>1. sending \in SyncCommand /\ Send(sending)
      BY <2>1 DEF SendToEngine, TypeInv, ReceiverTypes
    <3> QED
      BY <3>1, SendKept DEF TypeInv
  <2>2. CASE ForwardStop
    BY <2>2, EngineSame DEF ForwardStop, TypeInv
  <2> QED
    BY <2>1, <2>2
<1>3. ReceiverTypes'
  BY <1>1 DEF TypeInv, ReceiverTypes, deviceVars
<1>4. HistoryTypes' /\ BpmInv'
  BY <1>1 DEF TypeInv, HistoryTypes, Bounded, Last, Since, BpmInv, Established
<1> QED
  BY <1>2, <1>3, <1>4 DEF TypeInv

LEMMA PlayerTyped == TypeInv /\ (PlayerThread \/ LoadProject) => TypeInv'
<1> SUFFICES ASSUME TypeInv, PlayerThread \/ LoadProject PROVE TypeInv'
  OBVIOUS
<1>1. UNCHANGED <<deviceVars, relaying, inbox, history, waited, receiverVars, outputVars>>
  BY DEF PlayerThread, LoadProject
<1>2. EngineInv'
  BY EngineKept, StoreKept DEF PlayerThread, LoadProject, TypeInv
<1>3. ReceiverTypes'
  BY <1>1 DEF TypeInv, ReceiverTypes, deviceVars, receiverVars, outputVars
<1>4. HistoryTypes' /\ BpmInv'
  BY <1>1 DEF TypeInv, HistoryTypes, Bounded, Last, Since, BpmInv, Established, receiverVars
<1> QED
  BY <1>2, <1>3, <1>4 DEF TypeInv

LEMMA TickTyped == TypeInv /\ Tick => TypeInv'
<1> SUFFICES ASSUME TypeInv, Tick PROVE TypeInv'
  OBVIOUS
<1>1. /\ UNCHANGED <<engineVars, device, owed, fresh, relaying, inbox, receiverVars>>
      /\ UNCHANGED outputVars
      /\ history' = Aged(history) /\ waited' = waited + 1 /\ sincePulse' = CapAt(sincePulse + 1)
  BY DEF Tick
<1>2. EngineInv' /\ HistoryTypes'
  BY <1>1, EngineSame, HistoryAged DEF TypeInv
<1>3. sincePulse' \in 0 .. GapCap
  BY <1>1, ReceiverAssumption DEF CapAt, TypeInv, ReceiverTypes
<1>4. ReceiverTypes'
  BY <1>1, <1>3 DEF TypeInv, ReceiverTypes, receiverVars, outputVars
<1>5. Established => Established'
  <2>1. CASE history = <<>>
    BY <2>1 DEF Established
  <2>2. CASE history # <<>>
    BY <1>1, <2>2, Older DEF TypeInv, Established
  <2> QED
    BY <2>1, <2>2
<1>6. BpmInv'
  BY <1>1, <1>5 DEF TypeInv, BpmInv, receiverVars
<1> QED
  BY <1>2, <1>4, <1>6 DEF TypeInv

LEMMA DeliverTyped == TypeInv /\ Deliver => TypeInv'
<1> SUFFICES ASSUME TypeInv, Deliver PROVE TypeInv'
  OBVIOUS
<1>1. /\ relaying' = None /\ inbox' \in Seq(ClockMessage)
      /\ UNCHANGED <<engineVars, deviceVars, history, waited, receiverVars, outputVars>>
  BY Appended DEF Deliver, TypeInv, ReceiverTypes
<1>2. EngineInv'
  BY <1>1, EngineSame DEF TypeInv
<1>3. ReceiverTypes'
  BY <1>1 DEF TypeInv, ReceiverTypes, deviceVars, receiverVars, outputVars
<1>4. HistoryTypes' /\ BpmInv'
  BY <1>1 DEF TypeInv, HistoryTypes, Bounded, Last, Since, BpmInv, Established, receiverVars
<1> QED
  BY <1>2, <1>3, <1>4 DEF TypeInv

LEMMA StutterTyped == TypeInv /\ UNCHANGED vars => TypeInv'
<1> SUFFICES ASSUME TypeInv, UNCHANGED vars PROVE TypeInv'
  OBVIOUS
<1>1. EngineInv'
  BY EngineSame DEF vars, TypeInv
<1>2. ReceiverTypes'
  BY DEF vars, TypeInv, ReceiverTypes, deviceVars, receiverVars, outputVars
<1>3. HistoryTypes' /\ BpmInv'
  BY DEF vars, TypeInv, HistoryTypes, Bounded, Last, Since, BpmInv, Established, receiverVars
<1> QED
  BY <1>1, <1>2, <1>3 DEF TypeInv

LEMMA TypeKept == TypeInv /\ [Next]_vars => TypeInv'
BY DeviceTyped, DeliverTyped, PulseTyped, OthersTyped, TimeoutTyped, SentTyped, PlayerTyped,
   TickTyped, StutterTyped
   DEF Next, ReceiverStep

LEMMA TypeAlways == Spec => []TypeInv
<1> QED
  BY InitTyped, TypeKept, PTL DEF Spec

(* The receiver, the callback, the tracker and the player keep the types   *)
(* of their variables: the tracker holds Window + 1 pulses at most, and    *)
(* the tempo is one that intervals of the clock can have.                  *)
THEOREM TypeCorrect == Spec => []TypeOK
<1> QED
  BY TypeAlways, TypeInvOK, PTL

(* A tempo is published only while the clock is tracked and two pulses at  *)
(* least have come since the last Start: bpm is cleared by a Start, a Stop *)
(* and a timeout, and nothing takes pulses away but a Start.               *)
THEOREM TempoOfLiveClock == Spec => []BpmOnlyWhileTracking
<1>1. TypeInv => BpmOnlyWhileTracking
  BY DEF TypeInv, BpmInv, BpmOnlyWhileTracking
<1> QED
  BY <1>1, TypeAlways, PTL

-----------------------------------------------------------------------------
(* How close the pulses in the history can be.                             *)

LEMMA SpacedUpdated ==
  ASSUME HistoryTypes, Spaced, Update,
         history # <<>> => Last >= Long \/ (Last >= Short /\ LastLong)
  PROVE  Spaced' /\ (history # <<>> /\ Last >= Long => LastLong')
<1> DEFINE n == Len(history)
<1>1. PICK d \in {0, 1}, m \in Nat :
        /\ m = Len(history')
        /\ d = 1 => n = Window + 1
        /\ history' \in Seq(Nat) /\ m = n + 1 - d
        /\ m <= Window + 1 /\ m >= 1
        /\ DOMAIN history = 1 .. n /\ DOMAIN history' = 1 .. m
        /\ n \in Nat /\ (history # <<>> <=> n >= 1)
        /\ Last' = 0
        /\ \A i \in DOMAIN history' : Since(i)' = history'[i]
        /\ \A i \in 1 .. (m - 1) : i + d \in DOMAIN history /\ history'[i] = history[i + d]
  <2>1. Len(history') \in Nat
    BY Extended
  <2> QED
    BY <2>1, Extended
<1>0. m \in Nat /\ d \in Nat
  BY <1>1
<1> HIDE DEF n
<1>2. Long \in Nat /\ Short \in Nat /\ Window \in Nat /\ Short >= 1 /\ Short < Long /\ Window >= 2
  BY ReceiverAssumption
<1>3. ASSUME NEW i \in 1 .. (m - 1)
      PROVE  /\ i + d \in 1 .. n /\ n >= 1 /\ history # <<>>
             /\ Since(i)' = Since(i + d) + Last
             /\ Since(i + d) \in Nat /\ Last \in Nat
             /\ i + d = n => Since(i + d) = 0
             /\ m - i = (n - (i + d)) + 1
  <2>1. i \in DOMAIN history' /\ i + d \in DOMAIN history
    BY <1>0, <1>1
  <2>2. history # <<>> /\ Since(i)' = history[i + d]
    BY <1>0, <1>1, <2>1
  <2>3. history[i + d] \in Nat /\ Last \in Nat /\ Since(i + d) >= 0
    BY <2>1, <2>2 DEF HistoryTypes, Last
  <2>4. i + d \in 1 .. n /\ m - i = (n - (i + d)) + 1
    BY <1>0, <1>1, <2>1
  <2>5. Since(i + d) = history[i + d] - Last
    BY DEF Since
  <2>6. i + d = n => history[i + d] = Last
    BY DEF Last, n
  <2>7. Since(i)' = Since(i + d) + Last /\ Since(i + d) \in Nat
    BY <2>2, <2>3, <2>5
  <2>8. i + d = n => Since(i + d) = 0
    BY <2>3, <2>5, <2>6
  <2>9. n >= 1
    BY <1>1, <2>2
  <2> QED
    BY <2>2, <2>3, <2>4, <2>7, <2>8, <2>9
<1>4. m >= 2 => m - 1 \in 1 .. (m - 1) /\ m \in Nat
  BY <1>0, <1>1
<1>5. m >= 2 => (Since(m - 1)' = Last /\ Last \in Nat /\ history # <<>>)
  <2> SUFFICES ASSUME m >= 2 PROVE Since(m - 1)' = Last /\ Last \in Nat /\ history # <<>>
    OBVIOUS
  <2>1. (m - 1) + d = n
    BY <1>0, <1>1
  <2>2. Since(m - 1)' = Since((m - 1) + d) + Last /\ Since((m - 1) + d) = 0 /\ Last \in Nat
        /\ history # <<>>
    BY <1>3, <1>4, <2>1
  <2> QED
    BY <2>2
<1>6. LastLong' <=> m >= 2 /\ Last >= Long
  BY <1>1, <1>5 DEF LastLong, n
<1>7. history # <<>> /\ Last >= Long => LastLong'
  BY <1>0, <1>1, <1>2, <1>6
<1>8. ASSUME NEW i \in 1 .. (m - 1)
      PROVE  /\ 2 * Since(i)' >= (m - i - 1) * Long + 2 * Short
             /\ LastLong' => 2 * Since(i)' >= (m - i) * Long
  <2> DEFINE k == i + d
  <2>1. /\ k \in 1 .. n /\ n >= 1 /\ history # <<>>
        /\ Since(i)' = Since(k) + Last
        /\ Since(k) \in Nat /\ Last \in Nat
        /\ k = n => Since(k) = 0
        /\ m - i = (n - k) + 1 /\ m - i - 1 = n - k
    <3>1. i + d \in 1 .. n /\ m - i = (n - (i + d)) + 1
      BY <1>3
    <3>2. m - i - 1 = n - (i + d)
      BY <1>0, <1>1, <3>1
    <3> QED
      BY <1>3, <3>1, <3>2
  <2>2. LastLong' => Last >= Long
    BY <1>6
  <2> HIDE DEF k
  <2>3. CASE k = n
    <3>1. (n - k) * Long = 0 /\ ((n - k) + 1) * Long = Long
      BY <1>2, <2>1, <2>3
    <3>2. Since(i)' = Last
      BY <2>1, <2>3
    <3>3. (m - i - 1) * Long = 0 /\ (m - i) * Long = Long
      BY <2>1, <3>1
    <3> QED
      BY <1>2, <2>1, <2>2, <3>2, <3>3, history # <<>> => Last >= Short
  <2>4. CASE k # n
    <3>1. k \in 1 .. (n - 1) /\ n - k - 1 \in Nat /\ n - k \in Nat
      BY <1>0, <1>1, <2>1, <2>4
    <3>2. /\ 2 * Since(k) >= (n - k - 1) * Long + 2 * Short
          /\ LastLong => 2 * Since(k) >= (n - k) * Long
      BY <3>1 DEF Spaced, n
    <3>3. (n - k) * Long = (n - k - 1) * Long + Long
      <4>1. n - k = (n - k - 1) + 1
        BY <3>1
      <4> QED
        BY <1>2, <3>1, <4>1, OneMore
    <3>4. ((n - k) + 1) * Long = (n - k) * Long + Long
      BY <1>2, <3>1, OneMore
    <3>5. (n - k - 1) * Long \in Nat
      BY <1>2, <3>1
    <3>6. 2 * Since(k) + 2 * Last = 2 * Since(i)'
      BY <2>1
    <3>7. Last >= Long \/ (Last >= Short /\ LastLong)
      BY <2>1
    <3> DEFINE q == (n - k - 1) * Long
    <3> HIDE DEF q
    <3>8. /\ (n - k) * Long = q + Long /\ ((n - k) + 1) * Long = q + Long + Long /\ q \in Nat
          /\ 2 * Since(k) >= q + 2 * Short /\ (LastLong => 2 * Since(k) >= q + Long)
      BY <3>2, <3>3, <3>4, <3>5 DEF q
    <3> DEFINE a == Since(k)
               b == Since(i)'
    <3>11. a \in Nat /\ b \in Nat /\ Last \in Nat /\ Long \in Nat /\ Short \in Nat
      BY <1>2, <2>1
    <3>12. /\ 2 * a >= q + 2 * Short /\ (LastLong => 2 * a >= q + Long)
           /\ 2 * a + 2 * Last = 2 * b
      BY <3>6, <3>8
    <3> HIDE DEF a, b
    <3>13. 2 * b >= (q + Long) + 2 * Short
      BY <3>7, <3>8, <3>11, <3>12
    <3>9. 2 * Since(i)' >= (n - k) * Long + 2 * Short
      BY <3>8, <3>13 DEF b
    <3>10. LastLong' => 2 * Since(i)' >= ((n - k) + 1) * Long
      BY <1>2, <2>1, <2>2, <3>6, <3>8
    <3> QED
      BY <2>1, <3>9, <3>10
  <2> QED
    BY <2>3, <2>4
<1>9. m = 2 => LastLong'
  <2> SUFFICES ASSUME m = 2 PROVE LastLong'
    OBVIOUS
  <2>1. n = 1
    BY <1>0, <1>1, <1>2
  <2>2. ~LastLong
    BY <2>1 DEF LastLong, n
  <2> QED
    BY <1>0, <1>1, <1>7, <2>1, <2>2
<1>10. m >= 3 => Since(m - 2)' >= Long + Short
  <2> SUFFICES ASSUME m >= 3 PROVE Since(m - 2)' >= Long + Short
    OBVIOUS
  <2>1. m - 2 \in 1 .. (m - 1) /\ (m - 2) + d = n - 1 /\ n - 1 \in 1 .. (n - 1)
    BY <1>0, <1>1
  <2>2. Since(m - 2)' = Since(n - 1) + Last /\ Since(n - 1) \in Nat /\ Last \in Nat
        /\ history # <<>>
    BY <1>3, <2>1
  <2>3. 2 * Since(n - 1) >= (n - (n - 1) - 1) * Long + 2 * Short
    BY <2>1 DEF Spaced, n
  <2>4. (n - (n - 1) - 1) * Long = 0
    BY <1>0, <1>1, <1>2
  <2>5. LastLong => Since(n - 1) >= Long
    BY DEF LastLong, n
  <2>6. Since(n - 1) >= Short
    BY <1>2, <2>2, <2>3, <2>4
  <2> QED
    BY <1>2, <2>2, <2>5, <2>6
<1> QED
  BY <1>1, <1>7, <1>8, <1>9, <1>10 DEF Spaced, n

LEMMA SpacedSame == Spaced /\ UNCHANGED history => Spaced' /\ LastLong' = LastLong
BY DEF Spaced, LastLong, Since, Last

LEMMA SpacedReset == HistoryTypes /\ Reset => Spaced'
BY DEF Reset, Spaced, LastLong

LEMMA SpacedAged ==
  HistoryTypes /\ Spaced /\ history' = Aged(history) => Spaced' /\ LastLong' = LastLong
<1> SUFFICES ASSUME HistoryTypes, Spaced, history' = Aged(history)
             PROVE  Spaced' /\ LastLong' = LastLong
  OBVIOUS
<1>1. CASE history = <<>>
  BY <1>1, SpacedSame DEF Aged
<1>2. CASE history # <<>>
  <2>1. /\ Len(history') = Len(history) /\ Len(history) \in Nat
        /\ \A i \in 1 .. Len(history) : Since(i)' = Since(i)
    BY <1>2, Older DEF HistoryTypes
  <2>2. LastLong' = LastLong
    BY <2>1 DEF LastLong
  <2>3. \A i \in 1 .. (Len(history) - 1) : Since(i)' = Since(i)
    BY <2>1
  <2>4. Len(history) >= 3 => Since(Len(history) - 2)' = Since(Len(history) - 2)
    BY <2>1
  <2> QED
    BY <2>1, <2>2, <2>3, <2>4 DEF Spaced
<1> QED
  BY <1>1, <1>2

LEMMA AtLeast ==
  ASSUME NEW a \in Nat, NEW b \in Nat, b >= 1, NEW c \in Nat, a >= b * c
  PROVE  a \div b >= c
BY Z3

(* The margin: one short interval, or one in two, does not bring the       *)
(* timeout down to the interval of a device that is on time.               *)
LEMMA TimeoutLong ==
  ASSUME HistoryTypes, Spaced
  PROVE  TimeoutDuration \in Nat /\ TimeoutDuration > Long
<1> DEFINE n == Len(history)
           t == TotalOf(history)
<1>1. Long \in Nat /\ Short \in Nat /\ Short >= 1 /\ Short < Long /\ FirstTimeout \in Nat
      /\ Long < FirstTimeout
  BY ReceiverAssumption
<1>2. CASE ~Established
  BY <1>1, <1>2 DEF TimeoutDuration
<1>3. CASE Established
  <2>1. n \in Nat /\ n >= 2 /\ t = Since(1) /\ t \in Nat
    <3>1. history \in Seq(Nat) /\ n \in Nat /\ n >= 2 /\ 1 \in DOMAIN history
      BY <1>3 DEF HistoryTypes, Established
    <3>2. history[1] \in Nat /\ history[n] \in Nat /\ Since(1) >= 0
      BY <3>1 DEF HistoryTypes
    <3> QED
      BY <3>1, <3>2 DEF TotalOf, Since, Last
  <2>2. /\ 2 * t >= (n - 1 - 1) * Long + 2 * Short
        /\ n = 2 => t >= Long
        /\ n = 3 => t >= Long + Short
    <3>1. 2 * t >= (n - 1 - 1) * Long + 2 * Short
      BY <2>1 DEF Spaced
    <3>2. ASSUME n = 2 PROVE t >= Long
      <4>1. Since(n - 1) >= Long /\ n - 1 = 1
        BY <3>2 DEF Spaced, LastLong
      <4> QED
        BY <2>1, <4>1
    <3>3. ASSUME n = 3 PROVE t >= Long + Short
      <4>1. Since(n - 2) >= Long + Short /\ n - 2 = 1
        BY <3>3 DEF Spaced
      <4> QED
        BY <2>1, <4>1
    <3> QED
      BY <3>1, <3>2, <3>3
  <2> HIDE DEF n, t
  <2>3. 7 * t >= (2 * (n - 1)) * (Long + 1)
    <3>1. CASE n = 2
      BY <1>1, <2>1, <2>2, <3>1
    <3>2. CASE n = 3
      BY <1>1, <2>1, <2>2, <3>2
    <3>3. CASE n >= 4
      <4> DEFINE k == n - 4
      <4>1. k \in Nat /\ n = k + 4
        BY <2>1, <3>3
      <4> HIDE DEF k
      <4>2. (n - 1 - 1) * Long = k * Long + 2 * Long
        BY <1>1, <4>1, Z3
      <4>3. (2 * (n - 1)) * (Long + 1) = 2 * (k * Long) + 2 * k + 6 * Long + 6
        BY <1>1, <4>1, Z3
      <4>4. k * Long >= 2 * k /\ k * Long \in Nat
        BY <1>1, <4>1, Z3
      <4> QED
        BY <1>1, <2>1, <2>2, <4>1, <4>2, <4>3, <4>4
    <3> QED
      BY <2>1, <3>1, <3>2, <3>3
  <2>4. (7 * t) \div (2 * (n - 1)) >= Long + 1
    <3>1. 7 * t \in Nat /\ 2 * (n - 1) \in Nat /\ 2 * (n - 1) >= 1 /\ Long + 1 \in Nat
      BY <1>1, <2>1
    <3> QED
      BY <2>3, <3>1, AtLeast
  <2>5. TimeoutDuration = (7 * t) \div (2 * (n - 1))
    BY <1>3 DEF TimeoutDuration, n, t
  <2>6. (7 * t) \div (2 * (n - 1)) \in Nat
    BY <2>1
  <2> QED
    BY <1>1, <2>4, <2>5, <2>6
<1> QED
  BY <1>2, <1>3

-----------------------------------------------------------------------------
(* The device and its pulse.                                               *)

LEMMA RelayedWay ==
  ASSUME TypeInv, NEW m \in ClockMessage, Relay(m), NEW k
  PROVE  OnItsWay(k)' <=> OnItsWay(k) \/ k = m
<1>1. /\ DOMAIN Sent = 1 .. Len(Sent) /\ DOMAIN Sent' = 1 .. (Len(Sent) + 1)
      /\ Len(Sent) \in Nat
      /\ \A i \in DOMAIN Sent : Sent'[i] = Sent[i]
      /\ Sent'[Len(Sent) + 1] = m
  BY Relayed
<1>2. Len(Sent) + 1 \in DOMAIN Sent' /\ DOMAIN Sent \subseteq DOMAIN Sent'
  BY <1>1
<1>3. \A i \in DOMAIN Sent' : i \in DOMAIN Sent \/ i = Len(Sent) + 1
  BY <1>1
<1> QED
  BY <1>1, <1>2, <1>3 DEF OnItsWay

LEMMA ReceivedWay ==
  ASSUME TypeInv, NEW m, Receive(m), NEW k
  PROVE  /\ OnItsWay(m)
         /\ OnItsWay(k)' => OnItsWay(k)
         /\ k # m /\ OnItsWay(k) => OnItsWay(k)'
<1>1. /\ Sent[1] = m /\ 1 \in DOMAIN Sent
      /\ DOMAIN Sent = 1 .. Len(Sent) /\ DOMAIN Sent' = 1 .. Len(Sent')
      /\ Len(Sent') = Len(Sent) - 1
      /\ Len(Sent) \in Nat /\ Len(Sent') \in Nat
      /\ \A i \in DOMAIN Sent' : Sent'[i] = Sent[i + 1] /\ i + 1 \in DOMAIN Sent
  BY Received
<1>2. ASSUME NEW j \in DOMAIN Sent, Sent[j] = k, k # m
      PROVE  OnItsWay(k)'
  <2>1. j - 1 \in DOMAIN Sent' /\ (j - 1) + 1 = j
    BY <1>1, <1>2
  <2>2. Sent'[j - 1] = k
    BY <1>1, <1>2, <2>1
  <2> QED
    BY <2>1, <2>2 DEF OnItsWay
<1> QED
  BY <1>1, <1>2 DEF OnItsWay

LEMMA OnePulseReceived ==
  ASSUME TypeInv, OnePulse, NEW m, Receive(m)
  PROVE  OnePulse' /\ (m = "Pulse" => ~OnItsWay("Pulse")')
<1>1. /\ Sent[1] = m /\ 1 \in DOMAIN Sent
      /\ DOMAIN Sent' = 1 .. Len(Sent') /\ Len(Sent') \in Nat
      /\ \A i \in DOMAIN Sent' : Sent'[i] = Sent[i + 1] /\ i + 1 \in DOMAIN Sent
  BY Received
<1>2. OnePulse'
  <2> SUFFICES ASSUME NEW i \in DOMAIN Sent', NEW j \in DOMAIN Sent',
                      Sent'[i] = "Pulse", Sent'[j] = "Pulse"
               PROVE  i = j
    BY DEF OnePulse
  <2>1. i + 1 = j + 1
    BY <1>1 DEF OnePulse
  <2> QED
    BY <1>1, <2>1
<1>3. ASSUME m = "Pulse", NEW i \in DOMAIN Sent', Sent'[i] = "Pulse"
      PROVE  FALSE
  <2>1. i + 1 = 1
    BY <1>1, <1>3 DEF OnePulse
  <2> QED
    BY <1>1, <2>1
<1> QED
  BY <1>2, <1>3 DEF OnItsWay

(* No pulse is sent while one is on its way.                               *)
LEMMA PulseAlone == TypeInv /\ DeviceInv /\ DevicePulse => ~OnItsWay("Pulse")
<1> SUFFICES ASSUME TypeInv, DeviceInv, DevicePulse PROVE ~OnItsWay("Pulse")
  OBVIOUS
<1>1. sincePulse >= Short \/ sincePulse >= Long
  BY DEF DevicePulse
<1>2. Short >= 1 /\ Long >= 1 /\ Short \in Nat /\ Long \in Nat
  BY ReceiverAssumption
<1>3. sincePulse # 0
  BY <1>1, <1>2
<1> QED
  BY <1>3 DEF DeviceInv

LEMMA OnePulseRelayed ==
  ASSUME TypeInv, OnePulse, NEW m \in ClockMessage, Relay(m),
         m = "Pulse" => ~OnItsWay("Pulse")
  PROVE  OnePulse'
<1>1. /\ DOMAIN Sent = 1 .. Len(Sent) /\ DOMAIN Sent' = 1 .. (Len(Sent) + 1)
      /\ Len(Sent) \in Nat
      /\ \A i \in DOMAIN Sent : Sent'[i] = Sent[i]
      /\ Sent'[Len(Sent) + 1] = m
  BY Relayed
<1>2. \A i \in DOMAIN Sent' : i \in DOMAIN Sent \/ i = Len(Sent) + 1
  BY <1>1
<1> QED
  BY <1>1, <1>2 DEF OnePulse, OnItsWay

LEMMA DeviceSame ==
  DeviceInv /\ UNCHANGED <<deviceVars, Sent, history>> => DeviceInv'
BY DEF DeviceInv, deviceVars, OnePulse, OnItsWay, Last

LEMMA DeviceInvByDevice == TypeInv /\ DeviceInv /\ DeviceStep => DeviceInv'
<1> SUFFICES ASSUME TypeInv, DeviceInv, DeviceStep PROVE DeviceInv'
  OBVIOUS
<1>0. Long \in Nat /\ Long >= 1 /\ sincePulse \in Nat
  BY ReceiverAssumption DEF TypeInv, ReceiverTypes
<1>1. CASE DeviceSilent
  BY <1>1 DEF DeviceSilent, DeviceInv, OnePulse, OnItsWay, Last, Sent
<1>2. ASSUME NEW m \in ClockMessage, DevicePart(m), Relay(m)
      PROVE  DeviceInv'
  <2>1. OnePulse' /\ UNCHANGED <<history, Last>>
    BY <1>2, OnePulseRelayed, PulseAlone, Relayed DEF DeviceInv, DevicePart, Last
  <2>2. \A k : OnItsWay(k)' <=> OnItsWay(k) \/ k = m
    BY <1>2, RelayedWay
  <2>3. CASE DevicePulse /\ m = "Pulse"
    <3>1. device' = "pulsing" /\ sincePulse' = 0 /\ OnItsWay("Pulse")'
      BY <2>2, <2>3 DEF DevicePulse
    <3> QED
      BY <1>0, <2>1, <3>1 DEF DeviceInv
  <2>4. CASE m # "Pulse"
    <3>1. OnItsWay("Pulse")' <=> OnItsWay("Pulse")
      BY <2>2, <2>4
    <3>2. UNCHANGED <<device, sincePulse>>
      BY <1>2, <2>4 DEF DevicePart, DeviceStart, DeviceContinue, DeviceStop, DeviceLocate,
                        deviceVars
    <3> QED
      BY <2>1, <3>1, <3>2 DEF DeviceInv
  <2> QED
    BY <1>2, <2>3, <2>4 DEF DevicePart
<1> QED
  BY <1>1, <1>2, DeviceParts

(* One message read: a pulse, or another one, which leaves the tracker     *)
(* alone or empties it, and what of it is told to the player.              *)
Reads(m) ==
  /\ Receive(m)
  /\ \/ /\ m = "Pulse" /\ ReceivePulse
        /\ sending' = "SyncBpmUpdate" \/ UNCHANGED sending
     \/ /\ m = "Start" /\ Reset
        /\ clockState' = "Tracking" /\ bpm' = None /\ sending' = "SyncStart"
     \/ /\ m = "Continue" /\ UNCHANGED <<history, clockState, bpm>>
        /\ sending' = "SyncContinue" \/ UNCHANGED <<step, sending>>
     \/ /\ m = "Stop" /\ UNCHANGED history
        /\ clockState' = "Waiting" /\ bpm' = None /\ sending' = "SyncStop"
     \/ /\ m = "SongPosition" /\ UNCHANGED <<history, clockState, bpm>>
        /\ sending' = "SyncSongPosition"

LEMMA DeviceInvByReceiver ==
  ASSUME TypeInv, DeviceInv, NEW m \in ClockMessage, Reads(m)
  PROVE  DeviceInv'
<1>0. Receive(m)
  BY DEF Reads
<1>1. OnePulse' /\ UNCHANGED <<device, sincePulse>>
  BY <1>0, OnePulseReceived, Received DEF DeviceInv, deviceVars
<1>2. OnItsWay("Pulse")' => OnItsWay("Pulse")
  BY <1>0, ReceivedWay
<1>3. CASE ReceivePulse
  <2>1. m = "Pulse" /\ OnItsWay("Pulse") /\ Update
    BY <1>0, <1>3, ReceivedWay DEF ReceivePulse, Receive
  <2>2. ~OnItsWay("Pulse")' /\ Last' = 0
    BY <1>0, <2>1, OnePulseReceived, Extended DEF DeviceInv, TypeInv
  <2> QED
    BY <1>1, <2>1, <2>2 DEF DeviceInv
<1>4. CASE Reset
  BY <1>1, <1>2, <1>4 DEF DeviceInv, Reset
<1>5. CASE UNCHANGED history /\ m # "Pulse"
  <2>1. OnItsWay("Pulse")' <=> OnItsWay("Pulse")
    BY <1>0, <1>5, ReceivedWay
  <2> QED
    BY <1>1, <1>5, <2>1 DEF DeviceInv, Last
<1> QED
  BY <1>3, <1>4, <1>5 DEF Reads

LEMMA ReceiverReads ==
  ReceivePulse \/ ReceiveStart \/ ReceiveContinue \/ ReceiveStop \/ ReceiveLocate
    => \E m \in ClockMessage : Reads(m)
BY DEF Reads, ClockMessage, ReceivePulse, ReceiveStart, ReceiveContinue, ReceiveStop,
       ReceiveLocate, ToEngine, Nothing

LEMMA DeviceInvByTick == TypeInv /\ DeviceInv /\ Tick => DeviceInv'
<1> SUFFICES ASSUME TypeInv, DeviceInv, Tick PROVE DeviceInv'
  OBVIOUS
<1>1. /\ Sent = <<>> /\ UNCHANGED <<Sent, device>> /\ history' = Aged(history)
      /\ sincePulse' = CapAt(sincePulse + 1) /\ (device = "pulsing" => sincePulse < Long)
  BY DEF Tick, Drained, Idle, Sent
<1>2. /\ Long \in Nat /\ GapCap \in Nat /\ Long < GapCap
      /\ sincePulse \in Nat /\ sincePulse <= GapCap
  BY ReceiverAssumption DEF TypeInv, ReceiverTypes
<1>3. OnePulse' /\ ~OnItsWay("Pulse") /\ ~OnItsWay("Pulse")'
  BY <1>1 DEF OnePulse, OnItsWay
<1>4. device' = "pulsing" => sincePulse' <= Long
  BY <1>1, <1>2 DEF CapAt
<1>5. CASE history = <<>>
  <2>1. history' = <<>>
    BY <1>1, <1>5 DEF Aged
  <2> QED
    BY <1>3, <1>4, <2>1 DEF DeviceInv
<1>6. CASE history # <<>>
  <2>1. Last' = (IF Last >= GapCap THEN Last ELSE Last + 1) /\ Last \in Nat /\ Last <= GapCap
    BY <1>1, <1>6, Older DEF TypeInv, HistoryTypes
  <2>2. Last = sincePulse
    BY <1>3, <1>6 DEF DeviceInv
  <2>3. Last' = sincePulse'
    BY <1>1, <1>2, <2>1, <2>2 DEF CapAt
  <2> QED
    BY <1>1, <1>3, <1>4, <2>3 DEF DeviceInv
<1> QED
  BY <1>5, <1>6

(* The callback hands over what was on its way already.                    *)
LEMMA DeliverSame ==
  TypeInv /\ Deliver =>
    /\ Sent' = Sent /\ Sent # <<>>
    /\ UNCHANGED <<engineVars, deviceVars, history, waited, receiverVars, outputVars>>
<1> SUFFICES ASSUME TypeInv, Deliver PROVE Sent' = Sent /\ Sent # <<>>
  BY DEF Deliver
<1>1. /\ relaying # None /\ relaying' = None /\ inbox' = Append(inbox, relaying)
      /\ relaying \in ClockMessage /\ inbox \in Seq(ClockMessage)
  BY DEF Deliver, TypeInv, ReceiverTypes
<1>2. Sent' = Append(inbox, relaying) /\ Sent = Append(inbox, relaying)
  BY <1>1 DEF Sent
<1> QED
  BY <1>1, <1>2, Appended

(* The steps that leave the device, the tracker and what is on its way to  *)
(* the receiver alone.                                                     *)
Elsewhere ==
  \/ ReceiveTimeout \/ SendToEngine \/ ForwardStop \/ PlayerThread \/ LoadProject
  \/ Deliver

LEMMA ElsewhereSame ==
  TypeInv /\ (Elsewhere \/ UNCHANGED vars) => UNCHANGED <<deviceVars, Sent, history>>
<1>1. Elsewhere \/ UNCHANGED vars =>
        Deliver \/ UNCHANGED <<deviceVars, relaying, inbox, history>>
  BY DEF Elsewhere, ReceiveTimeout, SendToEngine, ForwardStop, PlayerThread, LoadProject, vars
<1> QED
  BY <1>1, DeliverSame DEF Sent

LEMMA StepCases ==
  [Next]_vars => \/ DeviceStep \/ Tick \/ Elsewhere \/ UNCHANGED vars
                 \/ \E m \in ClockMessage : Reads(m)
BY ReceiverReads DEF Next, ReceiverStep, Elsewhere

LEMMA DeviceKept == TypeInv /\ DeviceInv /\ [Next]_vars => DeviceInv'
BY StepCases, DeviceInvByDevice, DeviceInvByReceiver, DeviceInvByTick, ElsewhereSame, DeviceSame

-----------------------------------------------------------------------------
(* A device that does not start with a short interval.                     *)

LEMMA OwedSame ==
  OwedInv /\ UNCHANGED <<deviceVars, Sent, history>> => OwedInv'
BY DEF OwedInv, StartsOwed, PulseExtends, Extends, deviceVars, OnItsWay, Last, LastLong, Since

LEMMA StartsRelayed ==
  ASSUME TypeInv, StartsOwed, NEW m \in ClockMessage, Relay(m),
         \/ m # "Start" /\ owed' = owed
         \/ m = "Start" /\ owed' = 2
         \/ m = "Pulse"
  PROVE  StartsOwed'
<1>1. /\ DOMAIN Sent = 1 .. Len(Sent) /\ DOMAIN Sent' = 1 .. (Len(Sent) + 1)
      /\ Len(Sent) \in Nat
      /\ \A i \in DOMAIN Sent : Sent'[i] = Sent[i]
      /\ Sent'[Len(Sent) + 1] = m
  BY Relayed
<1>2. SUFFICES ASSUME NEW i \in DOMAIN Sent', Sent'[i] = "Start"
               PROVE  owed' = 2 \/ (\E j \in DOMAIN Sent' : j > i /\ Sent'[j] = "Pulse")
  BY DEF StartsOwed
<1>3. CASE m = "Pulse"
  <2>1. i # Len(Sent) + 1 /\ Len(Sent) + 1 \in DOMAIN Sent'
    BY <1>1, <1>2, <1>3
  <2>2. Len(Sent) + 1 > i
    BY <1>1, <2>1
  <2> QED
    BY <1>1, <1>3, <2>1, <2>2
<1>4. CASE m = "Start" /\ owed' = 2
  BY <1>4
<1>5. CASE m # "Start" /\ owed' = owed
  <2>1. i \in DOMAIN Sent /\ Sent[i] = "Start"
    BY <1>1, <1>2, <1>5
  <2>2. CASE owed = 2
    BY <1>5, <2>2
  <2>3. CASE \E j \in DOMAIN Sent : j > i /\ Sent[j] = "Pulse"
    BY <1>1, <2>3
  <2> QED
    BY <2>1, <2>2, <2>3 DEF StartsOwed
<1> QED
  BY <1>3, <1>4, <1>5

LEMMA ExtendsRelayed ==
  ASSUME TypeInv, PulseExtends, NEW m \in ClockMessage, Relay(m),
         m = "Pulse" => Extends
  PROVE  PulseExtends'
<1>1. /\ DOMAIN Sent = 1 .. Len(Sent) /\ DOMAIN Sent' = 1 .. (Len(Sent) + 1)
      /\ Len(Sent) \in Nat
      /\ \A i \in DOMAIN Sent : Sent'[i] = Sent[i]
      /\ Sent'[Len(Sent) + 1] = m
      /\ UNCHANGED history
  BY Relayed
<1>2. Extends' = Extends
  BY <1>1 DEF Extends, Last, LastLong, Since
<1>3. SUFFICES ASSUME NEW j \in DOMAIN Sent', Sent'[j] = "Pulse",
                      \A i \in DOMAIN Sent' : i < j => Sent'[i] # "Start"
               PROVE  Extends
  BY <1>2 DEF PulseExtends
<1>4. CASE j = Len(Sent) + 1
  BY <1>1, <1>3, <1>4
<1>5. CASE j \in DOMAIN Sent
  <2>1. Sent[j] = "Pulse" /\ \A i \in DOMAIN Sent : i < j => Sent[i] # "Start"
    BY <1>1, <1>3, <1>5
  <2> QED
    BY <1>5, <2>1 DEF PulseExtends
<1> QED
  BY <1>1, <1>4, <1>5

LEMMA OwedByPulse ==
  TypeInv /\ DeviceInv /\ OwedInv /\ DevicePulse => OwedInv'
<1> SUFFICES ASSUME TypeInv, DeviceInv, OwedInv, DevicePulse PROVE OwedInv'
  OBVIOUS
<1>1. Relay("Pulse") /\ "Pulse" \in ClockMessage /\ UNCHANGED <<history, Last>>
  BY Relayed DEF DevicePulse, ClockMessage, Last
<1>2. ~OnItsWay("Pulse")
  BY PulseAlone
<1>3. /\ Long \in Nat /\ Short \in Nat /\ Short < Long
      /\ sincePulse \in Nat /\ owed \in {0, 1, 2} /\ device \in {"off", "pulsing"}
  BY ReceiverAssumption DEF TypeInv, ReceiverTypes
<1>lately. history # <<>> => Last = sincePulse
  BY <1>2 DEF DeviceInv
<1>4. Extends
  <2>1. sincePulse >= Long \/ (owed = 0 /\ sincePulse >= Short)
    BY DEF DevicePulse
  <2>2. owed = 0 => LastLong
    BY <1>2 DEF OwedInv
  <2> QED
    BY <1>lately, <2>1, <2>2 DEF Extends
<1>5. StartsOwed' /\ PulseExtends'
  BY <1>1, <1>4, StartsRelayed, ExtendsRelayed DEF OwedInv
<1>6. OnItsWay("Pulse")' /\ (OnItsWay("Start")' <=> OnItsWay("Start"))
  BY <1>1, RelayedWay
<1>7. owed' = 0 => (history # <<>> /\ Last >= Long /\ ~OnItsWay("Start"))
  <2> SUFFICES ASSUME owed' = 0 PROVE history # <<>> /\ Last >= Long /\ ~OnItsWay("Start")
    OBVIOUS
  <2>1. ~(device = "pulsing" /\ sincePulse < Long) /\ owed \in {0, 1}
    BY <1>3 DEF DevicePulse
  <2>2. history # <<>>
    BY <1>2, <2>1 DEF OwedInv, LastLong
  <2>3. ~OnItsWay("Start")
    BY <1>2, <2>1 DEF OwedInv, StartsOwed, OnItsWay
  <2>4. Last >= Long
    <3>1. sincePulse >= Long
      BY <1>3, <2>1 DEF DevicePulse
    <3> QED
      BY <1>lately, <2>2, <3>1
  <2> QED
    BY <2>2, <2>3, <2>4
<1> QED
  BY <1>1, <1>5, <1>6, <1>7 DEF OwedInv

LEMMA OwedByOthers ==
  ASSUME TypeInv, OwedInv, ~ShortFirst, NEW m \in ClockMessage, Relay(m),
         DevicePart(m), m # "Pulse"
  PROVE  OwedInv'
<1>1. /\ UNCHANGED <<history, Last, LastLong>>
      /\ (m = "Start" /\ owed' = 2) \/ (m # "Start" /\ owed' = owed)
      /\ m # "Pulse"
  BY Relayed DEF DevicePart, Last, LastLong, Since, DeviceStart, DeviceContinue, DeviceStop,
                 DeviceLocate, deviceVars
<1>2. StartsOwed' /\ PulseExtends'
  BY <1>1, StartsRelayed, ExtendsRelayed DEF OwedInv
<1>3. \A k : OnItsWay(k)' <=> OnItsWay(k) \/ k = m
  BY RelayedWay
<1>4. CASE m = "Start" /\ owed' = 2
  BY <1>2, <1>4 DEF OwedInv
<1>5. CASE m # "Start" /\ owed' = owed
  <2>1. /\ OnItsWay("Pulse")' <=> OnItsWay("Pulse")
        /\ OnItsWay("Start")' <=> OnItsWay("Start")
    BY <1>1, <1>3, <1>5
  <2> QED
    BY <1>1, <1>2, <1>5, <2>1 DEF OwedInv
<1> QED
  BY <1>1, <1>4, <1>5

LEMMA OwedByDevice ==
  TypeInv /\ DeviceInv /\ OwedInv /\ ~ShortFirst /\ DeviceStep => OwedInv'
<1> SUFFICES ASSUME TypeInv, DeviceInv, OwedInv, ~ShortFirst, DeviceStep PROVE OwedInv'
  OBVIOUS
<1>1. CASE DeviceSilent
  BY <1>1 DEF DeviceSilent, OwedInv, StartsOwed, PulseExtends, Extends, OnItsWay, Last,
              LastLong, Since, Sent
<1>2. ASSUME NEW m \in ClockMessage, DevicePart(m), Relay(m)
      PROVE  OwedInv'
  <2>1. CASE DevicePulse
    BY <2>1, OwedByPulse
  <2>2. CASE m # "Pulse"
    BY <1>2, <2>2, OwedByOthers
  <2> QED
    BY <1>2, <2>1, <2>2 DEF DevicePart
<1> QED
  BY <1>1, <1>2, DeviceParts

LEMMA StartsReceived ==
  ASSUME TypeInv, OnePulse, StartsOwed, NEW m, Receive(m)
  PROVE  /\ StartsOwed'
         /\ m = "Start" => owed = 2 \/ OnItsWay("Pulse")'
<1>1. /\ Sent[1] = m /\ 1 \in DOMAIN Sent
      /\ DOMAIN Sent = 1 .. Len(Sent) /\ DOMAIN Sent' = 1 .. Len(Sent')
      /\ Len(Sent') = Len(Sent) - 1
      /\ Len(Sent) \in Nat /\ Len(Sent') \in Nat
      /\ \A i \in DOMAIN Sent' : Sent'[i] = Sent[i + 1] /\ i + 1 \in DOMAIN Sent
      /\ UNCHANGED owed
  BY Received DEF deviceVars
<1>2. ASSUME NEW i \in DOMAIN Sent, Sent[i] = "Start", owed # 2
      PROVE  \E j \in DOMAIN Sent' : j + 1 > i /\ Sent'[j] = "Pulse"
  <2>1. PICK j \in DOMAIN Sent : j > i /\ Sent[j] = "Pulse"
    BY <1>2 DEF StartsOwed
  <2>2. j - 1 \in DOMAIN Sent' /\ (j - 1) + 1 = j
    BY <1>1, <2>1
  <2> QED
    BY <1>1, <2>1, <2>2
<1>3. StartsOwed'
  <2> SUFFICES ASSUME NEW i \in DOMAIN Sent', Sent'[i] = "Start", owed' # 2
               PROVE  \E j \in DOMAIN Sent' : j > i /\ Sent'[j] = "Pulse"
    BY DEF StartsOwed
  <2>1. i + 1 \in DOMAIN Sent /\ Sent[i + 1] = "Start" /\ owed # 2
    BY <1>1
  <2>2. PICK j \in DOMAIN Sent' : j + 1 > i + 1 /\ Sent'[j] = "Pulse"
    BY <1>2, <2>1
  <2>3. j > i
    BY <1>1, <2>2
  <2> QED
    BY <2>2, <2>3
<1>4. m = "Start" => owed = 2 \/ OnItsWay("Pulse")'
  BY <1>1, <1>2 DEF OnItsWay
<1> QED
  BY <1>3, <1>4

LEMMA OwedReceived ==
  ASSUME TypeInv, DeviceInv, OwedInv, Spaced, NEW m \in ClockMessage, Reads(m)
  PROVE  OwedInv' /\ Spaced'
<1>1. Receive(m) /\ OnePulse /\ UNCHANGED owed
  BY Received DEF Reads, DeviceInv, deviceVars
<1>2. /\ Sent[1] = m /\ 1 \in DOMAIN Sent
      /\ DOMAIN Sent = 1 .. Len(Sent) /\ DOMAIN Sent' = 1 .. Len(Sent')
      /\ Len(Sent) \in Nat /\ Len(Sent') \in Nat
      /\ \A i \in DOMAIN Sent' : Sent'[i] = Sent[i + 1] /\ i + 1 \in DOMAIN Sent
  BY <1>1, Received
<1>3. StartsOwed' /\ (m = "Start" => owed = 2 \/ OnItsWay("Pulse")')
  BY <1>1, StartsReceived DEF OwedInv
<1>4. /\ OnItsWay(m)
      /\ OnItsWay("Pulse")' => OnItsWay("Pulse")
      /\ OnItsWay("Start")' => OnItsWay("Start")
      /\ m # "Pulse" => (OnItsWay("Pulse") => OnItsWay("Pulse")')
  BY <1>1, ReceivedWay
<1>5. CASE ReceivePulse
  <2>1. m = "Pulse" /\ Update
    BY <1>1, <1>5 DEF ReceivePulse, Receive
  <2>2. ~OnItsWay("Pulse")' /\ OnItsWay("Pulse")
    BY <1>1, <1>4, <2>1, OnePulseReceived
  <2>3. Extends
    <3>1. \A i \in DOMAIN Sent : ~(i < 1)
      BY <1>2
    <3> QED
      BY <1>2, <2>1, <3>1 DEF OwedInv, PulseExtends
  <2>4. Spaced' /\ (history # <<>> /\ Last >= Long => LastLong')
    BY <2>1, <2>3, SpacedUpdated DEF TypeInv, Extends
  <2>5. history' # <<>>
    BY <2>1, Extended DEF TypeInv
  <2>6. PulseExtends'
    BY <2>2 DEF PulseExtends, OnItsWay
  <2>7. owed = 0 => LastLong'
    BY <2>2, <2>4 DEF OwedInv
  <2> QED
    BY <1>1, <1>3, <2>2, <2>4, <2>5, <2>6, <2>7 DEF OwedInv
<1>6. CASE m = "Start" /\ Reset
  <2>1. history' = <<>> /\ Spaced'
    BY <1>6, SpacedReset DEF Reset, TypeInv
  <2>2. PulseExtends'
    BY <2>1 DEF PulseExtends, Extends
  <2>3. OnItsWay("Pulse")' => owed # 0
    BY <1>4, <1>6 DEF OwedInv
  <2>4. ~OnItsWay("Pulse")' => owed = 2
    BY <1>3, <1>6
  <2> QED
    BY <1>1, <1>3, <2>1, <2>2, <2>3, <2>4 DEF OwedInv
<1>7. CASE m # "Pulse" /\ m # "Start" /\ UNCHANGED history
  <2>1. Spaced' /\ LastLong' = LastLong /\ Last' = Last
    BY <1>7, SpacedSame DEF Last
  <2>2. OnItsWay("Pulse")' <=> OnItsWay("Pulse")
    BY <1>4, <1>7
  <2>3. PulseExtends'
    <3> SUFFICES ASSUME NEW j \in DOMAIN Sent', Sent'[j] = "Pulse",
                        \A i \in DOMAIN Sent' : i < j => Sent'[i] # "Start"
                 PROVE  Extends'
      BY DEF PulseExtends
    <3>1. j + 1 \in DOMAIN Sent /\ Sent[j + 1] = "Pulse"
      BY <1>2
    <3>2. ASSUME NEW i \in DOMAIN Sent, i < j + 1
          PROVE  Sent[i] # "Start"
      <4>1. CASE i = 1
        BY <1>2, <1>7, <4>1
      <4>2. CASE i # 1
        <5>1. i - 1 \in DOMAIN Sent' /\ i - 1 < j /\ (i - 1) + 1 = i
          BY <1>2, <3>1, <3>2, <4>2
        <5> QED
          BY <1>2, <5>1
      <4> QED
        BY <4>1, <4>2
    <3>3. Extends
      BY <3>1, <3>2 DEF OwedInv, PulseExtends
    <3> QED
      BY <1>7, <2>1, <3>3 DEF Extends
  <2> QED
    BY <1>1, <1>3, <1>4, <1>7, <2>1, <2>2, <2>3 DEF OwedInv
<1>8. ReceivePulse \/ m # "Pulse"
  BY DEF Reads
<1>9. m # "Pulse" => (m = "Start" /\ Reset) \/ (m # "Start" /\ UNCHANGED history)
  BY <1>1 DEF Reads, ReceivePulse, Receive
<1> QED
  BY <1>5, <1>6, <1>7, <1>8, <1>9

LEMMA OwedByTick == TypeInv /\ OwedInv /\ Spaced /\ Tick => OwedInv' /\ Spaced'
<1> SUFFICES ASSUME TypeInv, OwedInv, Spaced, Tick PROVE OwedInv' /\ Spaced'
  OBVIOUS
<1>1. /\ Sent = <<>> /\ UNCHANGED <<Sent, owed>> /\ history' = Aged(history)
  BY DEF Tick, Drained, Idle, Sent
<1>2. Spaced' /\ LastLong' = LastLong
  BY <1>1, SpacedAged DEF TypeInv
<1>3. StartsOwed' /\ PulseExtends' /\ ~OnItsWay("Pulse") /\ ~OnItsWay("Pulse")'
  BY <1>1 DEF StartsOwed, PulseExtends, OnItsWay
<1>4. history # <<>> => history' # <<>>
  BY <1>1, Older DEF TypeInv
<1> QED
  BY <1>1, <1>2, <1>3, <1>4 DEF OwedInv

(* A device that always starts with intervals that are not short.          *)
TrackInv == DeviceInv /\ OwedInv /\ Spaced

LEMMA TrackKept ==
  ~ShortFirst /\ TypeInv /\ TrackInv /\ [Next]_vars => TrackInv'
<1> SUFFICES ASSUME ~ShortFirst, TypeInv, TrackInv, [Next]_vars PROVE TrackInv'
  OBVIOUS
<1>1. DeviceInv'
  BY DeviceKept DEF TrackInv
<1>2. CASE DeviceStep
  <2>1. OwedInv'
    BY <1>2, OwedByDevice DEF TrackInv
  <2>2. UNCHANGED history
    BY <1>2, DeviceParts, Relayed DEF DeviceSilent
  <2> QED
    BY <1>1, <2>1, <2>2, SpacedSame DEF TrackInv
<1>3. CASE Tick
  BY <1>1, <1>3, OwedByTick DEF TrackInv
<1>4. CASE Elsewhere \/ UNCHANGED vars
  BY <1>1, <1>4, ElsewhereSame, OwedSame, SpacedSame DEF TrackInv
<1>5. ASSUME NEW m \in ClockMessage, Reads(m)
      PROVE  TrackInv'
  BY <1>1, <1>5, OwedReceived DEF TrackInv
<1> QED
  BY <1>2, <1>3, <1>4, <1>5, StepCases

-----------------------------------------------------------------------------
(* A clock that is on time.                                                *)

LEMMA ElsewhereCases ==
  TypeInv /\ (Elsewhere \/ UNCHANGED vars) =>
    ReceiveTimeout \/ UNCHANGED <<deviceVars, Sent, history, waited, clockState, bpm>>
<1>1. Elsewhere \/ UNCHANGED vars =>
        \/ ReceiveTimeout \/ Deliver
        \/ UNCHANGED <<deviceVars, history, waited, clockState, bpm>>
  BY DEF Elsewhere, SendToEngine, ForwardStop, PlayerThread, LoadProject, vars, receiverVars
<1> QED
  BY <1>1, ElsewhereSame, DeliverSame DEF receiverVars

LEMMA HeldKept ==
  TypeInv /\ TrackInv /\ HeldInv /\ [Next]_vars => HeldInv'
<1> SUFFICES ASSUME TypeInv, TrackInv, HeldInv, [Next]_vars PROVE HeldInv'
  OBVIOUS
<1>0. /\ Long \in Nat /\ GapCap \in Nat /\ Long < GapCap /\ sincePulse \in Nat
      /\ waited \in Nat
  BY ReceiverAssumption DEF TypeInv, ReceiverTypes
<1>1. CASE DeviceStep
  <2>1. CASE DeviceSilent
    BY <2>1 DEF DeviceSilent, HeldInv
  <2>2. ASSUME NEW m \in ClockMessage, DevicePart(m), Relay(m)
        PROVE  HeldInv'
    <3>1. /\ UNCHANGED <<waited, clockState>>
          /\ OnItsWay("Pulse")' <=> OnItsWay("Pulse") \/ m = "Pulse"
      BY <2>2, Relayed, RelayedWay
    <3>2. m # "Pulse" => UNCHANGED <<device, sincePulse>>
      BY <2>2 DEF DevicePart, DeviceStart, DeviceContinue, DeviceStop, DeviceLocate, deviceVars
    <3> QED
      BY <3>1, <3>2 DEF HeldInv
  <2> QED
    BY <1>1, <2>1, <2>2, DeviceParts
<1>2. CASE Tick
  <2>1. /\ Sent = <<>> /\ UNCHANGED <<Sent, device, clockState>>
        /\ sincePulse' = CapAt(sincePulse + 1) /\ (device = "pulsing" => sincePulse < Long)
        /\ waited' = waited + 1
    BY <1>2 DEF Tick, Drained, Idle, receiverVars, Sent
  <2>2. ~OnItsWay("Pulse")
    BY <2>1 DEF OnItsWay
  <2>3. device = "pulsing" => sincePulse' = sincePulse + 1
    BY <1>0, <2>1 DEF CapAt
  <2> QED
    BY <1>0, <2>1, <2>2, <2>3 DEF HeldInv
<1>3. CASE Elsewhere \/ UNCHANGED vars
  <2>1. CASE UNCHANGED <<deviceVars, Sent, history, waited, clockState, bpm>>
    BY <2>1 DEF HeldInv, deviceVars, OnItsWay
  <2>2. CASE ReceiveTimeout
    <3>1. waited >= TimeoutDuration /\ UNCHANGED <<device, Sent>>
      BY <2>2 DEF ReceiveTimeout, deviceVars, Sent
    <3>3. TimeoutDuration \in Nat /\ TimeoutDuration > Long
      BY TimeoutLong DEF TypeInv, TrackInv
    <3>4. device = "pulsing" => sincePulse <= Long
      BY DEF TrackInv, DeviceInv
    <3>5. device # "pulsing" \/ OnItsWay("Pulse")
      BY <1>0, <3>1, <3>3, <3>4 DEF HeldInv
    <3> QED
      BY <3>1, <3>5 DEF HeldInv, OnItsWay
  <2> QED
    BY <1>3, <2>1, <2>2, ElsewhereCases
<1>4. ASSUME NEW m \in ClockMessage, Reads(m)
      PROVE  HeldInv'
  <2>1. Receive(m)
    BY <1>4 DEF Reads
  <2>2. waited' = 0 /\ UNCHANGED <<device, sincePulse>>
    BY <2>1, Received DEF deviceVars
  <2>3. m # "Pulse" => (OnItsWay("Pulse") => OnItsWay("Pulse")')
    BY <2>1, ReceivedWay
  <2>4. clockState' = "Tracking" \/ (m # "Pulse" /\ clockState' \in {clockState, "Waiting"})
    BY <1>4 DEF Reads, ReceivePulse
  <2> QED
    BY <1>0, <2>2, <2>3, <2>4 DEF HeldInv
<1> QED
  BY <1>1, <1>2, <1>3, <1>4, StepCases

-----------------------------------------------------------------------------
(* The tempo since a Start.                                                *)

LEMMA PulsesRelayed ==
  ASSUME TypeInv, NEW m \in ClockMessage, Relay(m),
         m = "Start" \/ (PulsesBeforeStart /\ m # "Pulse")
  PROVE  PulsesBeforeStart'
<1>1. /\ DOMAIN Sent = 1 .. Len(Sent) /\ DOMAIN Sent' = 1 .. (Len(Sent) + 1)
      /\ Len(Sent) \in Nat
      /\ \A i \in DOMAIN Sent : Sent'[i] = Sent[i]
      /\ Sent'[Len(Sent) + 1] = m
  BY Relayed
<1>2. SUFFICES ASSUME NEW j \in DOMAIN Sent', Sent'[j] = "Pulse"
               PROVE  \E i \in DOMAIN Sent' : i > j /\ Sent'[i] = "Start"
  BY DEF PulsesBeforeStart
<1>3. j \in DOMAIN Sent /\ Sent[j] = "Pulse"
  BY <1>1, <1>2
<1>4. CASE m = "Start"
  <2>1. Len(Sent) + 1 \in DOMAIN Sent' /\ Len(Sent) + 1 > j
    BY <1>1, <1>3
  <2> QED
    BY <1>1, <1>4, <2>1
<1>5. CASE PulsesBeforeStart
  <2>1. PICK i \in DOMAIN Sent : i > j /\ Sent[i] = "Start"
    BY <1>3, <1>5 DEF PulsesBeforeStart
  <2>2. i \in DOMAIN Sent' /\ Sent'[i] = "Start"
    BY <1>1, <2>1
  <2> QED
    BY <2>1, <2>2
<1> QED
  BY <1>4, <1>5

LEMMA PulsesReceived ==
  ASSUME TypeInv, PulsesBeforeStart, NEW m, Receive(m)
  PROVE  PulsesBeforeStart' /\ (m = "Pulse" => OnItsWay("Start"))
<1>1. /\ Sent[1] = m /\ 1 \in DOMAIN Sent
      /\ DOMAIN Sent = 1 .. Len(Sent) /\ DOMAIN Sent' = 1 .. Len(Sent')
      /\ Len(Sent') = Len(Sent) - 1 /\ Len(Sent) \in Nat /\ Len(Sent') \in Nat
      /\ \A i \in DOMAIN Sent' : Sent'[i] = Sent[i + 1] /\ i + 1 \in DOMAIN Sent
  BY Received
<1>2. ASSUME NEW j \in DOMAIN Sent', Sent'[j] = "Pulse"
      PROVE  \E i \in DOMAIN Sent' : i > j /\ Sent'[i] = "Start"
  <2>1. j + 1 \in DOMAIN Sent /\ Sent[j + 1] = "Pulse"
    BY <1>1, <1>2
  <2>2. PICK i \in DOMAIN Sent : i > j + 1 /\ Sent[i] = "Start"
    BY <2>1 DEF PulsesBeforeStart
  <2>3. i - 1 \in DOMAIN Sent' /\ i - 1 > j /\ (i - 1) + 1 = i
    BY <1>1, <2>2
  <2> QED
    BY <1>1, <2>2, <2>3
<1> QED
  BY <1>1, <1>2 DEF PulsesBeforeStart, OnItsWay

LEMMA FreshKept ==
  TypeInv /\ DeviceInv /\ FreshInv /\ [Next]_vars => FreshInv'
<1> SUFFICES ASSUME TypeInv, DeviceInv, FreshInv, [Next]_vars PROVE FreshInv'
  OBVIOUS
<1>0. /\ Long \in Nat /\ GapCap \in Nat /\ Long < GapCap /\ sincePulse \in Nat
      /\ device \in {"off", "pulsing"}
  BY ReceiverAssumption DEF TypeInv, ReceiverTypes
<1>same. UNCHANGED history => UNCHANGED Last /\ Bounded(Long)' = Bounded(Long)
  BY DEF Bounded, Since, Last
<1>1. CASE DeviceStep
  <2>1. CASE DeviceSilent
    BY <2>1 DEF DeviceSilent, FreshInv
  <2>2. ASSUME NEW m \in ClockMessage, DevicePart(m), Relay(m)
        PROVE  FreshInv'
    <3>1. /\ UNCHANGED <<history, bpm>>
          /\ OnItsWay("Start")' <=> OnItsWay("Start") \/ m = "Start"
      BY <2>2, Relayed, RelayedWay
    <3>2. CASE m = "Start" /\ DeviceStart
      <4>1. PulsesBeforeStart'
        BY <2>2, <3>2, PulsesRelayed
      <4> QED
        BY <3>1, <3>2, <4>1 DEF FreshInv
    <3>3. CASE m = "Pulse" /\ DevicePulse
      <4>1. device' = "pulsing" /\ UNCHANGED fresh
        BY <3>3 DEF DevicePulse
      <4> QED
        BY <1>same, <3>1, <3>3, <4>1 DEF FreshInv
    <3>4. CASE m \notin {"Start", "Pulse"}
      <4>1. UNCHANGED <<fresh, device>>
        BY <2>2, <3>4 DEF DevicePart, DeviceContinue, DeviceStop, DeviceLocate, deviceVars
      <4>2. PulsesBeforeStart => PulsesBeforeStart'
        BY <2>2, <3>4, PulsesRelayed
      <4> QED
        BY <1>same, <3>1, <3>4, <4>1, <4>2 DEF FreshInv
    <3> QED
      BY <2>2, <3>2, <3>3, <3>4 DEF DevicePart
  <2> QED
    BY <1>1, <2>1, <2>2, DeviceParts
<1>2. CASE Tick
  <2>1. /\ Sent = <<>> /\ UNCHANGED <<Sent, device, fresh, bpm>>
        /\ (device = "pulsing" => sincePulse < Long) /\ history' = Aged(history)
    BY <1>2 DEF Tick, Drained, Idle, receiverVars, Sent
  <2>2. ~OnItsWay("Pulse") /\ ~OnItsWay("Start") /\ PulsesBeforeStart'
    BY <2>1 DEF OnItsWay, PulsesBeforeStart
  <2>3. CASE history = <<>>
    <3>1. UNCHANGED history
      BY <2>1, <2>3 DEF Aged
    <3> QED
      BY <1>same, <2>1, <2>2, <3>1 DEF FreshInv, OnItsWay
  <2>4. CASE history # <<>>
    <3>1. /\ Len(history') = Len(history) /\ DOMAIN history' = DOMAIN history
          /\ \A i \in DOMAIN history : Since(i)' = Since(i)
          /\ Last' = (IF Last >= GapCap THEN Last ELSE Last + 1) /\ Last \in Nat
      BY <2>1, <2>4, Older DEF TypeInv
    <3>2. Bounded(Long)' = Bounded(Long)
      BY <3>1 DEF Bounded
    <3>3. fresh => Last' <= Long
      <4> SUFFICES ASSUME fresh PROVE Last' <= Long
        OBVIOUS
      <4>1. device = "pulsing"
        BY <2>2, <2>4 DEF FreshInv
      <4>2. Last = sincePulse /\ sincePulse < Long
        BY <2>1, <2>2, <2>4, <4>1 DEF DeviceInv
      <4> QED
        BY <1>0, <3>1, <4>2
    <3> QED
      BY <2>1, <2>2, <2>4, <3>2, <3>3 DEF FreshInv, OnItsWay
  <2> QED
    BY <2>3, <2>4
<1>3. CASE Elsewhere \/ UNCHANGED vars
  <2>1. CASE UNCHANGED <<deviceVars, Sent, history, waited, clockState, bpm>>
    BY <1>same, <2>1 DEF FreshInv, deviceVars, OnItsWay, PulsesBeforeStart
  <2>2. CASE ReceiveTimeout
    <3>1. UNCHANGED <<deviceVars, Sent, history>> /\ bpm' \in {bpm, None}
      BY <2>2 DEF ReceiveTimeout, receiverVars, Sent
    <3> QED
      BY <1>same, <3>1 DEF FreshInv, deviceVars, OnItsWay, PulsesBeforeStart
  <2> QED
    BY <1>3, <2>1, <2>2, ElsewhereCases
<1>4. ASSUME NEW m \in ClockMessage, Reads(m)
      PROVE  FreshInv'
  <2>1. Receive(m) /\ UNCHANGED <<device, fresh>>
    BY <1>4, Received DEF Reads, deviceVars
  <2>2. m # "Start" => (OnItsWay("Start") => OnItsWay("Start")')
    BY <2>1, ReceivedWay
  <2>before. /\ PulsesBeforeStart => PulsesBeforeStart'
             /\ PulsesBeforeStart /\ m = "Pulse" => OnItsWay("Start")
    BY <2>1, PulsesReceived
  <2>3. CASE m = "Pulse" /\ ReceivePulse
    <3> SUFFICES ASSUME fresh, ~OnItsWay("Start")
                 PROVE  /\ Bounded(Long)' /\ Last' <= Long /\ device = "pulsing"
                        /\ bpm' # None => bpm' <= Long
      BY <2>1, <2>2, <2>3, <2>before DEF FreshInv
    <3>1. OnItsWay("Pulse") /\ Update
      BY <2>1, <2>3, ReceivedWay DEF ReceivePulse
    <3>2. Bounded(Long)' /\ HistoryTypes' /\ Last' = 0
      BY <1>0, <3>1, BoundKept, HistoryUpdated, Extended DEF FreshInv, TypeInv
    <3>3. Len(history') >= 2 => AverageOf(history') \in 0 .. Long
      BY <1>0, <3>2, AverageUpdated
    <3>4. bpm' = bpm \/ (Len(history') >= 2 /\ bpm' = AverageOf(history'))
      <4>1. Len(history') \in Nat
        BY <3>2 DEF HistoryTypes
      <4> QED
        BY <2>3, <4>1 DEF ReceivePulse
    <3>5. bpm' # None => bpm' <= Long
      BY <1>0, <3>3, <3>4 DEF FreshInv
    <3> QED
      BY <1>0, <2>3, <2>before, <3>2, <3>5 DEF FreshInv
  <2>4. CASE m = "Start" /\ Reset /\ bpm' = None
    BY <2>1, <2>4, <2>before DEF FreshInv, Reset, Bounded
  <2>5. CASE m # "Start" /\ UNCHANGED history /\ bpm' \in {bpm, None}
    BY <1>same, <2>1, <2>2, <2>5, <2>before DEF FreshInv
  <2> QED
    BY <1>4, <2>3, <2>4, <2>5 DEF Reads
<1> QED
  BY <1>1, <1>2, <1>3, <1>4, StepCases

-----------------------------------------------------------------------------
LEMMA InitHolds == Init => TrackInv /\ HeldInv /\ FreshInv
<1> SUFFICES ASSUME Init PROVE TrackInv /\ HeldInv /\ FreshInv
  OBVIOUS
<1>1. Sent = <<>> /\ history = <<>> /\ device = "off" /\ owed = 2 /\ fresh = FALSE
  BY DEF Init, Sent
<1>2. DeviceInv
  BY <1>1 DEF DeviceInv, OnePulse, OnItsWay
<1>3. OwedInv
  BY <1>1 DEF OwedInv, StartsOwed, PulseExtends, OnItsWay
<1>4. Spaced
  BY <1>1 DEF Spaced
<1> QED
  BY <1>1, <1>2, <1>3, <1>4 DEF TrackInv, HeldInv, FreshInv

(* A Start begins the tempo afresh: while the device has not been silent   *)
(* since, the published interval is never longer than the device's own,    *)
(* whatever the intervals before that Start were.                          *)
THEOREM FreshTempo == Spec => []TempoFresh
<1>1. Init => DeviceInv /\ FreshInv
  BY InitHolds DEF TrackInv
<1>2. TypeInv /\ (DeviceInv /\ FreshInv) /\ [Next]_vars => (DeviceInv /\ FreshInv)'
  BY DeviceKept, FreshKept
<1>3. FreshInv => TempoFresh
  BY DEF FreshInv, TempoFresh, Idle, OnItsWay, Sent
<1> QED
  BY <1>1, <1>2, <1>3, TypeAlways, PTL DEF Spec

LEMMA TrackAlways == ~ShortFirst => (Spec => [](TrackInv /\ HeldInv))
<1> SUFFICES ASSUME ~ShortFirst PROVE Spec => [](TrackInv /\ HeldInv)
  OBVIOUS
<1>1. Init => TrackInv /\ HeldInv
  BY InitHolds
<1>2. TypeInv /\ (TrackInv /\ HeldInv) /\ [Next]_vars => (TrackInv /\ HeldInv)'
  BY TrackKept, HeldKept
<1> QED
  BY <1>1, <1>2, TypeAlways, PTL DEF Spec

(* "One anomalously short gap must not ... falsely declare the clock lost  *)
(* on the very next, perfectly on-time pulse": a clock whose pulses are on *)
(* time is not lost, whatever its interval, the length of the window and   *)
(* how short an interval was, unless the first interval after a Start may  *)
(* be short, which leaves the tracker nothing to average with.             *)
THEOREM OnTimeClockHeld == ~ShortFirst => (Spec => []ClockHeld)
<1> SUFFICES ASSUME ~ShortFirst PROVE Spec => []ClockHeld
  OBVIOUS
<1>1. HeldInv => ClockHeld
  BY DEF HeldInv, ClockHeld, Idle, OnItsWay, Sent
<1> QED
  BY <1>1, TrackAlways, PTL

-----------------------------------------------------------------------------
(* A loop that is at rest, or will be.                                     *)

LEMMA QuietSame == QuietQueue /\ UNCHANGED engineVars => QuietQueue'
BY DEF QuietQueue, AtRest, engineVars

LEMMA QuietingSame ==
  ASSUME Quieting, UNCHANGED engineVars, UNCHANGED sending \/ sending' = "SyncStop"
  PROVE  Quieting'
BY QuietSame DEF Quieting

(* The receiver has nothing to send, and turns to something harmless.      *)
LEMMA QuietingReceives ==
  ASSUME TypeInv, Quieting, step = "Receive", UNCHANGED engineVars, sending' \notin Restarts
  PROVE  Quieting'
<1>1. sending = "None"
  BY DEF TypeInv, ReceiverTypes
<1>2. QuietQueue
  BY <1>1 DEF Quieting
<1> QED
  BY <1>2, QuietSame DEF Quieting

LEMMA QuietingSends == TypeInv /\ Quieting /\ SendToEngine => Quieting'
<1> SUFFICES ASSUME TypeInv, Quieting, SendToEngine PROVE Quieting'
  OBVIOUS
<1>1. sending \in SyncCommand /\ Send(sending) /\ sending' = "None" /\ EngineInv
  BY DEF SendToEngine, TypeInv, ReceiverTypes
<1>2. QuietQueue'
  BY <1>1, SendQuiet DEF Quieting
<1> QED
  BY <1>1, <1>2 DEF Quieting, Restarts

LEMMA QuietingPlays ==
  TypeInv /\ Quieting /\ (PlayerThread \/ LoadProject) => Quieting'
<1> SUFFICES ASSUME TypeInv, Quieting, PlayerThread \/ LoadProject PROVE Quieting'
  OBVIOUS
<1>1. UNCHANGED sending
  BY DEF PlayerThread, LoadProject, receiverVars
<1>2. QuietQueue => QuietQueue'
  BY QuietKept, StoreQuiet DEF PlayerThread, LoadProject, TypeInv
<1> QED
  BY <1>1, <1>2 DEF Quieting

LEMMA QuietingRests ==
  ASSUME TypeInv, Quieting, Drained
  PROVE  state # "Running"
<1>1. sending = "None" /\ queue = <<>>
  BY DEF TypeInv, ReceiverTypes, Drained, Idle
<1>2. AtRest
  BY <1>1 DEF Quieting, QuietQueue
<1> QED
  BY <1>2 DEF AtRest

-----------------------------------------------------------------------------
(* Silence.                                                                *)

LEMMA SilenceKept == TypeInv /\ SilenceInv /\ [Next]_vars => SilenceInv'
<1> SUFFICES ASSUME TypeInv, SilenceInv, [Next]_vars, clockState' = "Lost", ~unclocked'
             PROVE  Quieting'
  BY DEF SilenceInv
<1>1. ASSUME UNCHANGED <<engineVars, clockState, sending, unclocked>> PROVE Quieting'
  BY <1>1, QuietingSame DEF SilenceInv
<1>2. CASE DeviceStep \/ Deliver \/ ForwardStop \/ Tick \/ UNCHANGED vars
  <2>1. DeviceStep => UNCHANGED <<engineVars, clockState, sending, unclocked>>
    <3>1. DeviceSilent => UNCHANGED <<engineVars, clockState, sending, unclocked>>
      BY DEF DeviceSilent, receiverVars
    <3> QED
      BY <3>1, DeviceParts, Relayed
  <2>2. Deliver \/ ForwardStop \/ Tick \/ UNCHANGED vars =>
          UNCHANGED <<engineVars, clockState, sending, unclocked>>
    BY DEF Deliver, ForwardStop, Tick, vars, receiverVars
  <2> QED
    BY <1>1, <1>2, <2>1, <2>2
<1>3. CASE ReceivePulse \/ ReceiveStart \/ ReceiveStop
  BY <1>3 DEF ReceivePulse, ReceiveStart, ReceiveStop
<1>4. CASE ReceiveContinue
  <2>1. Receive("Continue") /\ UNCHANGED clockState /\ ~unclocked /\ UNCHANGED sending
    BY <1>4 DEF ReceiveContinue, Nothing, TypeInv, ReceiverTypes
  <2>2. UNCHANGED engineVars
    BY <2>1 DEF Receive
  <2> QED
    BY <2>1, <2>2, QuietingSame DEF SilenceInv
<1>5. CASE ReceiveLocate
  <2>1. /\ step = "Receive" /\ UNCHANGED <<engineVars, clockState, unclocked>>
        /\ sending' = "SyncSongPosition"
    BY <1>5 DEF ReceiveLocate, Receive, ToEngine
  <2> QED
    BY <2>1, QuietingReceives DEF SilenceInv, Restarts
<1>6. CASE ReceiveTimeout
  <2>1. /\ UNCHANGED engineVars
        /\ sending' = "SyncStop" \/ UNCHANGED <<clockState, sending, unclocked>>
    BY <1>6 DEF ReceiveTimeout, ToEngine, receiverVars
  <2> QED
    BY <1>1, <2>1 DEF Quieting
<1>7. CASE SendToEngine \/ PlayerThread \/ LoadProject
  <2>1. UNCHANGED <<clockState, unclocked>>
    BY <1>7 DEF SendToEngine, PlayerThread, LoadProject, receiverVars
  <2> QED
    BY <1>7, <2>1, QuietingSends, QuietingPlays DEF SilenceInv
<1> QED
  BY <1>2, <1>3, <1>4, <1>5, <1>6, <1>7 DEF Next, ReceiverStep

(* A clock that has gone silent and been declared lost does not leave the  *)
(* loop playing, whichever start, continue, stop or locate came before:    *)
(* what run_receiver sends on a timeout is the last command that can start *)
(* the player, until a message says otherwise (a pulse, a Start, a Stop or *)
(* a Continue), and every state the player may be in ends at rest.         *)
THEOREM SilencePauses == Spec => []SilencePausesLoop
<1>1. Init => SilenceInv
  BY DEF Init, SilenceInv
<1>2. TypeInv /\ SilenceInv /\ [Next]_vars => SilenceInv'
  BY SilenceKept
<1>3. TypeInv /\ SilenceInv => SilencePausesLoop
  BY QuietingRests DEF SilenceInv, SilencePausesLoop
<1> QED
  BY <1>1, <1>2, <1>3, TypeAlways, PTL DEF Spec

-----------------------------------------------------------------------------
(* What is chained to the output port.                                     *)

Calm == ~OnItsWay("Start") /\ ~OnItsWay("Continue") /\ Quieting

LEMMA SlavesByDevice == TypeInv /\ SlavesInv /\ DeviceStep => SlavesInv'
<1> SUFFICES ASSUME TypeInv, SlavesInv, DeviceStep, ForwardingEnabled, ~raced'
             PROVE  /\ downstream' = "stopped" => EndsInStop' \/ Calm'
                    /\ Losing' => Sent' = <<>> /\ Quieting'
  BY DEF SlavesInv, Calm
<1>1. CASE DeviceSilent
  <2>1. /\ UNCHANGED <<engineVars, Sent, downstream, raced, sending, step, clockState>>
    BY <1>1 DEF DeviceSilent, receiverVars, outputVars, Sent
  <2>2. Quieting => Quieting'
    BY <2>1, QuietingSame
  <2> QED
    BY <2>1, <2>2 DEF SlavesInv, Losing, EndsInStop, Calm, OnItsWay
<1>2. ASSUME NEW m \in ClockMessage, Relay(m)
      PROVE  /\ downstream' = "stopped" => EndsInStop' \/ Calm'
             /\ Losing' => Sent' = <<>> /\ Quieting'
  <2>1. /\ DOMAIN Sent = 1 .. Len(Sent) /\ DOMAIN Sent' = 1 .. (Len(Sent) + 1)
        /\ Len(Sent) \in Nat
        /\ \A i \in DOMAIN Sent : Sent'[i] = Sent[i]
        /\ Sent'[Len(Sent) + 1] = m
        /\ UNCHANGED <<engineVars, clockState, step, sending>>
    BY <1>2, Relayed
  <2>2. \A k : OnItsWay(k)' <=> OnItsWay(k) \/ k = m
    BY <1>2, RelayedWay
  <2>3. ~raced /\ ~Losing /\ ~Losing'
    BY <1>2, <2>1 DEF Relay, Losing
  <2>4. \A i \in DOMAIN Sent' : i \in DOMAIN Sent \/ i = Len(Sent) + 1
    BY <2>1
  <2>5. CASE m = "Stop"
    <3>1. Len(Sent) + 1 \in DOMAIN Sent' /\ \A i \in DOMAIN Sent' : ~(i > Len(Sent) + 1)
      BY <2>1
    <3> QED
      BY <2>1, <2>3, <2>5, <3>1 DEF EndsInStop
  <2>6. CASE m \in {"Start", "Continue"}
    <3>1. downstream' = "rolling"
      BY <1>2, <2>6 DEF Relay
    <3> QED
      BY <2>3, <3>1
  <2>7. CASE m \notin {"Start", "Continue", "Stop"}
    <3>1. downstream' = downstream
      BY <1>2, <2>7 DEF Relay
    <3>2. EndsInStop => EndsInStop'
      <4> SUFFICES ASSUME NEW j \in DOMAIN Sent, Sent[j] = "Stop",
                          \A i \in DOMAIN Sent : i > j => Sent[i] \notin {"Start", "Continue"}
                   PROVE  EndsInStop'
        BY DEF EndsInStop
      <4>1. j \in DOMAIN Sent' /\ Sent'[j] = "Stop"
        BY <2>1
      <4>2. \A i \in DOMAIN Sent' : i > j => Sent'[i] \notin {"Start", "Continue"}
        BY <2>1, <2>4, <2>7
      <4> QED
        BY <4>1, <4>2 DEF EndsInStop
    <3>3. Calm => Calm'
      BY <2>1, <2>2, <2>7, QuietingSame DEF Calm
    <3> QED
      BY <2>3, <3>1, <3>2, <3>3 DEF SlavesInv, Calm
  <2> QED
    BY <2>5, <2>6, <2>7
<1> QED
  BY <1>1, <1>2, DeviceParts

LEMMA SlavesByReceive ==
  ASSUME TypeInv, SlavesInv, NEW m \in ClockMessage, Reads(m)
  PROVE  SlavesInv'
<1>1. /\ Receive(m) /\ step = "Receive" /\ sending = "None"
      /\ Sent[1] = m /\ 1 \in DOMAIN Sent
      /\ DOMAIN Sent = 1 .. Len(Sent) /\ DOMAIN Sent' = 1 .. Len(Sent')
      /\ Len(Sent') = Len(Sent) - 1 /\ Len(Sent) \in Nat /\ Len(Sent') \in Nat
      /\ \A i \in DOMAIN Sent' : Sent'[i] = Sent[i + 1] /\ i + 1 \in DOMAIN Sent
      /\ UNCHANGED <<engineVars, downstream, raced>>
  BY Received DEF Reads
<1>2. /\ OnItsWay(m)
      /\ \A k : OnItsWay(k)' => OnItsWay(k)
  BY <1>1, ReceivedWay
<1>3. ~Losing'
  BY <1>1 DEF Reads, ReceivePulse, Losing
<1>4. m \notin {"Start", "Continue"} => sending' \notin Restarts
  BY <1>1 DEF Reads, Restarts
<1>5. CASE EndsInStop
  <2> PICK j \in DOMAIN Sent :
        Sent[j] = "Stop"
        /\ \A i \in DOMAIN Sent : i > j => Sent[i] \notin {"Start", "Continue"}
    BY <1>5 DEF EndsInStop
  <2>1. CASE j = 1
    <3>1. m = "Stop" /\ sending' = "SyncStop"
      BY <1>1, <2>1 DEF Reads
    <3>2. \A i \in DOMAIN Sent' : Sent'[i] \notin {"Start", "Continue"}
      <4> SUFFICES ASSUME NEW i \in DOMAIN Sent' PROVE Sent'[i] \notin {"Start", "Continue"}
        OBVIOUS
      <4>1. i + 1 \in DOMAIN Sent /\ i + 1 > j /\ Sent'[i] = Sent[i + 1]
        BY <1>1, <2>1
      <4> QED
        BY <4>1
    <3> QED
      BY <1>3, <3>1, <3>2 DEF SlavesInv, Quieting, OnItsWay
  <2>2. CASE j # 1
    <3>1. j - 1 \in DOMAIN Sent' /\ (j - 1) + 1 = j
      BY <1>1, <2>2
    <3>2. Sent'[j - 1] = "Stop"
      BY <1>1, <3>1
    <3>3. \A i \in DOMAIN Sent' : i > j - 1 => Sent'[i] \notin {"Start", "Continue"}
      <4> SUFFICES ASSUME NEW i \in DOMAIN Sent', i > j - 1
                   PROVE  Sent'[i] \notin {"Start", "Continue"}
        OBVIOUS
      <4>1. i + 1 \in DOMAIN Sent /\ i + 1 > j /\ Sent'[i] = Sent[i + 1]
        BY <1>1, <3>1
      <4> QED
        BY <4>1
    <3>4. EndsInStop'
      BY <3>1, <3>2, <3>3 DEF EndsInStop
    <3> QED
      BY <1>3, <3>4 DEF SlavesInv
  <2> QED
    BY <2>1, <2>2
<1>6. CASE Calm
  <2>1. m \notin {"Start", "Continue"}
    BY <1>2, <1>6 DEF Calm
  <2>2. Quieting'
    BY <1>1, <1>4, <1>6, <2>1, QuietingReceives DEF Calm
  <2> QED
    BY <1>2, <1>3, <1>6, <2>2 DEF SlavesInv, Calm
<1>7. CASE ~EndsInStop /\ ~Calm
  BY <1>1, <1>3, <1>7 DEF SlavesInv, Calm
<1> QED
  BY <1>5, <1>6, <1>7

LEMMA SlavesElsewhere ==
  TypeInv /\ SlavesInv /\ (Elsewhere \/ Tick \/ UNCHANGED vars) => SlavesInv'
<1> SUFFICES ASSUME TypeInv, SlavesInv, Elsewhere \/ Tick \/ UNCHANGED vars,
                    ForwardingEnabled
             PROVE  SlavesInv'
  BY DEF SlavesInv
<1>1. CASE ReceiveTimeout
  <2>1. /\ UNCHANGED <<engineVars, Sent, downstream>> /\ (raced => raced')
        /\ \/ sending' = "SyncStop" /\ (~raced' => relaying = None)
           \/ UNCHANGED <<clockState, sending, step>>
        /\ relaying = None => Sent = <<>>
    BY <1>1 DEF ReceiveTimeout, ToEngine, receiverVars, Sent
  <2>2. CASE UNCHANGED <<clockState, sending, step>>
    <3>1. Quieting => Quieting'
      BY <2>1, <2>2, QuietingSame
    <3> QED
      BY <2>1, <2>2, <3>1 DEF SlavesInv, Losing, EndsInStop, OnItsWay
  <2>3. CASE sending' = "SyncStop" /\ (~raced' => relaying = None)
    <3>1. ~raced' => Sent' = <<>> /\ Quieting'
      BY <2>1, <2>3 DEF Quieting
    <3> QED
      BY <3>1 DEF SlavesInv, OnItsWay
  <2> QED
    BY <2>1, <2>2, <2>3
<1>2. CASE SendToEngine
  <2>1. /\ UNCHANGED <<Sent, downstream, raced, clockState>> /\ step = "Send"
        /\ Losing' => Losing
    BY <1>2 DEF SendToEngine, Losing, outputVars, Sent
  <2>2. Quieting => Quieting'
    BY <1>2, QuietingSends
  <2> QED
    BY <2>1, <2>2 DEF SlavesInv, EndsInStop, OnItsWay
<1>3. CASE ForwardStop
  <2>1. /\ UNCHANGED <<engineVars, Sent, raced, sending>> /\ step = "ForwardStop"
        /\ step' = "Receive"
    BY <1>3 DEF ForwardStop, Sent
  <2>2. Losing /\ ~Losing'
    BY <2>1 DEF Losing, TypeInv, ReceiverTypes
  <2>3. ~raced => Sent' = <<>> /\ Quieting'
    BY <2>1, <2>2, QuietingSame DEF SlavesInv
  <2> QED
    BY <2>1, <2>2, <2>3 DEF SlavesInv, OnItsWay
<1>4. CASE PlayerThread \/ LoadProject
  <2>1. UNCHANGED <<Sent, downstream, raced, clockState, step, sending>>
    BY <1>4 DEF PlayerThread, LoadProject, receiverVars, outputVars, Sent
  <2>2. Quieting => Quieting'
    BY <1>4, QuietingPlays
  <2> QED
    BY <2>1, <2>2 DEF SlavesInv, EndsInStop, OnItsWay, Losing
<1>5. CASE Deliver \/ Tick \/ UNCHANGED vars
  <2>1. UNCHANGED <<engineVars, Sent, downstream, raced, clockState, step, sending>>
    BY <1>5, DeliverSame DEF Tick, vars, receiverVars, outputVars, Sent
  <2>2. Quieting => Quieting'
    BY <2>1, QuietingSame
  <2> QED
    BY <2>1, <2>2 DEF SlavesInv, EndsInStop, OnItsWay, Losing
<1> QED
  BY <1>1, <1>2, <1>3, <1>4, <1>5 DEF Elsewhere

(* What is chained to the output port rolls while the loop plays, unless a *)
(* message was with the callback while the receiver declared a loss: a     *)
(* slave that was told to stop last is one whose Stop, relayed or its own, *)
(* reaches the player before any Start or Continue does.                   *)
THEOREM SlavesFollow == Spec => []SlavesFollowLoop
<1> DEFINE Untouched == ~ForwardingEnabled => downstream = "stopped"
<1>1. Init => SlavesInv /\ Untouched
  <2> SUFFICES ASSUME Init PROVE SlavesInv /\ Untouched
    OBVIOUS
  <2>1. /\ Sent = <<>> /\ queue = <<>> /\ state = "Stopped" /\ phase = "Ready"
        /\ sending = "None" /\ step = "Receive" /\ downstream = "stopped"
    BY DEF Init, EngineInit, Sent
  <2>2. Quieting
    BY <2>1 DEF Quieting, QuietQueue, AtRest, Restarts
  <2> QED
    BY <2>1, <2>2 DEF SlavesInv, OnItsWay, Losing
<1>2. TypeInv /\ SlavesInv /\ [Next]_vars => SlavesInv'
  BY StepCases, SlavesByDevice, SlavesByReceive, SlavesElsewhere
<1>3. Untouched /\ [Next]_vars => Untouched'
  <2> SUFFICES ASSUME [Next]_vars, ~ForwardingEnabled PROVE UNCHANGED downstream
    OBVIOUS
  <2>1. DeviceStep => UNCHANGED downstream
    BY DeviceParts DEF DeviceSilent, Relay, outputVars
  <2>2. ReceiverStep => UNCHANGED downstream
    BY DEF ReceiverStep, ReceivePulse, ReceiveStart, ReceiveContinue, ReceiveStop,
           ReceiveLocate, Receive, ReceiveTimeout, SendToEngine, ForwardStop, outputVars
  <2>3. Deliver \/ PlayerThread \/ LoadProject \/ Tick => UNCHANGED downstream
    BY DEF Deliver, PlayerThread, LoadProject, Tick, outputVars
  <2> QED
    BY <2>1, <2>2, <2>3 DEF Next, vars, outputVars
<1>4. TypeInv /\ SlavesInv /\ Untouched => SlavesFollowLoop
  <2> SUFFICES ASSUME TypeInv, SlavesInv, ForwardingEnabled, Drained, ~raced,
                      state = "Running"
               PROVE  downstream = "rolling"
    BY DEF SlavesFollowLoop
  <2>1. ~EndsInStop /\ ~Quieting
    BY QuietingRests DEF EndsInStop, Drained, Idle, Sent
  <2> QED
    BY <2>1 DEF SlavesInv, TypeInv, ReceiverTypes
<1> QED
  BY <1>1, <1>2, <1>3, <1>4, TypeAlways, PTL DEF Spec

=============================================================================
