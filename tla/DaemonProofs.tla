----------------------------- MODULE DaemonProofs -----------------------------
(***************************************************************************)
(* Proofs about the propeller daemon and the loop engine under it, for all *)
(* clients, requests, projects and bounds: every property the run "daemon" *)
(* checks.                                                                 *)
(***************************************************************************)
EXTENDS Daemon, TLAPS

-----------------------------------------------------------------------------
(* The parts of the inductive invariant.                                   *)

(* What the handlers and the shutdown send; the rest of LoopCommand comes  *)
(* from the clock receiver.                                                *)
SentCommands == {"Start", "Stop", "ClockStart", "ClockPause", "ClockResume", "ClockStop"}

Steps ==
  {"Ok", "Error", "Dispatch", "CopyActive", "QueueCopy", "CheckState", "LeaveClock",
   "SetMode", "NeedProject", "SendStart", "SendStop", "SendClockStart", "SendClockStop",
   "Signal"}

HandlerTypes ==
  /\ mode \in EngineMode
  /\ step \in [Clients -> Steps]
  /\ DOMAIN request = Clients /\ DOMAIN read = Clients
  /\ wrote \in [Clients -> BOOLEAN]
  /\ \A c \in Clients : ~AtRest(c) => request[c] \in Requests[c]
  /\ \A c \in Clients : step[c] = "QueueCopy" => read[c] \in Projects
  /\ \A c \in Clients :
       step[c] \in {"CheckState", "LeaveClock", "SetMode"} => request[c].arg \in EngineMode
  /\ signalled \in BOOLEAN /\ manner \in Manners
  /\ main \in MainSteps

(* What is never answered with an error once something has changed.        *)
NothingWritten ==
  \A c \in Clients : step[c] \in {"Dispatch", "NeedProject", "Error"} => ~wrote[c]

(* Without a receiver's commands the thread never rebuilds a stopped or    *)
(* paused loop, and is no clock master before it runs.                     *)
EngineInv ==
  /\ queue \in Seq(SentCommands)
  /\ phase \in {"Ready", "Starting", "Dead"}
  /\ starting \in {"None", "Start", "ClockStart", "Promoted"}
  /\ phase # "Ready" => state \in {"Stopped", "Waiting"}
  /\ state \in {"Stopped", "Waiting"} => ~isClockMode

TypeInv == EngineTypeOK /\ HandlerTypes /\ NothingWritten /\ EngineInv

(* While nobody is careless, a request is handled by an idle engine, but   *)
(* for the last step of one that has just stopped it.                      *)
Playing == state \in {"Running", "Paused"}
Leaving == queue = <<"ClockStop">> /\ Playing
Busy(c) == ~AtRest(c)

OneAtATime ==
  /\ \A c, d \in Clients : Busy(c) /\ Busy(d) => c = d
  /\ \A c \in Clients : Busy(c) =>
       /\ main = "Serving" /\ ~signalled
       /\ EngineIdle \/ (step[c] = "SetMode" /\ Leaving)
       /\ step[c] = "LeaveClock" => Playing
  /\ signalled /\ main = "Serving" => EngineIdle
  /\ main = "ReadState" => EngineIdle
  /\ main = "SendStop" => EngineIdle /\ Playing
  /\ main = "Drain" => Leaving \/ (EngineIdle /\ state = "Stopped")
  /\ main \in {"Unlink", "Exited"} => EngineIdle /\ ~Playing

(* Slaves roll only under a clock master, who alone is resumed.            *)
Sent(command) == \E i \in DOMAIN queue : queue[i] = command

Rolling ==
  /\ transport = "rolling" => isClockMode
  /\ Sent("ClockResume") => queue = <<"ClockResume">> /\ isClockMode

RollingInv ==
  /\ Rolling
  /\ \A c \in Clients :
       step[c] = "Dispatch" /\ request[c].name = "clock-resume" => isClockMode

(* Without an explicit clock-start, there is a clock master in clock mode, *)
(* on the way there, or about to be stopped.                               *)
ClockStarting ==
  Sent("ClockStart") \/ (phase = "Starting" /\ starting = "ClockStart")

ModeInv ==
  /\ isClockMode => mode = "clock" \/ Leaving
  /\ ClockStarting => mode = "clock"
  /\ \A c \in Clients :
       /\ \/ step[c] \in {"NeedProject", "SendClockStart"}
          \/ step[c] = "Dispatch" /\ request[c].name = "clock-start"
          => mode = "clock"
       /\ step[c] \in {"CheckState", "LeaveClock", "SetMode"} => read[c] = mode
       /\ step[c] = "SetMode" /\ read[c] = "clock" /\ request[c].arg # "clock"
            => Leaving \/ ~isClockMode

CalmInv ==
  /\ manner # "careless" => OneAtATime /\ RollingInv
  /\ manner = "calm" => ModeInv

-----------------------------------------------------------------------------
(* The loop engine.                                                        *)

LEMMA Popped ==
  ASSUME NEW S, queue \in Seq(S), NEW names, Receives(names), Pop
  PROVE  queue' \in Seq(S) /\ Head(queue) \in S \cap names /\ queue # <<>>
         /\ Head(queue) = queue[1]
         /\ \A k : Sent(k)' => Sent(k)
<1>1. queue # <<>> /\ queue' = Tail(queue) /\ Head(queue) \in names
  BY DEF Receives, Pop
<1>2. /\ Tail(queue) \in Seq(S) /\ Head(queue) \in S /\ Head(queue) = queue[1]
      /\ \A i \in DOMAIN Tail(queue) : i + 1 \in DOMAIN queue /\ Tail(queue)[i] = queue[i + 1]
  BY <1>1
<1>3. \A k : Sent(k)' => Sent(k)
  BY <1>1, <1>2 DEF Sent
<1> QED
  BY <1>1, <1>2, <1>3

LEMMA EngineInitTyped == EngineInit => EngineTypeOK /\ EngineInv
<1> SUFFICES ASSUME EngineInit PROVE EngineTypeOK /\ EngineInv
  OBVIOUS
<1>1. queue \in Seq(LoopCommand) /\ queue \in Seq(SentCommands)
  BY DEF EngineInit
<1>2. /\ state \in EngineState /\ phase \in Phases
      /\ isClockMode \in BOOLEAN /\ transport \in {"stopped", "rolling"}
  BY DEF EngineInit, EngineState, Phases
<1> QED
  BY <1>1, <1>2 DEF EngineInit, EngineTypeOK, EngineInv

LEMMA EngineTyped == EngineTypeOK /\ EngineStep => EngineTypeOK'
<1> SUFFICES ASSUME EngineTypeOK, EngineStep PROVE EngineTypeOK'
  OBVIOUS
<1>1. ASSUME NEW names, Receives(names), Pop
      PROVE  queue' \in Seq(LoopCommand) /\ Head(queue) \in names
  BY <1>1, Popped DEF EngineTypeOK
<1> USE DEF EngineTypeOK, EngineState, Phases
<1>2. CASE BeginOrWait
  <2>1. queue' \in Seq(LoopCommand) /\ Head(queue) \in StartCommands
    BY <1>1, <1>2 DEF BeginOrWait
  <2> QED
    BY <1>2, <2>1 DEF BeginOrWait
<1>3. CASE StoppedDrop
  BY <1>1, <1>3 DEF StoppedDrop
<1>4. CASE StartRunning
  BY <1>4 DEF StartRunning
<1>5. CASE Panic
  BY <1>5 DEF Panic
<1>6. CASE Promote
  BY <1>6 DEF Promote
<1>7. CASE WaitingReceive
  <2>1. queue' \in Seq(LoopCommand)
    BY <1>7 DEF WaitingReceive, Pop
  <2> QED
    BY <1>7, <2>1 DEF WaitingReceive
<1>8. CASE MidLoopStop
  BY <1>1, <1>8 DEF MidLoopStop, ReturnTo
<1>9. CASE MidLoopPause
  BY <1>1, <1>9 DEF MidLoopPause, ReturnTo
<1>10. CASE MidLoopOther
  BY <1>1, <1>10 DEF MidLoopOther, ReturnTo
<1>11. CASE CommitPending
  BY <1>11 DEF CommitPending
<1>12. CASE PausedResume
  BY <1>1, <1>12 DEF PausedResume
<1>13. CASE PausedLocate
  BY <1>1, <1>13 DEF PausedLocate
<1>14. CASE PausedStop
  BY <1>1, <1>14 DEF PausedStop
<1>15. CASE PausedDrop
  BY <1>1, <1>15 DEF PausedDrop
<1>16. CASE LocateEnds
  BY <1>16 DEF LocateEnds
<1>17. CASE BlindEnds
  BY <1>17 DEF BlindEnds, ReturnTo
<1> QED
  BY <1>2, <1>3, <1>4, <1>5, <1>6, <1>7, <1>8, <1>9, <1>10, <1>11, <1>12, <1>13, <1>14, <1>15,
     <1>16, <1>17 DEF EngineStep

LEMMA SendTyped ==
  ASSUME EngineTypeOK, NEW c \in LoopCommand, Send(c)
  PROVE  EngineTypeOK'
BY DEF EngineTypeOK, Send

LEMMA StoreTyped ==
  ASSUME EngineTypeOK,
         \/ \E p \in Projects : SetPending(p) \/ SetActive(p)
         \/ Clear
  PROVE  EngineTypeOK'
BY DEF EngineTypeOK, SetPending, SetActive, Clear, StoreUnchanged

(* The engine's variables keep their types whatever its clients send and   *)
(* store: the thread is always in one of its documented states.            *)
THEOREM EngineTypeCorrect == EngineSpec => []EngineTypeOK
<1>1. EngineInit => EngineTypeOK
  BY EngineInitTyped
<1>2. EngineTypeOK /\ [EngineStep \/ ClientStep]_engineVars => EngineTypeOK'
  BY EngineTyped, SendTyped, StoreTyped DEF ClientStep, engineVars, EngineTypeOK
<1> QED
  BY <1>1, <1>2, PTL DEF EngineSpec

(* What the thread does with the commands of a daemon's clients.           *)
LEMMA EngineInvKept == EngineTypeOK /\ EngineInv /\ EngineStep => EngineInv'
<1> SUFFICES ASSUME EngineTypeOK, EngineInv, EngineStep PROVE EngineInv'
  OBVIOUS
<1>1. ASSUME NEW names, Receives(names), Pop
      PROVE  queue' \in Seq(SentCommands) /\ Head(queue) \in SentCommands \cap names
  BY <1>1, Popped DEF EngineInv
<1> USE DEF EngineInv
<1>2. CASE BeginOrWait
  <2>1. queue' \in Seq(SentCommands) /\ Head(queue) \in {"Start", "ClockStart"}
    BY <1>1, <1>2 DEF BeginOrWait, StartCommands, SentCommands
  <2> QED
    BY <1>2, <2>1 DEF BeginOrWait, Ready
<1>3. CASE StoppedDrop \/ PausedDrop
  BY <1>1, <1>3 DEF StoppedDrop, PausedDrop
<1>4. CASE StartRunning
  BY <1>4 DEF StartRunning
<1>5. CASE Panic
  BY <1>5 DEF Panic
<1>6. CASE Promote
  BY <1>6 DEF Promote, Ready
<1>7. CASE WaitingReceive
  <2>1. queue' \in Seq(SentCommands)
    BY <1>7 DEF WaitingReceive, Pop
  <2> QED
    BY <1>7, <2>1 DEF WaitingReceive, Ready
<1>8. CASE MidLoopStop \/ MidLoopPause
  <2>1. queue' \in Seq(SentCommands)
    BY <1>1, <1>8 DEF MidLoopStop, MidLoopPause
  <2> QED
    BY <1>8, <2>1 DEF MidLoopStop, MidLoopPause, ReturnTo, MidLoop, Ready
<1>9. CASE MidLoopOther
  <2>1. queue' \in Seq(SentCommands) /\ ~Receives({"SyncContinue"})
    BY <1>1, <1>9 DEF MidLoopOther, SentCommands, Receives
  <2> QED
    BY <1>9, <2>1 DEF MidLoopOther, ReturnTo, MidLoop, Ready
<1>10. CASE CommitPending
  BY <1>10 DEF CommitPending
<1>11. CASE PausedResume \/ PausedStop
  <2>1. queue' \in Seq(SentCommands)
    BY <1>1, <1>11 DEF PausedResume, PausedStop
  <2> QED
    BY <1>11, <2>1 DEF PausedResume, PausedStop, Ready
<1>12. ~PausedLocate
  BY <1>1 DEF PausedLocate, SentCommands
<1>13. ~LocateEnds /\ ~BlindEnds
  BY DEF LocateEnds, BlindEnds
<1> QED
  BY <1>2, <1>3, <1>4, <1>5, <1>6, <1>7, <1>8, <1>9, <1>10, <1>11, <1>12, <1>13 DEF EngineStep

LEMMA SendInv ==
  ASSUME EngineInv, NEW k \in SentCommands, Send(k)
  PROVE  EngineInv'
BY DEF EngineInv, Send

LEMMA SentLoop == SentCommands \subseteq LoopCommand
BY DEF SentCommands, LoopCommand

-----------------------------------------------------------------------------
(* Types.                                                                  *)

LEMMA TypeInvOK == TypeInv => TypeOK
BY DEF TypeInv, TypeOK, HandlerTypes, Steps

LEMMA InitTyped == Init => TypeInv
<1> SUFFICES ASSUME Init PROVE TypeInv
  OBVIOUS
<1>1. EngineTypeOK /\ EngineInv
  BY EngineInitTyped DEF Init
<1>2. HandlerTypes /\ NothingWritten
  BY DaemonAssumption
  DEF Init, HandlerTypes, NothingWritten, Steps, AtRest, Manners, MainSteps
<1> QED
  BY <1>1, <1>2 DEF TypeInv

(* How a handler goes on: its own entries change, and nobody else's.       *)
LEMMA ContinueTyped ==
  ASSUME TypeInv, NEW c \in Clients, NEW s \in Steps, ~AtRest(c), Continue(c, s), KeepSettings,
         DOMAIN read' = Clients, wrote' \in [Clients -> BOOLEAN],
         \A d \in Clients \ {c} : read'[d] = read[d] /\ wrote'[d] = wrote[d],
         s = "QueueCopy" => read'[c] \in Projects,
         s \in {"CheckState", "LeaveClock", "SetMode"} => request[c].arg \in EngineMode,
         s \in {"Dispatch", "NeedProject", "Error"} => ~wrote'[c]
  PROVE  HandlerTypes' /\ NothingWritten'
<1>1. \A d \in Clients : step'[d] = IF d = c THEN s ELSE step[d]
  BY DEF Continue, TypeInv, HandlerTypes
<1>2. step' \in [Clients -> Steps] /\ UNCHANGED <<request, signalled, main, manner, mode>>
  BY DEF Continue, TypeInv, HandlerTypes, KeepLife, KeepSettings
<1> QED
  BY <1>1, <1>2 DEF TypeInv, HandlerTypes, NothingWritten, AtRest

LEMMA AnswerTyped ==
  ASSUME TypeInv, NEW c \in Clients, NEW status \in {"Ok", "Error"}, Answer(c, status),
         mode' \in EngineMode, wrote' \in [Clients -> BOOLEAN],
         \A d \in Clients \ {c} : wrote'[d] = wrote[d],
         status = "Error" => ~wrote'[c]
  PROVE  HandlerTypes' /\ NothingWritten'
<1>1. \A d \in Clients \ {c} :
        step'[d] = step[d] /\ request'[d] = request[d] /\ read'[d] = read[d]
  BY DEF Answer, TypeInv, HandlerTypes
<1>2. /\ step'[c] = status /\ step' \in [Clients -> Steps] /\ DOMAIN request' = Clients
      /\ DOMAIN read' = Clients /\ UNCHANGED <<signalled, main, manner>>
  BY DEF Answer, TypeInv, HandlerTypes, KeepLife, Steps
<1> QED
  BY <1>1, <1>2 DEF TypeInv, HandlerTypes, NothingWritten, AtRest

LEMMA RespondTyped ==
  ASSUME TypeInv, NEW c \in Clients, NEW status \in {"Ok", "Error"}, Respond(c, status),
         status = "Error" => ~wrote[c]
  PROVE  TypeInv'
<1>1. HandlerTypes' /\ NothingWritten'
  BY AnswerTyped DEF Respond, KeepSettings, TypeInv, HandlerTypes
<1>2. EngineTypeOK' /\ EngineInv'
  BY DEF Respond, KeepEngine, engineVars, EngineTypeOK, EngineInv, TypeInv
<1> QED
  BY <1>1, <1>2 DEF TypeInv

LEMMA DoneTyped ==
  ASSUME TypeInv, NEW c \in Clients, Done(c), mode' \in EngineMode
  PROVE  HandlerTypes' /\ NothingWritten'
BY AnswerTyped DEF Done, TypeInv, HandlerTypes

LEMMA EngineKept == TypeInv /\ KeepEngine => EngineTypeOK' /\ EngineInv'
BY DEF TypeInv, KeepEngine, engineVars, EngineTypeOK, EngineInv

LEMMA StoreKept ==
  ASSUME TypeInv,
         \/ \E p \in Projects : SetPending(p) \/ SetActive(p)
         \/ Clear
  PROVE  EngineTypeOK' /\ EngineInv'
<1>1. EngineTypeOK'
  BY StoreTyped DEF TypeInv
<1>2. EngineInv'
  BY DEF TypeInv, SetPending, SetActive, Clear, StoreUnchanged, EngineInv
<1> QED
  BY <1>1, <1>2

LEMMA SendKept ==
  ASSUME TypeInv, NEW k \in SentCommands, Send(k)
  PROVE  EngineTypeOK' /\ EngineInv'
BY SendTyped, SendInv, SentLoop DEF TypeInv

LEMMA HandlerTyped ==
  ASSUME TypeInv, NEW c \in Clients, HandlerStep(c)
  PROVE  TypeInv'
<1> SUFFICES TypeInv' \/ (EngineTypeOK' /\ EngineInv' /\ HandlerTypes' /\ NothingWritten')
  BY DEF TypeInv
<1>t. /\ step \in [Clients -> Steps] /\ DOMAIN read = Clients
      /\ wrote \in [Clients -> BOOLEAN] /\ mode \in EngineMode
      /\ step[c] \in {"Dispatch", "NeedProject", "Error"} => ~wrote[c]
  BY DEF TypeInv, HandlerTypes, NothingWritten
<1>e. ASSUME step[c] \in {"Dispatch", "NeedProject"}, Refuse(c) PROVE TypeInv'
  BY <1>e, <1>t, RespondTyped DEF Refuse
<1>w. Wrote(c) => /\ wrote' \in [Clients -> BOOLEAN]
                  /\ \A d \in Clients \ {c} : wrote'[d] = wrote[d]
  BY <1>t DEF Wrote
<1>r. ASSUME NEW v, Remember(c, v)
      PROVE  /\ DOMAIN read' = Clients /\ read'[c] = v
             /\ \A d \in Clients \ {c} : read'[d] = read[d]
  BY <1>r, <1>t DEF Remember
<1> USE DEF Asks, At
<1>1. CASE Query(c)
  BY <1>1, <1>t, RespondTyped DEF Query
<1>2. CASE HandleGetPosition(c)
  BY <1>2, RespondTyped DEF HandleGetPosition
<1>3. CASE HandleCreateProject(c)
  BY <1>3, <1>t, <1>e, StoreKept, DoneTyped DEF HandleCreateProject, KeepSettings
<1>4. CASE HandleModifyProject(c)
  BY <1>4, <1>t, <1>e, StoreKept, DoneTyped DEF HandleModifyProject, KeepSettings
<1>5. CASE HandleClearProject(c)
  <2>1. HandlerTypes' /\ NothingWritten'
    BY <1>5, <1>t, <1>w, ContinueTyped DEF HandleClearProject, Steps, AtRest
  <2> QED
    BY <1>5, <2>1, StoreKept DEF HandleClearProject
<1>6. CASE HandleSetBpm(c)
  <2>1. CASE ~Refuse(c)
    <3>1. HandlerTypes' /\ NothingWritten'
      BY <1>6, <2>1, <1>t, <1>w, ContinueTyped DEF HandleSetBpm, Steps, AtRest
    <3> QED
      BY <1>6, <2>1, <3>1, EngineKept DEF HandleSetBpm
  <2>2. CASE Refuse(c)
    BY <1>6, <2>2, <1>e DEF HandleSetBpm
  <2> QED
    BY <2>1, <2>2
<1>7. CASE SetBpmCopy(c)
  <2>1. CASE active = None
    BY <1>7, <2>1, <1>t, DoneTyped, EngineKept DEF SetBpmCopy, KeepSettings
  <2>2. CASE active # None
    <3>1. active \in Projects
      BY <2>2 DEF TypeInv, EngineTypeOK
    <3>2. HandlerTypes' /\ NothingWritten'
      BY <1>7, <2>2, <3>1, <1>t, <1>r, ContinueTyped DEF SetBpmCopy, Steps, AtRest
    <3> QED
      BY <1>7, <2>2, <3>2, EngineKept DEF SetBpmCopy
  <2> QED
    BY <2>1, <2>2
<1>8. CASE SetBpmQueue(c)
  <2>1. read[c] \in Projects
    BY <1>8 DEF SetBpmQueue, TypeInv, HandlerTypes
  <2> QED
    BY <1>8, <2>1, <1>t, StoreKept, DoneTyped DEF SetBpmQueue, KeepSettings
<1>9. CASE HandleSetMode(c)
  <2>1. CASE ~Refuse(c)
    <3>1. HandlerTypes' /\ NothingWritten'
      BY <1>9, <2>1, <1>t, <1>r, ContinueTyped DEF HandleSetMode, Steps, AtRest
    <3> QED
      BY <1>9, <2>1, <3>1, EngineKept DEF HandleSetMode
  <2>2. CASE Refuse(c)
    BY <1>9, <2>2, <1>e DEF HandleSetMode
  <2> QED
    BY <2>1, <2>2
<1>10. CASE SetModeCheck(c)
  <2>1. request[c].arg \in EngineMode
    BY <1>10 DEF SetModeCheck, TypeInv, HandlerTypes
  <2>2. HandlerTypes' /\ NothingWritten'
    BY <1>10, <2>1, <1>t, ContinueTyped DEF SetModeCheck, Steps, AtRest
  <2> QED
    BY <1>10, <2>2, EngineKept DEF SetModeCheck
<1>11. CASE SetModeLeave(c)
  <2>1. request[c].arg \in EngineMode
    BY <1>11 DEF SetModeLeave, TypeInv, HandlerTypes
  <2>2. HandlerTypes' /\ NothingWritten'
    BY <1>11, <2>1, <1>t, <1>w, ContinueTyped DEF SetModeLeave, Steps, AtRest
  <2> QED
    BY <1>11, <2>2, SendKept DEF SetModeLeave, SentCommands
<1>12. CASE SetModeWrite(c)
  <2>1. request[c].arg \in EngineMode
    BY <1>12 DEF SetModeWrite, TypeInv, HandlerTypes
  <2> QED
    BY <1>12, <2>1, DoneTyped, EngineKept DEF SetModeWrite
<1>13. CASE HandleLoopStart(c) \/ HandleLoopStop(c) \/ RequireProject(c)
  <2>0. step[c] \in {"Dispatch", "NeedProject"}
    BY <1>13 DEF HandleLoopStart, HandleLoopStop, RequireProject
  <2>1. CASE ~Refuse(c)
    <3>1. PICK s \in {"NeedProject", "SendStart", "SendClockStop", "SendStop", "SendClockStart"} :
            Continue(c, s)
      BY <1>13, <2>1 DEF HandleLoopStart, HandleLoopStop, RequireProject
    <3>2. KeepEngine /\ KeepSettings /\ UNCHANGED <<read, wrote>>
      BY <1>13, <2>1 DEF HandleLoopStart, HandleLoopStop, RequireProject
    <3>3. HandlerTypes' /\ NothingWritten'
      BY <2>0, <3>1, <3>2, <1>t, ContinueTyped DEF Steps, AtRest
    <3> QED
      BY <3>2, <3>3, EngineKept
  <2>2. CASE Refuse(c)
    BY <2>0, <2>2, <1>e
  <2> QED
    BY <2>1, <2>2
<1>14. CASE SendCommand(c)
  <2>1. PICK k \in SentCommands : SendAndAnswer(c, k)
    BY <1>14 DEF SendCommand, SentCommands
  <2> QED
    BY <2>1, <1>t, SendKept, DoneTyped DEF SendAndAnswer, KeepSettings
<1>15. CASE HandleStop(c) \/ SignalShutdown(c)
  <2>1. HandlerTypes' /\ NothingWritten'
    <3>1. CASE HandleStop(c)
      BY <3>1 DEF HandleStop, TypeInv, HandlerTypes, NothingWritten, Steps, AtRest,
                  KeepSettings, KeepLife
    <3>2. CASE SignalShutdown(c)
      BY <3>2 DEF SignalShutdown, TypeInv, HandlerTypes, NothingWritten, Steps, AtRest,
                  KeepSettings
    <3> QED
      BY <1>15, <3>1, <3>2
  <2> QED
    BY <1>15, <2>1, EngineKept DEF HandleStop, SignalShutdown
<1> QED
  BY <1>1, <1>2, <1>3, <1>4, <1>5, <1>6, <1>7, <1>8, <1>9, <1>10, <1>11, <1>12, <1>13, <1>14,
     <1>15 DEF HandlerStep

LEMMA MannerForward ==
  ASSUME TypeInv, NEW c \in Clients, NEW r, Submit(c, r)
  PROVE  /\ manner' \in Manners
         /\ manner' # "careless" =>
              /\ manner # "careless" /\ Quiet
              /\ r.name = "clock-resume" => isClockMode
         /\ manner' = "calm" =>
              manner = "calm" /\ (r.name = "clock-start" => mode = "clock")
<1>1. manner \in Manners
  BY DEF TypeInv, HandlerTypes
<1>2. CASE ~Quiet \/ (r.name = "clock-resume" /\ ~isClockMode)
  <2>1. manner' = "careless"
    BY <1>2 DEF Submit
  <2> QED
    BY <2>1 DEF Manners
<1>3. CASE /\ Quiet /\ ~(r.name = "clock-resume" /\ ~isClockMode)
           /\ r.name = "clock-start" /\ mode # "clock" /\ manner = "calm"
  <2>1. manner' = "forced"
    BY <1>3 DEF Submit
  <2> QED
    BY <1>3, <2>1 DEF Manners
<1>4. CASE /\ Quiet /\ ~(r.name = "clock-resume" /\ ~isClockMode)
           /\ ~(r.name = "clock-start" /\ mode # "clock" /\ manner = "calm")
  <2>1. manner' = manner
    BY <1>4 DEF Submit
  <2> QED
    BY <1>1, <1>4, <2>1
<1> QED
  BY <1>2, <1>3, <1>4

LEMMA SubmitTyped ==
  ASSUME TypeInv, NEW c \in Clients, NEW r \in Requests[c], Submit(c, r)
  PROVE  TypeInv'
<1>1. /\ step' = [step EXCEPT ![c] = "Dispatch"] /\ request' = [request EXCEPT ![c] = r]
      /\ wrote' = [wrote EXCEPT ![c] = FALSE] /\ UNCHANGED <<read, signalled, main, mode>>
      /\ KeepEngine
  BY DEF Submit, KeepSettings
<1>2. HandlerTypes'
  BY <1>1, MannerForward DEF TypeInv, HandlerTypes, Steps, AtRest
<1>3. NothingWritten'
  BY <1>1 DEF TypeInv, HandlerTypes, NothingWritten
<1> QED
  BY <1>1, <1>2, <1>3, EngineKept DEF TypeInv

LEMMA MainTyped == TypeInv /\ (Terminate \/ MainStep) => TypeInv'
<1> SUFFICES ASSUME TypeInv, Terminate \/ MainStep PROVE TypeInv'
  OBVIOUS
<1> USE DEF MainSteps, KeepHandlers, KeepSettings
<1>1. CASE LeaveSelect \/ ShutdownRead \/ ShutdownDrained \/ ShutdownTimeout \/ Terminate
  <2>1. KeepEngine /\ KeepHandlers /\ main' \in MainSteps /\ manner' \in Manners
    BY <1>1 DEF LeaveSelect, ShutdownRead, ShutdownDrained, ShutdownTimeout, Terminate,
                TypeInv, HandlerTypes, Manners
  <2>2. HandlerTypes' /\ NothingWritten'
    BY <2>1 DEF TypeInv, HandlerTypes, NothingWritten, AtRest
  <2> QED
    BY <2>1, <2>2, EngineKept DEF TypeInv
<1>2. CASE ShutdownSend
  <2>1. HandlerTypes' /\ NothingWritten'
    BY <1>2 DEF ShutdownSend, TypeInv, HandlerTypes, NothingWritten, AtRest
  <2>2. EngineTypeOK' /\ EngineInv'
    BY <1>2, SendKept DEF ShutdownSend, SentCommands
  <2> QED
    BY <2>1, <2>2 DEF TypeInv
<1>3. CASE Unlink
  <2>1. HandlerTypes' /\ NothingWritten'
    BY <1>3 DEF Unlink, TypeInv, HandlerTypes, NothingWritten, AtRest, Steps
  <2>2. queue' \in Seq(LoopCommand) /\ queue' \in Seq(SentCommands)
    BY <1>3 DEF Unlink
  <2>3. EngineTypeOK' /\ EngineInv'
    BY <1>3, <2>2 DEF Unlink, TypeInv, EngineTypeOK, EngineInv
  <2> QED
    BY <2>1, <2>3 DEF TypeInv
<1> QED
  BY <1>1, <1>2, <1>3 DEF MainStep

LEMMA PlayerTyped == TypeInv /\ PlayerThread => TypeInv'
<1> SUFFICES ASSUME TypeInv, PlayerThread PROVE TypeInv'
  OBVIOUS
<1>1. EngineTypeOK' /\ EngineInv'
  BY EngineTyped, EngineInvKept DEF PlayerThread, TypeInv
<1>2. HandlerTypes' /\ NothingWritten'
  BY DEF PlayerThread, daemonVars, TypeInv, HandlerTypes, NothingWritten, AtRest
<1> QED
  BY <1>1, <1>2 DEF TypeInv

LEMMA StepTyped == TypeInv /\ [Next]_vars => TypeInv'
<1>1. CASE UNCHANGED vars
  BY <1>1, EngineKept
  DEF vars, daemonVars, KeepEngine, TypeInv, HandlerTypes, NothingWritten, AtRest
<1> QED
  BY <1>1, SubmitTyped, HandlerTyped, MainTyped, PlayerTyped DEF Next, Gone

LEMMA TypeInvariant == Spec => []TypeInv
BY InitTyped, StepTyped, PTL DEF Spec

(* Every variable of the daemon and the engine keeps its type: a handler   *)
(* never queues a copy of a project that is not there.                     *)
THEOREM DaemonTypeCorrect == Spec => []TypeOK
BY TypeInvariant, TypeInvOK, PTL

(* A request answered with an error has changed nothing on its way there,  *)
(* however many steps it took: the mode, the projects and the engine are   *)
(* as other requests left them.                                            *)
THEOREM ErrorsHarmless == Spec => []ErrorsChangeNothing
<1>1. TypeInv => ErrorsChangeNothing
  BY DEF TypeInv, NothingWritten, ErrorsChangeNothing
<1> QED
  BY <1>1, TypeInvariant, PTL

-----------------------------------------------------------------------------
(* What the thread does to an engine its clients wait for.                 *)

LEMMA IdleStep ==
  ASSUME TypeInv, EngineIdle, EngineStep
  PROVE  CommitPending
<1>1. /\ queue = <<>> /\ phase \in {"Ready", "Dead"}
      /\ state = "Waiting" => active = None /\ pending = None
  BY DEF EngineIdle
<1> QED
  BY <1>1 DEF EngineStep, BeginOrWait, StoppedDrop, StartRunning, Panic, Promote,
     WaitingReceive, MidLoopStop, MidLoopPause, MidLoopOther, PausedResume,
     PausedLocate, PausedStop, PausedDrop, LocateEnds, BlindEnds, Receives, Ready, MidLoop

LEMMA LeavingStep ==
  ASSUME TypeInv, Leaving, EngineStep
  PROVE  \/ CommitPending
         \/ EngineIdle' /\ state' = "Stopped" /\ ~isClockMode'
<1>1. queue = <<"ClockStop">> /\ state \in {"Running", "Paused"} /\ phase = "Ready"
  BY DEF Leaving, Playing, TypeInv, EngineInv
<1>2. queue # <<>> /\ Head(queue) = "ClockStop" /\ Tail(queue) = <<>>
  BY <1>1
<1>3. CASE MidLoopStop
  BY <1>1, <1>2, <1>3 DEF MidLoopStop, ReturnTo, Pop, EngineIdle
<1>4. CASE PausedStop
  BY <1>1, <1>2, <1>4 DEF PausedStop, Pop, EngineIdle
<1>5. /\ ~BeginOrWait /\ ~StoppedDrop /\ ~StartRunning /\ ~Panic /\ ~Promote /\ ~WaitingReceive
      /\ ~LocateEnds /\ ~BlindEnds
  BY <1>1 DEF BeginOrWait, StoppedDrop, StartRunning, Panic, Promote, WaitingReceive,
              LocateEnds, BlindEnds, Ready
<1>6. ~MidLoopPause /\ ~MidLoopOther /\ ~PausedResume /\ ~PausedLocate /\ ~PausedDrop
  BY <1>2 DEF MidLoopPause, MidLoopOther, PausedResume, PausedLocate, PausedDrop, Receives
<1> QED
  BY <1>3, <1>4, <1>5, <1>6 DEF EngineStep

(* A song committed at the boundary disturbs none of it.                   *)
LEMMA CommitKeeps ==
  ASSUME CommitPending
  PROVE  /\ UNCHANGED <<state, phase, starting, queue, isClockMode, transport>>
         /\ EngineIdle => EngineIdle'
         /\ Leaving => Leaving'
BY DEF CommitPending, EngineIdle, Leaving, Playing, Ready

LEMMA BusyStep ==
  ASSUME TypeInv, EngineIdle \/ Leaving, EngineStep
  PROVE  /\ EngineIdle => EngineIdle'
         /\ Leaving => Leaving' \/ (EngineIdle' /\ state' = "Stopped" /\ ~isClockMode')
         /\ EngineIdle => UNCHANGED <<state, isClockMode>>
         /\ isClockMode' => isClockMode
<1>1. CASE CommitPending
  BY <1>1, CommitKeeps
<1>2. CASE ~CommitPending
  BY <1>2, IdleStep, LeavingStep DEF EngineIdle, Leaving
<1> QED
  BY <1>1, <1>2

(* A command that is taken from the channel is no longer there.            *)
LEMMA Taken ==
  ASSUME TypeInv, queue # <<>>, Pop
  PROVE  /\ \A k : Sent(k)' => Sent(k)
         /\ Sent(Head(queue)) /\ Head(queue) \in SentCommands
         /\ \A k : queue = <<k>> => ~Sent("ClockResume")'
<1>1. queue \in Seq(SentCommands) /\ queue' = Tail(queue)
  BY DEF TypeInv, EngineInv, Pop
<1>2. /\ Head(queue) \in SentCommands /\ Head(queue) = queue[1] /\ 1 \in DOMAIN queue
      /\ \A i \in DOMAIN Tail(queue) : i + 1 \in DOMAIN queue /\ Tail(queue)[i] = queue[i + 1]
  BY <1>1
<1>3. \A k : queue = <<k>> => queue' = <<>>
  BY <1>1
<1> QED
  BY <1>1, <1>2, <1>3 DEF Sent

(* A clock master is one that was started as one.                          *)
LEMMA ClockStartKept ==
  ASSUME TypeInv, EngineStep
  PROVE  /\ isClockMode' => isClockMode \/ ClockStarting
         /\ ClockStarting' => ClockStarting
<1> USE DEF ClockStarting
<1>1. CASE queue # <<>> /\ Pop /\ UNCHANGED starting /\ phase' \in {phase, "Ready"}
           /\ (isClockMode' => isClockMode)
  <2>1. Sent("ClockStart")' => Sent("ClockStart")
    BY <1>1, Taken
  <2>2. phase' = "Starting" => phase = "Starting"
    BY <1>1
  <2> QED
    BY <1>1, <2>1, <2>2
<1>2. CASE BeginOrWait
  <2>1. queue # <<>> /\ Pop /\ UNCHANGED isClockMode
    BY <1>2 DEF BeginOrWait, Receives
  <2>2. phase' = "Starting" /\ starting' = "ClockStart" => Head(queue) = "ClockStart"
    BY <1>2 DEF BeginOrWait, Ready
  <2> QED
    BY <2>1, <2>2, Taken
<1>3. CASE StartRunning
  <2>1. UNCHANGED queue /\ starting' = "None" /\ phase = "Starting"
        /\ (isClockMode' => isClockMode \/ starting = "ClockStart")
    BY <1>3 DEF StartRunning
  <2> QED
    BY <2>1 DEF Sent
<1>4. CASE Panic
  <2>1. queue' = <<>> /\ phase' = "Dead" /\ UNCHANGED isClockMode
    BY <1>4 DEF Panic
  <2> QED
    BY <2>1 DEF Sent
<1>5. CASE Promote
  BY <1>5 DEF Promote, Sent
<1>6. CASE CommitPending
  BY <1>6 DEF CommitPending, Sent
<1>7. ~LocateEnds /\ ~BlindEnds /\ phase # "Blind"
  BY DEF LocateEnds, BlindEnds, TypeInv, EngineInv
<1>8. ~PausedLocate
  <2>1. queue # <<>> /\ queue \in Seq(SentCommands) => Head(queue) # "SyncSongPosition"
    BY DEF SentCommands
  <2> QED
    BY <2>1 DEF PausedLocate, Receives, TypeInv, EngineInv
<1>9. CASE StoppedDrop \/ WaitingReceive \/ MidLoopStop \/ MidLoopPause \/ MidLoopOther
           \/ PausedResume \/ PausedStop \/ PausedDrop
  BY <1>1, <1>7, <1>9 DEF StoppedDrop, WaitingReceive, MidLoopStop, MidLoopPause, MidLoopOther,
     PausedResume, PausedStop, PausedDrop, ReturnTo, Receives
<1> QED
  BY <1>2, <1>3, <1>4, <1>5, <1>6, <1>7, <1>8, <1>9 DEF EngineStep

LEMMA RollingKept ==
  ASSUME TypeInv, Rolling, EngineStep
  PROVE  Rolling'
<1>t. /\ state \in EngineState /\ transport \in {"stopped", "rolling"} /\ isClockMode \in BOOLEAN
      /\ state \in {"Stopped", "Waiting"} => ~isClockMode
      /\ phase # "Ready" => state \in {"Stopped", "Waiting"}
      /\ phase # "Blind"
  BY DEF TypeInv, EngineTypeOK, EngineInv
<1>1. CASE queue # <<>> /\ Pop
           /\ \/ UNCHANGED <<isClockMode, transport>>
              \/ transport' = "stopped"
              \/ isClockMode /\ transport' = "rolling" /\ UNCHANGED isClockMode
              \/ ~isClockMode /\ UNCHANGED <<isClockMode, transport>>
  <2>1. ~Sent("ClockResume")'
    BY <1>1, Taken DEF Rolling
  <2> QED
    BY <1>1, <2>1 DEF Rolling
<1>2. CASE UNCHANGED <<queue, isClockMode, transport>>
  BY <1>2 DEF Rolling, Sent
<1>3. CASE StartRunning
  <2>1. ~isClockMode /\ transport = "stopped" /\ ~Sent("ClockResume") /\ UNCHANGED queue
    BY <1>3, <1>t DEF StartRunning, Rolling
  <2>2. transport' = "rolling" => isClockMode'
    BY <1>3, <2>1 DEF StartRunning
  <2> QED
    BY <2>1, <2>2 DEF Rolling, Sent
<1>4. CASE Panic
  <2>1. queue' = <<>> /\ UNCHANGED <<isClockMode, transport>>
    BY <1>4 DEF Panic
  <2> QED
    BY <2>1 DEF Rolling, Sent
<1>5. CASE PausedResume
  <2>1. queue # <<>> /\ Pop /\ UNCHANGED isClockMode
        /\ transport' = IF Head(queue) = "ClockResume" THEN "rolling" ELSE transport
    BY <1>5 DEF PausedResume, Receives
  <2>2. Head(queue) = "ClockResume" => isClockMode
    BY <2>1, Taken DEF Rolling
  <2> QED
    BY <1>1, <2>1, <2>2
<1>6. CASE MidLoopStop \/ PausedStop
  <2>1. queue # <<>> /\ Pop /\ ~isClockMode' /\ transport' = "stopped"
    BY <1>6, <1>t DEF MidLoopStop, PausedStop, Receives, Rolling
  <2> QED
    BY <1>1, <2>1
<1>7. CASE BeginOrWait \/ StoppedDrop \/ WaitingReceive \/ MidLoopPause \/ MidLoopOther
           \/ PausedLocate \/ PausedDrop
  BY <1>1, <1>7 DEF BeginOrWait, StoppedDrop, WaitingReceive, MidLoopPause, MidLoopOther,
     PausedLocate, PausedDrop, Receives
<1>8. CASE Promote \/ CommitPending \/ LocateEnds \/ BlindEnds
  BY <1>2, <1>8 DEF Promote, CommitPending, LocateEnds, BlindEnds
<1> QED
  BY <1>3, <1>4, <1>5, <1>6, <1>7, <1>8 DEF EngineStep

-----------------------------------------------------------------------------
(* The calm invariant, kept by the thread.                                 *)

LEMMA PlayerOneAtATime ==
  ASSUME TypeInv, OneAtATime, PlayerThread
  PROVE  OneAtATime'
<1>1. EngineStep /\ UNCHANGED <<step, main, signalled>>
  BY DEF PlayerThread, daemonVars
<1>2. \A c \in Clients : Busy(c)' <=> Busy(c)
  BY <1>1 DEF Busy, AtRest
<1>3. EngineIdle => EngineIdle' /\ UNCHANGED state
  BY <1>1, BusyStep
<1>4. Leaving => Leaving' \/ (EngineIdle' /\ state' = "Stopped")
  BY <1>1, BusyStep
<1>5. \A c \in Clients : Busy(c)' /\ step'[c] = "LeaveClock" => Playing'
  BY <1>1, <1>2, <1>3 DEF OneAtATime, Playing, Leaving
<1> QED
  BY <1>1, <1>2, <1>3, <1>4, <1>5 DEF OneAtATime, Playing

LEMMA PlayerRolling ==
  ASSUME TypeInv, OneAtATime, RollingInv, PlayerThread
  PROVE  RollingInv'
<1>1. EngineStep /\ UNCHANGED <<step, request>>
  BY DEF PlayerThread, daemonVars
<1>2. Rolling'
  BY <1>1, RollingKept DEF RollingInv
<1>3. ASSUME NEW c \in Clients, step[c] = "Dispatch", request[c].name = "clock-resume"
      PROVE  isClockMode'
  <2>1. isClockMode /\ EngineIdle
    BY <1>3 DEF RollingInv, OneAtATime, Busy, AtRest
  <2> QED
    BY <1>1, <2>1, BusyStep
<1> QED
  BY <1>1, <1>2, <1>3 DEF RollingInv

LEMMA PlayerMode ==
  ASSUME TypeInv, OneAtATime, ModeInv, PlayerThread
  PROVE  ModeInv'
<1>1. EngineStep /\ UNCHANGED <<step, request, read, mode>>
  BY DEF PlayerThread, daemonVars
<1>2. /\ isClockMode' => isClockMode \/ ClockStarting
      /\ ClockStarting' => ClockStarting
      /\ Leaving => Leaving' \/ ~isClockMode'
  BY <1>1, ClockStartKept, BusyStep
<1>3. ASSUME NEW c \in Clients, step[c] = "SetMode", read[c] = "clock", request[c].arg # "clock"
      PROVE  Leaving' \/ ~isClockMode'
  <2>1. EngineIdle \/ Leaving
    BY <1>3 DEF OneAtATime, Busy, AtRest
  <2>2. isClockMode' => isClockMode
    BY <1>1, <2>1, BusyStep
  <2> QED
    BY <1>2, <1>3, <2>2 DEF ModeInv
<1> QED
  BY <1>1, <1>2, <1>3 DEF ModeInv

LEMMA PlayerCalm == TypeInv /\ CalmInv /\ PlayerThread => CalmInv'
<1>1. PlayerThread => UNCHANGED manner
  BY DEF PlayerThread, daemonVars
<1> QED
  BY <1>1, PlayerOneAtATime, PlayerRolling, PlayerMode DEF CalmInv

-----------------------------------------------------------------------------
(* The calm invariant, kept by a handler.                                  *)

(* What an engine the step does not touch, or only stores for, still is.   *)
LEMMA EngineStill ==
  ASSUME UNCHANGED <<state, phase, starting, queue, isClockMode, transport>>
  PROVE  /\ Leaving' <=> Leaving
         /\ Playing' <=> Playing
         /\ \A k : Sent(k)' <=> Sent(k)
         /\ ClockStarting' <=> ClockStarting
         /\ Rolling' <=> Rolling
BY DEF Leaving, Playing, Sent, ClockStarting, Rolling

LEMMA KeptStill ==
  ASSUME KeepEngine
  PROVE  /\ UNCHANGED <<state, phase, starting, queue, isClockMode, transport>>
         /\ EngineIdle' <=> EngineIdle
BY DEF KeepEngine, engineVars, EngineIdle

(* Nothing on its way is nothing that could start or resume.               *)
LEMMA NothingSent ==
  ASSUME TypeInv, EngineIdle \/ Leaving
  PROVE  ~ClockStarting /\ ~Sent("ClockResume")
<1>1. phase # "Starting" /\ (queue = <<>> \/ queue = <<"ClockStop">>)
  BY DEF EngineIdle, Leaving, Playing, TypeInv, EngineInv
<1> QED
  BY <1>1 DEF ClockStarting, Sent

(* Sending to an idle engine.                                              *)
LEMMA SendIdle ==
  ASSUME TypeInv, EngineIdle, NEW k \in SentCommands, Send(k)
  PROVE  /\ UNCHANGED <<state, phase, starting, isClockMode, transport>>
         /\ \A j : Sent(j)' => j = k
         /\ queue' = <<>> \/ queue' = <<k>>
         /\ Playing => queue' = <<k>>
<1>1. queue = <<>> /\ phase \in {"Ready", "Dead"}
  BY DEF EngineIdle
<1>2. Append(<<>>, k) = <<k>>
  OBVIOUS
<1>3. queue' = IF phase = "Dead" THEN <<>> ELSE <<k>>
  BY <1>1, <1>2 DEF Send
<1>4. Playing => phase # "Dead"
  BY DEF Playing, TypeInv, EngineInv
<1>5. \A j : Sent(j)' => j = k
  BY <1>3 DEF Sent
<1> QED
  BY <1>3, <1>4, <1>5 DEF Send

(* A step of the one busy client leaves the others at rest.                *)
Moves(c) ==
  /\ step'[c] \in Steps \ {"Dispatch"}
  /\ \A d \in Clients \ {c} :
       step'[d] = step[d] /\ request'[d] = request[d] /\ read'[d] = read[d]
  /\ main' = main

LEMMA MovesOneAtATime ==
  ASSUME TypeInv, OneAtATime, NEW c \in Clients, Busy(c), Moves(c),
         Busy(c)' => ~signalled' /\ (EngineIdle' \/ (step'[c] = "SetMode" /\ Leaving')),
         step'[c] = "LeaveClock" => Playing',
         signalled' => EngineIdle'
  PROVE  OneAtATime'
<1>1. \A d \in Clients \ {c} : ~Busy(d) /\ ~Busy(d)'
  BY DEF OneAtATime, Moves, Busy, AtRest
<1>2. main' = "Serving"
  BY DEF OneAtATime, Moves
<1> QED
  BY <1>1, <1>2 DEF OneAtATime

LEMMA MovesRolling ==
  ASSUME TypeInv, OneAtATime, NEW c \in Clients, Busy(c), Moves(c), Rolling'
  PROVE  RollingInv'
<1>1. \A d \in Clients : step'[d] # "Dispatch"
  BY DEF OneAtATime, Moves, Busy, AtRest
<1> QED
  BY <1>1 DEF RollingInv

LEMMA MovesMode ==
  ASSUME TypeInv, OneAtATime, NEW c \in Clients, Busy(c), Moves(c),
         isClockMode' => mode' = "clock" \/ Leaving',
         ClockStarting' => mode' = "clock",
         step'[c] \in {"NeedProject", "SendClockStart"} => mode' = "clock",
         step'[c] \in {"CheckState", "LeaveClock", "SetMode"} => read'[c] = mode',
         step'[c] = "SetMode" /\ read'[c] = "clock" /\ request'[c].arg # "clock"
           => Leaving' \/ ~isClockMode'
  PROVE  ModeInv'
<1>1. \A d \in Clients \ {c} : step'[d] \in {"Ok", "Error"}
  BY DEF OneAtATime, Moves, Busy, AtRest
<1>2. step'[c] # "Dispatch"
  BY DEF Moves
<1> QED
  BY <1>1, <1>2 DEF ModeInv

(* A handler reads, decides or answers: the engine is as idle as before.   *)
LEMMA StillCalm ==
  ASSUME TypeInv, CalmInv, NEW c \in Clients, Busy(c), step[c] # "SetMode", Moves(c),
         KeepEngine, UNCHANGED <<mode, manner>>,
         signalled' # signalled => ~Busy(c)',
         step'[c] = "LeaveClock" => Playing,
         manner = "calm" =>
           /\ step'[c] \in {"NeedProject", "SendClockStart"} => mode = "clock"
           /\ step'[c] \in {"CheckState", "LeaveClock", "SetMode"} => read'[c] = mode
           /\ step'[c] = "SetMode" /\ read'[c] = "clock" /\ request'[c].arg # "clock"
                => ~isClockMode
  PROVE  CalmInv'
<1>1. /\ Leaving' <=> Leaving
      /\ Playing' <=> Playing
      /\ ClockStarting' <=> ClockStarting
      /\ Rolling' <=> Rolling
      /\ EngineIdle' <=> EngineIdle
      /\ UNCHANGED isClockMode
  BY KeptStill, EngineStill
<1>2. ASSUME manner # "careless" PROVE OneAtATime' /\ RollingInv'
  <2>1. OneAtATime /\ RollingInv /\ EngineIdle /\ ~signalled
    BY <1>2 DEF CalmInv, OneAtATime
  <2>2. OneAtATime'
    BY <1>1, <2>1, MovesOneAtATime
  <2>3. RollingInv'
    BY <1>1, <2>1, MovesRolling DEF RollingInv
  <2> QED
    BY <2>2, <2>3
<1>3. ASSUME manner = "calm" PROVE ModeInv'
  <2>1. OneAtATime /\ ModeInv
    BY <1>3 DEF CalmInv
  <2>2. isClockMode' => mode' = "clock" \/ Leaving'
    BY <1>1, <2>1 DEF ModeInv
  <2>3. ClockStarting' => mode' = "clock"
    BY <1>1, <2>1 DEF ModeInv
  <2> QED
    BY <1>1, <1>3, <2>1, <2>2, <2>3, MovesMode
<1> QED
  BY <1>2, <1>3 DEF CalmInv

LEMMA AnswerMoves ==
  ASSUME TypeInv, NEW c \in Clients, NEW status \in {"Ok", "Error"}, Answer(c, status)
  PROVE  Moves(c) /\ ~Busy(c)' /\ step'[c] = status /\ UNCHANGED <<signalled, manner>>
BY DEF Answer, Moves, Busy, AtRest, KeepLife, TypeInv, HandlerTypes, Steps

LEMMA ContinueMoves ==
  ASSUME TypeInv, NEW c \in Clients, NEW s \in Steps \ {"Dispatch"}, Continue(c, s),
         \A d \in Clients \ {c} : read'[d] = read[d]
  PROVE  Moves(c) /\ step'[c] = s /\ UNCHANGED <<signalled, manner, request>>
BY DEF Continue, Moves, KeepLife, TypeInv, HandlerTypes

LEMMA RespondCalm ==
  ASSUME TypeInv, CalmInv, NEW c \in Clients, Busy(c), step[c] # "SetMode",
         NEW status \in {"Ok", "Error"}, Answer(c, status), KeepEngine, KeepSettings
  PROVE  CalmInv'
BY AnswerMoves, StillCalm DEF KeepSettings

(* A handler stores a project, or removes it, and the engine is not told.  *)
LEMMA StoreCalm ==
  ASSUME TypeInv, CalmInv, NEW c \in Clients, Busy(c), step[c] # "SetMode", Moves(c),
         StoreUnchanged, UNCHANGED <<mode, manner, signalled>>,
         step'[c] \notin {"NeedProject", "SendClockStart", "CheckState", "LeaveClock", "SetMode"},
         Busy(c)' => active' = None /\ pending' = None
  PROVE  CalmInv'
<1>1. /\ Leaving' <=> Leaving
      /\ Playing' <=> Playing
      /\ ClockStarting' <=> ClockStarting
      /\ Rolling' <=> Rolling
      /\ UNCHANGED <<state, phase, queue, isClockMode>>
  BY EngineStill DEF StoreUnchanged
<1>2. ASSUME manner # "careless" PROVE OneAtATime' /\ RollingInv'
  <2>1. OneAtATime /\ RollingInv /\ EngineIdle /\ ~signalled
    BY <1>2 DEF CalmInv, OneAtATime
  <2>2. Busy(c)' => EngineIdle'
    BY <1>1, <2>1 DEF EngineIdle
  <2>3. OneAtATime'
    BY <1>1, <2>1, <2>2, MovesOneAtATime
  <2>4. RollingInv'
    BY <1>1, <2>1, MovesRolling DEF RollingInv
  <2> QED
    BY <2>3, <2>4
<1>3. ASSUME manner = "calm" PROVE ModeInv'
  <2>1. OneAtATime /\ ModeInv
    BY <1>3 DEF CalmInv
  <2>2. isClockMode' => mode' = "clock" \/ Leaving'
    BY <1>1, <2>1 DEF ModeInv
  <2>3. ClockStarting' => mode' = "clock"
    BY <1>1, <2>1 DEF ModeInv
  <2> QED
    BY <1>1, <2>1, <2>2, <2>3, MovesMode
<1> QED
  BY <1>2, <1>3 DEF CalmInv

(* A handler sends a command, and answers.                                 *)
LEMMA SendCalm ==
  ASSUME TypeInv, CalmInv, NEW c \in Clients, Busy(c), step[c] # "SetMode",
         NEW k \in SentCommands, SendAndAnswer(c, k),
         manner # "careless" /\ k = "ClockResume" => isClockMode,
         manner = "calm" /\ k = "ClockStart" => mode = "clock"
  PROVE  CalmInv'
<1>1. /\ Send(k) /\ Moves(c) /\ ~Busy(c)' /\ step'[c] = "Ok"
      /\ UNCHANGED <<mode, signalled, manner>>
  BY AnswerMoves DEF SendAndAnswer, Done, KeepSettings
<1>2. ASSUME manner # "careless"
      PROVE  /\ OneAtATime /\ RollingInv /\ EngineIdle /\ ~signalled
             /\ UNCHANGED <<state, phase, starting, isClockMode, transport>>
             /\ \A j : Sent(j)' => j = k
             /\ queue' = <<>> \/ queue' = <<k>>
  <2>1. OneAtATime /\ RollingInv /\ EngineIdle /\ ~signalled
    BY <1>2 DEF CalmInv, OneAtATime
  <2> QED
    BY <1>1, <2>1, SendIdle
<1>3. ASSUME manner # "careless" PROVE OneAtATime' /\ RollingInv'
  <2>1. OneAtATime'
    BY <1>1, <1>2, <1>3, MovesOneAtATime
  <2>2. Sent("ClockResume")' => queue' = <<"ClockResume">> /\ isClockMode'
    <3>1. SUFFICES ASSUME Sent("ClockResume")'
                   PROVE  queue' = <<"ClockResume">> /\ isClockMode'
      OBVIOUS
    <3>2. k = "ClockResume" /\ queue' # <<>>
      BY <3>1, <1>2, <1>3 DEF Sent
    <3> QED
      BY <3>2, <1>2, <1>3
  <2>3. Rolling'
    BY <1>2, <1>3, <2>2 DEF RollingInv, Rolling
  <2> QED
    BY <1>1, <1>2, <1>3, <2>1, <2>3, MovesRolling
<1>4. ASSUME manner = "calm" PROVE ModeInv'
  <2>1. /\ OneAtATime /\ EngineIdle /\ ModeInv /\ UNCHANGED <<isClockMode, phase, starting>>
        /\ ~Leaving
    BY <1>2, <1>4 DEF CalmInv, EngineIdle, Leaving
  <2>2. isClockMode' => mode' = "clock" \/ Leaving'
    BY <1>1, <2>1 DEF ModeInv
  <2>3. ClockStarting' => mode' = "clock"
    BY <1>1, <1>2, <1>4, <2>1 DEF ClockStarting, EngineIdle
  <2> QED
    BY <1>1, <2>1, <2>2, <2>3, MovesMode
<1> QED
  BY <1>1, <1>3, <1>4 DEF CalmInv

(* set-mode stops the slaves of the mode it leaves, and writes the mode.   *)
LEMMA LeaveCalm ==
  ASSUME TypeInv, CalmInv, NEW c \in Clients, SetModeLeave(c)
  PROVE  CalmInv'
<1>1. /\ step[c] = "LeaveClock" /\ Send("ClockStop") /\ Continue(c, "SetMode")
      /\ UNCHANGED <<mode, read>> /\ "ClockStop" \in SentCommands /\ Busy(c)
  BY DEF SetModeLeave, At, KeepSettings, SentCommands, Busy, AtRest
<1>2. Moves(c) /\ step'[c] = "SetMode" /\ UNCHANGED <<signalled, manner, request>>
  BY <1>1, ContinueMoves DEF Steps
<1>3. ASSUME manner # "careless"
      PROVE  /\ OneAtATime /\ RollingInv /\ ~signalled /\ Playing
             /\ Leaving' /\ UNCHANGED <<transport, isClockMode>>
             /\ ~Sent("ClockResume")'
  <2>1. OneAtATime /\ RollingInv /\ ~signalled /\ Playing /\ EngineIdle
    BY <1>1, <1>3 DEF CalmInv, OneAtATime
  <2>2. /\ UNCHANGED <<state, phase, isClockMode, transport>> /\ queue' = <<"ClockStop">>
        /\ ~Sent("ClockResume")'
    BY <1>1, <2>1, SendIdle
  <2> QED
    BY <2>1, <2>2 DEF Leaving, Playing
<1>4. ASSUME manner # "careless" PROVE OneAtATime' /\ RollingInv'
  <2>1. OneAtATime'
    BY <1>1, <1>2, <1>3, <1>4, MovesOneAtATime
  <2>2. Rolling'
    BY <1>3, <1>4 DEF RollingInv, Rolling
  <2> QED
    BY <1>1, <1>2, <1>3, <1>4, <2>1, <2>2, MovesRolling
<1>5. ASSUME manner = "calm" PROVE ModeInv'
  <2>1. ModeInv /\ OneAtATime /\ Leaving'
    BY <1>3, <1>5 DEF CalmInv
  <2>2. read'[c] = mode'
    BY <1>1, <2>1 DEF ModeInv
  <2>3. ~ClockStarting'
    <3>1. TypeInv'
      BY HandlerTyped DEF HandlerStep
    <3>2. phase' = "Ready" /\ queue' = <<"ClockStop">>
      BY <2>1, <3>1 DEF TypeInv, EngineInv, Leaving, Playing
    <3> QED
      BY <3>2 DEF ClockStarting, Sent
  <2> QED
    BY <1>1, <1>2, <2>1, <2>2, <2>3, MovesMode
<1> QED
  BY <1>2, <1>4, <1>5 DEF CalmInv

LEMMA WriteCalm ==
  ASSUME TypeInv, CalmInv, NEW c \in Clients, SetModeWrite(c)
  PROVE  CalmInv'
<1>1. /\ step[c] = "SetMode" /\ Answer(c, "Ok") /\ KeepEngine /\ mode' = request[c].arg
      /\ Busy(c)
  BY DEF SetModeWrite, At, Done, Busy, AtRest
<1>2. Moves(c) /\ ~Busy(c)' /\ step'[c] = "Ok" /\ UNCHANGED <<signalled, manner>>
  BY <1>1, AnswerMoves
<1>3. /\ Leaving' <=> Leaving
      /\ ClockStarting' <=> ClockStarting
      /\ Rolling' <=> Rolling
      /\ UNCHANGED isClockMode
  BY <1>1, KeptStill, EngineStill
<1>4. ASSUME manner # "careless" PROVE OneAtATime' /\ RollingInv'
  <2>1. OneAtATime /\ RollingInv /\ ~signalled
    BY <1>1, <1>4 DEF CalmInv, OneAtATime
  <2> QED
    BY <1>1, <1>2, <1>3, <2>1, MovesOneAtATime, MovesRolling DEF RollingInv
<1>5. ASSUME manner = "calm" PROVE ModeInv'
  <2>1. ModeInv /\ OneAtATime /\ (EngineIdle \/ Leaving)
    BY <1>1, <1>5 DEF CalmInv, OneAtATime
  <2>2. ~ClockStarting'
    BY <1>3, <2>1, NothingSent
  <2>3. isClockMode' => mode' = "clock" \/ Leaving'
    BY <1>1, <1>3, <2>1 DEF ModeInv
  <2> QED
    BY <1>1, <1>2, <2>1, <2>2, <2>3, MovesMode
<1> QED
  BY <1>2, <1>4, <1>5 DEF CalmInv

LEMMA HandlerCalm ==
  ASSUME TypeInv, CalmInv, NEW c \in Clients, HandlerStep(c)
  PROVE  CalmInv'
<1>b. ASSUME step[c] \in {"Dispatch", "CopyActive", "QueueCopy", "CheckState", "NeedProject",
                          "SendStart", "SendStop", "SendClockStart", "SendClockStop", "Signal"}
      PROVE  Busy(c) /\ step[c] # "SetMode"
  BY <1>b DEF Busy, AtRest
<1>e. ASSUME step[c] \in {"Dispatch", "NeedProject"}, Refuse(c) PROVE CalmInv'
  BY <1>b, <1>e, RespondCalm DEF Refuse, Respond
<1>r. ASSUME NEW v, Remember(c, v)
      PROVE  read'[c] = v /\ \A d \in Clients \ {c} : read'[d] = read[d]
  BY <1>r DEF Remember, TypeInv, HandlerTypes
<1> USE DEF Asks, At
<1>1. CASE Query(c) \/ HandleGetPosition(c)
  BY <1>1, <1>b, RespondCalm DEF Query, HandleGetPosition, Respond
<1>2. CASE HandleCreateProject(c)
  BY <1>2, <1>b, <1>e, StoreCalm, AnswerMoves
  DEF HandleCreateProject, SetActive, Done, KeepSettings
<1>3. CASE HandleModifyProject(c)
  BY <1>3, <1>b, <1>e, StoreCalm, AnswerMoves
  DEF HandleModifyProject, SetPending, Done, KeepSettings
<1>4. CASE HandleClearProject(c)
  BY <1>4, <1>b, StoreCalm, ContinueMoves DEF HandleClearProject, Clear, KeepSettings, Steps
<1>5. CASE HandleSetBpm(c)
  <2>1. CASE ~Refuse(c)
    BY <1>5, <2>1, <1>b, StillCalm, ContinueMoves DEF HandleSetBpm, KeepSettings, Steps
  <2>2. CASE Refuse(c)
    BY <1>5, <2>2, <1>e DEF HandleSetBpm
  <2> QED
    BY <2>1, <2>2
<1>6. CASE SetBpmCopy(c)
  <2>1. CASE active = None
    BY <1>6, <2>1, <1>b, RespondCalm DEF SetBpmCopy, Done
  <2>2. CASE active # None
    BY <1>6, <2>2, <1>b, <1>r, StillCalm, ContinueMoves DEF SetBpmCopy, KeepSettings, Steps
  <2> QED
    BY <2>1, <2>2
<1>7. CASE SetBpmQueue(c)
  BY <1>7, <1>b, StoreCalm, AnswerMoves DEF SetBpmQueue, SetPending, Done, KeepSettings
<1>8. CASE HandleSetMode(c)
  <2>1. CASE ~Refuse(c)
    BY <1>8, <2>1, <1>b, <1>r, StillCalm, ContinueMoves DEF HandleSetMode, KeepSettings, Steps
  <2>2. CASE Refuse(c)
    BY <1>8, <2>2, <1>e DEF HandleSetMode
  <2> QED
    BY <2>1, <2>2
<1>9. CASE SetModeCheck(c)
  <2>1. /\ Busy(c) /\ step[c] # "SetMode" /\ Moves(c) /\ KeepEngine
        /\ UNCHANGED <<mode, read, request, manner, signalled>>
        /\ step'[c] = IF LeavesClock(c) THEN "LeaveClock" ELSE "SetMode"
    BY <1>9, <1>b, ContinueMoves DEF SetModeCheck, KeepSettings, Steps
  <2>2. LeavesClock(c) => Playing
    BY DEF LeavesClock, Playing
  <2>3. ~LeavesClock(c) /\ read[c] = "clock" /\ request[c].arg # "clock" => ~isClockMode
    BY DEF LeavesClock, TypeInv, EngineInv, EngineTypeOK, EngineState
  <2>4. manner = "calm" => read[c] = mode
    BY <1>9 DEF SetModeCheck, CalmInv, ModeInv
  <2> QED
    BY <2>1, <2>2, <2>3, <2>4, StillCalm
<1>10. CASE SetModeLeave(c) \/ SetModeWrite(c)
  BY <1>10, LeaveCalm, WriteCalm
<1>11. CASE HandleLoopStart(c) \/ HandleLoopStop(c)
  <2>1. CASE ~Refuse(c)
    <3>1. PICK s \in {"NeedProject", "SendStart", "SendClockStop", "SendStop"} :
            Continue(c, s) /\ (s = "NeedProject" => mode = "clock")
      BY <1>11, <2>1 DEF HandleLoopStart, HandleLoopStop
    <3>2. KeepEngine /\ KeepSettings /\ UNCHANGED read /\ step[c] = "Dispatch"
      BY <1>11, <2>1 DEF HandleLoopStart, HandleLoopStop
    <3> QED
      BY <3>1, <3>2, <1>b, StillCalm, ContinueMoves DEF KeepSettings, Steps
  <2>2. CASE Refuse(c)
    BY <1>11, <2>2, <1>e DEF HandleLoopStart, HandleLoopStop
  <2> QED
    BY <2>1, <2>2
<1>12. CASE RequireProject(c)
  <2>1. CASE ~Refuse(c)
    <3>1. manner = "calm" => mode = "clock"
      BY <1>12 DEF RequireProject, CalmInv, ModeInv
    <3> QED
      BY <1>12, <2>1, <3>1, <1>b, StillCalm, ContinueMoves
      DEF RequireProject, KeepSettings, Steps
  <2>2. CASE Refuse(c)
    BY <1>12, <2>2, <1>e DEF RequireProject
  <2> QED
    BY <2>1, <2>2
<1>13. CASE SendCommand(c)
  <2>1. PICK k \in SentCommands :
          /\ SendAndAnswer(c, k)
          /\ step[c] \in {"SendStart", "SendStop", "SendClockStart", "SendClockStop", "Dispatch"}
          /\ k = "ClockStart" => step[c] = "SendClockStart"
          /\ k = "ClockResume" => step[c] = "Dispatch" /\ request[c].name = "clock-resume"
    BY <1>13 DEF SendCommand, SentCommands
  <2>2. manner # "careless" /\ k = "ClockResume" => isClockMode
    BY <2>1 DEF CalmInv, RollingInv
  <2>3. manner = "calm" /\ k = "ClockStart" => mode = "clock"
    BY <2>1 DEF CalmInv, ModeInv
  <2> QED
    BY <2>1, <2>2, <2>3, <1>b, SendCalm
<1>14. CASE HandleStop(c) \/ SignalShutdown(c)
  <2>1. Moves(c) /\ step'[c] \in {"Signal", "Ok"} /\ (signalled' # signalled => step'[c] = "Ok")
    BY <1>14 DEF HandleStop, SignalShutdown, Moves, TypeInv, HandlerTypes, Steps, KeepLife
  <2>2. KeepEngine /\ UNCHANGED <<mode, manner>> /\ step[c] \in {"Dispatch", "Signal"}
    BY <1>14 DEF HandleStop, SignalShutdown, KeepLife, KeepSettings
  <2>3. step'[c] = "Ok" => ~Busy(c)'
    BY DEF Busy, AtRest
  <2> QED
    BY <2>1, <2>2, <2>3, <1>b, StillCalm
<1> QED
  BY <1>1, <1>2, <1>3, <1>4, <1>5, <1>6, <1>7, <1>8, <1>9, <1>10, <1>11, <1>12, <1>13, <1>14
  DEF HandlerStep

-----------------------------------------------------------------------------
(* The calm invariant, kept by a new request and by the shutdown.          *)

LEMMA SubmitCalm ==
  ASSUME TypeInv, CalmInv, NEW c \in Clients, NEW r \in Requests[c], Submit(c, r)
  PROVE  CalmInv'
<1>1. /\ main = "Serving" /\ step' = [step EXCEPT ![c] = "Dispatch"]
      /\ request' = [request EXCEPT ![c] = r]
      /\ UNCHANGED <<read, signalled, main, mode>> /\ KeepEngine
  BY DEF Submit, KeepSettings
<1>2. /\ \A d \in Clients \ {c} :
           step'[d] = step[d] /\ request'[d] = request[d] /\ read'[d] = read[d]
      /\ step'[c] = "Dispatch" /\ request'[c] = r
  BY <1>1 DEF TypeInv, HandlerTypes
<1>3. /\ Leaving' <=> Leaving
      /\ ClockStarting' <=> ClockStarting
      /\ Rolling' <=> Rolling
      /\ EngineIdle' <=> EngineIdle
      /\ UNCHANGED isClockMode
  BY <1>1, KeptStill, EngineStill
<1>4. ASSUME manner' # "careless" PROVE OneAtATime' /\ RollingInv'
  <2>1. /\ manner # "careless" /\ Quiet
        /\ r.name = "clock-resume" => isClockMode
    BY <1>4, MannerForward
  <2>2. /\ EngineIdle /\ ~signalled /\ \A d \in Clients : step[d] \in {"Ok", "Error"}
        /\ OneAtATime /\ RollingInv
    BY <2>1 DEF Quiet, AtRest, CalmInv
  <2>3. \A d \in Clients \ {c} : step'[d] \in {"Ok", "Error"}
    BY <1>2, <2>2
  <2>4. OneAtATime'
    BY <1>1, <1>2, <1>3, <2>2, <2>3 DEF OneAtATime, Busy, AtRest
  <2>5. RollingInv'
    BY <1>2, <1>3, <2>1, <2>2, <2>3 DEF RollingInv
  <2> QED
    BY <2>4, <2>5
<1>5. ASSUME manner' = "calm" PROVE ModeInv'
  <2>1. /\ manner = "calm" /\ Quiet
        /\ r.name = "clock-start" => mode = "clock"
    BY <1>5, MannerForward
  <2>2. ModeInv /\ \A d \in Clients : step[d] \in {"Ok", "Error"}
    BY <2>1 DEF Quiet, AtRest, CalmInv
  <2>3. \A d \in Clients \ {c} : step'[d] \in {"Ok", "Error"}
    BY <1>2, <2>2
  <2> QED
    BY <1>1, <1>2, <1>3, <2>1, <2>2, <2>3 DEF ModeInv
<1> QED
  BY <1>4, <1>5 DEF CalmInv

LEMMA TerminateCalm ==
  ASSUME TypeInv, CalmInv, Terminate
  PROVE  CalmInv'
<1>1. /\ KeepEngine /\ UNCHANGED <<mode, request, step, read, signalled>> /\ main' = "ReadState"
      /\ manner' # "careless" => Quiet /\ manner' = manner
  BY DEF Terminate, KeepHandlers, KeepSettings
<1>2. /\ Leaving' <=> Leaving
      /\ ClockStarting' <=> ClockStarting
      /\ Rolling' <=> Rolling
      /\ EngineIdle' <=> EngineIdle
      /\ UNCHANGED isClockMode
  BY <1>1, KeptStill, EngineStill
<1>3. manner' # "careless" => OneAtATime' /\ RollingInv'
  BY <1>1, <1>2 DEF CalmInv, OneAtATime, RollingInv, Quiet, Busy, AtRest
<1>4. manner' = "calm" => ModeInv'
  BY <1>1, <1>2 DEF CalmInv, ModeInv, Quiet, AtRest
<1> QED
  BY <1>3, <1>4 DEF CalmInv

LEMMA MainCalm ==
  ASSUME TypeInv, CalmInv, MainStep
  PROVE  CalmInv'
<1>t. /\ state \in EngineState /\ isClockMode \in BOOLEAN
      /\ phase # "Ready" => state \in {"Stopped", "Waiting"}
  BY DEF TypeInv, EngineTypeOK, EngineInv
<1>1. CASE LeaveSelect \/ ShutdownRead \/ ShutdownDrained
  <2>1. KeepEngine /\ UNCHANGED <<mode, request, step, read, signalled, manner>>
    BY <1>1 DEF LeaveSelect, ShutdownRead, ShutdownDrained, KeepHandlers, KeepSettings
  <2>2. /\ Leaving' <=> Leaving
        /\ Playing' <=> Playing
        /\ ClockStarting' <=> ClockStarting
        /\ Rolling' <=> Rolling
        /\ EngineIdle' <=> EngineIdle
        /\ UNCHANGED <<state, isClockMode>>
    BY <2>1, KeptStill, EngineStill
  <2>3. ASSUME manner # "careless" PROVE OneAtATime' /\ RollingInv'
    <3>1. OneAtATime /\ RollingInv
      BY <2>3 DEF CalmInv
    <3>2. \A c \in Clients : ~Busy(c) /\ ~Busy(c)'
      BY <1>1, <2>1, <3>1
      DEF LeaveSelect, ShutdownRead, ShutdownDrained, OneAtATime, Busy, AtRest
    <3>3. /\ EngineIdle /\ main' # "Serving" /\ main' # "Drain"
          /\ main' = "SendStop" => Playing
          /\ main' \in {"Unlink", "Exited"} => ~Playing
      BY <1>1, <3>1
      DEF LeaveSelect, ShutdownRead, ShutdownDrained, OneAtATime, Playing, Leaving
    <3>4. OneAtATime'
      BY <2>2, <3>2, <3>3 DEF OneAtATime
    <3> QED
      BY <2>1, <2>2, <3>1, <3>4 DEF RollingInv
  <2>4. manner = "calm" => ModeInv'
    BY <2>1, <2>2 DEF CalmInv, ModeInv
  <2> QED
    BY <2>1, <2>3, <2>4 DEF CalmInv
<1>2. CASE ShutdownSend
  <2>1. /\ main = "SendStop" /\ main' = "Drain" /\ Send("ClockStop") /\ "ClockStop" \in SentCommands
        /\ UNCHANGED <<mode, request, step, read, signalled, manner>>
    BY <1>2 DEF ShutdownSend, KeepHandlers, KeepSettings, SentCommands
  <2>2. ASSUME manner # "careless"
        PROVE  /\ OneAtATime /\ RollingInv /\ Leaving' /\ UNCHANGED <<transport, isClockMode>>
               /\ ~Sent("ClockResume")' /\ ~ClockStarting'
               /\ \A c \in Clients : ~Busy(c)
    <3>1. OneAtATime /\ RollingInv /\ EngineIdle /\ Playing
      BY <2>1, <2>2 DEF CalmInv, OneAtATime
    <3>2. /\ UNCHANGED <<state, phase, isClockMode, transport>> /\ queue' = <<"ClockStop">>
          /\ ~Sent("ClockResume")' /\ ~Sent("ClockStart")'
      BY <2>1, <3>1, SendIdle
    <3>3. phase' # "Starting"
      BY <3>1, <3>2 DEF EngineIdle
    <3>4. \A c \in Clients : ~Busy(c)
      BY <2>1, <3>1 DEF OneAtATime
    <3> QED
      BY <3>1, <3>2, <3>3, <3>4 DEF Leaving, Playing, ClockStarting
  <2>3. ASSUME manner # "careless" PROVE OneAtATime' /\ RollingInv'
    <3>1. \A c \in Clients : ~Busy(c)'
      BY <2>1, <2>2, <2>3 DEF Busy, AtRest
    <3>2. OneAtATime'
      BY <2>1, <2>2, <2>3, <3>1 DEF OneAtATime
    <3>3. RollingInv'
      BY <2>1, <2>2, <2>3 DEF RollingInv, Rolling
    <3> QED
      BY <3>2, <3>3
  <2>4. ASSUME manner = "calm" PROVE ModeInv'
    <3>1. ModeInv /\ Leaving' /\ ~ClockStarting'
      BY <2>2, <2>4 DEF CalmInv
    <3> QED
      BY <2>1, <3>1 DEF ModeInv
  <2> QED
    BY <2>1, <2>3, <2>4 DEF CalmInv
<1>3. CASE ShutdownTimeout
  BY <1>3 DEF ShutdownTimeout, CalmInv
<1>4. CASE Unlink
  <2>1. /\ main = "Unlink" /\ main' = "Exited" /\ queue' = <<>>
        /\ \A c \in Clients : step'[c] = "Ok"
        /\ UNCHANGED <<state, phase, starting, active, pending, isClockMode, transport>>
        /\ UNCHANGED <<mode, signalled, manner>>
    BY <1>4 DEF Unlink, KeepSettings
  <2>2. ASSUME manner # "careless"
        PROVE  /\ EngineIdle /\ ~Playing /\ OneAtATime /\ RollingInv
               /\ EngineIdle' /\ ~Playing'
    <3>1. EngineIdle /\ ~Playing /\ OneAtATime /\ RollingInv
      BY <2>1, <2>2 DEF CalmInv, OneAtATime
    <3> QED
      BY <2>1, <3>1 DEF EngineIdle, Playing
  <2>3. ASSUME manner # "careless" PROVE OneAtATime' /\ RollingInv'
    <3>1. OneAtATime'
      BY <2>1, <2>2, <2>3 DEF OneAtATime, Busy, AtRest
    <3>2. RollingInv'
      BY <2>1, <2>2, <2>3 DEF RollingInv, Rolling, Sent
    <3> QED
      BY <3>1, <3>2
  <2>4. ASSUME manner = "calm" PROVE ModeInv'
    <3>1. ModeInv /\ EngineIdle /\ ~Playing
      BY <2>2, <2>4 DEF CalmInv
    <3>2. ~Leaving /\ ~ClockStarting'
      BY <2>1, <3>1 DEF EngineIdle, Leaving, ClockStarting, Sent
    <3> QED
      BY <2>1, <3>1, <3>2 DEF ModeInv
  <2> QED
    BY <2>1, <2>3, <2>4 DEF CalmInv
<1> QED
  BY <1>1, <1>2, <1>3, <1>4 DEF MainStep

LEMMA InitCalm == Init => CalmInv
<1> SUFFICES ASSUME Init PROVE CalmInv
  OBVIOUS
<1>1. /\ queue = <<>> /\ phase = "Ready" /\ state = "Stopped" /\ isClockMode = FALSE
      /\ transport = "stopped" /\ main = "Serving" /\ signalled = FALSE
      /\ \A c \in Clients : step[c] = "Ok"
  BY DEF Init, EngineInit
<1>2. OneAtATime
  BY <1>1 DEF OneAtATime, Busy, AtRest, EngineIdle
<1>3. RollingInv /\ ModeInv
  BY <1>1 DEF RollingInv, Rolling, Sent, ModeInv, ClockStarting
<1> QED
  BY <1>2, <1>3 DEF CalmInv

LEMMA StepCalm == TypeInv /\ CalmInv /\ [Next]_vars => CalmInv'
<1> SUFFICES ASSUME TypeInv, CalmInv, [Next]_vars PROVE CalmInv'
  OBVIOUS
<1>1. CASE UNCHANGED vars
  BY <1>1, KeptStill, EngineStill
  DEF vars, daemonVars, KeepEngine, CalmInv, OneAtATime, RollingInv, ModeInv, Busy, AtRest
<1>2. CASE Next
  BY <1>1, <1>2, SubmitCalm, HandlerCalm, TerminateCalm, MainCalm, PlayerCalm DEF Next, Gone
<1> QED
  BY <1>1, <1>2

LEMMA CalmInvariant == Spec => [](TypeInv /\ CalmInv)
BY InitTyped, StepTyped, InitCalm, StepCalm, PTL DEF Spec

(* Whoever stops a daemon that is not in the middle of something, by the   *)
(* stop command or a signal, leaves no slave rolling and no loop playing:  *)
(* clock_stop_on_shutdown finds in one reading of the state whether there  *)
(* is anything to stop, whatever modes, starts and pauses came before.     *)
THEOREM ExitClean == Spec => []CleanExit
<1>1. ASSUME TypeInv, CalmInv PROVE CleanExit
  <2>1. SUFFICES ASSUME main = "Exited", manner # "careless"
                 PROVE  transport = "stopped" /\ state \notin {"Running", "Paused"}
    BY DEF CleanExit
  <2>2. ~Playing /\ Rolling
    BY <1>1, <2>1 DEF CalmInv, OneAtATime, RollingInv
  <2>3. ~isClockMode
    BY <1>1, <2>2 DEF TypeInv, EngineTypeOK, EngineInv, EngineState, Playing
  <2> QED
    BY <1>1, <2>2, <2>3 DEF Rolling, Playing, TypeInv, EngineTypeOK
<1> QED
  BY <1>1, CalmInvariant, PTL

(* Leaving clock mode stops the slaves: handle_set_mode decides by a mode  *)
(* and a state it read in two steps of its own, and still no daemon used   *)
(* one request at a time, without a clock-start by hand, has slaves rolling*)
(* in another mode.                                                        *)
THEOREM SlavesStopWithMode == Spec => []ClockOnlyInClockMode
<1>1. ASSUME TypeInv, CalmInv PROVE ClockOnlyInClockMode
  <2>1. SUFFICES ASSUME manner = "calm", Quiet, mode # "clock"
                 PROVE  transport = "stopped"
    BY DEF ClockOnlyInClockMode
  <2>2. ModeInv /\ Rolling /\ ~Leaving
    BY <1>1, <2>1 DEF CalmInv, RollingInv, Quiet, EngineIdle, Leaving
  <2> QED
    BY <1>1, <2>1, <2>2 DEF ModeInv, Rolling, TypeInv, EngineTypeOK
<1> QED
  BY <1>1, CalmInvariant, PTL

=============================================================================
