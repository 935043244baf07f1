---------------------------- MODULE ClockConsole ----------------------------
(***************************************************************************)
(* The console of propeller-clock (tui.rs) beside the other clients of its *)
(* daemon: one thread that sends a request per key, waits for the answer,  *)
(* and then fetches the status it draws.  Left out: the text of a refusal, *)
(* and the key that quits.                                                 *)
(***************************************************************************)
EXTENDS ClockEngine, FiniteSetsExt

CONSTANTS
  Console,       \* its connections, in Clients
  Keys           \* the keys pressed

ASSUME ConsoleAssumption ==
  /\ Console \in Clients /\ Requests[Console] = {}
  /\ Keys \subseteq {"up", "down", "s", "p", "r", "x"}

VARIABLES
  console,       \* where event_loop is
  shownBpm,      \* the tempo in the last status fetched, or None
  disconnected   \* the last fetch found no daemon

consoleVars == <<console, shownBpm, disconnected>>
allVars == <<vars, consoleVars>>

Ask(name, arg) == [name |-> name, arg |-> arg]

(* adjust_bpm: from the tempo last seen; the limits are those of the IPC.  *)
AdjustBpm(delta) ==
  LET wanted == (IF shownBpm = None THEN Min(Bpms) ELSE shownBpm) + delta
  IN  Max({Min(Bpms), Min({wanted, Max(Bpms)})})

Request(k) ==
  CASE k = "up" -> Ask("bpm", AdjustBpm(1))
    [] k = "down" -> Ask("bpm", AdjustBpm(-1))
    [] k = "s" -> Ask("start", None)
    [] k = "p" -> Ask("pause", None)
    [] k = "r" -> Ask("resume", None)
    [] k = "x" -> Ask("halt", None)

(* The listener is closed once the daemon has left select!.                *)
Connects == main = "Serving"
KeepDaemon == UNCHANGED vars
KeepScreen == UNCHANGED <<shownBpm, disconnected>>

(* dispatch_action, connecting.  Of its answer only the message of a       *)
(* refusal is kept, and drawn.                                             *)
Press(k) ==
  /\ console = "Idle"
  /\ IF Connects THEN Submit(Console, Request(k)) /\ console' = "Acting"
                 ELSE KeepDaemon /\ console' = "Fetch"
  /\ KeepScreen

(* Mutant: after a key, the next key is awaited.                           *)
AnsweredWithoutFetch ==
  /\ console = "Acting" /\ main # "Exited" /\ AtRest(Console)
  /\ console' = "Idle"
  /\ KeepDaemon /\ KeepScreen

Answered ==
  /\ console = "Acting" /\ main # "Exited" /\ AtRest(Console)
  /\ console' = "Fetch"
  /\ KeepDaemon /\ KeepScreen

(* The daemon exits before its answer is read: nothing is told.            *)
CutOff ==
  /\ console \in {"Acting", "Fetching"} /\ main = "Exited"
  /\ console' = IF console = "Acting" THEN "Fetch" ELSE "Idle"
  /\ KeepDaemon /\ KeepScreen

(* The 200 ms are over without a key.                                      *)
Poll == console = "Idle" /\ console' = "Fetch" /\ KeepDaemon /\ KeepScreen

(* fetch_status; when it fails at the start, that goes unnoticed.          *)
Fetch ==
  /\ console \in {"Opening", "Fetch"}
  /\ IF Connects
       THEN Submit(Console, Ask("status", None)) /\ console' = "Fetching"
                                                 /\ UNCHANGED disconnected
       ELSE KeepDaemon /\ console' = "Idle" /\ disconnected' = (console = "Fetch")
  /\ UNCHANGED shownBpm

Fetched ==
  /\ console = "Fetching"
  /\ HandleStatus(Console)
  /\ shownBpm' = bpm
  /\ disconnected' = FALSE
  /\ console' = "Idle"

ConsoleStep ==
  \/ \E k \in Keys : Press(k)
  \/ Answered \/ CutOff \/ Poll \/ Fetch \/ Fetched

(* Everybody else, and the handler of a key's request.                     *)
DaemonStep ==
  /\ Next
  /\ console = "Fetching" /\ main' # "Exited" => request'[Console] = request[Console]
  /\ UNCHANGED consoleVars

ConsoleInit ==
  /\ Init
  /\ console = "Opening" /\ shownBpm = None /\ disconnected = FALSE

ConsoleNext == ConsoleStep \/ DaemonStep

ConsoleSpec == ConsoleInit /\ [][ConsoleNext]_allVars

-----------------------------------------------------------------------------
ConsoleTypeOK ==
  /\ TypeOK
  /\ console \in {"Opening", "Idle", "Acting", "Fetch", "Fetching"}
  /\ shownBpm # None => shownBpm \in Bpms
  /\ disconnected \in BOOLEAN

(* draw: the status last fetched ("connecting..." for None), and a footer, *)
(* which shows a refusal only as long as the daemon is there.              *)
Screen ==
  [bpm |-> shownBpm,
   footer |-> IF disconnected THEN "disconnected" ELSE "last refusal"]

OnlyConsoleTunes ==
  \A c \in Clients \ {Console} : \A r \in Requests[c] : r.name = "bpm" => r.arg \notin Bpms

(* What status reports is true, and so is what the console draws: where    *)
(* only its keys change the tempo, the tempo it shows between two keys is  *)
(* the one the clock runs at, so that every press counts from there; and   *)
(* it says "disconnected" only of a daemon that is leaving.                *)
ScreenTruthful ==
  /\ StatusTruthful
  /\ (OnlyConsoleTunes /\ console = "Idle" /\ main = "Serving" /\ Drained
        /\ Screen.bpm # None) => Screen.bpm = rate
  /\ Screen.footer = "disconnected" => main # "Serving"
=============================================================================
