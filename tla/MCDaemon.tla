------------------------------ MODULE MCDaemon ------------------------------
(***************************************************************************)
(* A small instance of Daemon: an editor that changes projects and tempo,  *)
(* and an operator that changes modes and the transport.                   *)
(***************************************************************************)
EXTENDS Daemon

CONSTANT Rejected      \* a project that validate refuses

ASSUME RejectedAssumption == Rejected \notin Projects

Ask(name, arg) == [name |-> name, arg |-> arg]
Plain(names) == {Ask(n, None) : n \in names}

MCRequests ==
  [editor |->
     {Ask("create-project", "pad"), Ask("modify-project", "pad"),
      Ask("create-project", Rejected), Ask("set-bpm", 90)}
     \cup Plain({"clear-project", "stop"}),
   operator |->
     {Ask("set-mode", m) : m \in {"standalone", "clock", "sync"}}
     \cup Plain({"loop-start", "loop-stop", "clock-start", "clock-pause",
                 "clock-resume", "clock-stop", "status", "get-position"})]

(* One editor alone, with two songs.                                       *)
EditRequests ==
  [editor |->
     {Ask(n, s) : n \in {"create-project", "modify-project"}, s \in {"pad", "stab"}}
     \cup {Ask("set-bpm", 90), Ask("set-mode", "shuffle")}
     \cup Plain({"loop-start", "loop-stop"})]

=============================================================================
