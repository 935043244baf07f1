----------------------------- MODULE MCLifecycle -----------------------------
(***************************************************************************)
(* A small instance of Lifecycle: a console and a command line beside it.  *)
(***************************************************************************)
EXTENDS Lifecycle, TLC

With(m, o, i) == [mode |-> m, out |-> o, in |-> i]
Do(name, with) == [name |-> name, with |-> with]

MCShellOps ==
  {Do("start", With("sync", OutPort, InPort)),
   Do("ensure", With("standalone", None, None)),
   Do("stop", None), Do("status", None), Do("kill", None)}

(* No action tells one process from another.                               *)
Symmetry == Permutations(Processes)

=============================================================================
