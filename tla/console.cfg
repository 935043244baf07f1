SPECIFICATION Spec
CONSTANTS
  None = None
  Processes = {p, q}
  OutPort = "synth"
  InPort = "daw"
  Shells = {"shell"}
  ShellOps <- MCShellOps
  Keys = {"d", "o", "m", "y"}
SYMMETRY Symmetry
INVARIANTS
  TypeOK
  OneDaemon
  AnswersTrue
  ConsoleTruthful
