SPECIFICATION Spec
CONSTANTS
  Procs = {p1}
  Archives = {a1, a2}
  Commands <- MCAllCommands
  Dirs = {d1, d2}
  Data <- MCData
  Broken = "broken"
  Absent = "absent"
  Tars <- MCTars
  MaxArgs = 2
  NoDir = NoDir
  NoProc = NoProc
INVARIANTS
  TypeOK
  FaithfulOutput
  NoPartialAnswer
PROPERTIES
  EveryRunEnds
