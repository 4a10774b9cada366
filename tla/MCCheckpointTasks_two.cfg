SPECIFICATION Spec
CONSTANTS
  Procs = {p1, p2}
  Archives = {a1}
  Commands <- MCTwoCommands
  Dirs = {d1, d2, d3}
  Data <- MCData
  Broken = "broken"
  Absent = "absent"
  Tars <- MCTwoTars
  MaxArgs = 2
  NoDir = NoDir
  NoProc = NoProc
SYMMETRY MCSymmetry
INVARIANTS
  TaskDirsPrivate
  LeakedOnlyByFailedLoad
PROPERTIES
  TasksStable
