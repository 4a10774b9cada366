SPECIFICATION Spec
CONSTANTS
  Bytes <- MCBytes
  Printable <- MCPrintable
  Dot = "."
  Question = "?"
  RowBytes = 2
  PageRows = 2
  ChunkPages = 2
  Memories <- MCMemories
  Requests <- MCRequests
  Calls <- MCCalls
  Checkpoints <- MCCheckpoints
  Archives = {"p1", "p2"}
  Contents <- MCContents
  Dumps = {"x", "y"}
  NoFile = "none"
  BadDump = "bad"
  FilesIn <- MCFilesIn
  InOrder <- MCInOrder
  BadPatterns = {"["}
  Arguments <- MCArguments
  TempDirs = {"t1", "t2"}
  NoDir = "none"
  Leftovers <- MCLeftovers
  MaxReplaced = 1
  Keys <- MCKeys
  Details <- MCDetails
  Trees <- MCTrees
  NoTree = NoTree
  MaxItems = 2
  Unit = 16
  Exact <- MCExact
  Sizes <- MCSizes
  Durations <- MCDurations
CHECK_DEADLOCK FALSE
INVARIANTS
  DumpTypeOK
  FullDumpExact
  CompactReadsBack
  SearchExact
  WholeArchiveReported
  SubtreeReported
  TreeReadsBack
  FilesWithTheirProcess
  ListTypeOK
  RowsFromOneArchive
  OneDirAtATime
  NoFileHidden
  CompareTypeOK
  DiffIsExact
  ViewTellsDiff
  SizeReadsBack
PROPERTIES
  CommandEnds
