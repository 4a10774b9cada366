SPECIFICATION DumpSpec
CONSTANTS
  Bytes <- MCBytes
  Printable <- MCPrintable
  Dot = "."
  Question = "?"
  RowBytes = 2
  PageRows = 2
  ChunkPages = 2
  Memories <- MCMemories
  Requests <- MCRequests
CHECK_DEADLOCK FALSE
INVARIANTS
  OnlyDuplicatesLeftOut
