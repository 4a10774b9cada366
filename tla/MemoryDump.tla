----------------------------- MODULE MemoryDump -----------------------------
(***************************************************************************)
(* memparse for one process: the dump of its memory (--pid, to a file with  *)
(* --output) and the search in it (--search, --search-regex).  A pagemap     *)
(* entry says which pages of the process are in pages-N.img, whose pages     *)
(* follow one another in the order of the entries.  pages-N.img was taken    *)
(* from the archive after the pagemap and may have fewer pages than that     *)
(* says.  A pattern is a string; regular expressions differ in what they     *)
(* match, not in where they are looked for.                                  *)
(***************************************************************************)
EXTENDS Naturals, Sequences

CONSTANTS
  Bytes,         \* the bytes that memory is made of
  Printable,     \* those from 32 to 126
  Dot, Question, \* two of them
  RowBytes,      \* bytes in a row of the dump (16)
  PageRows,      \* rows in a page (256)
  ChunkPages,    \* pages the search reads at a time (2560)
  Memories,      \* processes and their memory
  Requests       \* what memparse is asked for

PageBytes == RowBytes * PageRows
Entry == [page : Nat, pages : Nat \ {0}]
States == {"alive", "stopped", "zombie", "dead"}
Memory == [state : States, root : States, found : BOOLEAN,
           entries : Seq(Entry), file : Seq([1..PageBytes -> Bytes])]
(* A page of a process is in one pagemap entry.                              *)
PagesApart(entries) ==
  \A e, f \in DOMAIN entries :
    e # f => \/ entries[e].page + entries[e].pages <= entries[f].page
             \/ entries[f].page + entries[f].pages <= entries[e].page

Request == [search : BOOLEAN, compact : BOOLEAN, pattern : Seq(Printable), context : Nat]

ASSUME MemoryAssumption ==
  /\ Printable \subseteq Bytes /\ {Dot, Question} \subseteq Printable
  /\ RowBytes \in Nat \ {0} /\ PageRows \in Nat \ {0} /\ ChunkPages \in Nat \ {0}
  /\ \A m \in Memories : m \in Memory /\ PagesApart(m.entries)
  /\ \A q \in Requests : q \in Request /\ (q.search => q.pattern # <<>>)

VARIABLES
  mem,      \* the process asked for and its memory
  ask,      \* the request
  dumpPc,
  entry,    \* the pagemap entry in work
  pos,      \* rows of it that are dumped, or pages that are searched
  addr,     \* the address of the next row
  prev,     \* hexdump's prevAscii
  dup,      \* hexdump's isDuplicate
  lines,    \* what hexdump wrote for every entry
  matches   \* the search's results

dumpVars == <<mem, ask, dumpPc, entry, pos, addr, prev, dup, lines, matches>>

HasMemory(state) == state \in {"alive", "stopped"}

-----------------------------------------------------------------------------
(***************************************************************************)
(* Reading memory                                                          *)
(***************************************************************************)

PageNumbers(e) == mem.entries[e].page .. mem.entries[e].page + mem.entries[e].pages - 1
Base(e) == mem.entries[e].page * PageBytes
RowCount(e) == mem.entries[e].pages * PageRows

(* Pages in the file before those of an entry.                               *)
Offset[e \in 1..Len(mem.entries) + 1] ==
  IF e = 1 THEN 0 ELSE Offset[e - 1] + mem.entries[e - 1].pages

(* Where page number n is in the file: getPage counts up to its entry.       *)
Index(n) ==
  LET e == CHOOSE e \in DOMAIN mem.entries : n \in PageNumbers(e)
  IN Offset[e] + n - mem.entries[e].page + 1

(* GetMemPages looks at the page after the entry's last one, too; should an   *)
(* entry map that page and the file lack it, the read fails for it.          *)
Readable(e) ==
  \A n \in mem.entries[e].page .. mem.entries[e].page + mem.entries[e].pages :
    (\E f \in DOMAIN mem.entries : n \in PageNumbers(f)) => Index(n) <= Len(mem.file)

Row(e, j) ==
  LET page == mem.file[Index(mem.entries[e].page + ((j - 1) \div PageRows))]
  IN [i \in 1..RowBytes |-> page[((j - 1) % PageRows) * RowBytes + i]]

(* The ASCII column that generateHexAndAscii makes of a row.                 *)
AsciiOf(row) == [i \in DOMAIN row |-> IF row[i] \in Printable THEN row[i] ELSE Dot]

-----------------------------------------------------------------------------
(* The root of a checkpointed process tree is alive or stopped.              *)
DumpInput ==
  /\ mem \in {m \in Memories : HasMemory(m.root)}
  /\ ask \in Requests

DumpStart ==
  /\ dumpPc = "check"
  /\ entry = 1 /\ pos = 0 /\ addr = 0
  /\ prev = <<>> /\ dup = FALSE
  /\ lines = <<>> /\ matches = <<>>

DumpInit == DumpInput /\ DumpStart

(* The process has to be there; the dump looks at the root's state instead of *)
(* its own.                                                                  *)
Accepted == mem.found /\ HasMemory(IF ask.search THEN mem.state ELSE mem.root)

(* CRIU writes a pagemap for processes with memory alone.  Everything else    *)
(* that may fail before a page is read: broken images, the extraction of the  *)
(* pages, the output file, the regular expression, a negative context.       *)
DumpCheck ==
  /\ dumpPc = "check"
  /\ \/ dumpPc' = "error"
     \/ /\ Accepted /\ HasMemory(mem.state)
        /\ dumpPc' = IF ask.search THEN "search" ELSE "entry"
  /\ UNCHANGED <<mem, ask, entry, pos, addr, prev, dup, lines, matches>>

ReadEntry ==
  /\ dumpPc = "entry" /\ entry <= Len(mem.entries)
  /\ Readable(entry)
  /\ dumpPc' = "row"
  /\ pos' = 0 /\ addr' = Base(entry)
  /\ prev' = <<>> /\ dup' = FALSE
  /\ lines' = Append(lines, <<>>)
  /\ UNCHANGED <<mem, ask, entry, matches>>

ReadEntryFails ==
  /\ dumpPc = "entry" /\ entry <= Len(mem.entries)
  /\ ~Readable(entry)
  /\ dumpPc' = "error"
  /\ UNCHANGED <<mem, ask, entry, pos, addr, prev, dup, lines, matches>>

Line(a, row) == [kind |-> "row", addr |-> a, row |-> row]
Star == [kind |-> "star", addr |-> 0, row |-> <<>>]

(* mutants: the flag is not reset after a run; the address stands still in one *)
StillDuplicate(ascii) == dup \/ (ask.compact /\ prev = ascii)
NextAddrOfPrinted(ascii) == IF prev = ascii THEN addr ELSE addr + RowBytes

Duplicate(ascii) == ask.compact /\ prev = ascii
NextAddr(ascii) == addr + RowBytes

(* One round of hexdump's loop.                                              *)
DumpRow ==
  /\ dumpPc = "row" /\ pos < RowCount(entry)
  /\ LET row == Row(entry, pos + 1)
         ascii == AsciiOf(row)
     IN /\ lines' = [lines EXCEPT ![entry] = @ \o
             IF ~(ask.compact /\ prev = ascii) THEN <<Line(addr, row)>>
             ELSE IF dup THEN <<>> ELSE <<Star>>]
        /\ dup' = Duplicate(ascii)
        /\ addr' = NextAddr(ascii)
        /\ prev' = ascii
  /\ pos' = pos + 1
  /\ UNCHANGED <<mem, ask, dumpPc, entry, matches>>

EntryDumped ==
  /\ dumpPc = "row" /\ pos = RowCount(entry)
  /\ dumpPc' = "entry" /\ entry' = entry + 1
  /\ UNCHANGED <<mem, ask, pos, addr, prev, dup, lines, matches>>

DumpEnds ==
  /\ dumpPc \in {"entry", "search"} /\ entry > Len(mem.entries)
  /\ dumpPc' = "done"
  /\ UNCHANGED <<mem, ask, entry, pos, addr, prev, dup, lines, matches>>

-----------------------------------------------------------------------------
(***************************************************************************)
(* Searching                                                               *)
(***************************************************************************)

(* What is searched: n pages of the file, unprintable bytes as '?'.          *)
Buffer(first, n) ==
  [i \in 1..n * PageBytes |->
     LET b == mem.file[first + 1 + ((i - 1) \div PageBytes)][((i - 1) % PageBytes) + 1]
     IN IF b \in Printable THEN b ELSE Question]

OccursAt(p, text, i) ==
  i + Len(p) - 1 <= Len(text) /\ \A k \in DOMAIN p : text[i + k - 1] = p[k]

(* FindAllIndex: from left to right, a match begins where the last one ended. *)
FoundFrom(text) ==
  LET found[i \in 1..Len(text) + 1] ==
        IF i > Len(text) THEN <<>>
        ELSE IF OccursAt(ask.pattern, text, i) THEN <<i>> \o found[i + Len(ask.pattern)]
        ELSE found[i + 1]
  IN found[1]

(* A match with the bytes around it, as far as the chunk goes.               *)
Match(text, i, start) ==
  LET from == IF i > ask.context THEN i - ask.context ELSE 1
      last == i + Len(ask.pattern) - 1 + ask.context
  IN [addr |-> start + i - 1,
      text |-> SubSeq(text, from, IF last < Len(text) THEN last ELSE Len(text))]

(* mutant: the last chunk of an entry is read as if it were a whole one       *)
ChunkSizeWhole == ChunkPages

ChunkSize ==
  LET left == mem.entries[entry].pages - pos
  IN IF left < ChunkPages THEN left ELSE ChunkPages

(* mutant: the last page of an entry is not seen to be its last              *)
NextChunkMore(n) ==
  IF pos + n <= mem.entries[entry].pages
  THEN pos' = pos + n /\ UNCHANGED entry
  ELSE pos' = 0 /\ entry' = entry + 1

NextChunk(n) ==
  IF pos + n < mem.entries[entry].pages
  THEN pos' = pos + n /\ UNCHANGED entry
  ELSE pos' = 0 /\ entry' = entry + 1

SearchChunk ==
  /\ dumpPc = "search" /\ entry <= Len(mem.entries)
  /\ Offset[entry] + pos + ChunkSize <= Len(mem.file)
  /\ LET text == Buffer(Offset[entry] + pos, ChunkSize)
         start == Base(entry) + pos * PageBytes
         found == FoundFrom(text)
     IN matches' = matches \o [k \in DOMAIN found |-> Match(text, found[k], start)]
  /\ NextChunk(ChunkSize)
  /\ UNCHANGED <<mem, ask, dumpPc, addr, prev, dup, lines>>

(* The end of the file ends the search of an entry, and is not an error.      *)
SearchCutShort ==
  /\ dumpPc = "search" /\ entry <= Len(mem.entries)
  /\ Offset[entry] + pos + ChunkSize > Len(mem.file)
  /\ pos' = 0 /\ entry' = entry + 1
  /\ UNCHANGED <<mem, ask, dumpPc, addr, prev, dup, lines, matches>>

DumpNext ==
  \/ DumpCheck \/ ReadEntry \/ ReadEntryFails \/ DumpRow \/ EntryDumped \/ DumpEnds
  \/ SearchChunk \/ SearchCutShort

DumpSpec == DumpInit /\ [][DumpNext]_dumpVars

-----------------------------------------------------------------------------
(***************************************************************************)
(* Properties                                                              *)
(***************************************************************************)

(* Every variable holds a value of its kind, and the address of the next row  *)
(* is that of the rows before it.                                            *)
DumpTypeOK ==
  /\ mem \in Memory /\ ask \in Request
  /\ dumpPc \in {"check", "entry", "row", "search", "done", "error"}
  /\ entry \in 1..Len(mem.entries) + 1
  /\ pos \in Nat /\ addr \in Nat /\ dup \in BOOLEAN
  /\ matches \in Seq([addr : Nat, text : Seq(Printable)])
  /\ dumpPc \in {"entry", "row"} => Len(lines) = IF dumpPc = "row" THEN entry ELSE entry - 1
  /\ dumpPc = "row" =>
       entry <= Len(mem.entries) /\ pos <= RowCount(entry) /\ addr = Base(entry) + pos * RowBytes

RowAddr(e, j) == Base(e) + (j - 1) * RowBytes
Dumped(e) == IF e < entry THEN RowCount(e) ELSE pos

(* --output: the file has every row of every entry that was read, each at its *)
(* address and in order, and memparse succeeds only with all of them: pages   *)
(* that are missing are an error, never a shorter dump.                      *)
FullDumpExact ==
  ~ask.search /\ ~ask.compact =>
    /\ \A e \in DOMAIN lines :
         lines[e] = [j \in 1..Dumped(e) |-> Line(RowAddr(e, j), Row(e, j))]
    /\ dumpPc = "done" => DOMAIN lines = DOMAIN mem.entries

(* Line k is where a reader of the dump of entry e finds row j: the last line *)
(* of an address up to that of the row, with an asterisk below if the row has *)
(* no line of its own.                                                       *)
Tells(e, k, j) ==
  LET out == lines[e] IN
  /\ out[k].kind = "row" /\ out[k].addr <= RowAddr(e, j)
  /\ \A m \in k + 1..Len(out) : out[m].kind = "row" => out[m].addr > RowAddr(e, j)
  /\ out[k].addr = RowAddr(e, j) \/ (k < Len(out) /\ out[k + 1].kind = "star")

(* The compact dump on stdout: its reader finds the ASCII column of every row, *)
(* those behind an asterisk included, whatever runs of repeated rows the memory *)
(* has and wherever its entries end.                                         *)
CompactReadsBack ==
  ~ask.search /\ ask.compact =>
    /\ \A e \in DOMAIN lines : \A j \in 1..Dumped(e) :
         \E k \in DOMAIN lines[e] :
           Tells(e, k, j) /\ AsciiOf(lines[e][k].row) = AsciiOf(Row(e, j))
    /\ dumpPc = "done" => DOMAIN lines = DOMAIN mem.entries

(* The comment of hexdump: consecutive duplicate rows are represented with an *)
(* asterisk.  A row that the compact dump leaves out equals the one above it. *)
OnlyDuplicatesLeftOut ==
  ~ask.search /\ ask.compact =>
    \A e \in DOMAIN lines : \A j \in 1..Dumped(e) :
      \/ \E k \in DOMAIN lines[e] : lines[e][k] = Line(RowAddr(e, j), Row(e, j))
      \/ j > 1 /\ Row(e, j) = Row(e, j - 1)

(* What a process has at an address, as the search sees it.                  *)
ByteAt(a) ==
  LET b == mem.file[Index(a \div PageBytes)][(a % PageBytes) + 1]
  IN IF b \in Printable THEN b ELSE Question
Holds(e, i) ==
  \A k \in DOMAIN ask.pattern : ByteAt(Base(e) + i + k - 1) = ask.pattern[k]
Inside(e, i) ==
  i + Len(ask.pattern) <= mem.entries[e].pages * PageBytes

(* Match x is an occurrence in entry e.                                      *)
OccursIn(x, e) ==
  \E i \in 0..mem.entries[e].pages * PageBytes - 1 :
    matches[x].addr = Base(e) + i /\ Inside(e, i) /\ Holds(e, i)

(* The search reports an address only if the pattern is there, in the order of *)
(* the pagemap and without an overlap.  It has searched every pagemap entry     *)
(* before it ends; where the file has all pages, it misses an occurrence only  *)
(* if that overlaps a reported one or crosses the border of two chunks.       *)
SearchExact ==
  ask.search =>
    /\ \A x \in DOMAIN matches : \E e \in DOMAIN mem.entries : OccursIn(x, e)
    /\ \A x, y \in DOMAIN matches : x < y =>
         \E e, f \in DOMAIN mem.entries :
           /\ OccursIn(x, e) /\ OccursIn(y, f)
           /\ e < f \/ (e = f /\ matches[x].addr + Len(ask.pattern) <= matches[y].addr)
    /\ dumpPc = "done" /\ Offset[entry] <= Len(mem.file) =>
         \A e \in DOMAIN mem.entries : \A i \in 0..mem.entries[e].pages * PageBytes - 1 :
           Inside(e, i) /\ Holds(e, i) =>
             LET chunk == ChunkPages * PageBytes
                 last == i + Len(ask.pattern) - 1
             IN \/ i \div chunk # last \div chunk
                \/ \E x \in DOMAIN matches :
                     /\ matches[x].addr <= Base(e) + i
                     /\ Base(e) + i < matches[x].addr + Len(ask.pattern)
=============================================================================
