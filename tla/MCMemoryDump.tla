---------------------------- MODULE MCMemoryDump ----------------------------
(* Values for TLC: three pages in one or two pagemap entries, of rows that     *)
(* repeat, that differ in unprintable bytes alone, and that have the pattern    *)
(* within a chunk and across the borders of two; a file that has them all or   *)
(* lacks the last; and processes that are gone or have no memory.             *)
EXTENDS MemoryDump

MCPrintable == {"a", "b", ".", "?"}
MCBytes == MCPrintable \union {"nul", "bel"}

MCPages == {<<"nul", "nul", "nul", "bel">>, <<"nul", "nul", "nul", "nul">>,
            <<"a", "b", "a", "a">>, <<"a", "a", ".", "nul">>, <<"b", "?", ".", ".">>}
MCFiles == UNION {[1..n -> MCPages] : n \in 2..3}
MCEntries == {<<[page |-> 1, pages |-> 3]>>,
              <<[page |-> 1, pages |-> 1], [page |-> 2, pages |-> 2]>>}
MCMemories ==
  [state : {"alive"}, root : {"alive"}, found : {TRUE}, entries : MCEntries, file : MCFiles]
  \union [state : States, root : {"stopped"}, found : BOOLEAN, entries : MCEntries,
          file : {<<>>}]

MCPatterns == {<<"a">>, <<"a", "a">>, <<"b", "a">>, <<"?">>, <<"?", ".">>}
MCRequests ==
  [search : {FALSE}, compact : BOOLEAN, pattern : {<<>>}, context : {0}]
  \union [search : {TRUE}, compact : {TRUE}, pattern : MCPatterns, context : {0, 1}]
=============================================================================
