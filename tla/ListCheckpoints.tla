--------------------------- MODULE ListCheckpoints ---------------------------
(***************************************************************************)
(* checkpointctl list: the checkpoint-* files of every directory given, and  *)
(* what config.dump and spec.dump of each say, as rows of one table.  Each   *)
(* archive is extracted into a temporary directory of its own, which         *)
(* ExtractConfigDump removes when it returns.  A container engine replaces    *)
(* and removes the archives meanwhile, and earlier commands that were killed  *)
(* have left directories in TMPDIR.  The names of the entries of an archive    *)
(* are taken to stay inside the directory they are extracted to: UntarFiles    *)
(* joins them to it as they are.                                             *)
(***************************************************************************)
EXTENDS Naturals, Sequences, FiniteSets

CONSTANTS
  Archives,     \* paths of checkpoint-* files
  Contents,     \* what may be at such a path, archive or not
  Dumps,        \* contents of config.dump and spec.dump that can be read
  NoFile,       \* there is none
  BadDump,      \* one that does not parse, or lacks metadata of its engine
  FilesIn,      \* the paths in a directory
  InOrder(_),   \* a set of paths in lexical order
  BadPatterns,  \* directories whose names make no pattern for Glob
  Arguments,    \* lists of directories on the command line, or the default
  TempDirs,     \* names for temporary directories
  NoDir,        \* not one of them
  Leftovers,    \* what TMPDIR may hold before
  MaxReplaced   \* bound on replaced archives

Dump == Dumps \union {NoFile, BadDump}
Pair == [config : Dump, spec : Dump]
Content == [exists : BOOLEAN, whole : BOOLEAN, config : Dump, spec : Dump]
Disk == UNION {[D -> Pair] : D \in SUBSET TempDirs}

ASSUME ListAssumption ==
  /\ Contents \subseteq Content
  /\ \A d \in DOMAIN FilesIn : FilesIn[d] \subseteq Archives
  /\ \A S \in SUBSET Archives :
       /\ InOrder(S) \in Seq(Archives)
       /\ {InOrder(S)[i] : i \in DOMAIN InOrder(S)} = S
  /\ \A a \in Arguments : a \in Seq(DOMAIN FilesIn)
  /\ Leftovers \subseteq Disk
  /\ NoDir \notin TempDirs
  /\ NoFile \notin Dumps /\ BadDump \notin Dumps

VARIABLES
  args,      \* the directories
  archive,   \* what is at every path
  was,       \* what has been there since the command started (history)
  replaced,  \* number of replacements
  before,    \* what TMPDIR held when the command started (history)
  listPc,
  path,      \* number of directories that were looked up
  queue,     \* the files of the last of them that are still to be listed
  globbed,   \* all files that were looked up (history)
  disk,      \* the temporary directories that exist, and what is in them
  dir,       \* that of the file in work
  row,       \* what was read of it, nothing after an I/O error
  table,     \* the rows
  logged,    \* the lines of the log: a file that could not be read, and whose they are
  unremoved, \* the directories whose removal failed (history)
  shown      \* the table was printed

listEnv == <<args, archive, was, replaced, before>>
listVars == <<listEnv, listPc, path, queue, globbed, disk, dir, row, table, logged,
              unremoved, shown>>

Nothing == [config |-> NoFile, spec |-> NoFile]
-----------------------------------------------------------------------------
ListInput ==
  /\ args \in Arguments
  /\ archive \in [Archives -> Contents]
  /\ before \in Leftovers

ListStart ==
  /\ was = [f \in Archives |-> {archive[f]}]
  /\ replaced = 0
  /\ listPc = "path" /\ path = 0
  /\ queue = <<>> /\ globbed = <<>>
  /\ disk = before /\ dir = NoDir /\ row = Nothing
  /\ table = <<>> /\ logged = <<>>
  /\ unremoved = {} /\ shown = FALSE

ListInit == ListInput /\ ListStart

(* filepath.Glob of the next directory.  It fails only for a bad pattern; an  *)
(* error then also drops the rows of the directories before.                 *)
Glob ==
  /\ listPc = "path" /\ path < Len(args)
  /\ IF args[path + 1] \in BadPatterns
     THEN listPc' = "error" /\ UNCHANGED <<path, queue, globbed>>
     ELSE /\ path' = path + 1
          /\ queue' = InOrder({f \in FilesIn[args[path']] : archive[f].exists})
          /\ globbed' = globbed \o queue'
          /\ listPc' = "file"
  /\ UNCHANGED <<listEnv, disk, dir, row, table, logged, unremoved, shown>>

NextPath ==
  /\ listPc = "file" /\ queue = <<>>
  /\ listPc' = "path"
  /\ UNCHANGED <<listEnv, path, queue, globbed, disk, dir, row, table, logged, unremoved, shown>>

(* mutant: the name of the directory is not made unique                      *)
FreshTempAny == TempDirs

(* The names that os.MkdirTemp may pick.                                     *)
FreshTemp == TempDirs \ DOMAIN disk

MakeDir(d) ==
  /\ listPc = "file" /\ queue # <<>>
  /\ d \in FreshTemp
  /\ disk' = [x \in DOMAIN disk \union {d} |-> IF x \in DOMAIN disk THEN disk[x] ELSE Nothing]
  /\ dir' = d
  /\ listPc' = "extract"
  /\ UNCHANGED <<listEnv, path, queue, globbed, row, table, logged, unremoved, shown>>

(* A line about a file, by the function that writes it, after an I/O error or  *)
(* another one.                                                              *)
LogLine(f, by, io) == [file |-> f, by |-> by, io |-> io]

MakeDirFails ==
  /\ listPc = "file" /\ queue # <<>>
  /\ logged' = Append(logged, LogLine(Head(queue), "list", TRUE))
  /\ queue' = Tail(queue)
  /\ UNCHANGED <<listEnv, listPc, path, globbed, disk, dir, row, table, unremoved, shown>>

(* Both files are created anew if the archive has them.                      *)
Over(new, old) == IF new = NoFile THEN old ELSE new
Unpacked(content) ==
  [disk EXCEPT ![dir] = [config |-> Over(content.config, @.config),
                         spec |-> Over(content.spec, @.spec)]]

ExtractDumps ==
  /\ listPc = "extract"
  /\ LET content == archive[Head(queue)] IN
     /\ content.exists /\ content.whole
     /\ disk' = Unpacked(content)
  /\ listPc' = "read"
  /\ UNCHANGED <<listEnv, path, queue, globbed, dir, row, table, logged, unremoved, shown>>

(* mutant: the directory is removed on success alone                         *)
AfterFailureUndeferred == "next"

(* The directory is removed whatever happens.                                *)
AfterFailure == "remove"

(* The archive is gone, is none, is torn, or cannot be written out; what came *)
(* before the error is extracted.  ExtractConfigDump logs this error itself,   *)
(* and list will log it once more.                                           *)
ExtractDumpsFails ==
  /\ listPc = "extract"
  /\ LET content == archive[Head(queue)] IN
     /\ \E config \in {NoFile, content.config}, spec \in {NoFile, content.spec} :
          disk' = Unpacked([config |-> config, spec |-> spec])
     /\ row' = [Nothing EXCEPT !.config = IF content.exists /\ content.whole THEN NoFile ELSE BadDump]
  /\ logged' = Append(logged, LogLine(Head(queue), "ExtractConfigDump", row'.config = NoFile))
  /\ listPc' = AfterFailure
  /\ UNCHANGED <<listEnv, path, queue, globbed, dir, table, unremoved, shown>>

(* mutant: the error of spec.dump is not looked at                           *)
GoodConfig(pair) == pair.config \in Dumps

Good(pair) == pair.config \in Dumps /\ pair.spec \in Dumps

(* The files that were extracted are parsed; row is what came of it.         *)
ReadDumps ==
  /\ listPc = "read"
  /\ row' = IF Good(disk[dir]) THEN disk[dir] ELSE [Nothing EXCEPT !.config = BadDump]
  /\ listPc' = "remove"
  /\ UNCHANGED <<listEnv, path, queue, globbed, disk, dir, table, logged, unremoved, shown>>

(* ExtractConfigDump returns: the deferred removal of the directory, whose     *)
(* error nobody sees.                                                        *)
RemoveDir ==
  /\ listPc = "remove"
  /\ disk' = [x \in DOMAIN disk \ {dir} |-> disk[x]]
  /\ dir' = NoDir
  /\ listPc' = "next"
  /\ UNCHANGED <<listEnv, path, queue, globbed, row, table, logged, unremoved, shown>>

RemoveDirFails ==
  /\ listPc = "remove"
  /\ unremoved' = unremoved \union {dir}
  /\ dir' = NoDir
  /\ listPc' = "next"
  /\ UNCHANGED <<listEnv, path, queue, globbed, disk, row, table, logged, shown>>

(* mutant: an error leaves the loop over the files of the directory          *)
QueueAfterAbandoned(failed) == IF failed THEN <<>> ELSE Tail(queue)

(* An error is logged and the loop goes on.                                  *)
QueueAfter(failed) == Tail(queue)

ListFile ==
  /\ listPc = "next"
  /\ IF Good(row)
     THEN /\ table' = Append(table, [file |-> Head(queue), config |-> row.config, spec |-> row.spec])
          /\ UNCHANGED logged
     ELSE /\ logged' = Append(logged, LogLine(Head(queue), "list", row.config = NoFile))
          /\ UNCHANGED table
  /\ queue' = QueueAfter(~Good(row))
  /\ row' = Nothing
  /\ listPc' = "file"
  /\ UNCHANGED <<listEnv, path, globbed, disk, dir, unremoved, shown>>

(* The table is printed if any file was found, though none be readable.      *)
PrintTable ==
  /\ listPc = "path" /\ path = Len(args)
  /\ shown' = (globbed # <<>>)
  /\ listPc' = "done"
  /\ UNCHANGED <<listEnv, path, queue, globbed, disk, dir, row, table, logged, unremoved>>

Running == listPc \notin {"done", "error", "killed"}

KillList ==
  /\ Running
  /\ listPc' = "killed"
  /\ UNCHANGED <<listEnv, path, queue, globbed, disk, dir, row, table, logged, unremoved, shown>>

ReplaceArchive ==
  /\ Running /\ replaced < MaxReplaced
  /\ replaced' = replaced + 1
  /\ \E f \in Archives, c \in Contents :
       /\ archive' = [archive EXCEPT ![f] = c]
       /\ was' = [was EXCEPT ![f] = @ \union {c}]
  /\ UNCHANGED <<args, before, listPc, path, queue, globbed, disk, dir, row, table, logged,
                 unremoved, shown>>

ListStep ==
  \/ Glob \/ NextPath \/ MakeDirFails \/ (\E d \in TempDirs : MakeDir(d))
  \/ ExtractDumps \/ ExtractDumpsFails \/ ReadDumps \/ RemoveDir \/ RemoveDirFails
  \/ ListFile \/ PrintTable

ListNext == ListStep \/ KillList \/ ReplaceArchive

ListSpec == ListInit /\ [][ListNext]_listVars
-----------------------------------------------------------------------------
(***************************************************************************)
(* Properties                                                              *)
(***************************************************************************)

(* Every variable holds a value of its kind, and there is a file in work      *)
(* where the program is about to work on one.                                *)
ListTypeOK ==
  /\ args \in Seq(DOMAIN FilesIn)
  /\ archive \in [Archives -> Content] /\ was \in [Archives -> SUBSET Content]
  /\ replaced \in Nat
  /\ before \in Disk /\ disk \in Disk
  /\ listPc \in {"path", "file", "extract", "read", "remove", "next", "done", "error", "killed"}
  /\ path \in 0..Len(args)
  /\ queue \in Seq(Archives) /\ globbed \in Seq(Archives)
  /\ listPc \in {"extract", "read", "remove"} => dir \in DOMAIN disk
  /\ listPc \in {"extract", "read", "remove", "next"} => queue # <<>>
  /\ row \in Pair
  /\ table \in Seq([file : Archives, config : Dumps, spec : Dumps])
  /\ logged \in Seq([file : Archives, by : {"ExtractConfigDump", "list"}, io : BOOLEAN])
  /\ unremoved \subseteq TempDirs /\ shown \in BOOLEAN

(* Every row tells what one archive said that was at the file's path while    *)
(* list ran: config.dump and spec.dump of one generation of that very file,   *)
(* never anything that an earlier file or an earlier command left in TMPDIR.  *)
RowsFromOneArchive ==
  \A i \in DOMAIN table :
    \E c \in was[table[i].file] :
      c.whole /\ c.config = table[i].config /\ c.spec = table[i].spec

(* list touches none of the directories that were in TMPDIR before, and of its *)
(* own it leaves those whose removal failed, and when killed at most one more. *)
OneDirAtATime ==
  /\ \A d \in DOMAIN before : d \in DOMAIN disk /\ disk[d] = before[d]
  /\ DOMAIN disk \ DOMAIN before \subseteq unremoved \union {dir}
  /\ listPc \in {"done", "error", "next", "file", "path"} => dir = NoDir

Times(f, list) == Cardinality({i \in DOMAIN list : list[i].file = f})
TimesIn(f, list) == Cardinality({i \in DOMAIN list : list[i] = f})
LinesByList(f, log) == Cardinality({i \in DOMAIN log : log[i].file = f /\ log[i].by = "list"})

(* Every file that was found is a row of the table or a line that list logged, *)
(* as often as it was found, whatever the archives before it are like.  A line  *)
(* of ExtractConfigDump is no further file: list repeats it, next, unless it    *)
(* is killed.  A file that always was a whole archive with both dumps is in    *)
(* the log only after an I/O error; and the table says so if there are files,  *)
(* though none of them can be read.                                          *)
NoFileHidden ==
  /\ listPc \in {"path", "file", "done"} =>
       /\ \A f \in Archives :
            Times(f, table) + LinesByList(f, logged) + TimesIn(f, queue) = TimesIn(f, globbed)
       /\ \A i \in DOMAIN logged :
            logged[i].by = "ExtractConfigDump" =>
              /\ i + 1 \in DOMAIN logged
              /\ logged[i + 1] = LogLine(logged[i].file, "list", logged[i].io)
  /\ \A i \in DOMAIN logged :
       logged[i].io \/ \E c \in was[logged[i].file] : ~(c.exists /\ c.whole /\ Good(c))
  /\ listPc = "done" => (shown <=> globbed # <<>>)
=============================================================================
