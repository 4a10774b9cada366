-------------------------- MODULE CheckpointTasks --------------------------
(***************************************************************************)
(* The life of one checkpointctl command that reads archives: CreateTasks  *)
(* turns every archive of the command line into a Task, a temporary        *)
(* directory with the extracted files; the command reads the directories   *)
(* and prints; CleanupTasks, deferred, removes them.  Several invocations  *)
(* run at once.  They share the directory that MkdirTemp creates in and    *)
(* the archives, which other programs (a kubelet, a container engine) may  *)
(* replace or delete at any moment.                                        *)
(*                                                                         *)
(* A file of an archive is one of Names: "dumps" stands for spec.dump and  *)
(* config.dump, "images" for the CRIU images of the process tree and of    *)
(* the memory maps, "pages" for pages-N.img, "rootfs" for everything no    *)
(* command extracts.  Such a name lies inside the directory it is extracted *)
(* to: UntarFiles joins the two and does not look for "..".                *)
(***************************************************************************)
EXTENDS Naturals, SequencesExt

CONSTANTS
  Procs,     \* invocations of checkpointctl; each runs once
  Archives,  \* paths that may be given on a command line
  Commands,  \* the commands the invocations may run
  Dirs,      \* names MkdirTemp may draw
  Data,      \* contents of a file
  Broken,    \* the content that does not parse
  Absent,    \* no file of that name in a directory
  Tars,      \* what a path may hold
  MaxArgs,   \* bound on the archives of one command line
  NoDir,     \* no directory
  NoProc     \* no invocation

AllCommands == {"show", "inspect", "memparse", "memparse --pid", "diff"}
Names == {"dumps", "images", "pages", "rootfs"}
Kinds == {"missing", "irregular", "regular"}

EntryType == [name : Names, data : Data]

(* What os.Stat and the tar reader see at a path: hasDir tells whether an   *)
(* entry checkpoint/ is there, intact whether the stream ends in an EOF     *)
(* and not in an error after the last of entries.                           *)
TarType ==
  [kind : Kinds, hasDir : BOOLEAN, intact : BOOLEAN,
   entries : Seq(EntryType)]

ASSUME TasksAssumption ==
  /\ Commands \subseteq AllCommands
  /\ Broken \in Data
  /\ Absent \notin Data
  /\ Tars \subseteq TarType
  /\ MaxArgs \in Nat /\ MaxArgs >= 2
  /\ NoDir \notin Dirs
  /\ NoProc \notin Procs

VARIABLES
  archive,   \* what each path holds now
  dirs,      \* the temporary directories that exist
  content,   \* their files
  owner,     \* history: the invocation that created the directory last
  stuck,     \* the directories os.RemoveAll failed on
  pc,        \* where an invocation is
  cmd,       \* its command
  args,      \* its archives
  tasks,     \* the tasks it has
  cur,       \* the directory of the archive CreateTasks is working on
  source,    \* history: for every archive, what UntarFiles opened
  pos,       \* the next entry of the tar reader
  report,    \* what it has collected in memory, one item per archive
  out,       \* what it has printed
  status     \* how it ended

files == <<dirs, content, owner, stuck>>
command == <<cmd, args>>
loader == <<cur, source, pos>>
result == <<report, out>>
vars == <<archive, files, pc, command, tasks, loader, result, status>>

TaskType == [path : Archives, dir : Dirs]
ReportType ==
  [path : Archives, files : [Names -> Data \union {Absent}], whole : BOOLEAN]

Loading == {"stat", "scan", "mkdir", "open", "untar"}
Rendering == {"collect", "dump", "print", "blocked"}
Ended == {"exit", "killed"}
PCs == {"idle", "cleanup"} \union Loading \union Rendering \union Ended

-----------------------------------------------------------------------------
(***************************************************************************)
(* The commands                                                            *)
(***************************************************************************)

(* The files each command passes to CreateTasks as requiredFiles; inspect    *)
(* stands for inspect --ps-tree, diff for diff without --ps-tree-cmd.        *)
RequiredByShow == {"dumps"}
RequiredByInspect == {"dumps", "images"}
RequiredByMemparse == {"dumps", "images"}
RequiredByDiff == {"dumps", "images"}

Required(c) ==
  CASE c = "show"    -> RequiredByShow
    [] c = "inspect" -> RequiredByInspect
    [] c = "diff"    -> RequiredByDiff
    [] OTHER         -> RequiredByMemparse

(* The files whose absence is an error of the command: diff switches the      *)
(* process tree off when pstree.img is not there, memparse reads images      *)
(* alone.                                                                    *)
Mandatory(c) ==
  CASE c \in {"show", "diff"} -> {"dumps"}
    [] c = "inspect"          -> {"dumps", "images"}
    [] OTHER                  -> {"images"}

(* The files the command parses if they are there.                         *)
Parsed(c) == Mandatory(c) \union (IF c = "diff" THEN {"images"} ELSE {})

(* A command's readers accept the files of a directory.                    *)
CanCollect(c, fs) ==
  /\ \A n \in Mandatory(c) : fs[n] # Absent
  /\ \A n \in Parsed(c) : fs[n] # Broken

(* The commands that print only after the last archive is collected.       *)
PrintsAtEnd == {"show", "inspect", "diff"}

ConsideredFirst(p) == 1  \* mutant: every command stops after tasks[0]

(* memparse --pid and --search load every archive and look at tasks[0].    *)
Considered(p) == IF cmd[p] = "memparse --pid" THEN 1 ELSE Len(tasks[p])

(* A regular file or not, os.Open and the tar reader accept it or not.     *)
Readable(tar) == tar.kind = "regular" /\ tar.intact

-----------------------------------------------------------------------------
(***************************************************************************)
(* Extraction                                                              *)
(***************************************************************************)

NoFiles == [n \in Names |-> Absent]
Files(p, i) == content[tasks[p][i].dir]

FreshDirsTaken == Dirs  \* mutant: a name that may be taken

(* MkdirTemp creates a directory that did not exist.                       *)
FreshDirs == Dirs \ dirs

(* Whether UntarFiles extracts an entry.                                   *)
Matches(entry, wanted) == entry.name \in wanted

(* mutant: a file that is there already is kept                            *)
ExtractFirst(fs, entry, wanted) ==
  IF Matches(entry, wanted) /\ fs[entry.name] = Absent
  THEN [fs EXCEPT ![entry.name] = entry.data] ELSE fs

(* os.Create truncates: the last entry of a name is what stays.            *)
Extract(fs, entry, wanted) ==
  IF Matches(entry, wanted) THEN [fs EXCEPT ![entry.name] = entry.data] ELSE fs

(* What the first k entries of a tar leave of one name.                     *)
LastOf(entries, n, k) ==
  {i \in 1..k : entries[i].name = n /\ \A j \in (i + 1)..k : entries[j].name # n}

Picked(entries, n, k, old) ==
  LET last == LastOf(entries, n, k)
  IN IF last = {} THEN old ELSE entries[CHOOSE i \in last : TRUE].data

Reading(p) == Last(source[p])
Input(p) == args[p][Len(tasks[p]) + 1]

KeptNothing(p) == <<>>  \* mutant: diff defers the removal of A after loading B

(* diff calls CreateTasks once per checkpoint and has deferred the removal  *)
(* of the first one's directory; the others call it once for all archives   *)
(* and defer nothing before it returns.                                     *)
Kept(p) == IF cmd[p] = "diff" THEN tasks[p] ELSE <<>>

(* Deferred calls run last in, first out; one call goes through its tasks   *)
(* in their order.                                                          *)
RemovalIndex(p) == IF cmd[p] = "diff" THEN Len(tasks[p]) ELSE 1

(* mutants: the loop removes one directory only; it starts at the wrong end;  *)
(* it tries a directory again                                                *)
RemainingNone(p) == <<>>
RemainingSwapped(p) ==
  IF cmd[p] = "diff" THEN Tail(tasks[p]) ELSE Front(tasks[p])
RemainingAll(p) == tasks[p]

(* The tasks whose directories are still to remove after one round.          *)
Remaining(p) ==
  IF cmd[p] = "diff" THEN Front(tasks[p]) ELSE Tail(tasks[p])

Finish(p, how) ==
  /\ pc' = [pc EXCEPT ![p] = "cleanup"]
  /\ status' = [status EXCEPT ![p] = how]

Goto(p, next) == pc' = [pc EXCEPT ![p] = next]

-----------------------------------------------------------------------------
Init ==
  /\ archive \in [Archives -> Tars]
  /\ dirs = {}
  /\ content = [d \in Dirs |-> NoFiles]
  /\ owner = [d \in Dirs |-> NoProc]
  /\ stuck = {}
  /\ pc = [p \in Procs |-> "idle"]
  /\ cmd \in [Procs -> Commands]
  /\ args = [p \in Procs |-> <<>>]
  /\ tasks = [p \in Procs |-> <<>>]
  /\ cur = [p \in Procs |-> NoDir]
  /\ source = [p \in Procs |-> <<>>]
  /\ pos = [p \in Procs |-> 1]
  /\ report = [p \in Procs |-> <<>>]
  /\ out = [p \in Procs |-> <<>>]
  /\ status = [p \in Procs |-> "none"]

(* cobra checks the number of arguments: one or more, exactly two for diff. *)
LegalArgs(c, as) == c = "diff" => Len(as) = 2

Start(p) ==
  /\ pc[p] = "idle"
  /\ \E n \in 1..MaxArgs : \E as \in [1..n -> Archives] :
       /\ LegalArgs(cmd[p], as)
       /\ args' = [args EXCEPT ![p] = as]
  /\ Goto(p, "stat")
  /\ UNCHANGED <<archive, files, cmd, tasks, loader, result, status>>

(* CreateTasks returns an error.  The directory it was filling, and of a     *)
(* call with several archives the directories of the earlier ones, are       *)
(* forgotten; cur keeps the former as a history.                             *)
FailLoad(p) ==
  /\ tasks' = [tasks EXCEPT ![p] = Kept(p)]
  /\ Finish(p, "loadError")
  /\ UNCHANGED <<archive, files, command, loader, result>>

Stat(p) ==
  /\ pc[p] = "stat"
  /\ IF archive[Input(p)].kind = "regular"
     THEN /\ Goto(p, "scan")
          /\ UNCHANGED <<archive, files, command, tasks, loader, result, status>>
     ELSE FailLoad(p)

(* isFileInArchive reads the whole archive for an entry checkpoint/.         *)
HasCheckpoint(tar) == Readable(tar) /\ tar.hasDir

Scan(p) ==
  /\ pc[p] = "scan"
  /\ IF HasCheckpoint(archive[Input(p)])
     THEN /\ Goto(p, "mkdir")
          /\ UNCHANGED <<archive, files, command, tasks, loader, result, status>>
     ELSE FailLoad(p)

Mkdir(p) ==
  /\ pc[p] = "mkdir"
  /\ \E d \in FreshDirs :
       /\ dirs' = dirs \union {d}
       /\ content' = [content EXCEPT ![d] = NoFiles]
       /\ owner' = [owner EXCEPT ![d] = p]
       /\ cur' = [cur EXCEPT ![p] = d]
  /\ Goto(p, "open")
  /\ UNCHANGED <<archive, stuck, command, tasks, source, pos, result, status>>

MkdirFails(p) == pc[p] = "mkdir" /\ FailLoad(p)

(* UntarFiles opens the archive again; what it opened stays what it reads    *)
(* when the path is replaced.                                                *)
Open(p) ==
  /\ pc[p] = "open"
  /\ IF archive[Input(p)].kind = "regular"
     THEN /\ source' = [source EXCEPT ![p] = Append(@, archive[Input(p)])]
          /\ pos' = [pos EXCEPT ![p] = 1]
          /\ Goto(p, "untar")
          /\ UNCHANGED <<archive, files, command, tasks, cur, result, status>>
     ELSE FailLoad(p)

Untar(p) ==
  /\ pc[p] = "untar"
  /\ pos[p] <= Len(Reading(p).entries)
  /\ content' = [content EXCEPT
       ![cur[p]] = Extract(@, Reading(p).entries[pos[p]], Required(cmd[p]))]
  /\ pos' = [pos EXCEPT ![p] = @ + 1]
  /\ UNCHANGED <<archive, dirs, owner, stuck, pc, command, tasks, cur, source,
                 result, status>>

(* MkdirAll, Create or Copy fails on an entry that is extracted.             *)
UntarFails(p) ==
  /\ pc[p] = "untar"
  /\ pos[p] <= Len(Reading(p).entries)
  /\ Matches(Reading(p).entries[pos[p]], Required(cmd[p]))
  /\ FailLoad(p)

MoreInputsOff(p) == Len(tasks'[p]) <= Len(args[p])  \* mutant: off by one

(* The loop of CreateTasks goes on with the next archive.                    *)
MoreInputs(p) == Len(tasks'[p]) < Len(args[p])

UntarEnds(p) ==
  /\ pc[p] = "untar"
  /\ pos[p] > Len(Reading(p).entries)
  /\ IF Reading(p).intact
     THEN /\ tasks' = [tasks EXCEPT
               ![p] = Append(@, [path |-> Input(p), dir |-> cur[p]])]
          /\ cur' = [cur EXCEPT ![p] = NoDir]
          /\ Goto(p, IF MoreInputs(p) THEN "stat" ELSE "collect")
          /\ UNCHANGED <<archive, files, command, source, pos, result, status>>
     ELSE FailLoad(p)

-----------------------------------------------------------------------------
(***************************************************************************)
(* Rendering                                                               *)
(***************************************************************************)

(* The archive to collect next, and whether it is the last one.             *)
Index(p) == Len(report[p]) + 1
AtLast(p) == Index(p) = Considered(p)

Item(p, i, whole) ==
  [path |-> tasks[p][i].path, files |-> Files(p, i), whole |-> whole]

(* mutant: what has been collected is printed before the error *)
FailRenderPartial(p) ==
  /\ out' = [out EXCEPT ![p] = report[p]]
  /\ Finish(p, "renderError")
  /\ UNCHANGED <<archive, files, command, tasks, loader, report>>

FailRender(p) ==
  /\ Finish(p, "renderError")
  /\ UNCHANGED <<archive, files, command, tasks, loader, result>>

(* show, inspect and diff: the files of one directory, then the sizes from   *)
(* the archive.                                                              *)
SizesReadable(tar) == Readable(tar)

Collectable(p) ==
  /\ CanCollect(cmd[p], Files(p, Index(p)))
  /\ SizesReadable(archive[tasks[p][Index(p)].path])

Collect(p) ==
  /\ pc[p] = "collect"
  /\ cmd[p] \in PrintsAtEnd
  /\ IF Collectable(p)
     THEN /\ report' = [report EXCEPT ![p] = Append(@, Item(p, Index(p), TRUE))]
          /\ Goto(p, IF AtLast(p) THEN "print" ELSE "collect")
          /\ UNCHANGED <<archive, files, command, tasks, loader, out, status>>
     ELSE FailRender(p)

(* diff has RenderJSONView print what it collected into a pipe and reads the  *)
(* pipe afterwards: more than the pipe takes is never written, and the run    *)
(* stays where it is (DiffCapture has the pipe in detail).                   *)
BlocksInPipe(p) ==
  /\ pc[p] = "collect"
  /\ cmd[p] = "diff"
  /\ Collectable(p)
  /\ Goto(p, "blocked")
  /\ UNCHANGED <<archive, files, command, tasks, loader, result, status>>

PrintReport(p) ==
  /\ pc[p] = "print"
  /\ out' = [out EXCEPT ![p] = report[p]]
  /\ Finish(p, "ok")
  /\ UNCHANGED <<archive, files, command, tasks, loader, report>>

(* memparse without --pid: one table per archive, printed as soon as it is   *)
(* complete.                                                                 *)
MemTable(p) ==
  /\ pc[p] = "collect"
  /\ cmd[p] = "memparse"
  /\ IF CanCollect(cmd[p], Files(p, Index(p)))
     THEN /\ report' = [report EXCEPT ![p] = Append(@, Item(p, Index(p), TRUE))]
          /\ out' = [out EXCEPT ![p] = Append(@, Item(p, Index(p), TRUE))]
          /\ IF AtLast(p) THEN Finish(p, "ok") ELSE UNCHANGED <<pc, status>>
          /\ UNCHANGED <<archive, files, command, tasks, loader>>
     ELSE FailRender(p)

(* memparse --pid: extract the pages of the process from the archive as it   *)
(* is now, into the directory of the task.                                   *)
MemPages(p) ==
  /\ pc[p] = "collect"
  /\ cmd[p] = "memparse --pid"
  /\ CanCollect(cmd[p], Files(p, 1))
  /\ LET tar == archive[tasks[p][1].path]
         read == IF tar.kind = "regular" THEN tar.entries ELSE <<>>
     IN /\ content' = [content EXCEPT ![tasks[p][1].dir]["pages"] =
                         Picked(read, "pages", Len(read), @)]
        /\ IF Readable(tar) THEN Goto(p, "dump") /\ UNCHANGED status
                            ELSE Finish(p, "renderError")
  /\ UNCHANGED <<archive, dirs, owner, stuck, command, tasks, loader, result>>

(* The pages are dumped, or searched, from the extracted file; a process     *)
(* whose pagemap is empty needs none.                                        *)
Dump(p) ==
  /\ pc[p] = "dump"
  /\ Files(p, 1)["pages"] # Broken
  /\ report' = [report EXCEPT ![p] = <<Item(p, 1, TRUE)>>]
  /\ out' = [out EXCEPT ![p] = <<Item(p, 1, TRUE)>>]
  /\ Finish(p, "ok")
  /\ UNCHANGED <<archive, files, command, tasks, loader>>

(* A page that cannot be read ends the dump after its first rows; a search   *)
(* prints nothing before it has read every page.                             *)
DumpFails(p) ==
  /\ pc[p] = "dump"
  /\ Files(p, 1)["pages"] \in {Absent, Broken}
  /\ \E partial \in {<<>>, <<Item(p, 1, FALSE)>>} :
       out' = [out EXCEPT ![p] = partial]
  /\ Finish(p, "renderError")
  /\ UNCHANGED <<archive, files, command, tasks, loader, report>>

(* The answer the flags ask for cannot be given: an unknown --format, a PID  *)
(* that is not in the tree or has no memory, an --output that cannot be      *)
(* created, no pipe for diff, or checkpoints of two containers to compare.    *)
Refusing == {<<"inspect", "collect">>, <<"diff", "collect">>, <<"memparse --pid", "collect">>,
             <<"memparse --pid", "dump">>, <<"diff", "print">>}

Refuse(p) ==
  /\ <<cmd[p], pc[p]>> \in Refusing
  /\ FailRender(p)

MemPagesFails(p) ==
  /\ pc[p] = "collect"
  /\ cmd[p] = "memparse --pid"
  /\ ~CanCollect(cmd[p], Files(p, 1))
  /\ FailRender(p)

-----------------------------------------------------------------------------
(***************************************************************************)
(* The end of a run                                                        *)
(***************************************************************************)

Doomed(p) == tasks[p][RemovalIndex(p)].dir

(* One round of CleanupTasks' loop: os.RemoveAll removes the directory, or    *)
(* its error is printed and the loop goes on.                                *)
Cleanup(p) ==
  /\ pc[p] = "cleanup"
  /\ tasks[p] # <<>>
  /\ \/ dirs' = dirs \ {Doomed(p)} /\ UNCHANGED stuck
     \/ stuck' = stuck \union {Doomed(p)} /\ UNCHANGED dirs
  /\ tasks' = [tasks EXCEPT ![p] = Remaining(p)]
  /\ UNCHANGED <<archive, content, owner, pc, command, loader, result, status>>

Exit(p) ==
  /\ pc[p] = "cleanup"
  /\ tasks[p] = <<>>
  /\ Goto(p, "exit")
  /\ UNCHANGED <<archive, files, command, tasks, loader, result, status>>

(* A signal: nothing handles it and deferred calls do not run.               *)
Kill(p) ==
  /\ pc[p] \in Loading \union Rendering \union {"cleanup"}
  /\ Goto(p, "killed")
  /\ UNCHANGED <<archive, files, command, tasks, loader, result, status>>

(* Another program replaces, deletes or creates an archive.                  *)
Replace(a) ==
  /\ \E tar \in Tars \ {archive[a]} : archive' = [archive EXCEPT ![a] = tar]
  /\ UNCHANGED <<files, pc, command, tasks, loader, result, status>>

Load(p) ==
  \/ Stat(p) \/ Scan(p) \/ Mkdir(p) \/ MkdirFails(p) \/ Open(p)
  \/ Untar(p) \/ UntarFails(p) \/ UntarEnds(p)

Render(p) ==
  \/ Collect(p) \/ BlocksInPipe(p) \/ PrintReport(p) \/ MemTable(p) \/ MemPages(p) \/ MemPagesFails(p)
  \/ Dump(p) \/ DumpFails(p) \/ Refuse(p)

Step(p) == Load(p) \/ Render(p) \/ Cleanup(p) \/ Exit(p)

Next ==
  \/ \E p \in Procs : Start(p) \/ Step(p) \/ Kill(p)
  \/ \E a \in Archives : Replace(a)

(* A started process is scheduled; nothing makes anybody start one, send a   *)
(* signal or replace an archive.                                             *)
Fairness == \A p \in Procs : WF_vars(Step(p))

Spec == Init /\ [][Next]_vars /\ Fairness
-----------------------------------------------------------------------------
(***************************************************************************)
(* Properties                                                              *)
(***************************************************************************)

ValuesOK ==
  /\ archive \in [Archives -> Tars]
  /\ dirs \subseteq Dirs
  /\ content \in [Dirs -> [Names -> Data \union {Absent}]]
  /\ owner \in [Dirs -> Procs \union {NoProc}]
  /\ stuck \subseteq Dirs
  /\ pc \in [Procs -> PCs]
  /\ cmd \in [Procs -> Commands]
  /\ args \in [Procs -> Seq(Archives)]
  /\ tasks \in [Procs -> Seq(TaskType)]
  /\ cur \in [Procs -> Dirs \union {NoDir}]
  /\ source \in [Procs -> Seq(Tars)]
  /\ pos \in [Procs -> Nat \ {0}]
  /\ report \in [Procs -> Seq(ReportType)]
  /\ out \in [Procs -> Seq(ReportType)]
  /\ status \in [Procs -> {"none", "ok", "loadError", "renderError"}]

HasInput(p) == pc[p] \in Loading => Len(tasks[p]) < Len(args[p])

(* Every variable holds a value of its kind, and while CreateTasks loads      *)
(* there is an archive of the command line left to load.                     *)
TypeOK == ValuesOK /\ \A p \in Procs : HasInput(p)

(* The directories an invocation will still read, write or remove: those of  *)
(* its tasks, and the one CreateTasks is filling.                            *)
TaskDirs(p) == {tasks[p][i].dir : i \in 1..Len(tasks[p])}
Filling(p) == IF pc[p] \in {"open", "untar"} THEN {cur[p]} ELSE {}
Held(p) == TaskDirs(p) \union Filling(p)

(* CreateTasks and CleanupTasks, run by many invocations in one TMPDIR: a     *)
(* directory an invocation still uses exists and was created by it, no two   *)
(* of its tasks share one, and no other invocation uses it.                  *)
TaskDirsPrivate ==
  \A p \in Procs :
    /\ \A d \in Held(p) : d \in dirs /\ owner[d] = p
    /\ \A i, j \in 1..Len(tasks[p]) : i # j => tasks[p][i].dir # tasks[p][j].dir
    /\ TaskDirs(p) \intersect Filling(p) = {}
    /\ \A q \in Procs \ {p} : Held(p) \intersect Held(q) = {}

(* The deferred CleanupTasks: an invocation that ended by itself has left a   *)
(* directory behind only if os.RemoveAll failed on it or if CreateTasks      *)
(* returned an error, and diff then leaves no more than the directory of the *)
(* checkpoint it was extracting.                                             *)
LeakedOnlyByFailedLoad ==
  \A d \in dirs \ stuck :
    LET p == owner[d] IN
    pc[p] = "exit" => /\ status[p] = "loadError"
                      /\ cmd[p] = "diff" => d = cur[p]

(* What UntarFiles leaves of one name after k entries.                       *)
Extracted(tar, n, k) == Picked(tar.entries, n, k, Absent)

(* CreateTasks, UntarFiles and the renderers together: the i-th item that is  *)
(* printed carries the i-th path of the command line and, for every required *)
(* file, the last entry of that name in the archive that was opened for this *)
(* path, whatever happened since to the archive or to other invocations; a   *)
(* successful command has printed an item for every archive it considers.    *)
FaithfulOutput ==
  \A p \in Procs :
    /\ \A i \in 1..Len(out[p]) :
         /\ out[p][i].path = args[p][i]
         /\ \A n \in Required(cmd[p]) :
              out[p][i].files[n] =
                Extracted(source[p][i], n, Len(source[p][i].entries))
    /\ status[p] = "ok" =>
         Len(out[p]) = IF cmd[p] = "memparse --pid" THEN 1 ELSE Len(args[p])

(* An error leaves no partial answer of show, inspect or diff on stdout, and  *)
(* nobody's answer is on stdout before every archive has been extracted.     *)
NoPartialAnswer ==
  \A p \in Procs :
    out[p] # <<>> =>
      /\ Len(source[p]) = Len(args[p])
      /\ cmd[p] \in {"show", "inspect", "diff"} => status[p] = "ok"
      /\ status[p] # "loadError"

(* The files of a task are final: while an invocation renders, the only       *)
(* change to its directories is memparse --pid adding the pages to the first *)
(* one, and a directory is removed only by its owner's CleanupTasks.         *)
TasksStable ==
  [][\A p \in Procs :
       /\ pc[p] \in Rendering =>
            \A i \in 1..Len(tasks[p]) : \A n \in Names :
              content'[tasks[p][i].dir][n] # content[tasks[p][i].dir][n] =>
                cmd[p] = "memparse --pid" /\ i = 1 /\ n = "pages"
       /\ \A d \in dirs \ dirs' : pc[owner[d]] = "cleanup"]_vars

(* Every command that is started ends, whatever happens to the archives and    *)
(* whichever step fails; only a diff may stay in the pipe it writes to and    *)
(* does not read.                                                            *)
EveryRunEnds ==
  \A p \in Procs :
    pc[p] = "stat" ~> pc[p] \in Ended \/ (cmd[p] = "diff" /\ pc[p] = "blocked")
=============================================================================
