--------------------------- MODULE InspectReport ---------------------------
(***************************************************************************)
(* From the flags of a command to what it tells of the processes of a        *)
(* checkpoint: the files it has CreateTasks extract, the images it opens     *)
(* then, the process tree in memory and the views of it: JSON (inspect and,   *)
(* through a pipe, diff), the tree of inspect, the table of memparse.  Image  *)
(* files are grouped as the code names them; what is in them is abstracted to *)
(* the process tree, to who has sockets and to environments that have a      *)
(* variable without a name.                                                  *)
(***************************************************************************)
EXTENDS Naturals, SequencesExt

CONSTANTS
  Checkpoints,  \* contents of archives
  Calls         \* command lines

Call ==
  [command : {"inspect", "diff", "memparse"}, all : BOOLEAN, stats : BOOLEAN,
   psTree : BOOLEAN, cmd : BOOLEAN, env : BOOLEAN, files : BOOLEAN, sockets : BOOLEAN,
   pid : Nat, format : {"tree", "json", "other"}]

(* The parents in pstree.img: 0 is nobody, and nobody is its own ancestor.   *)
Forest(parent) ==
  /\ DOMAIN parent \subseteq Nat \ {0} /\ IsFiniteSet(DOMAIN parent)
  /\ \A S \in SUBSET DOMAIN parent : S # {} => \E p \in S : parent[p] \notin S

ASSUME ReportAssumption ==
  /\ Calls \subseteq Call
  /\ \A c \in Checkpoints : Forest(c.parent) /\ c.sockets \subseteq DOMAIN c.parent

VARIABLES
  call,       \* the command and its flags
  content,    \* of the archive
  reportPc,
  required,   \* the files that CreateTasks has to extract
  opened,     \* the files that were opened, or tried to be
  walk,       \* processes the walk down the process tree has still to visit
  nodes,      \* the processes of the report, in the order they were visited
  fdList,     \* the processes in the list of file descriptors
  skList,     \* those in the list of sockets
  rows        \* of the tree or the table on stdout

reportVars == <<call, content, reportPc, required, opened, walk, nodes, fdList, skList, rows>>

Procs == DOMAIN content.parent
Alive(p) == content.state[p] \in {"Alive", "Stopped"}

ChildrenOf(p) == {q \in Procs : content.parent[q] = p}
Root == CHOOSE p \in Procs : content.parent[p] = 0

-----------------------------------------------------------------------------
(***************************************************************************)
(* Flags and files                                                         *)
(***************************************************************************)

(* mutant: sockets do not turn on the process tree they are attached to       *)
ExpandedWithoutSockets(c) ==
  LET all == c.all /\ c.command = "inspect"
      on(flag) == flag \/ all
  IN [c EXCEPT !.stats = on(@), !.cmd = on(@), !.env = on(@), !.files = on(@),
      !.sockets = on(@), !.psTree = @ \/ c.pid # 0 \/ on(c.files \/ c.cmd \/ c.env)]

(* The flags that turn others on, in inspect; in memparse and diff nothing.   *)
Expanded(c) ==
  LET all == c.all /\ c.command = "inspect"
      on(flag) == flag \/ all
  IN [c EXCEPT !.stats = on(@), !.cmd = on(@), !.env = on(@), !.files = on(@),
      !.sockets = on(@),
      !.psTree = @ \/ c.pid # 0 \/ on(c.files \/ c.sockets \/ c.cmd \/ c.env)]

Files(on, files) == IF on THEN files ELSE {}

RequiredFiles(c) ==
  {"spec.dump", "config.dump"}
  \union Files(c.command = "inspect", {"network.status"})
  \union Files(c.stats, {"stats-dump"})
  \union Files(c.files, {"files.img", "fs-", "ids-", "fdinfo-"})
  \union Files(c.sockets, {"files.img", "ids-", "fdinfo-"})
  \union Files(c.cmd \/ c.env, {"pagemap-", "pages-", "mm-"})
  \union Files(c.command = "memparse", {"pagemap-", "mm-"})
  \union Files(c.psTree \/ c.command # "inspect", {"pstree.img", "core-"})

Extracted == required \ content.lacks

-----------------------------------------------------------------------------
ReportStart ==
  /\ reportPc = "flags"
  /\ required = {} /\ opened = {}
  /\ walk = <<>> /\ nodes = <<>> /\ fdList = {} /\ skList = {} /\ rows = <<>>

ReportInit == call \in Calls /\ content \in Checkpoints /\ ReportStart

(* The command line is looked at, and CreateTasks extracts what it asks for.  *)
(* The format is only looked at after that, by inspect.                      *)
Prepare ==
  /\ reportPc = "flags"
  /\ call' = Expanded(call)
  /\ required' = RequiredFiles(call')
  /\ reportPc' = IF call.command = "inspect" /\ call.format = "other" THEN "error" ELSE "info"
  /\ UNCHANGED <<content, opened, walk, nodes, fdList, skList, rows>>

(* Opening files: all of them are there and the report goes on, or it fails.  *)
OpenFiles(files, next) ==
  /\ opened' = opened \union files
  /\ reportPc' = IF files \subseteq Extracted THEN next ELSE "error"

(* diff shows the process tree if pstree.img was extracted.                  *)
ShowsTree ==
  IF call.command = "diff" THEN "pstree.img" \in Extracted
  ELSE call.psTree \/ call.command = "memparse"

(* getCheckpointInfo; memparse does not call it.  network.status may be      *)
(* missing.                                                                  *)
ReadInfo ==
  /\ reportPc = "info"
  /\ IF call.command = "memparse" THEN reportPc' = "stats" /\ UNCHANGED opened
     ELSE OpenFiles({"config.dump", "spec.dump"}, "stats")
  /\ UNCHANGED <<call, content, required, walk, nodes, fdList, skList, rows>>

ReadStats ==
  /\ reportPc = "stats"
  /\ IF call.stats THEN OpenFiles({"stats-dump"}, "pstree")
     ELSE reportPc' = "pstree" /\ UNCHANGED opened
  /\ UNCHANGED <<call, content, required, walk, nodes, fdList, skList, rows>>

(* ExplorePs, and FindPs for --pid.                                          *)
StartPid == IF call.pid = 0 THEN Root ELSE call.pid

ReadPsTree ==
  /\ reportPc = "pstree"
  /\ IF ~ShowsTree THEN reportPc' = "fds" /\ UNCHANGED <<opened, walk>>
     ELSE /\ OpenFiles({"pstree.img", "core-"}, IF StartPid \in Procs THEN "walk" ELSE "error")
          /\ walk' = <<StartPid>>
  /\ UNCHANGED <<call, content, required, nodes, fdList, skList, rows>>

(* mutant: a stopped process counts as dead                                  *)
HasStateAlive(p) == content.state[p] = "Alive"

(* IsAliveOrStopped                                                          *)
HasState(p) == Alive(p)

(* The images of a process that the walk opens.                              *)
ImagesOf(p) ==
  Files(HasState(p) /\ (call.cmd \/ call.env), {"pagemap-", "pages-", "mm-"})
  \union Files(HasState(p) /\ call.command = "memparse", {"pagemap-", "mm-"})

(* One call of buildJSONPsNode or, in memparse, of traverseTree: a process    *)
(* without state ends the walk there, and is left out of the table.  ExplorePs *)
(* ranges over a map to find children, so they may have any order.           *)
VisitProcess ==
  /\ reportPc = "walk" /\ walk # <<>>
  /\ LET p == Head(walk) IN
     /\ opened' = opened \union ImagesOf(p)
     /\ IF ~(ImagesOf(p) \subseteq Extracted) \/ (HasState(p) /\ call.env /\ p \in content.badEnv)
        THEN reportPc' = "error" /\ UNCHANGED <<walk, nodes>>
        ELSE /\ nodes' = IF HasState(p) \/ call.command # "memparse" THEN Append(nodes, p) ELSE nodes
             /\ \E order \in SetToSeqs(IF HasState(p) THEN ChildrenOf(p) ELSE {}) :
                  walk' = order \o Tail(walk)
             /\ UNCHANGED reportPc
  /\ UNCHANGED <<call, content, required, fdList, skList, rows>>

WalkEnds ==
  /\ reportPc = "walk" /\ walk = <<>>
  /\ reportPc' = IF call.command = "memparse" THEN "print" ELSE "fds"
  /\ UNCHANGED <<call, content, required, opened, walk, nodes, fdList, skList, rows>>

(* ExploreFds and ExploreSk go through the processes of pstree.img, whatever   *)
(* --pid says.                                                              *)
WithState(S) == {p \in S : Alive(p)}

ReadFds ==
  /\ reportPc = "fds"
  /\ IF ~call.files THEN reportPc' = "sks" /\ UNCHANGED <<opened, fdList>>
     ELSE /\ OpenFiles({"pstree.img", "core-", "ids-", "fdinfo-", "files.img", "fs-"}, "sks")
          /\ fdList' = IF reportPc' = "sks" THEN WithState(Procs) ELSE fdList
  /\ UNCHANGED <<call, content, required, walk, nodes, skList, rows>>

ReadSks ==
  /\ reportPc = "sks"
  /\ IF ~call.sockets THEN reportPc' = "print" /\ UNCHANGED <<opened, skList>>
     ELSE /\ OpenFiles({"pstree.img", "core-", "ids-", "fdinfo-", "files.img"}, "print")
          /\ skList' = IF reportPc' = "print" THEN WithState(content.sockets) ELSE skList
  /\ UNCHANGED <<call, content, required, walk, nodes, fdList, rows>>

-----------------------------------------------------------------------------
(***************************************************************************)
(* The views                                                               *)
(***************************************************************************)

(* JSON is printed as it is, the table one row for each node; the tree is     *)
(* built from the nodes.                                                     *)
StartView ==
  /\ reportPc = "print"
  /\ IF call.command = "inspect" /\ call.format = "tree" /\ nodes # <<>>
     THEN reportPc' = "branch" /\ walk' = <<[pid |-> Head(nodes), depth |-> 0]>> /\ UNCHANGED rows
     ELSE /\ reportPc' = "done"
          /\ rows' = IF call.command = "memparse" THEN nodes ELSE rows
          /\ UNCHANGED walk
  /\ UNCHANGED <<call, content, required, opened, nodes, fdList, skList>>

(* mutant: children are not sorted before they are added                     *)
Unsorted(S) == SetToSeqs(S)

SortedByPid(S) ==
  {order \in SetToSeqs(S) : \A i, j \in DOMAIN order : i < j => order[i] < order[j]}

(* mutant: the branch of a stopped process ends, too                         *)
BranchGoesOnAlive(p) == content.state[p] = "Alive"

(* States other than Alive and Stopped end the branch.                       *)
BranchGoesOn(p) == Alive(p)

(* One call of addPsNodeBranch: a line for the process, below it those of its *)
(* files and sockets, then its children.                                     *)
Branch ==
  /\ reportPc = "branch" /\ walk # <<>>
  /\ LET p == Head(walk).pid
         depth == Head(walk).depth
         mine(list) == BranchGoesOn(p) /\ p \in list
     IN /\ rows' = Append(rows, [pid |-> p, depth |-> depth,
                                 files |-> mine(fdList), sockets |-> mine(skList)])
        /\ \E children \in SortedByPid({q \in ToSet(nodes) :
                                        BranchGoesOn(p) /\ q \in ChildrenOf(p)}) :
             walk' = [i \in DOMAIN children |-> [pid |-> children[i], depth |-> depth + 1]]
                       \o Tail(walk)
  /\ UNCHANGED <<call, content, reportPc, required, opened, nodes, fdList, skList>>

BranchesEnd ==
  /\ reportPc = "branch" /\ walk = <<>>
  /\ reportPc' = "done"
  /\ UNCHANGED <<call, content, required, opened, walk, nodes, fdList, skList, rows>>

ReportNext ==
  \/ Prepare \/ ReadInfo \/ ReadStats \/ ReadPsTree \/ VisitProcess \/ WalkEnds
  \/ ReadFds \/ ReadSks \/ StartView \/ Branch \/ BranchesEnd

ReportSpec == ReportInit /\ [][ReportNext]_reportVars
-----------------------------------------------------------------------------
(***************************************************************************)
(* Properties                                                              *)
(***************************************************************************)

(* A process and those below it, where only the living have children: the     *)
(* smallest set with the process and, for each of its members, its children.  *)
ClosedBelow(S) == \A p \in S : Alive(p) => ChildrenOf(p) \subseteq S
Below(p) == {q \in Procs : \A S \in SUBSET Procs : p \in S /\ ClosedBelow(S) => q \in S}

(* Whatever the flags and whatever they turn on: inspect, diff and memparse    *)
(* fail only if the archive lacks a file that they had to ask for, over an     *)
(* unknown format or PID, or a nameless variable in an environment they are to *)
(* show.  So whatever a reader opens was among the files to extract.          *)
WholeArchiveReported ==
  reportPc = "error" =>
    \/ content.lacks \intersect (required \ {"network.status"}) # {}
    \/ call.command = "inspect" /\ call.format = "other"
    \/ StartPid \notin Procs
    \/ call.env /\ \E p \in Below(StartPid) : p \in content.badEnv /\ Alive(p)

(* What the JSON document and the table of memparse tell of processes: those   *)
(* from the one asked for downwards, each once and after its parent, in the    *)
(* table without those that have no memory; in whatever order the children of  *)
(* a process come.                                                           *)
SubtreeReported ==
  reportPc \in {"branch", "done"} /\ ShowsTree =>
    /\ IsInjective(nodes)
    /\ ToSet(nodes) = {p \in Below(StartPid) : Alive(p) \/ call.command # "memparse"}
    /\ \A i \in DOMAIN nodes :
         nodes[i] = StartPid \/ \E j \in 1..i - 1 : nodes[j] = content.parent[nodes[i]]

(* The tree of inspect: its reader gets the processes and their parents back   *)
(* from the indentation, siblings ascend by PID, so the order in which the     *)
(* map gave them leaves no trace.                                            *)
TreeReadsBack ==
  reportPc = "done" /\ rows # <<>> /\ call.command = "inspect" =>
    /\ {rows[i].pid : i \in DOMAIN rows} = Below(StartPid)
    /\ \A i \in 2..Len(rows) :
         LET above == {j \in 1..i - 1 : rows[j].depth < rows[i].depth}
         IN rows[Max(above)].pid = content.parent[rows[i].pid]
    /\ \A i, j \in DOMAIN rows :
         i < j /\ content.parent[rows[i].pid] = content.parent[rows[j].pid]
           => rows[i].pid < rows[j].pid

(* Files and sockets: the tree shows them with their processes, and those of    *)
(* every process that is shown and has any, as --files and --sockets promise;  *)
(* the lists in JSON have all processes, those that --pid leaves out included. *)
FilesWithTheirProcess ==
  reportPc = "done" /\ rows # <<>> /\ call.command = "inspect" =>
    /\ {rows[i].pid : i \in {k \in DOMAIN rows : rows[k].files}} =
         IF call.files THEN {p \in Below(StartPid) : Alive(p)} ELSE {}
    /\ {rows[i].pid : i \in {k \in DOMAIN rows : rows[k].sockets}} =
         IF call.sockets THEN {p \in Below(StartPid) : Alive(p)} \intersect content.sockets ELSE {}
    /\ call.files => fdList = {p \in Procs : Alive(p)}
=============================================================================
