---------------------------- MODULE DiffCompute ----------------------------
(***************************************************************************)
(* The comparisons of checkpointctl diff: compareProcessTrees,              *)
(* compareFileDescriptors and compareSockets put the items of both          *)
(* checkpoints into two maps and range over these, in the order the runtime *)
(* picks; and DiffTasks of the library, which does the same with tasks.  An  *)
(* item is the key it is filed under and what the key does not tell: the     *)
(* command line of a process (key PID), the type of a file (key PID, FD and  *)
(* path), the state and the source address of a socket (key PID, protocol,   *)
(* type, address, source port, destination and its port), the directory and  *)
(* the filter of a task (key the path of the archive).                       *)
(***************************************************************************)
EXTENDS Naturals, SequencesExt

CONSTANTS
  Keys,     \* the keys of items; of processes, their PIDs
  Details,  \* what a key does not tell
  Trees,    \* process trees: the root and, for every process, its children
  NoTree,   \* there is none: the checkpoint has no pstree.img
  MaxItems  \* bound on the files, sockets or tasks of a checkpoint

Item == [key : Keys, detail : Details]
Sides == {"A", "B"}
Other == [A |-> "B", B |-> "A"]
Kinds == {"processes", "files", "sockets", "tasks"}

(* A process tree: the PID at the root and the children of every PID in it.  *)
TreeType == [root : Keys, children : [Keys -> Seq(Keys)]]

ASSUME CompareAssumption ==
  /\ Trees \subseteq TreeType /\ NoTree \notin TreeType
  /\ MaxItems \in Nat

VARIABLES
  kind,       \* what is compared
  psTreeCmd,  \* the flag --ps-tree-cmd, which nothing but processes asks for
  trees,      \* the process trees, if there are, where processes are compared
  cmdline,    \* of every process
  items,      \* the files, sockets or tasks; the flattened trees
  stack,      \* of flattenProcessTree: the processes still to visit
  comparePc,
  index,      \* how many items of each checkpoint are in its map
  map,        \* the two maps
  todo,       \* the keys the range loop over each map has not come to
  result      \* the lists added, removed, modified and unchanged

compared == <<kind, psTreeCmd, trees, cmdline>>
compareVars == <<compared, items, stack, comparePc, index, map, todo, result>>

EmptyMap == [k \in {} |-> 0]
Lists == {"added", "removed", "modified", "unchanged"}

(* A process has one entry per PID and a file one per FD of a process, so     *)
(* their keys are distinct; those of sockets and tasks need not be.          *)
Distinct(list) == \A i, j \in DOMAIN list : list[i].key = list[j].key => i = j
ItemLists == UNION {[1..n -> Item] : n \in 0..MaxItems}

-----------------------------------------------------------------------------
CompareInput ==
  /\ kind \in Kinds
  /\ IF kind = "processes"
     THEN /\ psTreeCmd \in BOOLEAN
          /\ trees \in [Sides -> Trees \union {NoTree}]
          /\ cmdline \in [Sides -> [Keys -> Details]]
          /\ items = [s \in Sides |-> <<>>]
     ELSE /\ psTreeCmd = FALSE /\ trees = <<>> /\ cmdline = <<>>
          /\ items \in [Sides -> ItemLists]
          /\ kind = "files" => \A s \in Sides : Distinct(items[s])

(* flattenProcessTree has nothing to visit if there is no tree.              *)
HasTree(s) == kind = "processes" /\ trees[s] # NoTree

CompareStart ==
  /\ stack = [s \in Sides |-> IF HasTree(s) THEN <<trees[s].root>> ELSE <<>>]
  /\ comparePc = "collect"
  /\ index = [s \in Sides |-> 0]
  /\ map = [s \in Sides |-> EmptyMap]
  /\ todo = [s \in Sides |-> {}]
  /\ result = [l \in Lists |-> <<>>]

CompareInit == CompareInput /\ CompareStart

(* DiffTasks refuses nil lists; an empty one may be nil.                     *)
RefuseNil ==
  /\ comparePc = "collect" /\ kind = "tasks"
  /\ \E s \in Sides : items[s] = <<>> /\ index[Other[s]] = 0
  /\ comparePc' = "refused"
  /\ UNCHANGED <<compared, items, stack, index, map, todo, result>>

(* One call of flatten: the process, then its children in their order.  The  *)
(* command line is left out unless it is to be compared, the environment in   *)
(* any case.  A is flattened before B.                                       *)
Flatten(s) ==
  /\ comparePc = "collect"
  /\ stack[s] # <<>>
  /\ s = "B" => stack["A"] = <<>>
  /\ LET pid == Head(stack[s]) IN
     /\ items' = [items EXCEPT
          ![s] = Append(@, [key |-> pid, detail |-> cmdline[s][pid]])]
     /\ stack' = [stack EXCEPT ![s] = trees[s].children[pid] \o Tail(@)]
  /\ UNCHANGED <<compared, comparePc, index, map, todo, result>>

(* Assigning to a map replaces what was filed under the key.                 *)
Filed(m, item) ==
  [k \in DOMAIN m \union {item.key} |-> IF k = item.key THEN item ELSE m[k]]

FileItem(s) ==
  /\ comparePc = "collect"
  /\ stack = [x \in Sides |-> <<>>]
  /\ index[s] < Len(items[s])
  /\ s = "B" => index["A"] = Len(items["A"])
  /\ index' = [index EXCEPT ![s] = @ + 1]
  /\ map' = [map EXCEPT ![s] = Filed(@, items[s][index[s] + 1])]
  /\ UNCHANGED <<compared, items, stack, comparePc, todo, result>>

Collected ==
  /\ comparePc = "collect"
  /\ \A s \in Sides : stack[s] = <<>> /\ index[s] = Len(items[s])
  /\ todo' = [s \in Sides |-> DOMAIN map[s]]
  /\ comparePc' = "find"
  /\ UNCHANGED <<compared, items, stack, index, map, result>>

Report(list, item) ==
  result' = [result EXCEPT ![list] = Append(@, item)]

(* mutants: any difference of a process is a modification; one of a file, too *)
ChangedOfAnyKind(a, b) == (kind = "processes" => psTreeCmd) /\ a.detail # b.detail
ChangedWithoutFlag(a, b) == kind # "sockets" /\ kind # "files" /\ a.detail # b.detail

(* Processes are modified only if command lines are compared; tasks by any    *)
(* difference; files and sockets never.                                      *)
Changed(a, b) ==
  (kind = "tasks" \/ (kind = "processes" /\ psTreeCmd)) /\ a.detail # b.detail

(* The map whose range comes first finds what both have: B's, in DiffTasks A's. *)
FirstSide == IF kind = "tasks" THEN "A" ELSE "B"
OnlyIn == [A |-> "removed", B |-> "added"]

(* One round of the range over a map.                                        *)
Find(s) ==
  /\ comparePc = "find"
  /\ s # FirstSide => todo[FirstSide] = {}
  /\ \E k \in todo[s] :
       /\ todo' = [todo EXCEPT ![s] = @ \ {k}]
       /\ IF k \notin DOMAIN map[Other[s]] THEN Report(OnlyIn[s], map[s][k])
          ELSE IF s # FirstSide THEN UNCHANGED result
          ELSE Report(IF Changed(map["A"][k], map["B"][k]) THEN "modified" ELSE "unchanged",
                      map["B"][k])
  /\ UNCHANGED <<compared, items, stack, comparePc, index, map>>

Return ==
  /\ comparePc = "find"
  /\ \A s \in Sides : todo[s] = {}
  /\ comparePc' = "done"
  /\ UNCHANGED <<compared, items, stack, index, map, todo, result>>

CompareNext ==
  \/ RefuseNil
  \/ \E s \in Sides : Flatten(s) \/ FileItem(s) \/ Find(s)
  \/ Collected \/ Return

CompareSpec == CompareInit /\ [][CompareNext]_compareVars

-----------------------------------------------------------------------------
(***************************************************************************)
(* What is shown                                                           *)
(***************************************************************************)

(* generateSummary: the numbers of a kind, if any of them is not zero.       *)
Counted ==
  {"added", "removed"} \union (IF kind = "processes" THEN {"modified"} ELSE {})
Summary ==
  LET counts == [l \in Counted |-> Len(result[l])]
  IN IF \E l \in Counted : counts[l] > 0 THEN counts ELSE <<>>

MarkOf == [added |-> "+", removed |-> "-", modified |-> "~", unchanged |-> "="]

(* buildProcessStatusMap.  Where lists share a PID the later one wins.        *)
Marks(pid) ==
  {l \in {"added", "modified", "unchanged"} :
     \E i \in DOMAIN result[l] : result[l][i].key = pid}
Status(pid) ==
  IF Marks(pid) = {} THEN " "
  ELSE IF "unchanged" \in Marks(pid) THEN MarkOf["unchanged"]
  ELSE IF "modified" \in Marks(pid) THEN MarkOf["modified"]
  ELSE MarkOf["added"]

(* The processes of a tree: its root, the children of it, and so on, which is   *)
(* what every set has that is closed under children; none if there is no tree. *)
Branches(t) ==
  {ps \in SUBSET Keys : t.root \in ps /\ \A pid \in ps : Range(t.children[pid]) \subseteq ps}
ProcessesOf(s) == {pid \in Keys : HasTree(s) /\ \A ps \in Branches(trees[s]) : pid \in ps}

Listed(l) == {[mark |-> MarkOf[l], key |-> result[l][i].key] : i \in DOMAIN result[l]}

(* The lists that are printed: of processes never the unchanged ones, which the *)
(* annotated tree would show; of tasks all, for that is what DiffTasks returns. *)
Printed(showUnchanged) ==
  Lists \ (IF kind = "tasks" \/ (kind # "processes" /\ showUnchanged) THEN {} ELSE {"unchanged"})

(* mutant: the annotated tree stands for all changes                         *)
ViewWithoutRemoved(showUnchanged) ==
  IF showUnchanged /\ HasTree("B")
  THEN {[mark |-> Status(pid), key |-> pid] : pid \in ProcessesOf("B")}
  ELSE UNION {Listed(l) : l \in Printed(showUnchanged)}

(* The lines of renderTreeDiff, whose order is that of the lists and is left    *)
(* out here.  --show-unchanged annotates B's process tree, if B has one, and    *)
(* lists what was removed below it; otherwise the lists are printed one after   *)
(* the other.                                                                *)
View(showUnchanged) ==
  IF showUnchanged /\ HasTree("B")
  THEN {[mark |-> Status(pid), key |-> pid] : pid \in ProcessesOf("B")} \union Listed("removed")
  ELSE UNION {Listed(l) : l \in Printed(showUnchanged)}

-----------------------------------------------------------------------------
(***************************************************************************)
(* Properties                                                              *)
(***************************************************************************)

(* Every variable holds a value of its kind; files and sockets are never      *)
(* listed as modified.                                                       *)
CompareTypeOK ==
  /\ kind \in Kinds
  /\ psTreeCmd \in BOOLEAN
  /\ items \in [Sides -> Seq(Item)]
  /\ stack \in [Sides -> Seq(Keys)]
  /\ comparePc \in {"collect", "find", "done", "refused"}
  /\ \A s \in Sides : index[s] \in 0..Len(items[s])
  /\ \A s \in Sides : DOMAIN map[s] \subseteq Keys /\ Range(map[s]) \subseteq Item
  /\ \A s \in Sides : todo[s] \subseteq DOMAIN map[s]
  /\ result \in [Lists -> Seq(Item)]
  /\ kind \in {"files", "sockets"} => result["modified"] = <<>>

KeysOf(s) == {items[s][i].key : i \in DOMAIN items[s]}
ReportedAs(l, is) == Len(result[l]) = Cardinality(is) /\ Range(result[l]) = is

(* The whole comparison, where no two items of a checkpoint share a key: each *)
(* item of B is reported once, as added if A has none of its key, as modified *)
(* if it is a task that differs or a process whose command line differs and   *)
(* was asked for, and as unchanged otherwise; each item of A that B has none  *)
(* of is reported removed, once; in whatever order the runtime goes through   *)
(* the maps.  The summary has no line for the kind only if none of its items  *)
(* came, went or changed.                                                    *)
DiffIsExact ==
  comparePc = "done" /\ (\A s \in Sides : Distinct(items[s])) =>
    LET new == {b \in Range(items["B"]) : b.key \notin KeysOf("A")}
        gone == {a \in Range(items["A"]) : a.key \notin KeysOf("B")}
        differs(b) == \E a \in Range(items["A"]) : a.key = b.key /\ a.detail # b.detail
        matters == kind = "tasks" \/ (kind = "processes" /\ psTreeCmd)
        modified == {b \in Range(items["B"]) : matters /\ differs(b)}
    IN /\ ReportedAs("added", new)
       /\ ReportedAs("removed", gone)
       /\ ReportedAs("modified", modified)
       /\ ReportedAs("unchanged", Range(items["B"]) \ (new \union modified))
       /\ kind # "tasks" => (Summary = <<>> <=> new \union gone \union modified = {})

(* The tree that diff prints, with --show-unchanged and without, and whether    *)
(* or not the checkpoints have process trees: its reader finds every addition, *)
(* removal and modification of the diff under its mark and nothing else under   *)
(* it; with the flag every process, file or socket of B is there; and no        *)
(* process of the annotated tree lacks its mark.                             *)
ViewTellsDiff ==
  comparePc = "done" =>
    \A showUnchanged \in BOOLEAN :
      LET view == View(showUnchanged)
          marked(l) == {x \in view : x.mark = MarkOf[l]}
      IN /\ \A l \in Lists \ {"unchanged"} : marked(l) = Listed(l)
         /\ showUnchanged => {x.key : x \in view \ marked("removed")} =
              IF kind = "processes" THEN ProcessesOf("B") ELSE KeysOf("B")
         /\ \A x \in view : x.mark # " "

(* The help of diff: it shows new and removed sockets.  A socket of B that is *)
(* not in A, by what inspect prints of it, is reported added.               *)
NewSocketsShown ==
  comparePc = "done" /\ kind = "sockets" =>
    Range(items["B"]) \ Range(items["A"]) \subseteq Range(result["added"])
=============================================================================
