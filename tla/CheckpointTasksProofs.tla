----------------------- MODULE CheckpointTasksProofs -----------------------
(***************************************************************************)
(* Proofs about CheckpointTasks, for any number of invocations, archives,  *)
(* directories and tars.                                                   *)
(***************************************************************************)
EXTENDS CheckpointTasks, SequenceTheorems, TLAPS

(***************************************************************************)
(* What the program counter says about the other variables of one          *)
(* invocation; with ValuesOK it is inductive.                              *)
(***************************************************************************)
Phase(p) ==
  /\ HasInput(p)
  /\ pc[p] = "idle" => tasks[p] = <<>> /\ report[p] = <<>>
  /\ pc[p] \in Loading => report[p] = <<>>
  /\ pc[p] \in {"open", "untar"} => cur[p] \in Dirs
  /\ pc[p] = "untar" => Len(source[p]) > 0
  /\ pc[p] \in {"collect", "dump"} => Len(tasks[p]) > 0
  /\ pc[p] = "collect" => Len(report[p]) < Considered(p)

TypeInv == ValuesOK /\ \A p \in Procs : Phase(p)

(* The variables of an invocation that another one's step leaves alone.     *)
LocalUnchanged(q) ==
  /\ pc'[q] = pc[q] /\ cmd'[q] = cmd[q] /\ args'[q] = args[q]
  /\ tasks'[q] = tasks[q] /\ cur'[q] = cur[q] /\ source'[q] = source[q]
  /\ report'[q] = report[q]

(* A step that leaves the variables of an invocation alone keeps its phase.  *)
LEMMA PhaseLocal ==
  ASSUME NEW q \in Procs, Phase(q), LocalUnchanged(q)
  PROVE  Phase(q)'
BY DEF LocalUnchanged, Phase, HasInput, Considered

(* So every phase holds again if that of the invocation which moved does.    *)
LEMMA PhasesKept ==
  ASSUME TypeInv, NEW p \in Procs, Phase(p)',
         \A q \in Procs \ {p} : LocalUnchanged(q)
  PROVE  \A q \in Procs : Phase(q)'
BY PhaseLocal DEF TypeInv

-----------------------------------------------------------------------------
(***************************************************************************)
(* The operators on files                                                  *)
(***************************************************************************)

FilesType == [Names -> Data \union {Absent}]

(* Extracting one entry gives files again.                                 *)
LEMMA ExtractType ==
  ASSUME NEW fs \in FilesType, NEW e \in EntryType,
         NEW wanted
  PROVE  Extract(fs, e, wanted) \in FilesType
BY DEF Extract, Matches, FilesType, EntryType

(* What a pass over a tar leaves of a name is what was there or the data of  *)
(* an entry.                                                               *)
LEMMA PickedType ==
  ASSUME NEW entries \in Seq(EntryType), NEW n, NEW old \in Data \union {Absent}
  PROVE  Picked(entries, n, Len(entries), old) \in Data \union {Absent}
<1> DEFINE last == LastOf(entries, n, Len(entries))
<1>1. CASE last = {}
  BY <1>1 DEF Picked
<1>2. CASE last # {}
  <2>1. PICK i : i = CHOOSE j \in last : TRUE
    OBVIOUS
  <2>2. i \in last
    BY <1>2, <2>1
  <2>3. i \in 1..Len(entries)
    BY <2>2 DEF LastOf
  <2>4. entries[i] \in EntryType
    BY <2>3
  <2>5. entries[i].data \in Data
    BY <2>4 DEF EntryType
  <2> QED
    BY <1>2, <2>1, <2>5 DEF Picked
<1> QED
  BY <1>1, <1>2

(* A task's files, printed or kept in memory, make an item of a report.     *)
LEMMA ItemType ==
  ASSUME ValuesOK, NEW p \in Procs, NEW i \in 1..Len(tasks[p]),
         NEW whole \in BOOLEAN
  PROVE  Item(p, i, whole) \in ReportType
<1>1. tasks[p][i] \in TaskType
  BY DEF ValuesOK
<1>2. content[tasks[p][i].dir] \in [Names -> Data \union {Absent}]
  BY <1>1 DEF ValuesOK, TaskType
<1> QED
  BY <1>1, <1>2 DEF Item, Files, ReportType, TaskType

-----------------------------------------------------------------------------
(***************************************************************************)
(* Type correctness                                                        *)
(***************************************************************************)

LEMMA InitType == Init => TypeInv
<1> SUFFICES ASSUME Init PROVE TypeInv
  OBVIOUS
<1> USE TasksAssumption DEF Init
<1>1. NoFiles \in FilesType
  BY DEF NoFiles, FilesType
<1>2. ValuesOK
  BY <1>1 DEF ValuesOK, PCs, FilesType
<1>3. ASSUME NEW p \in Procs PROVE Phase(p)
  BY DEF Phase, HasInput, Loading
<1> QED
  BY <1>2, <1>3 DEF TypeInv

(* Two sequences of one domain have one length.                            *)
LEMMA SameInterval ==
  ASSUME NEW m \in Nat, NEW n \in Nat, 1..m = 1..n
  PROVE  m = n
<1>1. \A k \in Nat : k > 0 => k \in 1..k
  OBVIOUS
<1>2. m > 0 => m \in 1..n
  BY <1>1
<1>3. n > 0 => n \in 1..m
  BY <1>1
<1> QED
  BY <1>2, <1>3

LEMMA StartType ==
  ASSUME TypeInv, NEW p \in Procs, Start(p)
  PROVE  TypeInv'
<1>1. PICK n \in 1..MaxArgs : \E as \in [1..n -> Archives] :
        args' = [args EXCEPT ![p] = as]
  BY DEF Start
<1>2. PICK as \in [1..n -> Archives] : args' = [args EXCEPT ![p] = as]
  BY <1>1
<1>3. n \in Nat /\ n > 0
  BY TasksAssumption
<1>4. as \in Seq(Archives) /\ Len(as) = n
  <2>1. as \in UNION {[1..k -> Archives] : k \in Nat}
    BY <1>3
  <2>2. as \in Seq(Archives)
    BY <2>1, SeqDef, Zenon
  <2>3. Len(as) \in Nat /\ DOMAIN as = 1..Len(as) /\ DOMAIN as = 1..n
    BY <2>2, LenProperties
  <2> QED
    BY <2>2, <2>3, <1>3, SameInterval
<1>5. ValuesOK /\ pc[p] = "idle" /\ pc' = [pc EXCEPT ![p] = "stat"]
  BY DEF TypeInv, Start, Goto
<1>6. tasks[p] = <<>> /\ report[p] = <<>>
  BY <1>5 DEF TypeInv, Phase
<1>7. UNCHANGED <<archive, dirs, content, owner, stuck, cmd, tasks, cur, source,
                  pos, report, out, status>>
  BY DEF Start, files, loader, result
<1>8. ValuesOK'
  BY <1>2, <1>4, <1>5, <1>7 DEF ValuesOK, PCs, Loading
<1>9. Phase(p)'
  BY <1>2, <1>3, <1>4, <1>5, <1>6, <1>7 DEF Phase, HasInput, Loading, ValuesOK
<1>10. \A q \in Procs \ {p} : LocalUnchanged(q)
  BY <1>2, <1>5, <1>7 DEF LocalUnchanged, ValuesOK
<1> QED
  BY <1>8, <1>9, <1>10, PhasesKept DEF TypeInv

(* The end of CreateTasks with an error, whatever found it.                 *)
LEMMA FailLoadType ==
  ASSUME TypeInv, NEW p \in Procs, FailLoad(p)
  PROVE  TypeInv'
<1>1. ValuesOK /\ pc' = [pc EXCEPT ![p] = "cleanup"]
      /\ status' = [status EXCEPT ![p] = "loadError"]
      /\ tasks' = [tasks EXCEPT ![p] = Kept(p)]
  BY DEF TypeInv, FailLoad, Finish
<1>2. UNCHANGED <<archive, dirs, content, owner, stuck, cmd, args, cur, source,
                  pos, report, out>>
  BY DEF FailLoad, files, command, loader, result
<1>3. ValuesOK'
  BY <1>1, <1>2 DEF ValuesOK, PCs, Kept
<1>4. Phase(p)'
  BY <1>1 DEF Phase, HasInput, Loading, ValuesOK
<1>5. \A q \in Procs \ {p} : LocalUnchanged(q)
  BY <1>1, <1>2 DEF LocalUnchanged, ValuesOK
<1> QED
  BY <1>3, <1>4, <1>5, PhasesKept DEF TypeInv

(* A step that only moves the program counter, within CreateTasks or to the   *)
(* end.                                                                     *)
LEMMA GotoType ==
  ASSUME TypeInv, NEW p \in Procs, NEW next \in {"scan", "mkdir", "blocked", "exit", "killed"},
         next \in Loading => pc[p] \in Loading,
         Goto(p, next),
         UNCHANGED <<archive, files, command, tasks, loader, result, status>>
  PROVE  TypeInv'
<1>1. ValuesOK /\ pc' = [pc EXCEPT ![p] = next]
  BY DEF TypeInv, Goto
<1>2. UNCHANGED <<archive, dirs, content, owner, stuck, cmd, args, tasks, cur,
                  source, pos, report, out, status>>
  BY DEF files, command, loader, result
<1>3. ValuesOK'
  BY <1>1, <1>2 DEF ValuesOK, PCs, Loading, Rendering, Ended
<1>4. Phase(p)'
  BY <1>1, <1>2 DEF TypeInv, Phase, HasInput, Loading, ValuesOK
<1>5. \A q \in Procs \ {p} : LocalUnchanged(q)
  BY <1>1, <1>2 DEF LocalUnchanged, ValuesOK
<1> QED
  BY <1>3, <1>4, <1>5, PhasesKept DEF TypeInv

LEMMA StatType ==
  ASSUME TypeInv, NEW p \in Procs, Stat(p)
  PROVE  TypeInv'
BY FailLoadType, GotoType DEF Stat, Loading

LEMMA ScanType ==
  ASSUME TypeInv, NEW p \in Procs, Scan(p)
  PROVE  TypeInv'
BY FailLoadType, GotoType DEF Scan, Loading

LEMMA MkdirType ==
  ASSUME TypeInv, NEW p \in Procs, Mkdir(p)
  PROVE  TypeInv'
<1>1. PICK d \in Dirs :
        /\ dirs' = dirs \union {d}
        /\ content' = [content EXCEPT ![d] = NoFiles]
        /\ owner' = [owner EXCEPT ![d] = p]
        /\ cur' = [cur EXCEPT ![p] = d]
  BY DEF Mkdir, FreshDirs
<1>2. ValuesOK /\ pc[p] = "mkdir" /\ pc' = [pc EXCEPT ![p] = "open"]
  BY DEF TypeInv, Mkdir, Goto
<1>3. UNCHANGED <<archive, stuck, cmd, args, tasks, source, pos, report, out, status>>
  BY DEF Mkdir, command, result
<1>4. NoFiles \in [Names -> Data \union {Absent}]
  BY DEF NoFiles
<1>5. ValuesOK'
  BY <1>1, <1>2, <1>3, <1>4 DEF ValuesOK, PCs, Loading
<1>6. Phase(p)'
  BY <1>1, <1>2, <1>3 DEF TypeInv, Phase, HasInput, Loading, ValuesOK
<1>7. \A q \in Procs \ {p} : LocalUnchanged(q)
  BY <1>1, <1>2, <1>3 DEF LocalUnchanged, ValuesOK
<1> QED
  BY <1>5, <1>6, <1>7, PhasesKept DEF TypeInv

(* The next input of an invocation that loads is one of its archives.       *)
LEMMA InputType ==
  ASSUME TypeInv, NEW p \in Procs, pc[p] \in Loading
  PROVE  Input(p) \in Archives
<1>1. /\ Len(tasks[p]) \in Nat /\ Len(args[p]) \in Nat
      /\ Len(tasks[p]) < Len(args[p]) /\ args[p] \in Seq(Archives)
  BY DEF TypeInv, ValuesOK, Phase, HasInput
<1>2. Len(tasks[p]) + 1 \in 1..Len(args[p])
  BY <1>1
<1> QED
  BY <1>1, <1>2, ElementOfSeq DEF Input

LEMMA OpenType ==
  ASSUME TypeInv, NEW p \in Procs, Open(p)
  PROVE  TypeInv'
<1>1. CASE archive[Input(p)].kind = "regular"
  <2> DEFINE tar == archive[Input(p)]
  <2>1. /\ ValuesOK /\ pc[p] = "open" /\ pc' = [pc EXCEPT ![p] = "untar"]
        /\ source' = [source EXCEPT ![p] = Append(source[p], tar)]
        /\ pos' = [pos EXCEPT ![p] = 1]
    BY <1>1 DEF TypeInv, Open, Goto
  <2>2. UNCHANGED <<archive, dirs, content, owner, stuck, cmd, args, tasks, cur,
                    report, out, status>>
    BY <1>1 DEF Open, files, command, result
  <2>3. tar \in Tars /\ source[p] \in Seq(Tars)
    BY <2>1, InputType DEF ValuesOK, Loading
  <2>4. Append(source[p], tar) \in Seq(Tars) /\ Len(Append(source[p], tar)) > 0
    BY <2>3
  <2> HIDE DEF tar
  <2>5. ValuesOK'
    BY <2>1, <2>2, <2>4 DEF ValuesOK, PCs, Loading
  <2>6. Phase(p)'
    BY <2>1, <2>2, <2>4 DEF TypeInv, Phase, HasInput, Loading, ValuesOK
  <2>7. \A q \in Procs \ {p} : LocalUnchanged(q)
    BY <2>1, <2>2 DEF LocalUnchanged, ValuesOK
  <2> QED
    BY <2>5, <2>6, <2>7, PhasesKept DEF TypeInv
<1> QED
  BY <1>1, FailLoadType DEF Open

(* The archive an invocation extracts.                                      *)
LEMMA ReadingType ==
  ASSUME TypeInv, NEW p \in Procs, pc[p] = "untar"
  PROVE  /\ Reading(p) \in Tars
         /\ Reading(p).entries \in Seq(EntryType)
         /\ cur[p] \in Dirs
<1>1. source[p] \in Seq(Tars) /\ Len(source[p]) > 0 /\ cur[p] \in Dirs
  BY DEF TypeInv, ValuesOK, Phase
<1>2. Reading(p) \in Tars
  BY <1>1 DEF Reading, Last
<1> QED
  BY <1>1, <1>2, TasksAssumption DEF TarType

LEMMA UntarType ==
  ASSUME TypeInv, NEW p \in Procs, Untar(p)
  PROVE  TypeInv'
<1> DEFINE entry == Reading(p).entries[pos[p]]
           fs == Extract(content[cur[p]], entry, Required(cmd[p]))
<1>1. /\ ValuesOK /\ pc[p] = "untar" /\ pos[p] <= Len(Reading(p).entries)
      /\ content' = [content EXCEPT ![cur[p]] = fs]
      /\ pos' = [pos EXCEPT ![p] = pos[p] + 1]
  BY DEF TypeInv, Untar
<1>2. UNCHANGED <<archive, dirs, owner, stuck, pc, cmd, args, tasks, cur, source,
                  report, out, status>>
  BY DEF Untar, command, result
<1>3. fs \in FilesType
  <2>1. entry \in EntryType
    BY <1>1, ReadingType DEF ValuesOK
  <2>2. content[cur[p]] \in FilesType
    BY <1>1, ReadingType DEF ValuesOK, FilesType
  <2> QED
    BY <2>1, <2>2, ExtractType
<1> HIDE DEF fs
<1>4. ValuesOK'
  <2>1. content' \in [Dirs -> FilesType]
    BY <1>1, <1>3 DEF ValuesOK, FilesType
  <2>2. pos' \in [Procs -> Nat \ {0}]
    BY <1>1 DEF ValuesOK
  <2> QED
    BY <1>1, <1>2, <2>1, <2>2 DEF ValuesOK, FilesType
<1>5. \A q \in Procs : LocalUnchanged(q)
  BY <1>2 DEF LocalUnchanged
<1> QED
  BY <1>4, <1>5, PhaseLocal DEF TypeInv

LEMMA UntarEndsType ==
  ASSUME TypeInv, NEW p \in Procs, UntarEnds(p)
  PROVE  TypeInv'
<1>1. CASE Reading(p).intact
  <2> DEFINE task == [path |-> Input(p), dir |-> cur[p]]
             more == Append(tasks[p], task)
             next == IF Len(more) < Len(args[p]) THEN "stat" ELSE "collect"
  <2>1. /\ ValuesOK /\ pc[p] = "untar"
        /\ tasks' = [tasks EXCEPT ![p] = more]
        /\ cur' = [cur EXCEPT ![p] = NoDir]
    BY <1>1 DEF TypeInv, UntarEnds
  <2>2. UNCHANGED <<archive, dirs, content, owner, stuck, cmd, args, source, pos,
                    report, out, status>>
    BY <1>1 DEF UntarEnds, files, command, result
  <2>3. task \in TaskType /\ tasks[p] \in Seq(TaskType)
    BY <2>1, InputType, ReadingType DEF ValuesOK, TaskType, Loading
  <2> HIDE DEF task
  <2>4. more \in Seq(TaskType) /\ Len(more) > 0 /\ Len(more) \in Nat
    BY <2>3
  <2>5. tasks'[p] = more
    BY <2>1 DEF ValuesOK
  <2>6. pc' = [pc EXCEPT ![p] = next]
    BY <1>1, <2>5 DEF UntarEnds, Goto, MoreInputs
  <2> HIDE DEF more
  <2>7. ValuesOK'
    BY <2>1, <2>2, <2>4, <2>6 DEF ValuesOK, PCs, Loading, Rendering
  <2>8. report[p] = <<>>
    BY <2>1 DEF TypeInv, Phase, Loading
  <2>9. Phase(p)'
    <3>1. /\ pc'[p] = next /\ args'[p] = args[p] /\ Len(report'[p]) = 0
      BY <2>1, <2>2, <2>6, <2>8 DEF ValuesOK
    <3>2. Considered(p)' > 0
      <4>1. Considered(p)' \in {1, Len(more)}
        BY <2>5 DEF Considered
      <4> QED
        BY <2>4, <4>1
    <3> QED
      BY <2>4, <2>5, <2>8, <2>2, <3>1, <3>2 DEF Phase, HasInput, Loading
  <2>10. \A q \in Procs \ {p} : LocalUnchanged(q)
    BY <2>1, <2>2, <2>6 DEF LocalUnchanged, ValuesOK
  <2> QED
    BY <2>7, <2>9, <2>10, PhasesKept DEF TypeInv
<1> QED
  BY <1>1, FailLoadType DEF UntarEnds

LEMMA LoadType ==
  ASSUME TypeInv, NEW p \in Procs, Load(p)
  PROVE  TypeInv'
BY StatType, ScanType, MkdirType, FailLoadType, OpenType, UntarType, UntarEndsType
DEF Load, MkdirFails, UntarFails

(* A step that ends the rendering, with any answer of the right type.        *)
LEMMA FinishType ==
  ASSUME TypeInv, NEW p \in Procs, NEW how \in {"ok", "renderError"},
         Finish(p, how),
         out' \in [Procs -> Seq(ReportType)],
         content' \in [Dirs -> FilesType],
         NEW items \in Seq(ReportType),
         report' = [report EXCEPT ![p] = items],
         UNCHANGED <<archive, dirs, owner, stuck, command, tasks, loader>>
  PROVE  TypeInv'
<1>1. /\ ValuesOK /\ pc' = [pc EXCEPT ![p] = "cleanup"]
      /\ status' = [status EXCEPT ![p] = how]
  BY DEF TypeInv, Finish
<1>2. UNCHANGED <<archive, dirs, owner, stuck, cmd, args, tasks, cur, source, pos>>
  BY DEF command, loader
<1>3. ValuesOK'
  BY <1>1, <1>2 DEF ValuesOK, PCs, FilesType
<1>4. Phase(p)'
  BY <1>1 DEF Phase, HasInput, Loading, ValuesOK
<1>5. \A q \in Procs \ {p} : LocalUnchanged(q)
  BY <1>1, <1>2 DEF LocalUnchanged, ValuesOK
<1> QED
  BY <1>3, <1>4, <1>5, PhasesKept DEF TypeInv

LEMMA FailRenderType ==
  ASSUME TypeInv, NEW p \in Procs, FailRender(p)
  PROVE  TypeInv'
<1>1. /\ Finish(p, "renderError") /\ UNCHANGED <<command, tasks, loader>>
      /\ UNCHANGED <<archive, dirs, content, owner, stuck, report, out>>
  BY DEF FailRender, files, result
<1>2. /\ report[p] \in Seq(ReportType) /\ report' = [report EXCEPT ![p] = report[p]]
      /\ out' \in [Procs -> Seq(ReportType)] /\ content' \in [Dirs -> FilesType]
  BY <1>1 DEF TypeInv, ValuesOK, FilesType
<1> QED
  BY <1>1, <1>2, FinishType

LEMMA CollectType ==
  ASSUME TypeInv, NEW p \in Procs, Collect(p)
  PROVE  TypeInv'
<1>1. CASE FailRender(p)
  BY <1>1, FailRenderType
<1>2. CASE ~FailRender(p)
  <2> DEFINE item == Item(p, Index(p), TRUE)
             more == Append(report[p], item)
             next == IF AtLast(p) THEN "print" ELSE "collect"
  <2>1. /\ ValuesOK /\ pc[p] = "collect" /\ cmd[p] \in PrintsAtEnd
        /\ report' = [report EXCEPT ![p] = more]
        /\ pc' = [pc EXCEPT ![p] = next]
    BY <1>2 DEF TypeInv, Collect, Goto
  <2>2. UNCHANGED <<archive, dirs, content, owner, stuck, cmd, args, tasks, cur,
                    source, pos, out, status>>
    BY <1>2 DEF Collect, files, command, loader
  <2>3. /\ tasks[p] \in Seq(TaskType) /\ Len(tasks[p]) \in Nat /\ Len(tasks[p]) > 0
        /\ report[p] \in Seq(ReportType) /\ Len(report[p]) \in Nat
        /\ Considered(p) = Len(tasks[p]) /\ Len(report[p]) < Len(tasks[p])
    <3>1. Phase(p) /\ pc[p] = "collect" /\ cmd[p] # "memparse --pid"
      BY <2>1 DEF TypeInv, PrintsAtEnd
    <3>2. tasks[p] \in Seq(TaskType) /\ report[p] \in Seq(ReportType)
      BY <2>1 DEF ValuesOK
    <3>3. Considered(p) = Len(tasks[p])
      BY <3>1 DEF Considered
    <3>4. Len(tasks[p]) > 0 /\ Len(report[p]) < Considered(p)
      BY <3>1 DEF Phase
    <3> QED
      BY <3>2, <3>3, <3>4
  <2>4. Index(p) \in 1..Len(tasks[p])
    BY <2>3 DEF Index
  <2>5. item \in ReportType
    BY <2>1, <2>4, ItemType
  <2> HIDE DEF item
  <2>6. more \in Seq(ReportType) /\ Len(more) = Len(report[p]) + 1
    BY <2>3, <2>5
  <2> HIDE DEF more
  <2>7. ValuesOK'
    BY <2>1, <2>2, <2>6 DEF ValuesOK, PCs, Rendering
  <2>8. Phase(p)'
    <3>1. /\ pc'[p] = next /\ tasks'[p] = tasks[p] /\ report'[p] = more
          /\ Considered(p)' = Considered(p)
      BY <2>1, <2>2 DEF ValuesOK, Considered
    <3>2. next = "collect" => Len(more) < Considered(p)
      BY <2>3, <2>6 DEF AtLast, Index
    <3> QED
      BY <2>3, <3>1, <3>2 DEF Phase, HasInput, Loading
  <2>9. \A q \in Procs \ {p} : LocalUnchanged(q)
    BY <2>1, <2>2 DEF LocalUnchanged, ValuesOK
  <2> QED
    BY <2>7, <2>8, <2>9, PhasesKept DEF TypeInv
<1> QED
  BY <1>1, <1>2

LEMMA PrintReportType ==
  ASSUME TypeInv, NEW p \in Procs, PrintReport(p)
  PROVE  TypeInv'
<1>1. /\ Finish(p, "ok") /\ UNCHANGED <<command, tasks, loader>>
      /\ UNCHANGED <<archive, dirs, content, owner, stuck, report>>
      /\ out' = [out EXCEPT ![p] = report[p]]
  BY DEF PrintReport, files
<1>2. /\ report[p] \in Seq(ReportType) /\ report' = [report EXCEPT ![p] = report[p]]
      /\ out' \in [Procs -> Seq(ReportType)] /\ content' \in [Dirs -> FilesType]
  BY <1>1 DEF TypeInv, ValuesOK, FilesType
<1> QED
  BY <1>1, <1>2, FinishType

LEMMA MemTableType ==
  ASSUME TypeInv, NEW p \in Procs, MemTable(p)
  PROVE  TypeInv'
<1>1. CASE FailRender(p)
  BY <1>1, FailRenderType
<1>2. CASE ~FailRender(p)
  <2> DEFINE item == Item(p, Index(p), TRUE)
             more == Append(report[p], item)
             printed == Append(out[p], item)
  <2>1. /\ ValuesOK /\ pc[p] = "collect" /\ cmd[p] = "memparse"
        /\ report' = [report EXCEPT ![p] = more]
        /\ out' = [out EXCEPT ![p] = printed]
    BY <1>2 DEF TypeInv, MemTable
  <2>2. UNCHANGED <<archive, dirs, content, owner, stuck, command, tasks, loader>>
    BY <1>2 DEF MemTable, files
  <2>3. /\ tasks[p] \in Seq(TaskType) /\ Len(tasks[p]) \in Nat /\ Len(tasks[p]) > 0
        /\ report[p] \in Seq(ReportType) /\ Len(report[p]) \in Nat
        /\ out[p] \in Seq(ReportType)
        /\ Considered(p) = Len(tasks[p]) /\ Len(report[p]) < Len(tasks[p])
    <3>1. Phase(p) /\ cmd[p] # "memparse --pid"
      BY <2>1 DEF TypeInv
    <3>2. /\ tasks[p] \in Seq(TaskType) /\ report[p] \in Seq(ReportType)
          /\ out[p] \in Seq(ReportType)
      BY <2>1 DEF ValuesOK
    <3> QED
      BY <2>1, <3>1, <3>2 DEF Phase, Considered
  <2>4. Index(p) \in 1..Len(tasks[p])
    BY <2>3 DEF Index
  <2>5. item \in ReportType
    BY <2>1, <2>4, ItemType
  <2> HIDE DEF item
  <2>6. /\ more \in Seq(ReportType) /\ Len(more) = Len(report[p]) + 1
        /\ printed \in Seq(ReportType)
    BY <2>3, <2>5
  <2> HIDE DEF more, printed
  <2>7. out' \in [Procs -> Seq(ReportType)] /\ content' \in [Dirs -> FilesType]
    BY <2>1, <2>2, <2>6 DEF ValuesOK, FilesType
  <2>8. CASE AtLast(p)
    <3>1. Finish(p, "ok")
      BY <1>2, <2>8 DEF MemTable
    <3> QED
      BY <2>1, <2>2, <2>6, <2>7, <3>1, FinishType
  <2>9. CASE ~AtLast(p)
    <3>1. UNCHANGED <<pc, status, cmd, args, cur, source, pos>>
      BY <1>2, <2>2, <2>9 DEF MemTable, command, loader
    <3>2. ValuesOK'
      BY <2>1, <2>2, <2>6, <2>7, <3>1 DEF ValuesOK, FilesType
    <3>3. Phase(p)'
      BY <2>1, <2>2, <2>3, <2>6, <2>9, <3>1
      DEF Phase, HasInput, Loading, ValuesOK, Considered, AtLast, Index
    <3>4. \A q \in Procs \ {p} : LocalUnchanged(q)
      BY <2>1, <2>2, <3>1 DEF LocalUnchanged, ValuesOK
    <3> QED
      BY <3>2, <3>3, <3>4, PhasesKept DEF TypeInv
  <2> QED
    BY <2>8, <2>9
<1> QED
  BY <1>1, <1>2

(* The first task of an invocation that reads memory.                       *)
LEMMA FirstTask ==
  ASSUME TypeInv, NEW p \in Procs, pc[p] \in {"collect", "dump"}
  PROVE  /\ 1 \in 1..Len(tasks[p])
         /\ tasks[p][1] \in TaskType
         /\ tasks[p][1].path \in Archives /\ tasks[p][1].dir \in Dirs
<1>1. tasks[p] \in Seq(TaskType) /\ Len(tasks[p]) > 0
  BY DEF TypeInv, ValuesOK, Phase
<1>2. 1 \in 1..Len(tasks[p])
  BY <1>1
<1>3. tasks[p][1] \in TaskType
  BY <1>1, <1>2
<1> QED
  BY <1>2, <1>3 DEF TaskType

LEMMA MemPagesType ==
  ASSUME TypeInv, NEW p \in Procs, MemPages(p)
  PROVE  TypeInv'
<1> DEFINE tar == archive[tasks[p][1].path]
           read == IF tar.kind = "regular" THEN tar.entries ELSE <<>>
           d == tasks[p][1].dir
           data == Picked(read, "pages", Len(read), content[d]["pages"])
<1>1. /\ ValuesOK /\ pc[p] = "collect" /\ cmd[p] = "memparse --pid"
      /\ content' = [content EXCEPT ![d]["pages"] = data]
  BY DEF TypeInv, MemPages
<1>2. UNCHANGED <<archive, dirs, owner, stuck, cmd, args, tasks, cur, source, pos,
                  report, out>>
  BY DEF MemPages, command, loader, result
<1>3. read \in Seq(EntryType)
  <2>1. tar \in TarType
    BY <1>1, FirstTask, TasksAssumption DEF ValuesOK
  <2> QED
    BY <2>1 DEF TarType
<1> HIDE DEF read
<1>4. data \in Data \union {Absent}
  <2>1. content[d]["pages"] \in Data \union {Absent}
    <3>1. d \in Dirs
      BY <1>1, FirstTask
    <3>2. content[d] \in [Names -> Data \union {Absent}]
      BY <1>1, <3>1 DEF ValuesOK
    <3> QED
      BY <3>2 DEF Names
  <2> QED
    BY <1>3, <2>1, PickedType
<1> HIDE DEF data
<1>5. content' \in [Dirs -> FilesType]
  <2>1. content \in [Dirs -> FilesType] /\ d \in Dirs /\ "pages" \in Names
    BY <1>1, FirstTask DEF ValuesOK, FilesType, Names
  <2>2. [content[d] EXCEPT !["pages"] = data] \in FilesType
    BY <1>4, <2>1 DEF FilesType
  <2> QED
    BY <1>1, <2>1, <2>2
<1>6. /\ report[p] \in Seq(ReportType) /\ report' = [report EXCEPT ![p] = report[p]]
      /\ out' \in [Procs -> Seq(ReportType)]
  BY <1>1, <1>2 DEF ValuesOK
<1>7. CASE Readable(tar)
  <2>1. pc' = [pc EXCEPT ![p] = "dump"] /\ UNCHANGED status
    BY <1>7 DEF MemPages, Goto
  <2>2. ValuesOK'
    BY <1>1, <1>2, <1>5, <2>1 DEF ValuesOK, FilesType, PCs, Rendering
  <2>3. Phase(p)'
    BY <1>1, <1>2, <2>1 DEF TypeInv, Phase, HasInput, Loading, ValuesOK
  <2>4. \A q \in Procs \ {p} : LocalUnchanged(q)
    BY <1>1, <1>2, <2>1 DEF LocalUnchanged, ValuesOK
  <2> QED
    BY <2>2, <2>3, <2>4, PhasesKept DEF TypeInv
<1>8. CASE ~Readable(tar)
  <2>1. Finish(p, "renderError")
    BY <1>8 DEF MemPages
  <2> QED
    BY <1>2, <1>5, <1>6, <2>1, FinishType DEF command, loader
<1> QED
  BY <1>7, <1>8

LEMMA DumpType ==
  ASSUME TypeInv, NEW p \in Procs, Dump(p)
  PROVE  TypeInv'
<1> DEFINE item == Item(p, 1, TRUE)
<1>1. /\ ValuesOK /\ pc[p] = "dump" /\ Finish(p, "ok")
      /\ report' = [report EXCEPT ![p] = <<item>>]
      /\ out' = [out EXCEPT ![p] = <<item>>]
  BY DEF TypeInv, Dump
<1>2. UNCHANGED <<archive, dirs, content, owner, stuck, command, tasks, loader>>
  BY DEF Dump, files
<1>3. item \in ReportType
  BY <1>1, FirstTask, ItemType
<1> HIDE DEF item
<1>4. <<item>> \in Seq(ReportType)
  BY <1>3
<1>5. out' \in [Procs -> Seq(ReportType)] /\ content' \in [Dirs -> FilesType]
  BY <1>1, <1>2, <1>4 DEF ValuesOK, FilesType
<1> QED
  BY <1>1, <1>2, <1>4, <1>5, FinishType

LEMMA DumpFailsType ==
  ASSUME TypeInv, NEW p \in Procs, DumpFails(p)
  PROVE  TypeInv'
<1> DEFINE item == Item(p, 1, FALSE)
<1>1. /\ ValuesOK /\ pc[p] = "dump" /\ Finish(p, "renderError")
      /\ UNCHANGED <<archive, dirs, content, owner, stuck, command, tasks, loader, report>>
  BY DEF TypeInv, DumpFails, files
<1>2. PICK partial \in {<<>>, <<item>>} : out' = [out EXCEPT ![p] = partial]
  BY DEF DumpFails
<1>3. item \in ReportType
  BY <1>1, FirstTask, ItemType
<1> HIDE DEF item
<1>4. partial \in Seq(ReportType)
  <2>1. <<>> \in Seq(ReportType) /\ <<item>> \in Seq(ReportType)
    BY <1>3
  <2> QED
    BY <2>1, <1>2
<1>5. /\ out' \in [Procs -> Seq(ReportType)] /\ content' \in [Dirs -> FilesType]
      /\ report[p] \in Seq(ReportType) /\ report' = [report EXCEPT ![p] = report[p]]
  BY <1>1, <1>2, <1>4 DEF ValuesOK, FilesType
<1> QED
  BY <1>1, <1>5, FinishType

LEMMA RenderType ==
  ASSUME TypeInv, NEW p \in Procs, Render(p)
  PROVE  TypeInv'
<1>1. CASE BlocksInPipe(p)
  BY <1>1, GotoType DEF BlocksInPipe, Loading
<1> QED
  BY <1>1, CollectType, PrintReportType, MemTableType, MemPagesType, DumpType, DumpFailsType,
     FailRenderType
  DEF Render, Refuse, MemPagesFails

(* The tasks CleanupTasks still has to remove.                              *)
LEMMA RemainingType ==
  ASSUME ValuesOK, NEW p \in Procs, tasks[p] # <<>>
  PROVE  /\ RemovalIndex(p) \in 1..Len(tasks[p])
         /\ Doomed(p) \in Dirs
         /\ Remaining(p) \in Seq(TaskType)
<1>1. tasks[p] \in Seq(TaskType) /\ Len(tasks[p]) \in Nat /\ Len(tasks[p]) > 0
  BY EmptySeq DEF ValuesOK
<1>2. RemovalIndex(p) \in 1..Len(tasks[p])
  BY <1>1 DEF RemovalIndex
<1>3. tasks[p][RemovalIndex(p)] \in TaskType
  BY <1>1, <1>2
<1>4. Tail(tasks[p]) \in Seq(TaskType)
  BY <1>1
<1>5. Front(tasks[p]) \in Seq(TaskType)
  BY <1>1 DEF Front
<1> QED
  BY <1>2, <1>3, <1>4, <1>5 DEF Doomed, Remaining, TaskType

LEMMA CleanupType ==
  ASSUME TypeInv, NEW p \in Procs, Cleanup(p)
  PROVE  TypeInv'
<1>1. /\ ValuesOK /\ pc[p] = "cleanup" /\ tasks[p] # <<>>
      /\ tasks' = [tasks EXCEPT ![p] = Remaining(p)]
      /\ dirs' \subseteq dirs /\ stuck' \subseteq stuck \union {Doomed(p)}
  BY DEF TypeInv, Cleanup
<1>2. UNCHANGED <<archive, content, owner, pc, cmd, args, cur, source, pos, report,
                  out, status>>
  BY DEF Cleanup, command, loader, result
<1>3. ValuesOK'
  BY <1>1, <1>2, RemainingType DEF ValuesOK
<1>4. Phase(p)'
  BY <1>1, <1>2 DEF Phase, HasInput, Loading
<1>5. \A q \in Procs \ {p} : LocalUnchanged(q)
  BY <1>1, <1>2 DEF LocalUnchanged, ValuesOK
<1> QED
  BY <1>3, <1>4, <1>5, PhasesKept DEF TypeInv

LEMMA ReplaceType ==
  ASSUME TypeInv, NEW a \in Archives, Replace(a)
  PROVE  TypeInv'
<1>1. ValuesOK /\ archive' \in [Archives -> Tars]
  BY DEF TypeInv, ValuesOK, Replace
<1>2. UNCHANGED <<dirs, content, owner, stuck, pc, cmd, args, tasks, cur, source,
                  pos, report, out, status>>
  BY DEF Replace, files, command, loader, result
<1>3. ValuesOK'
  BY <1>1, <1>2 DEF ValuesOK
<1>4. \A q \in Procs : LocalUnchanged(q)
  BY <1>2 DEF LocalUnchanged
<1> QED
  BY <1>3, <1>4, PhaseLocal DEF TypeInv

LEMMA StutterType ==
  ASSUME TypeInv, UNCHANGED vars
  PROVE  TypeInv'
<1>1. UNCHANGED <<archive, dirs, content, owner, stuck, pc, cmd, args, tasks, cur,
                  source, pos, report, out, status>>
  BY DEF vars, files, command, loader, result
<1>2. ValuesOK'
  BY <1>1 DEF TypeInv, ValuesOK
<1>3. \A q \in Procs : LocalUnchanged(q)
  BY <1>1 DEF LocalUnchanged
<1> QED
  BY <1>2, <1>3, PhaseLocal DEF TypeInv

LEMMA NextType == TypeInv /\ [Next]_vars => TypeInv'
<1> SUFFICES ASSUME TypeInv, [Next]_vars PROVE TypeInv'
  OBVIOUS
<1>1. ASSUME NEW p \in Procs, Start(p) PROVE TypeInv'
  BY <1>1, StartType
<1>2. ASSUME NEW p \in Procs, Step(p) PROVE TypeInv'
  BY <1>2, LoadType, RenderType, CleanupType, GotoType DEF Step, Exit, Loading
<1>3. ASSUME NEW p \in Procs, Kill(p) PROVE TypeInv'
  BY <1>3, GotoType DEF Kill, Loading
<1>4. ASSUME NEW a \in Archives, Replace(a) PROVE TypeInv'
  BY <1>4, ReplaceType
<1> QED
  BY <1>1, <1>2, <1>3, <1>4, StutterType DEF Next

LEMMA TypeInvariance == Spec => []TypeInv
BY InitType, NextType, PTL DEF Spec

(* CreateTasks, the renderers and CleanupTasks keep every variable in its     *)
(* type, and CreateTasks never runs past the last archive.                   *)
THEOREM TypeCorrect == Spec => []TypeOK
<1>1. TypeInv => TypeOK
  BY DEF TypeInv, TypeOK, Phase
<1> QED
  BY <1>1, TypeInvariance, PTL
-----------------------------------------------------------------------------
(***************************************************************************)
(* Who uses a temporary directory, and who has to remove it                *)
(***************************************************************************)

(* TaskDirsPrivate for one invocation; that no other one uses its            *)
(* directories follows from their owner.                                    *)
Private(p) ==
  /\ \A d \in Held(p) : d \in dirs /\ owner[d] = p
  /\ \A i, j \in 1..Len(tasks[p]) : i # j => tasks[p][i].dir # tasks[p][j].dir
  /\ TaskDirs(p) \intersect Filling(p) = {}

(* How a command ends is decided once, at the end of its work.               *)
Working == {"idle"} \union Loading \union Rendering
Undecided(p) == pc[p] \in Working => status[p] = "none"

(* Every directory that is there is still used, or is excused.              *)
Excused(d) ==
  LET p == owner[d] IN
  \/ pc[p] = "killed"
  \/ status[p] = "loadError" /\ (cmd[p] = "diff" => d = cur[p])
Accounted(d) ==
  owner[d] \in Procs /\ (d \in Held(owner[d]) \/ d \in stuck \/ Excused(d))

EmptyAtExit(p) == pc[p] = "exit" => tasks[p] = <<>>

DirInv ==
  /\ \A p \in Procs : Private(p) /\ Undecided(p) /\ EmptyAtExit(p)
  /\ \A d \in dirs : Accounted(d)

Inv == TypeInv /\ DirInv

-----------------------------------------------------------------------------
(***************************************************************************)
(* Steps that create, hand over and remove no directory                    *)
(***************************************************************************)

Quiet(p) ==
  /\ UNCHANGED <<dirs, owner, stuck, tasks, cur, cmd>>
  /\ \A q \in Procs \ {p} : pc'[q] = pc[q] /\ status'[q] = status[q]
  /\ Filling(p)' = Filling(p) \/ (pc'[p] = "killed" /\ Filling(p)' = {})
  /\ pc[p] # "killed"
  /\ status'[p] # status[p] => pc[p] \in Rendering
  /\ pc'[p] \in Working => pc[p] \in Working /\ status'[p] = status[p]
  /\ pc'[p] = "exit" => tasks[p] = <<>>

LEMMA QuietGoto ==
  ASSUME TypeInv, NEW p \in Procs, NEW next \in PCs,
         Goto(p, next), UNCHANGED <<files, cmd, tasks, cur, status>>,
         \/ pc[p] \in Working /\ pc[p] \notin {"open", "untar"}
              /\ next \in Working /\ next \notin {"open", "untar"}
         \/ pc[p] = "open" /\ next = "untar"
         \/ pc[p] = "cleanup" /\ next = "exit" /\ tasks[p] = <<>>
         \/ pc[p] \notin {"exit", "killed"} /\ next = "killed"
  PROVE  Quiet(p)
<1>1. ValuesOK /\ pc' = [pc EXCEPT ![p] = next] /\ pc'[p] = next
  BY DEF TypeInv, ValuesOK, Goto
<1>2. UNCHANGED <<dirs, owner, stuck, tasks, cur, cmd, status>>
  BY DEF files
<1>3. \A q \in Procs \ {p} : pc'[q] = pc[q]
  BY <1>1 DEF ValuesOK
<1>4. pc[p] # "killed"
  BY DEF Working, Loading, Rendering
<1>5. pc'[p] \in Working => pc[p] \in Working
  BY <1>1 DEF Working, Loading, Rendering
<1>6. pc'[p] = "exit" => tasks[p] = <<>>
  BY <1>1 DEF Working, Loading, Rendering
<1>7. Filling(p)' = Filling(p) \/ (pc'[p] = "killed" /\ Filling(p)' = {})
  BY <1>1, <1>2 DEF Filling
<1> QED
  BY <1>2, <1>3, <1>4, <1>5, <1>6, <1>7 DEF Quiet

LEMMA QuietFinish ==
  ASSUME TypeInv, NEW p \in Procs, NEW how, pc[p] \in Rendering,
         Finish(p, how), UNCHANGED <<dirs, owner, stuck, tasks, cur, cmd>>
  PROVE  Quiet(p)
<1>1. /\ ValuesOK /\ pc' = [pc EXCEPT ![p] = "cleanup"]
      /\ status' = [status EXCEPT ![p] = how]
  BY DEF TypeInv, Finish
<1>2. pc'[p] = "cleanup" /\ \A q \in Procs \ {p} : pc'[q] = pc[q] /\ status'[q] = status[q]
  BY <1>1 DEF ValuesOK
<1>3. Filling(p)' = {} /\ Filling(p) = {}
  BY <1>2 DEF Filling, Rendering
<1> QED
  BY <1>2, <1>3 DEF Quiet, Rendering, Working, Loading

LEMMA QuietRender ==
  ASSUME TypeInv, NEW p \in Procs, Render(p)
  PROVE  Quiet(p)
<1>1. CASE FailRender(p)
  <2>1. pc[p] \in Rendering
    BY DEF Render, Collect, BlocksInPipe, PrintReport, MemTable, MemPages, MemPagesFails, Dump,
           DumpFails, Refuse, Refusing, Rendering
  <2> QED
    BY <1>1, <2>1, QuietFinish DEF FailRender, files, command, loader
<1>2. CASE Collect(p) /\ ~FailRender(p)
  <2> DEFINE next == IF AtLast(p) THEN "print" ELSE "collect"
  <2>1. /\ pc[p] = "collect" /\ Goto(p, next)
        /\ UNCHANGED <<files, cmd, tasks, cur, status>>
    BY <1>2 DEF Collect, command, loader
  <2>2. next \in PCs /\ pc[p] \in Working /\ next \in Working
    BY <2>1 DEF Working, PCs, Rendering
  <2>3. pc[p] \notin {"open", "untar"} /\ next \notin {"open", "untar"}
    BY <2>1
  <2> HIDE DEF next
  <2> QED
    BY <2>1, <2>2, <2>3, QuietGoto
<1>3. CASE PrintReport(p)
  BY <1>3, QuietFinish DEF PrintReport, files, command, loader, Rendering
<1>4. CASE MemTable(p) /\ ~FailRender(p)
  <2>1. /\ pc[p] = "collect" /\ UNCHANGED <<files, command, tasks, loader>>
        /\ Finish(p, "ok") \/ UNCHANGED <<pc, status>>
    BY <1>4 DEF MemTable
  <2>2. CASE Finish(p, "ok")
    BY <2>1, <2>2, QuietFinish DEF files, command, loader, Rendering
  <2>3. CASE UNCHANGED <<pc, status>>
    BY <2>1, <2>3 DEF Quiet, Filling, files, command, loader, Working, Rendering
  <2> QED
    BY <2>1, <2>2, <2>3
<1>5. CASE MemPages(p)
  <2>1. /\ pc[p] = "collect"
        /\ UNCHANGED <<dirs, owner, stuck, command, tasks, loader>>
        /\ (Goto(p, "dump") /\ UNCHANGED status) \/ Finish(p, "renderError")
    BY <1>5 DEF MemPages
  <2>2. CASE Goto(p, "dump") /\ UNCHANGED status
    <3>1. pc' = [pc EXCEPT ![p] = "dump"] /\ pc'[p] = "dump"
          /\ \A q \in Procs \ {p} : pc'[q] = pc[q]
      BY <2>2 DEF Goto, TypeInv, ValuesOK
    <3> QED
      BY <2>1, <2>2, <3>1 DEF Quiet, Filling, command, loader, Working, Rendering
  <2>3. CASE Finish(p, "renderError")
    BY <2>1, <2>3, QuietFinish DEF command, loader, Rendering
  <2> QED
    BY <2>1, <2>2, <2>3
<1>6. CASE Dump(p)
  <2>1. /\ Finish(p, "ok") /\ pc[p] \in Rendering
        /\ UNCHANGED <<dirs, owner, stuck, tasks, cur, cmd>>
    BY <1>6 DEF Dump, files, command, loader, Rendering
  <2> QED
    BY <2>1, QuietFinish
<1>7. CASE DumpFails(p)
  <2>1. /\ Finish(p, "renderError") /\ pc[p] \in Rendering
        /\ UNCHANGED <<dirs, owner, stuck, tasks, cur, cmd>>
    BY <1>7 DEF DumpFails, files, command, loader, Rendering
  <2> QED
    BY <2>1, QuietFinish
<1>8. CASE BlocksInPipe(p)
  BY <1>8, QuietGoto DEF BlocksInPipe, command, loader, PCs, Rendering, Working
<1> QED
  BY <1>1, <1>2, <1>3, <1>4, <1>5, <1>6, <1>7, <1>8 DEF Render, MemPagesFails, Refuse

LEMMA QuietOthers ==
  ASSUME TypeInv, NEW p \in Procs,
         \/ Start(p) \/ Untar(p) \/ Exit(p) \/ Kill(p)
         \/ (Stat(p) \/ Scan(p) \/ Open(p)) /\ ~FailLoad(p)
  PROVE  Quiet(p)
<1>1. CASE Start(p)
  BY <1>1, QuietGoto DEF Start, loader, Working, Loading, PCs
<1>2. CASE Stat(p) /\ ~FailLoad(p)
  BY <1>2, QuietGoto DEF Stat, command, loader, Working, Loading, PCs
<1>3. CASE Scan(p) /\ ~FailLoad(p)
  BY <1>3, QuietGoto DEF Scan, command, loader, Working, Loading, PCs
<1>4. CASE Open(p) /\ ~FailLoad(p)
  BY <1>4, QuietGoto DEF Open, command, loader, PCs, Loading
<1>5. CASE Untar(p)
  BY <1>5 DEF Untar, Quiet, Filling, command, Working, Loading
<1>6. CASE Exit(p)
  BY <1>6, QuietGoto DEF Exit, command, loader, PCs, Ended
<1>7. CASE Kill(p)
  BY <1>7, QuietGoto DEF Kill, command, loader, PCs, Ended, Loading, Rendering
<1> QED
  BY <1>1, <1>2, <1>3, <1>4, <1>5, <1>6, <1>7

-----------------------------------------------------------------------------
(***************************************************************************)
(* Every step keeps DirInv                                                 *)
(***************************************************************************)

(* Nothing changes for an invocation whose own variables stay, as long as no  *)
(* directory of its own is removed or given away.                           *)
LEMMA OtherKeeps ==
  ASSUME NEW q \in Procs, Private(q), Undecided(q), EmptyAtExit(q),
         tasks'[q] = tasks[q], pc'[q] = pc[q], cur'[q] = cur[q],
         status'[q] = status[q],
         \A d \in Held(q) : d \in dirs' /\ owner'[d] = owner[d]
  PROVE  /\ Private(q)' /\ Undecided(q)' /\ EmptyAtExit(q)'
         /\ Held(q)' = Held(q)
<1>1. TaskDirs(q)' = TaskDirs(q) /\ Filling(q)' = Filling(q)
  BY DEF TaskDirs, Filling
<1>2. Held(q)' = Held(q)
  BY <1>1 DEF Held
<1>3. Private(q)'
  BY <1>1, <1>2 DEF Private
<1> QED
  BY <1>2, <1>3 DEF Undecided, EmptyAtExit

LEMMA QuietKeeps ==
  ASSUME Inv, NEW p \in Procs, Quiet(p)
  PROVE  DirInv'
<1>1. /\ UNCHANGED <<dirs, owner, stuck, tasks, cur, cmd>>
      /\ Private(p) /\ Undecided(p) /\ EmptyAtExit(p)
  BY DEF Quiet, Inv, DirInv
<1>2. \A q \in Procs \ {p} : /\ Private(q)' /\ Undecided(q)' /\ EmptyAtExit(q)'
                             /\ Held(q)' = Held(q)
  <2> SUFFICES ASSUME NEW q \in Procs \ {p}
               PROVE  /\ Private(q)' /\ Undecided(q)' /\ EmptyAtExit(q)'
                      /\ Held(q)' = Held(q)
    OBVIOUS
  <2>1. /\ Private(q) /\ Undecided(q) /\ EmptyAtExit(q)
        /\ pc'[q] = pc[q] /\ status'[q] = status[q]
    BY DEF Inv, DirInv, Quiet
  <2>2. \A d \in Held(q) : d \in dirs' /\ owner'[d] = owner[d]
    BY <2>1, <1>1 DEF Private
  <2> QED
    BY <2>1, <2>2, <1>1, OtherKeeps
<1>3. TaskDirs(p)' = TaskDirs(p) /\ Filling(p)' \subseteq Filling(p)
  BY <1>1 DEF TaskDirs, Quiet
<1>4. Held(p)' = Held(p) \/ pc'[p] = "killed"
  BY <1>3 DEF Held, Quiet
<1>5. Private(p)'
  <2>1. Held(p)' \subseteq Held(p)
    BY <1>3 DEF Held
  <2> QED
    BY <1>1, <1>3, <2>1 DEF Private
<1>6. Undecided(p)'
  BY <1>1 DEF Undecided, Quiet
<1>7. EmptyAtExit(p)'
  BY <1>1 DEF EmptyAtExit, Quiet
<1>8. ASSUME NEW d \in dirs' PROVE Accounted(d)'
  <2> DEFINE q == owner[d]
  <2>1. d \in dirs /\ Accounted(d) /\ owner'[d] = q /\ q \in Procs
    BY <1>1 DEF Inv, DirInv, Accounted
  <2>2. CASE q = p
    <3>1. Excused(d) => Excused(d)'
      <4>1. pc[p] # "killed"
        BY DEF Quiet
      <4>2. status[p] = "loadError" => status'[p] = "loadError"
        BY <1>1 DEF Quiet, Undecided, Working
      <4> QED
        BY <1>1, <2>1, <2>2, <4>1, <4>2 DEF Excused
    <3>2. pc'[p] = "killed" => Excused(d)'
      BY <2>1, <2>2 DEF Excused
    <3> QED
      BY <1>1, <1>4, <2>1, <2>2, <3>1, <3>2 DEF Accounted
  <2>3. CASE q # p
    <3>1. Held(q)' = Held(q)
      BY <1>2, <2>1, <2>3
    <3>2. Excused(d) => Excused(d)'
      BY <1>1, <2>1, <2>3 DEF Excused, Quiet
    <3> QED
      BY <1>1, <2>1, <3>1, <3>2 DEF Accounted
  <2> QED
    BY <2>2, <2>3
<1> QED
  BY <1>2, <1>5, <1>6, <1>7, <1>8 DEF DirInv

(* A step of p that does create, hand over or remove a directory.           *)
ActsAt(p) ==
  /\ UNCHANGED cmd
  /\ \A q \in Procs \ {p} : /\ tasks'[q] = tasks[q] /\ pc'[q] = pc[q]
                            /\ cur'[q] = cur[q] /\ status'[q] = status[q]
  /\ \A d \in dirs : owner'[d] = owner[d] /\ (d \in dirs' \/ owner[d] = p)
  /\ \A d \in stuck : d \in stuck'

LEMMA OthersKeep ==
  ASSUME Inv, NEW p \in Procs, ActsAt(p)
  PROVE  /\ \A q \in Procs \ {p} : Private(q)' /\ Undecided(q)' /\ EmptyAtExit(q)'
         /\ \A d \in dirs : owner[d] # p => Accounted(d)'
<1>1. ASSUME NEW q \in Procs \ {p}
      PROVE  /\ Private(q)' /\ Undecided(q)' /\ EmptyAtExit(q)'
             /\ Held(q)' = Held(q)
  <2>1. /\ Private(q) /\ Undecided(q) /\ EmptyAtExit(q)
        /\ tasks'[q] = tasks[q] /\ pc'[q] = pc[q] /\ cur'[q] = cur[q]
        /\ status'[q] = status[q]
    BY DEF Inv, DirInv, ActsAt
  <2>2. \A d \in Held(q) : d \in dirs' /\ owner'[d] = owner[d]
    BY <2>1 DEF Private, ActsAt
  <2> QED
    BY <2>1, <2>2, OtherKeeps
<1>2. ASSUME NEW d \in dirs, owner[d] # p PROVE Accounted(d)'
  <2> DEFINE q == owner[d]
  <2>1. Accounted(d) /\ q \in Procs \ {p} /\ owner'[d] = q
    BY <1>2 DEF Inv, DirInv, Accounted, ActsAt
  <2>2. Excused(d) => Excused(d)'
    BY <2>1 DEF Excused, ActsAt
  <2>3. Held(q)' = Held(q)
    BY <1>1, <2>1
  <2> QED
    BY <2>1, <2>2, <2>3 DEF Accounted, ActsAt
<1> QED
  BY <1>1, <1>2

LEMMA FailLoadKeeps ==
  ASSUME Inv, NEW p \in Procs, pc[p] \in Loading, FailLoad(p)
  PROVE  DirInv'
<1>1. /\ UNCHANGED <<dirs, owner, stuck, cur, cmd>>
      /\ pc' = [pc EXCEPT ![p] = "cleanup"] /\ pc'[p] = "cleanup"
      /\ status' = [status EXCEPT ![p] = "loadError"] /\ status'[p] = "loadError"
      /\ tasks' = [tasks EXCEPT ![p] = Kept(p)] /\ tasks'[p] = Kept(p)
  BY DEF Inv, TypeInv, ValuesOK, FailLoad, Finish, files, command, loader
<1>2. ActsAt(p)
  BY <1>1 DEF ActsAt, Inv, TypeInv, ValuesOK
<1>3. Private(p)
  BY DEF Inv, DirInv
<1>4. Filling(p)' = {}
  BY <1>1 DEF Filling
<1>5. CASE cmd[p] = "diff"
  <2>1. tasks'[p] = tasks[p] /\ TaskDirs(p)' = TaskDirs(p)
    BY <1>1, <1>5 DEF Kept, TaskDirs
  <2>2. Held(p)' = TaskDirs(p)
    BY <1>4, <2>1 DEF Held
  <2>3. Private(p)'
    BY <1>1, <1>3, <1>4, <2>1, <2>2 DEF Private, Held
  <2>4. ASSUME NEW d \in dirs, owner[d] = p PROVE Accounted(d)'
    <3>1. d \in Held(p) \/ d \in stuck
      BY <2>4 DEF Inv, DirInv, Accounted, Excused, Undecided, Working, Loading
    <3>2. d \in Filling(p) => Excused(d)'
      BY <1>1, <2>4 DEF Filling, Excused
    <3> QED
      BY <1>1, <2>2, <2>4, <3>1, <3>2 DEF Accounted, Held
  <2> QED
    BY <1>1, <1>2, <2>3, <2>4, OthersKeep
    DEF DirInv, Undecided, EmptyAtExit, Working, Loading, Rendering
<1>6. CASE cmd[p] # "diff"
  <2>1. tasks'[p] = <<>> /\ TaskDirs(p)' = {}
    BY <1>1, <1>6 DEF Kept, TaskDirs
  <2>2. Held(p)' = {} /\ Private(p)'
    BY <1>4, <2>1 DEF Held, Private
  <2>3. ASSUME NEW d \in dirs, owner[d] = p PROVE Accounted(d)'
    BY <1>1, <1>6, <2>3 DEF Accounted, Excused
  <2> QED
    BY <1>1, <1>2, <2>2, <2>3, OthersKeep
    DEF DirInv, Undecided, EmptyAtExit, Working, Loading, Rendering
<1> QED
  BY <1>5, <1>6

LEMMA MkdirKeeps ==
  ASSUME Inv, NEW p \in Procs, Mkdir(p)
  PROVE  DirInv'
<1>1. PICK d \in FreshDirs : /\ dirs' = dirs \union {d}
                             /\ owner' = [owner EXCEPT ![d] = p]
                             /\ cur' = [cur EXCEPT ![p] = d]
  BY DEF Mkdir
<1>2. /\ UNCHANGED <<stuck, cmd, tasks, status>>
      /\ pc[p] = "mkdir" /\ pc' = [pc EXCEPT ![p] = "open"] /\ pc'[p] = "open"
      /\ cur'[p] = d /\ owner'[d] = p /\ d \notin dirs /\ d \in Dirs
  BY <1>1 DEF Inv, TypeInv, ValuesOK, Mkdir, Goto, FreshDirs, command, result
<1>3. ActsAt(p)
  BY <1>1, <1>2 DEF ActsAt, Inv, TypeInv, ValuesOK
<1>4. Private(p) /\ Undecided(p)
  BY DEF Inv, DirInv
<1>5. Filling(p) = {} /\ Filling(p)' = {d} /\ TaskDirs(p)' = TaskDirs(p)
  BY <1>2 DEF Filling, TaskDirs
<1>6. Held(p)' = Held(p) \union {d} /\ d \notin TaskDirs(p)
  BY <1>2, <1>4, <1>5 DEF Held, Private
<1>7. \A e \in Held(p) : e \in dirs' /\ owner'[e] = p
  BY <1>1, <1>3, <1>4 DEF Private, ActsAt
<1>8. Private(p)'
  <2>1. \A e \in Held(p)' : e \in dirs' /\ owner'[e] = p
    BY <1>1, <1>2, <1>6, <1>7
  <2>2. TaskDirs(p)' \intersect Filling(p)' = {}
    BY <1>5, <1>6
  <2> QED
    BY <1>2, <1>4, <2>1, <2>2 DEF Private
<1>9. ASSUME NEW e \in dirs', owner'[e] = p PROVE Accounted(e)'
  <2>1. CASE e = d
    BY <1>2, <1>6, <2>1 DEF Accounted
  <2>2. CASE e # d
    <3>1. e \in dirs /\ owner[e] = p /\ Accounted(e)
      BY <1>1, <1>3, <1>9, <2>2 DEF Inv, DirInv, ActsAt
    <3>2. e \in Held(p) \/ e \in stuck
      BY <1>2, <1>4, <3>1 DEF Accounted, Excused, Undecided, Working, Loading
    <3> QED
      BY <1>2, <1>6, <1>9, <3>2 DEF Accounted
  <2> QED
    BY <2>1, <2>2
<1>10. Undecided(p)' /\ EmptyAtExit(p)'
  BY <1>2, <1>4 DEF Undecided, EmptyAtExit, Working, Loading
<1>11. ASSUME NEW e \in dirs', owner'[e] # p PROVE Accounted(e)'
  <2>1. e \in dirs /\ owner[e] # p
    BY <1>1, <1>2, <1>3, <1>11 DEF ActsAt
  <2> QED
    BY <1>3, <2>1, OthersKeep
<1>12. \A q \in Procs : Private(q)' /\ Undecided(q)' /\ EmptyAtExit(q)'
  BY <1>3, <1>8, <1>10, OthersKeep
<1> QED
  BY <1>9, <1>11, <1>12 DEF DirInv

(* The sequence tasks[p] with one more task at its end.                     *)
LEMMA AppendTask ==
  ASSUME NEW s \in Seq(TaskType), NEW t \in TaskType
  PROVE  /\ Len(Append(s, t)) = Len(s) + 1
         /\ \A i \in 1..Len(s) : Append(s, t)[i] = s[i]
         /\ Append(s, t)[Len(s) + 1] = t
OBVIOUS

LEMMA UntarEndsKeeps ==
  ASSUME Inv, NEW p \in Procs, UntarEnds(p)
  PROVE  DirInv'
<1>1. CASE ~Reading(p).intact
  BY <1>1, FailLoadKeeps DEF UntarEnds, Loading
<1>2. CASE Reading(p).intact
  <2> DEFINE t == [path |-> Input(p), dir |-> cur[p]]
             n == Len(tasks[p])
  <2>1. /\ UNCHANGED <<dirs, owner, stuck, cmd, status>>
        /\ pc[p] = "untar" /\ pc'[p] \in {"stat", "collect"}
        /\ \A q \in Procs \ {p} : /\ pc'[q] = pc[q] /\ cur'[q] = cur[q]
                                  /\ tasks'[q] = tasks[q]
        /\ tasks'[p] = Append(tasks[p], t)
    BY <1>2 DEF Inv, TypeInv, ValuesOK, UntarEnds, Goto, files, command, result
  <2>2. ActsAt(p)
    BY <2>1 DEF ActsAt
  <2>3. Private(p) /\ Undecided(p)
    BY DEF Inv, DirInv
  <2>4. t \in TaskType /\ t.dir = cur[p] /\ tasks[p] \in Seq(TaskType) /\ n \in Nat
    <3>1. Input(p) \in Archives /\ cur[p] \in Dirs
      BY <2>1, InputType, ReadingType DEF Inv, Loading
    <3>2. tasks[p] \in Seq(TaskType)
      BY DEF Inv, TypeInv, ValuesOK
    <3> QED
      BY <3>1, <3>2 DEF TaskType
  <2> HIDE DEF t
  <2>5. /\ Len(tasks'[p]) = n + 1 /\ tasks'[p][n + 1] = t
        /\ \A i \in 1..n : tasks'[p][i] = tasks[p][i]
    BY <2>1, <2>4, AppendTask
  <2>6. Filling(p) = {cur[p]} /\ Filling(p)' = {}
    BY <2>1 DEF Filling
  <2>7. TaskDirs(p)' = TaskDirs(p) \union {cur[p]}
    BY <2>4, <2>5 DEF TaskDirs
  <2>8. Held(p)' = Held(p)
    BY <2>6, <2>7 DEF Held
  <2>9. cur[p] \notin TaskDirs(p)
    BY <2>3, <2>6 DEF Private
  <2>10. ASSUME NEW i \in 1..Len(tasks'[p]), NEW j \in 1..Len(tasks'[p]), i # j
         PROVE  tasks'[p][i].dir # tasks'[p][j].dir
    <3>1. i \in 1..n \/ i = n + 1
      BY <2>4, <2>5
    <3>2. j \in 1..n \/ j = n + 1
      BY <2>4, <2>5
    <3>3. \A k \in 1..n : tasks[p][k].dir # cur[p]
      BY <2>9 DEF TaskDirs
    <3> QED
      BY <2>3, <2>4, <2>5, <2>10, <3>1, <3>2, <3>3 DEF Private
  <2>11. Private(p)'
    <3>1. \A d \in Held(p)' : d \in dirs' /\ owner'[d] = p
      BY <2>1, <2>3, <2>8 DEF Private
    <3> QED
      BY <2>6, <2>10, <3>1 DEF Private
  <2>12. ASSUME NEW d \in dirs, owner[d] = p PROVE Accounted(d)'
    <3>1. d \in Held(p) \/ d \in stuck
      BY <2>1, <2>3, <2>12
      DEF Inv, DirInv, Accounted, Excused, Undecided, Working, Loading
    <3> QED
      BY <2>1, <2>8, <2>12, <3>1 DEF Accounted
  <2>13. Undecided(p)' /\ EmptyAtExit(p)'
    BY <2>1, <2>3 DEF Undecided, EmptyAtExit, Working, Loading
  <2>14. \A q \in Procs : Private(q)' /\ Undecided(q)' /\ EmptyAtExit(q)'
    BY <2>2, <2>11, <2>13, OthersKeep
  <2>15. \A d \in dirs' : Accounted(d)'
    BY <2>1, <2>2, <2>12, OthersKeep
  <2> QED
    BY <2>14, <2>15 DEF DirInv
<1> QED
  BY <1>1, <1>2

(* The loop of CleanupTasks: what remains are the tasks of the other          *)
(* directories.                                                             *)
LEMMA RemainingDirs ==
  ASSUME ValuesOK, NEW p \in Procs, tasks[p] # <<>>, Private(p)
  PROVE  LET s == Remaining(p) IN
         /\ {s[i].dir : i \in 1..Len(s)} = TaskDirs(p) \ {Doomed(p)}
         /\ \A i, j \in 1..Len(s) : i # j => s[i].dir # s[j].dir
         /\ Doomed(p) \in TaskDirs(p)
<1> DEFINE t == tasks[p]
           n == Len(t)
           s == Remaining(p)
<1>1. t \in Seq(TaskType) /\ n \in Nat /\ n > 0
  BY EmptySeq DEF ValuesOK
<1>2. \A i, j \in 1..n : i # j => t[i].dir # t[j].dir
  BY DEF Private
<1>3. Doomed(p) \in TaskDirs(p)
  BY <1>1, RemainingType DEF TaskDirs, Doomed
<1>4. CASE cmd[p] = "diff"
  <2>1. s = SubSeq(t, 1, n - 1) /\ Doomed(p) = t[n].dir
    BY <1>4 DEF Remaining, Front, Doomed, RemovalIndex
  <2>2. Len(s) = n - 1 /\ \A i \in 1..(n - 1) : s[i] = t[i]
    BY <1>1, <2>1
  <2> HIDE DEF s, t, n
  <2>3. {s[i].dir : i \in 1..Len(s)} = {t[i].dir : i \in 1..n} \ {t[n].dir}
    <3>1. ASSUME NEW i \in 1..Len(s)
          PROVE  s[i].dir \in {t[k].dir : k \in 1..n} \ {t[n].dir}
      <4>1. i \in 1..n /\ n \in 1..n /\ i # n /\ s[i] = t[i]
        BY <1>1, <2>2
      <4> QED
        BY <1>2, <4>1
    <3>2. ASSUME NEW k \in 1..n, t[k].dir # t[n].dir
          PROVE  \E i \in 1..Len(s) : s[i].dir = t[k].dir
      <4>1. k # n
        BY <3>2
      <4>2. k \in 1..Len(s) /\ s[k] = t[k]
        BY <1>1, <2>2, <4>1
      <4> QED
        BY <4>2
    <3> QED
      BY <3>1, <3>2
  <2>4. \A i, j \in 1..Len(s) : i # j => s[i].dir # s[j].dir
    BY <1>1, <1>2, <2>2
  <2> QED
    BY <1>3, <2>1, <2>3, <2>4 DEF TaskDirs, s, t, n
<1>5. CASE cmd[p] # "diff"
  <2>1. s = Tail(t) /\ Doomed(p) = t[1].dir
    BY <1>5 DEF Remaining, Doomed, RemovalIndex
  <2>2. Len(s) = n - 1 /\ \A i \in 1..(n - 1) : s[i] = t[i + 1]
    BY <1>1, <2>1, HeadTailProperties
  <2> HIDE DEF s, t, n
  <2>3. {s[i].dir : i \in 1..Len(s)} = {t[i].dir : i \in 1..n} \ {t[1].dir}
    <3>1. ASSUME NEW i \in 1..Len(s)
          PROVE  s[i].dir \in {t[k].dir : k \in 1..n} \ {t[1].dir}
      <4>1. i + 1 \in 1..n /\ 1 \in 1..n /\ i + 1 # 1 /\ s[i] = t[i + 1]
        BY <1>1, <2>2
      <4> QED
        BY <1>2, <4>1
    <3>2. ASSUME NEW k \in 1..n, t[k].dir # t[1].dir
          PROVE  \E i \in 1..Len(s) : s[i].dir = t[k].dir
      <4>1. k # 1
        BY <3>2
      <4>2. k - 1 \in 1..(n - 1) /\ (k - 1) + 1 = k
        BY <1>1, <4>1
      <4>3. k - 1 \in 1..Len(s) /\ s[k - 1] = t[k]
        BY <2>2, <4>2
      <4> QED
        BY <4>3
    <3> QED
      BY <3>1, <3>2
  <2>4. ASSUME NEW i \in 1..Len(s), NEW j \in 1..Len(s), i # j
        PROVE  s[i].dir # s[j].dir
    <3>1. /\ i + 1 \in 1..n /\ j + 1 \in 1..n /\ i + 1 # j + 1
          /\ s[i] = t[i + 1] /\ s[j] = t[j + 1]
      BY <1>1, <2>2, <2>4
    <3> QED
      BY <1>2, <3>1
  <2> QED
    BY <1>3, <2>1, <2>3, <2>4 DEF TaskDirs, s, t, n
<1> QED
  BY <1>4, <1>5

LEMMA CleanupKeeps ==
  ASSUME Inv, NEW p \in Procs, Cleanup(p)
  PROVE  DirInv'
<1>1. /\ UNCHANGED <<owner, pc, cur, cmd, status>>
      /\ pc[p] = "cleanup" /\ tasks[p] # <<>>
      /\ tasks' = [tasks EXCEPT ![p] = Remaining(p)] /\ tasks'[p] = Remaining(p)
      /\ dirs' \subseteq dirs /\ dirs \ {Doomed(p)} \subseteq dirs'
      /\ stuck \subseteq stuck'
      /\ Doomed(p) \in stuck' \/ Doomed(p) \notin dirs'
  BY DEF Inv, TypeInv, ValuesOK, Cleanup, command, loader, result
<1>2. Private(p) /\ Undecided(p) /\ EmptyAtExit(p) /\ ValuesOK
  BY DEF Inv, DirInv, TypeInv
<1>3. /\ TaskDirs(p)' = TaskDirs(p) \ {Doomed(p)} /\ Doomed(p) \in TaskDirs(p)
      /\ \A i, j \in 1..Len(tasks'[p]) : i # j => tasks'[p][i].dir # tasks'[p][j].dir
  <2> DEFINE s == Remaining(p)
  <2>1. /\ {s[i].dir : i \in 1..Len(s)} = TaskDirs(p) \ {Doomed(p)}
        /\ \A i, j \in 1..Len(s) : i # j => s[i].dir # s[j].dir
        /\ Doomed(p) \in TaskDirs(p)
    BY <1>1, <1>2, RemainingDirs
  <2>2. tasks'[p] = s
    BY <1>1
  <2> HIDE DEF s
  <2> QED
    BY <2>1, <2>2 DEF TaskDirs
<1>4. Filling(p) = {} /\ Filling(p)' = {}
  BY <1>1 DEF Filling
<1>5. Held(p) = TaskDirs(p) /\ Held(p)' = Held(p) \ {Doomed(p)}
  BY <1>3, <1>4 DEF Held
<1>6. owner[Doomed(p)] = p
  BY <1>2, <1>3, <1>5 DEF Private
<1>7. ActsAt(p)
  BY <1>1, <1>6 DEF ActsAt, Inv, TypeInv, ValuesOK
<1>8. Private(p)'
  <2>1. \A d \in Held(p)' : d \in dirs' /\ owner'[d] = p
    BY <1>1, <1>2, <1>5 DEF Private
  <2> QED
    BY <1>3, <1>4, <2>1 DEF Private
<1>9. Undecided(p)' /\ EmptyAtExit(p)'
  BY <1>1 DEF Undecided, EmptyAtExit, Working, Loading, Rendering
<1>10. ASSUME NEW d \in dirs', owner[d] = p PROVE Accounted(d)'
  <2>1. Accounted(d)
    BY <1>1 DEF Inv, DirInv
  <2>2. d # Doomed(p) \/ d \in stuck'
    BY <1>1
  <2>3. Excused(d) => Excused(d)'
    BY <1>1 DEF Excused
  <2> QED
    BY <1>1, <1>5, <1>10, <2>1, <2>2, <2>3 DEF Accounted
<1>11. \A q \in Procs : Private(q)' /\ Undecided(q)' /\ EmptyAtExit(q)'
  BY <1>7, <1>8, <1>9, OthersKeep
<1>12. \A d \in dirs' : Accounted(d)'
  BY <1>1, <1>7, <1>10, OthersKeep
<1> QED
  BY <1>11, <1>12 DEF DirInv

(* A replaced archive, or no step at all.                                   *)
LEMMA StillKeeps ==
  ASSUME Inv, UNCHANGED <<dirs, owner, stuck, pc, cmd, tasks, cur, status>>
  PROVE  DirInv'
BY DEF Inv, DirInv, Private, Undecided, EmptyAtExit, Accounted, Excused, Held, TaskDirs,
       Filling

LEMMA InitDirs == Init => DirInv
BY DEF Init, DirInv, Private, Undecided, EmptyAtExit, Held, TaskDirs, Filling

LEMMA NextDirs == Inv /\ [Next]_vars => DirInv'
<1> SUFFICES ASSUME Inv, [Next]_vars PROVE DirInv'
  OBVIOUS
<1> USE DEF Inv
<1>1. ASSUME NEW p \in Procs, Start(p) \/ Kill(p) PROVE DirInv'
  BY <1>1, QuietOthers, QuietKeeps
<1>2. ASSUME NEW p \in Procs, Load(p) PROVE DirInv'
  <2>1. CASE FailLoad(p)
    <3>1. pc[p] \in Loading
      BY <1>2 DEF Load, Stat, Scan, Mkdir, MkdirFails, Open, Untar, UntarFails,
                  UntarEnds, Loading
    <3> QED
      BY <2>1, <3>1, FailLoadKeeps
  <2>2. CASE ~FailLoad(p)
    BY <1>2, <2>2, QuietOthers, QuietKeeps, MkdirKeeps, UntarEndsKeeps
    DEF Load, MkdirFails, UntarFails
  <2> QED
    BY <2>1, <2>2
<1>3. ASSUME NEW p \in Procs, Render(p) \/ Cleanup(p) \/ Exit(p) PROVE DirInv'
  BY <1>3, QuietRender, QuietOthers, QuietKeeps, CleanupKeeps
<1>4. ASSUME NEW a \in Archives, Replace(a) PROVE DirInv'
  BY <1>4, StillKeeps DEF Replace, files, command, loader, result
<1>5. CASE UNCHANGED vars
  BY <1>5, StillKeeps DEF vars, files, command, loader, result
<1> QED
  BY <1>1, <1>2, <1>3, <1>4, <1>5 DEF Next, Step

LEMMA DirInvariance == Spec => []Inv
<1>1. Init => Inv
  BY InitType, InitDirs DEF Inv
<1>2. Inv /\ [Next]_vars => Inv'
  BY NextType, NextDirs DEF Inv
<1> QED
  BY <1>1, <1>2, PTL DEF Spec

(* A directory an invocation still uses exists, is its own, and no other      *)
(* invocation uses it, however many run at once and fail at whatever step.   *)
THEOREM DirsPrivate == Spec => []TaskDirsPrivate
<1>1. Inv => TaskDirsPrivate
  BY DEF Inv, DirInv, Private, TaskDirsPrivate
<1> QED
  BY <1>1, DirInvariance, PTL

(* The only directories that outlive an invocation which was not killed are   *)
(* those os.RemoveAll failed on and those of a CreateTasks that failed.      *)
THEOREM LeaksOnlyByFailedLoad == Spec => []LeakedOnlyByFailedLoad
<1>1. ASSUME Inv, NEW d \in dirs \ stuck, pc[owner[d]] = "exit"
      PROVE  /\ status[owner[d]] = "loadError"
             /\ cmd[owner[d]] = "diff" => d = cur[owner[d]]
  <2>1. Accounted(d) /\ EmptyAtExit(owner[d])
    <3>1. Accounted(d) /\ owner[d] \in Procs
      BY <1>1 DEF Inv, DirInv, Accounted
    <3> QED
      BY <1>1, <3>1 DEF Inv, DirInv
  <2>2. d \notin Held(owner[d])
    BY <1>1, <2>1 DEF Held, TaskDirs, Filling, EmptyAtExit
  <2> QED
    BY <1>1, <2>1, <2>2 DEF Accounted, Excused
<1>2. Inv => LeakedOnlyByFailedLoad
  BY <1>1 DEF LeakedOnlyByFailedLoad
<1> QED
  BY <1>2, DirInvariance, PTL

-----------------------------------------------------------------------------
(***************************************************************************)
(* What is in the temporary directories, and what is printed of it.          *)
(***************************************************************************)

(* The files hold, for every name command c requires, the last of the first k  *)
(* entries of tar.                                                          *)
HoldsFirst(c, fs, tar, k) == \A n \in Required(c) : fs[n] = Extracted(tar, n, k)
Holds(c, fs, tar) == HoldsFirst(c, fs, tar, Len(tar.entries))

(* CreateTasks: the directories of the tasks hold what was opened for the     *)
(* archives of the command line, one after the other.                        *)
Loads(p) ==
  pc[p] \in Loading \union Rendering =>
    /\ Len(source[p]) = Len(tasks[p]) + (IF pc[p] = "untar" THEN 1 ELSE 0)
    /\ \A i \in 1..Len(tasks[p]) :
         tasks[p][i].path = args[p][i] /\ Holds(cmd[p], Files(p, i), source[p][i])
    /\ pc[p] \in Rendering => Len(tasks[p]) = Len(args[p])

(* UntarFiles: the directory in work holds what the entries so far left.     *)
Fills(p) ==
  /\ pc[p] = "open" => content[cur[p]] = NoFiles
  /\ pc[p] = "untar" =>
       /\ pos[p] <= Len(Reading(p).entries) + 1
       /\ HoldsFirst(cmd[p], content[cur[p]], Reading(p), pos[p] - 1)

(* The renderers: what is collected, and what is printed, tells of what was    *)
(* opened for the archive of the same place on the command line.             *)
Tells(c, as, opened, items) ==
  \A i \in 1..Len(items) :
    items[i].path = as[i] /\ Holds(c, items[i].files, opened[i])
Answers(p) ==
  /\ Tells(cmd[p], args[p], source[p], report[p])
  /\ Tells(cmd[p], args[p], source[p], out[p])
  /\ pc[p] = "idle" => source[p] = <<>>
  /\ pc[p] \in {"idle"} \union Loading => out[p] = <<>>
  /\ pc[p] = "collect" => out[p] = IF cmd[p] = "memparse" THEN report[p] ELSE <<>>
  /\ pc[p] = "print" => /\ cmd[p] \in PrintsAtEnd /\ out[p] = <<>>
                        /\ Len(report[p]) = Len(args[p])
  /\ pc[p] = "dump" => cmd[p] = "memparse --pid" /\ out[p] = <<>>
  /\ pc[p] = "blocked" => out[p] = <<>>

(* What the outcome says of the output.                                     *)
Outcome(p) ==
  /\ status[p] = "ok" => Len(out[p]) = IF cmd[p] = "memparse --pid" THEN 1 ELSE Len(args[p])
  /\ status[p] = "loadError" => out[p] = <<>>
  /\ out[p] # <<>> =>
       /\ Len(source[p]) = Len(args[p])
       /\ cmd[p] \in PrintsAtEnd => status[p] = "ok"

Output(p) == Loads(p) /\ Fills(p) /\ Answers(p) /\ Outcome(p)
OutInv == Inv /\ \A p \in Procs : Output(p)

-----------------------------------------------------------------------------
(***************************************************************************)
(* Who writes to a directory                                               *)
(***************************************************************************)

(* No command has CreateTasks extract pages.                                *)
LEMMA PagesNotRequired == \A c : Required(c) \subseteq Names \ {"pages"}
BY DEF Required, RequiredByShow, RequiredByInspect, RequiredByDiff, RequiredByMemparse, Names

(* A step of one invocation writes to a directory of its own, if at all.     *)
LEMMA Writes ==
  ASSUME Inv, [Next]_vars
  PROVE  \/ UNCHANGED content
         \/ \E q \in Procs :
              \/ Mkdir(q) /\ \A d \in dirs : content'[d] = content[d]
              \/ Untar(q) /\ \A d \in Dirs \ {cur[q]} : content'[d] = content[d]
              \/ /\ MemPages(q)
                 /\ \A d \in Dirs \ {tasks[q][1].dir} : content'[d] = content[d]
<1>1. CASE UNCHANGED vars
  BY <1>1 DEF vars, files
<1>2. CASE \E a \in Archives : Replace(a)
  BY <1>2 DEF Replace, files
<1>3. ASSUME NEW q \in Procs, Start(q) \/ Kill(q) \/ Cleanup(q) \/ Exit(q)
      PROVE  UNCHANGED content
  BY <1>3 DEF Start, Kill, Cleanup, Exit, files
<1>4. ASSUME NEW q \in Procs, Load(q)
      PROVE  \/ UNCHANGED content
             \/ Mkdir(q) /\ \A d \in dirs : content'[d] = content[d]
             \/ Untar(q) /\ \A d \in Dirs \ {cur[q]} : content'[d] = content[d]
  <2> content \in [Dirs -> [Names -> Data \union {Absent}]] /\ dirs \subseteq Dirs
    BY DEF Inv, TypeInv, ValuesOK
  <2>1. CASE Mkdir(q)
    BY <2>1 DEF Mkdir, FreshDirs
  <2>2. CASE Untar(q)
    BY <2>2 DEF Untar
  <2>3. CASE ~Mkdir(q) /\ ~Untar(q)
    BY <1>4, <2>3 DEF Load, Stat, Scan, MkdirFails, Open, UntarFails, UntarEnds, FailLoad, files
  <2> QED
    BY <2>1, <2>2, <2>3
<1>5. ASSUME NEW q \in Procs, Render(q)
      PROVE  \/ UNCHANGED content
             \/ MemPages(q) /\ \A d \in Dirs \ {tasks[q][1].dir} : content'[d] = content[d]
  <2> content \in [Dirs -> [Names -> Data \union {Absent}]]
    BY DEF Inv, TypeInv, ValuesOK
  <2>1. CASE MemPages(q)
    BY <2>1 DEF MemPages
  <2>2. CASE ~MemPages(q)
    BY <1>5, <2>2 DEF Render, Collect, BlocksInPipe, PrintReport, MemTable, MemPagesFails, Dump,
                      DumpFails, Refuse, FailRender, files
  <2> QED
    BY <2>1, <2>2
<1> QED
  BY <1>1, <1>2, <1>3, <1>4, <1>5 DEF Next, Step

(* memparse --pid adds the pages, and changes no other file.                 *)
LEMMA PagesWritten ==
  ASSUME TypeInv, NEW p \in Procs, MemPages(p), NEW n \in Names \ {"pages"}
  PROVE  content'[tasks[p][1].dir][n] = content[tasks[p][1].dir][n]
<1>1. tasks[p][1].dir \in Dirs
  BY FirstTask DEF MemPages
<1>2. content[tasks[p][1].dir] \in [Names -> Data \union {Absent}]
      /\ content \in [Dirs -> [Names -> Data \union {Absent}]]
  BY <1>1 DEF TypeInv, ValuesOK
<1>3. PICK data : content' = [content EXCEPT ![tasks[p][1].dir]["pages"] = data]
  BY DEF MemPages
<1> QED
  BY <1>1, <1>2, <1>3

(* The directories of an invocation change by its own steps alone: by the one  *)
(* that extracts an entry, and by the one that adds pages.                   *)
LEMMA OwnFiles ==
  ASSUME Inv, [Next]_vars, NEW p \in Procs, NEW d \in Held(p)
  PROVE  \/ content'[d] = content[d]
         \/ Untar(p) /\ d = cur[p]
         \/ MemPages(p) /\ d = tasks[p][1].dir
<1>1. d \in dirs /\ owner[d] = p /\ d \in Dirs
  BY DEF Inv, DirInv, Private, TypeInv, ValuesOK
<1>2. ASSUME NEW q \in Procs, d \in Held(q) PROVE q = p
  BY <1>1, <1>2 DEF Inv, DirInv, Private
<1>3. ASSUME NEW q \in Procs, Untar(q) PROVE cur[q] \in Held(q)
  BY <1>3 DEF Untar, Held, Filling
<1>4. ASSUME NEW q \in Procs, MemPages(q) PROVE tasks[q][1].dir \in Held(q)
  <2>1. 1 \in 1..Len(tasks[q])
    BY <1>4, FirstTask DEF MemPages, Inv
  <2> QED
    BY <2>1 DEF Held, TaskDirs
<1> QED
  BY <1>1, <1>2, <1>3, <1>4, Writes

(* CreateTasks is done with the directories of tasks when it returns: what an  *)
(* invocation renders from is what was extracted, but for the pages that       *)
(* memparse --pid adds, and only CleanupTasks removes a directory, its own.    *)
THEOREM StableTasks == Spec => TasksStable
<1> DEFINE Stable(p) ==
      pc[p] \in Rendering =>
        \A i \in 1..Len(tasks[p]) : \A n \in Names :
          content'[tasks[p][i].dir][n] # content[tasks[p][i].dir][n] =>
            cmd[p] = "memparse --pid" /\ i = 1 /\ n = "pages"
    Removed == \A d \in dirs \ dirs' : pc[owner[d]] = "cleanup"
<1>1. ASSUME Inv, [Next]_vars, NEW p \in Procs PROVE Stable(p)
  <2> SUFFICES ASSUME pc[p] \in Rendering, NEW i \in 1..Len(tasks[p]), NEW n \in Names,
                      content'[tasks[p][i].dir][n] # content[tasks[p][i].dir][n]
               PROVE  cmd[p] = "memparse --pid" /\ i = 1 /\ n = "pages"
    OBVIOUS
  <2>1. tasks[p][i].dir \in Held(p)
    BY DEF Held, TaskDirs
  <2>2. ~Untar(p)
    BY DEF Untar, Rendering
  <2>3. MemPages(p) /\ tasks[p][i].dir = tasks[p][1].dir
    BY <1>1, <2>1, <2>2, OwnFiles
  <2>4. 1 \in 1..Len(tasks[p]) /\ i = 1
    <3>1. 1 \in 1..Len(tasks[p])
      BY <1>1, <2>3, FirstTask DEF MemPages, Inv
    <3> QED
      BY <1>1, <2>3, <3>1 DEF Inv, DirInv, Private
  <2>5. n = "pages"
    BY <1>1, <2>3, <2>4, PagesWritten DEF Inv
  <2> QED
    BY <2>3, <2>4, <2>5 DEF MemPages
<1>2. ASSUME Inv, [Next]_vars, NEW d \in dirs \ dirs' PROVE pc[owner[d]] = "cleanup"
  <2>1. PICK q \in Procs : Cleanup(q)
    <3>1. CASE UNCHANGED vars
      BY <1>2, <3>1 DEF vars, files
    <3>2. ASSUME NEW a \in Archives, Replace(a) PROVE FALSE
      BY <1>2, <3>2 DEF Replace, files
    <3>3. ASSUME NEW q \in Procs, Start(q) \/ Kill(q) \/ Exit(q) PROVE FALSE
      BY <1>2, <3>3 DEF Start, Kill, Exit, files
    <3>4. ASSUME NEW q \in Procs, Load(q) PROVE FALSE
      BY <1>2, <3>4 DEF Load, Stat, Scan, Mkdir, MkdirFails, Open, Untar, UntarFails,
                        UntarEnds, FailLoad, files
    <3>5. ASSUME NEW q \in Procs, Render(q) PROVE FALSE
      BY <1>2, <3>5 DEF Render, Collect, BlocksInPipe, PrintReport, MemTable, MemPages,
                        MemPagesFails, Dump, DumpFails, Refuse, FailRender, files
    <3> QED
      BY <1>2, <3>1, <3>2, <3>3, <3>4, <3>5 DEF Next, Step
  <2>2. d = Doomed(q) /\ pc[q] = "cleanup" /\ tasks[q] # <<>>
    BY <1>2, <2>1 DEF Cleanup
  <2>3. Doomed(q) \in TaskDirs(q)
    BY <1>2, <2>2, RemainingDirs DEF Inv, TypeInv, DirInv
  <2>4. owner[d] = q
    BY <1>2, <2>2, <2>3 DEF Inv, DirInv, Private, Held
  <2> QED
    BY <2>2, <2>4
<1>3. Inv /\ [Next]_vars => [\A p \in Procs :
       /\ pc[p] \in Rendering =>
            \A i \in 1..Len(tasks[p]) : \A n \in Names :
              content'[tasks[p][i].dir][n] # content[tasks[p][i].dir][n] =>
                cmd[p] = "memparse --pid" /\ i = 1 /\ n = "pages"
       /\ \A d \in dirs \ dirs' : pc[owner[d]] = "cleanup"]_vars
  BY <1>1, <1>2
<1> QED
  BY <1>3, DirInvariance, PTL DEF TasksStable, Spec

-----------------------------------------------------------------------------
(***************************************************************************)
(* What UntarFiles leaves                                                  *)
(***************************************************************************)

LEMMA NothingExtracted ==
  ASSUME NEW tar, NEW n
  PROVE  Extracted(tar, n, 0) = Absent
BY DEF Extracted, Picked, LastOf

LEMMA PickedLast ==
  ASSUME NEW entries, NEW n, NEW k, NEW old, NEW i, LastOf(entries, n, k) = {i}
  PROVE  Picked(entries, n, k, old) = entries[i].data
<1>1. (CHOOSE j \in {i} : TRUE) = i /\ {i} # {}
  OBVIOUS
<1> DEFINE last == LastOf(entries, n, k)
<1>2. last # {} /\ (CHOOSE j \in last : TRUE) = i
  BY <1>1
<1> QED
  BY <1>2 DEF Picked

LEMMA PickedSame ==
  ASSUME NEW entries, NEW n, NEW k, NEW m, NEW old,
         LastOf(entries, n, k) = LastOf(entries, n, m)
  PROVE  Picked(entries, n, k, old) = Picked(entries, n, m, old)
BY DEF Picked

(* One more entry replaces what was left of its name and of no other.        *)
LEMMA OneMoreExtracted ==
  ASSUME NEW tar, NEW n, NEW k \in Nat
  PROVE  Extracted(tar, n, k + 1) =
           IF tar.entries[k + 1].name = n THEN tar.entries[k + 1].data
           ELSE Extracted(tar, n, k)
<1> DEFINE entries == tar.entries
<1>1. CASE entries[k + 1].name = n
  <2>1. LastOf(entries, n, k + 1) = {k + 1}
    <3>1. ASSUME NEW i \in LastOf(entries, n, k + 1) PROVE i = k + 1
      <4>1. i \in 1..(k + 1) /\ \A j \in (i + 1)..(k + 1) : entries[j].name # n
        BY DEF LastOf
      <4>2. k + 1 \notin (i + 1)..(k + 1)
        BY <1>1, <4>1
      <4> QED
        BY <4>1, <4>2
    <3>2. k + 1 \in LastOf(entries, n, k + 1)
      BY <1>1 DEF LastOf
    <3> QED
      BY <3>1, <3>2
  <2>2. Picked(entries, n, k + 1, Absent) = entries[k + 1].data
    BY <2>1, PickedLast
  <2> QED
    BY <1>1, <2>2 DEF Extracted
<1>2. CASE entries[k + 1].name # n
  <2>1. LastOf(entries, n, k + 1) = LastOf(entries, n, k)
    <3>1. ASSUME NEW i \in LastOf(entries, n, k + 1) PROVE i \in LastOf(entries, n, k)
      <4>1. /\ i \in 1..(k + 1) /\ entries[i].name = n
            /\ \A j \in (i + 1)..(k + 1) : entries[j].name # n
        BY DEF LastOf
      <4>2. i \in 1..k /\ \A j \in (i + 1)..k : entries[j].name # n
        BY <1>2, <4>1
      <4> QED
        BY <4>1, <4>2 DEF LastOf
    <3>2. ASSUME NEW i \in LastOf(entries, n, k) PROVE i \in LastOf(entries, n, k + 1)
      <4>1. /\ i \in 1..k /\ entries[i].name = n
            /\ \A j \in (i + 1)..k : entries[j].name # n
        BY DEF LastOf
      <4>2. i \in 1..(k + 1) /\ \A j \in (i + 1)..(k + 1) : j \in (i + 1)..k \/ j = k + 1
        BY <4>1
      <4> QED
        BY <1>2, <4>1, <4>2 DEF LastOf
    <3> QED
      BY <3>1, <3>2
  <2>2. Picked(entries, n, k + 1, Absent) = Picked(entries, n, k, Absent)
    BY <2>1, PickedSame
  <2> QED
    BY <1>2, <2>2 DEF Extracted
<1> QED
  BY <1>1, <1>2

(* So a directory that holds what k entries left holds, once the next one is   *)
(* extracted, what k + 1 entries leave.                                      *)
LEMMA HoldsOneMore ==
  ASSUME NEW c, NEW fs \in FilesType, NEW tar, NEW k \in Nat,
         HoldsFirst(c, fs, tar, k)
  PROVE  HoldsFirst(c, Extract(fs, tar.entries[k + 1], Required(c)), tar, k + 1)
<1> DEFINE entry == tar.entries[k + 1]
<1>1. SUFFICES ASSUME NEW n \in Required(c)
               PROVE  Extract(fs, entry, Required(c))[n] = Extracted(tar, n, k + 1)
  BY DEF HoldsFirst
<1>2. n \in Names /\ fs[n] = Extracted(tar, n, k)
  BY PagesNotRequired DEF HoldsFirst
<1>3. CASE entry.name = n
  BY <1>2, <1>3, OneMoreExtracted DEF Extract, Matches, FilesType
<1>4. CASE entry.name # n
  BY <1>2, <1>4, OneMoreExtracted DEF Extract, Matches, FilesType
<1> QED
  BY <1>3, <1>4

-----------------------------------------------------------------------------
(***************************************************************************)
(* Every step keeps Output                                                 *)
(***************************************************************************)

LEMMA InitOutput == Init => \A p \in Procs : Output(p)
BY DEF Init, Output, Loads, Fills, Answers, Tells, Outcome, Loading, Rendering

(* The output of an invocation that does not move depends on its directories   *)
(* alone.                                                                    *)
LEMMA StillOutput ==
  ASSUME NEW p \in Procs, Output(p),
         pc'[p] = pc[p], cmd'[p] = cmd[p], args'[p] = args[p], tasks'[p] = tasks[p],
         cur'[p] = cur[p], source'[p] = source[p], pos'[p] = pos[p],
         report'[p] = report[p], out'[p] = out[p], status'[p] = status[p],
         \A d \in Held(p) : content'[d] = content[d]
  PROVE  Output(p)'
<1>1. \A i \in 1..Len(tasks[p]) : Files(p, i)' = Files(p, i)
  BY DEF Files, Held, TaskDirs
<1>2. pc[p] \in {"open", "untar"} => content'[cur[p]] = content[cur[p]]
  BY DEF Held, Filling
<1>3. Loads(p)'
  BY <1>1 DEF Output, Loads
<1>4. Fills(p)'
  BY <1>2 DEF Output, Fills, Reading
<1>5. Answers(p)' /\ Outcome(p)'
  BY DEF Output, Answers, Outcome
<1> QED
  BY <1>3, <1>4, <1>5 DEF Output

(* The local variables of all invocations but p stay.                       *)
Moves(p) ==
  \A q \in Procs \ {p} :
    /\ pc'[q] = pc[q] /\ cmd'[q] = cmd[q] /\ args'[q] = args[q] /\ tasks'[q] = tasks[q]
    /\ cur'[q] = cur[q] /\ source'[q] = source[q] /\ pos'[q] = pos[q]
    /\ report'[q] = report[q] /\ out'[q] = out[q] /\ status'[q] = status[q]

LEMMA OthersOutput ==
  ASSUME OutInv, [Next]_vars, NEW p \in Procs, Moves(p),
         Start(p) \/ Step(p) \/ Kill(p),
         NEW q \in Procs \ {p}
  PROVE  Output(q)'
<1>1. ~Untar(q) /\ ~MemPages(q)
  <2>1. pos'[q] = pos[q] /\ pos[q] \in Nat /\ pos \in [Procs -> Nat \ {0}]
    BY DEF Moves, OutInv, Inv, TypeInv, ValuesOK
  <2>2. ~Untar(q)
    BY <2>1 DEF Untar
  <2>3. ~MemPages(q)
    BY DEF MemPages, Moves, Goto, Finish, OutInv, Inv, TypeInv, ValuesOK
  <2> QED
    BY <2>2, <2>3
<1>2. \A d \in Held(q) : content'[d] = content[d]
  BY <1>1, OwnFiles DEF OutInv
<1> QED
  BY <1>2, StillOutput DEF OutInv, Moves

(* A step of CreateTasks that only moves on, an exit or a kill.              *)
LEMMA GotoOutput ==
  ASSUME TypeInv, NEW p \in Procs, Output(p),
         NEW next \in {"scan", "mkdir", "exit", "killed"},
         next \in Loading => pc[p] \in {"stat", "scan"},
         Goto(p, next), UNCHANGED <<content, command, tasks, loader, result, status>>
  PROVE  Output(p)'
<1>1. pc'[p] = next
  BY DEF TypeInv, ValuesOK, Goto
<1>2. UNCHANGED <<content, cmd, args, tasks, cur, source, pos, report, out, status>>
  BY DEF command, loader, result
<1>3. Loads(p)'
  <2>1. CASE next \in {"scan", "mkdir"}
    <3>1. pc[p] \in Loading /\ pc[p] # "untar" /\ next # "untar" /\ next \notin Rendering
      BY <2>1 DEF Loading, Rendering
    <3> QED
      BY <1>1, <1>2, <3>1 DEF Output, Loads, Files
  <2>2. CASE next \in {"exit", "killed"}
    BY <1>1, <2>2 DEF Loads, Loading, Rendering
  <2> QED
    BY <2>1, <2>2
<1>4. Fills(p)'
  BY <1>1 DEF Fills
<1>5. Answers(p)'
  BY <1>1, <1>2 DEF Output, Answers, Loading
<1>6. Outcome(p)'
  BY <1>2 DEF Output, Outcome
<1> QED
  BY <1>3, <1>4, <1>5, <1>6 DEF Output

LEMMA FailLoadOutput ==
  ASSUME TypeInv, NEW p \in Procs, Output(p), pc[p] \in Loading, FailLoad(p)
  PROVE  Output(p)'
<1>1. pc'[p] = "cleanup" /\ status'[p] = "loadError"
  BY DEF TypeInv, ValuesOK, FailLoad, Finish
<1>2. UNCHANGED <<cmd, args, source, report, out>> /\ out[p] = <<>>
  BY DEF FailLoad, command, loader, result, Output, Answers
<1>3. Loads(p)' /\ Fills(p)'
  BY <1>1 DEF Loads, Fills, Loading, Rendering
<1>4. Answers(p)'
  BY <1>1, <1>2 DEF Output, Answers, Loading
<1>5. Outcome(p)'
  BY <1>1, <1>2 DEF Outcome
<1> QED
  BY <1>3, <1>4, <1>5 DEF Output

LEMMA StartOutput ==
  ASSUME OutInv, NEW p \in Procs, Start(p)
  PROVE  Output(p)'
<1>1. ValuesOK /\ Output(p) /\ pc[p] = "idle" /\ pc'[p] = "stat"
  BY DEF OutInv, Inv, TypeInv, ValuesOK, Start, Goto
<1>2. UNCHANGED <<cmd, tasks, source, report, out, status>>
  BY DEF Start, loader, result
<1>3. tasks[p] = <<>> /\ report[p] = <<>> /\ source[p] = <<>> /\ out[p] = <<>>
  BY <1>1 DEF OutInv, Inv, TypeInv, Phase, Output, Answers
<1>4. status[p] = "none"
  BY <1>1 DEF OutInv, Inv, DirInv, Undecided, Working
<1> QED
  BY <1>1, <1>2, <1>3, <1>4
  DEF Output, Loads, Fills, Answers, Tells, Outcome, Loading, Rendering

LEMMA MkdirOutput ==
  ASSUME OutInv, NEW p \in Procs, Mkdir(p)
  PROVE  Output(p)'
<1>1. PICK d \in FreshDirs : /\ content' = [content EXCEPT ![d] = NoFiles]
                             /\ cur' = [cur EXCEPT ![p] = d]
  BY DEF Mkdir
<1>2. /\ ValuesOK /\ Output(p) /\ Private(p) /\ pc[p] = "mkdir" /\ pc'[p] = "open"
      /\ d \in Dirs /\ cur'[p] = d /\ content'[d] = NoFiles
      /\ \A e \in dirs : content'[e] = content[e]
  BY <1>1 DEF OutInv, Inv, TypeInv, DirInv, ValuesOK, Mkdir, Goto, FreshDirs
<1>3. UNCHANGED <<cmd, args, tasks, source, pos, report, out, status>>
  BY DEF Mkdir, command, result
<1>4. Loads(p)'
  <2>1. \A i \in 1..Len(tasks[p]) : Files(p, i)' = Files(p, i)
    BY <1>2, <1>3 DEF Private, Held, TaskDirs, Files
  <2> QED
    BY <1>2, <1>3, <2>1 DEF Output, Loads, Loading, Rendering
<1>5. Fills(p)'
  BY <1>2 DEF Fills
<1>6. Answers(p)'
  BY <1>2, <1>3 DEF Output, Answers, Loading
<1>7. Outcome(p)'
  BY <1>2, <1>3 DEF Output, Outcome
<1> QED
  BY <1>4, <1>5, <1>6, <1>7 DEF Output

(* While CreateTasks loads nothing is collected, printed or decided.         *)
LEMMA LoadingAnswers ==
  ASSUME Inv, NEW p \in Procs, Output(p), pc[p] \in Loading,
         pc'[p] \in Loading \union {"collect"},
         UNCHANGED <<cmd, args, report, out, status>>
  PROVE  Answers(p)' /\ Outcome(p)'
<1>1. report[p] = <<>> /\ out[p] = <<>>
  BY DEF Inv, TypeInv, Phase, Output, Answers
<1>2. status[p] = "none"
  BY DEF Inv, DirInv, Undecided, Working
<1>3. \A c, as, opened : Tells(c, as, opened, <<>>)
  BY DEF Tells
<1>4. Answers(p)'
  BY <1>1, <1>3 DEF Answers, Loading
<1>5. Outcome(p)'
  BY <1>1, <1>2 DEF Outcome
<1> QED
  BY <1>4, <1>5

LEMMA OpenOutput ==
  ASSUME OutInv, NEW p \in Procs, Open(p), ~FailLoad(p)
  PROVE  Output(p)'
<1> DEFINE tar == archive[Input(p)]
<1>1. /\ ValuesOK /\ Output(p) /\ pc[p] = "open" /\ pc'[p] = "untar"
      /\ source'[p] = Append(source[p], tar) /\ pos'[p] = 1
  BY DEF OutInv, Inv, TypeInv, ValuesOK, Open, Goto
<1>2. UNCHANGED <<content, cmd, args, tasks, cur, report, out, status>>
  BY DEF Open, files, command, result
<1>3. tar \in Tars /\ source[p] \in Seq(Tars) /\ Len(tar.entries) \in Nat
  <2>1. tar \in Tars /\ source[p] \in Seq(Tars)
    BY <1>1, InputType DEF OutInv, Inv, ValuesOK, Loading
  <2> QED
    BY <2>1, TasksAssumption DEF TarType
<1> HIDE DEF tar
<1>4. /\ Len(source'[p]) = Len(source[p]) + 1 /\ Last(source'[p]) = tar
      /\ \A i \in 1..Len(source[p]) : source'[p][i] = source[p][i]
  BY <1>1, <1>3 DEF Last
<1>5. Loads(p)'
  <2>1. Len(source[p]) = Len(tasks[p])
    BY <1>1 DEF Output, Loads, Loading
  <2>2. \A i \in 1..Len(tasks[p]) : tasks[p][i].path = args[p][i]
                                   /\ Holds(cmd[p], Files(p, i), source[p][i])
    BY <1>1 DEF Output, Loads, Loading
  <2>3. \A i \in 1..Len(tasks[p]) : Files(p, i)' = Files(p, i)
    BY <1>2 DEF Files
  <2> QED
    BY <1>1, <1>2, <1>4, <2>1, <2>2, <2>3 DEF Loads, Rendering
<1>6. Fills(p)'
  <2>1. content'[cur'[p]] = NoFiles /\ cmd'[p] = cmd[p]
    BY <1>1, <1>2 DEF Output, Fills
  <2>2. HoldsFirst(cmd[p], NoFiles, tar, 0)
    BY PagesNotRequired, NothingExtracted DEF HoldsFirst, NoFiles
  <2> QED
    BY <1>1, <1>3, <1>4, <2>1, <2>2 DEF Fills, Reading
<1>7. Answers(p)' /\ Outcome(p)'
  BY <1>1, <1>2, LoadingAnswers DEF OutInv, Loading
<1> QED
  BY <1>5, <1>6, <1>7 DEF Output

LEMMA UntarOutput ==
  ASSUME OutInv, NEW p \in Procs, Untar(p)
  PROVE  Output(p)'
<1> DEFINE tar == Reading(p)
           fs == Extract(content[cur[p]], tar.entries[pos[p]], Required(cmd[p]))
<1>1. /\ ValuesOK /\ Output(p) /\ Private(p) /\ pc[p] = "untar" /\ pc'[p] = "untar"
      /\ cur[p] \in Dirs /\ content[cur[p]] \in FilesType
      /\ tar.entries \in Seq(EntryType)
      /\ content'[cur[p]] = fs /\ pos'[p] = pos[p] + 1
      /\ \A d \in Dirs \ {cur[p]} : content'[d] = content[d]
      /\ pos[p] \in Nat /\ pos[p] > 0 /\ pos[p] <= Len(tar.entries)
  BY ReadingType DEF OutInv, Inv, TypeInv, DirInv, ValuesOK, Untar, FilesType
<1>2. UNCHANGED <<cmd, args, tasks, cur, source, report, out, status>>
  BY DEF Untar, command, result
<1> HIDE DEF fs
<1>3. Loads(p)'
  <2>1. ASSUME NEW i \in 1..Len(tasks[p]) PROVE Files(p, i)' = Files(p, i)
    <3>1. tasks[p][i].dir \in Held(p) /\ tasks[p][i].dir \in Dirs /\ tasks[p][i].dir # cur[p]
      BY <1>1 DEF Private, Held, TaskDirs, Filling, ValuesOK, TaskType
    <3> QED
      BY <1>1, <1>2, <3>1 DEF Files
  <2> QED
    BY <1>1, <1>2, <2>1 DEF Output, Loads
<1>4. Fills(p)'
  <2>1. HoldsFirst(cmd[p], content[cur[p]], tar, pos[p] - 1) /\ pos[p] - 1 \in Nat
    BY <1>1 DEF Output, Fills
  <2>2. (pos[p] - 1) + 1 = pos[p] /\ (pos[p] + 1) - 1 = pos[p]
    BY <1>1
  <2>3. HoldsFirst(cmd[p], fs, tar, pos[p])
    BY <1>1, <2>1, <2>2, HoldsOneMore DEF fs
  <2>4. Reading(p)' = tar /\ cmd'[p] = cmd[p] /\ cur'[p] = cur[p]
    BY <1>2 DEF Reading
  <2> HIDE DEF tar
  <2> QED
    BY <1>1, <2>2, <2>3, <2>4 DEF Fills
<1>5. Answers(p)' /\ Outcome(p)'
  BY <1>1, <1>2, LoadingAnswers DEF OutInv, Loading
<1> QED
  BY <1>3, <1>4, <1>5 DEF Output

LEMMA UntarEndsOutput ==
  ASSUME OutInv, NEW p \in Procs, UntarEnds(p), ~FailLoad(p)
  PROVE  Output(p)'
<1> DEFINE t == [path |-> Input(p), dir |-> cur[p]]
<1> PICK n : n = Len(tasks[p])
  OBVIOUS
<1>1. /\ ValuesOK /\ Output(p) /\ pc[p] = "untar"
      /\ tasks'[p] = Append(tasks[p], t) /\ cur[p] \in Dirs
      /\ pc'[p] = IF MoreInputs(p) THEN "stat" ELSE "collect"
      /\ pos[p] > Len(Reading(p).entries) /\ pos[p] \in Nat
      /\ Reading(p).entries \in Seq(EntryType)
  BY ReadingType DEF OutInv, Inv, TypeInv, ValuesOK, UntarEnds, Goto
<1>2. UNCHANGED <<content, cmd, args, source, report, out, status>>
  BY DEF UntarEnds, files, command, result
<1>3. t \in TaskType /\ tasks[p] \in Seq(TaskType) /\ n \in Nat
  <2>1. Input(p) \in Archives
    BY <1>1, InputType DEF OutInv, Inv, Loading
  <2>2. t \in TaskType
    BY <1>1, <2>1 DEF TaskType
  <2> QED
    BY <1>1, <2>2 DEF ValuesOK
<1>4. Input(p) = args[p][n + 1] /\ t.path = Input(p) /\ t.dir = cur[p]
  BY DEF Input
<1> HIDE DEF t
<1>5. /\ Len(tasks'[p]) = n + 1 /\ tasks'[p][n + 1] = t
      /\ \A i \in 1..n : tasks'[p][i] = tasks[p][i]
  BY <1>1, <1>3, AppendTask
<1>6. pc'[p] # "untar" /\ pc'[p] # "open" /\ pc'[p] \in {"stat", "collect"}
  BY <1>1
<1>7. Loads(p)'
  <2>1. /\ Len(source[p]) = n + 1
        /\ \A i \in 1..n : tasks[p][i].path = args[p][i]
                           /\ Holds(cmd[p], Files(p, i), source[p][i])
    BY <1>1 DEF Output, Loads, Loading
  <2>2. \A i \in 1..n : Files(p, i)' = Files(p, i)
    BY <1>2, <1>5 DEF Files
  <2>3. Files(p, n + 1)' = content[cur[p]]
    BY <1>2, <1>4, <1>5 DEF Files
  <2>4. Holds(cmd[p], content[cur[p]], source[p][n + 1])
    <3>1. Reading(p) = source[p][n + 1]
      BY <2>1 DEF Reading, Last
    <3>2. pos[p] - 1 = Len(Reading(p).entries)
      <4> PICK m : m = Len(Reading(p).entries)
        OBVIOUS
      <4>1. m \in Nat
        BY <1>1
      <4>2. pos[p] <= m + 1
        BY <1>1 DEF Output, Fills
      <4>3. pos[p] > m /\ pos[p] \in Nat
        BY <1>1
      <4>4. pos[p] - 1 = m
        BY <4>1, <4>2, <4>3
      <4> QED
        BY <4>4
    <3> QED
      BY <1>1, <3>1, <3>2 DEF Output, Fills, Holds
  <2>5. ASSUME NEW i \in 1..(n + 1)
        PROVE  tasks'[p][i].path = args[p][i] /\ Holds(cmd[p], Files(p, i)', source[p][i])
    <3>1. CASE i \in 1..n
      BY <1>5, <2>1, <2>2, <3>1
    <3>2. CASE i = n + 1
      BY <1>4, <1>5, <2>3, <2>4, <3>2
    <3> QED
      BY <1>3, <3>1, <3>2
  <2>6. pc'[p] = "collect" => n + 1 = Len(args[p])
    <3>1. n < Len(args[p]) /\ Len(args[p]) \in Nat
      BY <1>1 DEF OutInv, Inv, TypeInv, Phase, HasInput, Loading, ValuesOK
    <3>2. MoreInputs(p) <=> n + 1 < Len(args[p])
      BY <1>5 DEF MoreInputs
    <3> QED
      BY <1>1, <1>3, <3>1, <3>2
  <2> QED
    BY <1>2, <1>3, <1>5, <1>6, <2>1, <2>5, <2>6 DEF Loads, Rendering
<1>8. Fills(p)'
  BY <1>6 DEF Fills
<1>9. Answers(p)' /\ Outcome(p)'
  BY <1>1, <1>2, <1>6, LoadingAnswers DEF OutInv, Loading
<1> QED
  BY <1>7, <1>8, <1>9 DEF Output

-----------------------------------------------------------------------------
(***************************************************************************)
(* The steps of the renderers                                              *)
(***************************************************************************)

(* Once every archive is loaded there is a task, and an opened archive, for    *)
(* each path; until the end show, inspect and diff have printed nothing.      *)
LEMMA RenderingFacts ==
  ASSUME OutInv, NEW p \in Procs, pc[p] \in Rendering
  PROVE  /\ Len(source[p]) = Len(args[p]) /\ Len(tasks[p]) = Len(args[p])
         /\ cmd[p] \in PrintsAtEnd => out[p] = <<>>
         /\ status[p] = "none"
         /\ Tells(cmd[p], args[p], source[p], report[p])
         /\ Tells(cmd[p], args[p], source[p], out[p])
<1>1. Output(p) /\ Undecided(p) /\ pc[p] # "untar"
  BY DEF OutInv, Inv, DirInv, Rendering
<1>2. Len(tasks[p]) = Len(args[p]) /\ Len(tasks[p]) \in Nat
  BY <1>1 DEF Output, Loads, OutInv, Inv, TypeInv, ValuesOK
<1>3. Len(source[p]) = Len(tasks[p])
  BY <1>1, <1>2 DEF Output, Loads
<1>4. cmd[p] \in PrintsAtEnd => out[p] = <<>>
  BY <1>1 DEF Output, Answers, Rendering, PrintsAtEnd
<1> QED
  BY <1>1, <1>2, <1>3, <1>4 DEF Output, Answers, Undecided, Working

(* What is shown of a task tells of the archive it was extracted from.       *)
LEMMA ItemTells ==
  ASSUME OutInv, NEW p \in Procs, pc[p] \in Rendering, NEW i \in 1..Len(tasks[p]), NEW whole
  PROVE  /\ Item(p, i, whole).path = args[p][i]
         /\ Holds(cmd[p], Item(p, i, whole).files, source[p][i])
BY DEF OutInv, Output, Loads, Item

LEMMA TellsAppend ==
  ASSUME NEW c, NEW as, NEW opened, NEW items \in Seq(ReportType), NEW item \in ReportType,
         Tells(c, as, opened, items),
         item.path = as[Len(items) + 1], Holds(c, item.files, opened[Len(items) + 1])
  PROVE  Tells(c, as, opened, Append(items, item))
<1> DEFINE more == Append(items, item)
<1> PICK n : n = Len(items)
  OBVIOUS
<1>1. /\ Len(more) = n + 1 /\ n \in Nat /\ more[n + 1] = item
      /\ \A i \in 1..n : more[i] = items[i]
  OBVIOUS
<1> HIDE DEF more
<1>2. ASSUME NEW i \in 1..Len(more)
      PROVE  more[i].path = as[i] /\ Holds(c, more[i].files, opened[i])
  <2>1. CASE i \in 1..n
    BY <1>1, <2>1 DEF Tells
  <2>2. CASE i = n + 1
    BY <1>1, <2>2
  <2>3. i \in 1..n \/ i = n + 1
    BY <1>1
  <2> QED
    BY <2>1, <2>2, <2>3
<1> QED
  BY <1>2 DEF Tells, more

LEMMA TellsOne ==
  ASSUME NEW c, NEW as, NEW opened, NEW item,
         item.path = as[1], Holds(c, item.files, opened[1])
  PROVE  Tells(c, as, opened, <<item>>) /\ Tells(c, as, opened, <<>>)
<1>1. Tells(c, as, opened, <<>>)
  BY DEF Tells
<1>2. ASSUME NEW i \in 1..Len(<<item>>)
      PROVE  <<item>>[i].path = as[i] /\ Holds(c, <<item>>[i].files, opened[i])
  <2>1. i = 1
    OBVIOUS
  <2>2. <<item>>[1] = item
    OBVIOUS
  <2> QED
    BY <2>1, <2>2
<1>3. Tells(c, as, opened, <<item>>)
  BY <1>2 DEF Tells
<1> QED
  BY <1>1, <1>3

(* A command ends with what it has collected and printed.                   *)
LEMMA FinishOutput ==
  ASSUME NEW p \in Procs, pc'[p] = "cleanup", UNCHANGED <<cmd, args, source>>,
         Tells(cmd[p], args[p], source[p], report'[p]),
         Tells(cmd[p], args[p], source[p], out'[p]),
         Outcome(p)'
  PROVE  Output(p)'
<1>1. Loads(p)' /\ Fills(p)'
  BY DEF Loads, Fills, Loading, Rendering
<1>2. Answers(p)'
  BY DEF Answers, Loading
<1> QED
  BY <1>1, <1>2 DEF Output

LEMMA FailRenderOutput ==
  ASSUME OutInv, NEW p \in Procs, pc[p] \in Rendering, FailRender(p)
  PROVE  Output(p)'
<1>1. pc'[p] = "cleanup" /\ status'[p] = "renderError"
  BY DEF OutInv, Inv, TypeInv, ValuesOK, FailRender, Finish
<1>2. UNCHANGED <<cmd, args, source, report, out>>
  BY DEF FailRender, command, loader, result
<1>3. Outcome(p)'
  BY <1>1, <1>2, RenderingFacts DEF Outcome
<1> QED
  BY <1>1, <1>2, <1>3, RenderingFacts, FinishOutput

LEMMA CollectOutput ==
  ASSUME OutInv, NEW p \in Procs, Collect(p), ~FailRender(p)
  PROVE  Output(p)'
<1> PICK k : k = Index(p)
  OBVIOUS
<1> PICK item : item = Item(p, k, TRUE)
  OBVIOUS
<1>1. /\ ValuesOK /\ pc[p] = "collect" /\ pc[p] \in Rendering /\ cmd[p] \in PrintsAtEnd
      /\ report'[p] = Append(report[p], item)
      /\ pc'[p] = IF AtLast(p) THEN "print" ELSE "collect"
      /\ Output(p)
  BY DEF OutInv, Inv, TypeInv, ValuesOK, Collect, Goto, Rendering
<1>2. UNCHANGED <<content, cmd, args, tasks, source, out, status>>
  BY DEF Collect, files, command, loader
<1>3. /\ Len(report[p]) \in Nat /\ report[p] \in Seq(ReportType) /\ Len(tasks[p]) \in Nat
      /\ k = Len(report[p]) + 1 /\ Considered(p) = Len(tasks[p])
      /\ k \in 1..Len(tasks[p])
  <2>1. Len(report[p]) < Considered(p)
    BY <1>1 DEF OutInv, Inv, TypeInv, Phase
  <2>2. Considered(p) = Len(tasks[p])
    BY <1>1 DEF Considered, PrintsAtEnd
  <2>3. /\ Len(report[p]) \in Nat /\ report[p] \in Seq(ReportType) /\ Len(tasks[p]) \in Nat
    BY <1>1 DEF ValuesOK
  <2> QED
    BY <2>1, <2>2, <2>3 DEF Index
<1>4. item \in ReportType /\ item.path = args[p][k] /\ Holds(cmd[p], item.files, source[p][k])
  BY <1>1, <1>3, ItemType, ItemTells
<1>5. Tells(cmd[p], args[p], source[p], report'[p]) /\ Len(report'[p]) = k
  <2>1. Tells(cmd[p], args[p], source[p], report[p])
    BY <1>1, RenderingFacts
  <2>2. /\ item.path = args[p][Len(report[p]) + 1]
        /\ Holds(cmd[p], item.files, source[p][Len(report[p]) + 1])
    BY <1>3, <1>4
  <2>3. Tells(cmd[p], args[p], source[p], Append(report[p], item))
    BY <1>3, <1>4, <2>1, <2>2, TellsAppend
  <2>4. Len(Append(report[p], item)) = k
    BY <1>3, <1>4
  <2> QED
    BY <1>1, <2>3, <2>4
<1>6. out[p] = <<>> /\ Len(tasks[p]) = Len(args[p]) /\ status[p] = "none"
  BY <1>1, RenderingFacts
<1>7. pc'[p] = "print" => k = Len(args[p])
  BY <1>1, <1>3, <1>6 DEF AtLast
<1>8. pc'[p] \in {"print", "collect"} /\ pc'[p] \in Rendering
  BY <1>1 DEF Rendering
<1>9. Loads(p)'
  <2>1. \A i \in 1..Len(tasks[p]) : Files(p, i)' = Files(p, i)
    BY <1>2 DEF Files
  <2> QED
    BY <1>1, <1>2, <1>8, <2>1 DEF Output, Loads
<1>10. Fills(p)'
  BY <1>8 DEF Fills
<1>11. Answers(p)'
  <2>1. cmd[p] # "memparse" /\ Tells(cmd[p], args[p], source[p], out[p])
    BY <1>1, RenderingFacts DEF PrintsAtEnd
  <2> QED
    BY <1>1, <1>2, <1>5, <1>6, <1>7, <1>8, <2>1 DEF Answers, Loading
<1>12. Outcome(p)'
  BY <1>2, <1>6 DEF Outcome
<1> QED
  BY <1>9, <1>10, <1>11, <1>12 DEF Output

LEMMA PrintReportOutput ==
  ASSUME OutInv, NEW p \in Procs, PrintReport(p)
  PROVE  Output(p)'
<1>1. /\ pc[p] = "print" /\ pc[p] \in Rendering /\ pc'[p] = "cleanup" /\ status'[p] = "ok"
      /\ out'[p] = report[p] /\ Output(p)
  BY DEF OutInv, Inv, TypeInv, ValuesOK, PrintReport, Finish, Rendering
<1>2. UNCHANGED <<cmd, args, source, report>>
  BY DEF PrintReport, command, loader
<1>3. cmd[p] \in PrintsAtEnd /\ cmd[p] # "memparse --pid" /\ Len(report[p]) = Len(args[p])
  BY <1>1 DEF Output, Answers, PrintsAtEnd
<1>4. Outcome(p)'
  BY <1>1, <1>2, <1>3, RenderingFacts DEF Outcome
<1> QED
  BY <1>1, <1>2, <1>4, RenderingFacts, FinishOutput

LEMMA MemTableOutput ==
  ASSUME OutInv, NEW p \in Procs, MemTable(p), ~FailRender(p)
  PROVE  Output(p)'
<1> PICK k : k = Index(p)
  OBVIOUS
<1> PICK item : item = Item(p, k, TRUE)
  OBVIOUS
<1>1. /\ ValuesOK /\ pc[p] = "collect" /\ pc[p] \in Rendering /\ cmd[p] = "memparse"
      /\ report'[p] = Append(report[p], item) /\ out'[p] = Append(out[p], item)
      /\ Output(p)
  BY DEF OutInv, Inv, TypeInv, ValuesOK, MemTable, Rendering
<1>2. UNCHANGED <<content, cmd, args, tasks, source>>
  BY DEF MemTable, files, command, loader
<1>3. /\ Len(report[p]) \in Nat /\ report[p] \in Seq(ReportType) /\ Len(tasks[p]) \in Nat
      /\ k = Len(report[p]) + 1 /\ Considered(p) = Len(tasks[p])
      /\ k \in 1..Len(tasks[p])
  <2>1. Len(report[p]) < Considered(p)
    BY <1>1 DEF OutInv, Inv, TypeInv, Phase
  <2>2. Considered(p) = Len(tasks[p])
    BY <1>1 DEF Considered
  <2>3. /\ Len(report[p]) \in Nat /\ report[p] \in Seq(ReportType) /\ Len(tasks[p]) \in Nat
    BY <1>1 DEF ValuesOK
  <2> QED
    BY <2>1, <2>2, <2>3 DEF Index
<1>4. item \in ReportType /\ item.path = args[p][k] /\ Holds(cmd[p], item.files, source[p][k])
  BY <1>1, <1>3, ItemType, ItemTells
<1>5. Tells(cmd[p], args[p], source[p], report'[p]) /\ Len(report'[p]) = k
  <2>1. Tells(cmd[p], args[p], source[p], report[p])
    BY <1>1, RenderingFacts
  <2>2. /\ item.path = args[p][Len(report[p]) + 1]
        /\ Holds(cmd[p], item.files, source[p][Len(report[p]) + 1])
    BY <1>3, <1>4
  <2>3. Tells(cmd[p], args[p], source[p], Append(report[p], item))
    BY <1>3, <1>4, <2>1, <2>2, TellsAppend
  <2>4. Len(Append(report[p], item)) = k
    BY <1>3, <1>4
  <2> QED
    BY <1>1, <2>3, <2>4
<1>6. out'[p] = report'[p]
  BY <1>1 DEF Output, Answers
<1>7. /\ Len(tasks[p]) = Len(args[p]) /\ status[p] = "none"
      /\ Len(source[p]) = Len(args[p]) /\ cmd[p] \notin PrintsAtEnd
  BY <1>1, RenderingFacts DEF PrintsAtEnd
<1>8. CASE AtLast(p)
  <2>1. pc'[p] = "cleanup" /\ status'[p] = "ok"
    BY <1>8 DEF OutInv, Inv, TypeInv, ValuesOK, MemTable, Finish
  <2>2. k = Len(args[p])
    BY <1>3, <1>7, <1>8 DEF AtLast
  <2>3. Outcome(p)'
    BY <1>1, <1>2, <1>5, <1>6, <1>7, <2>1, <2>2 DEF Outcome
  <2> QED
    BY <1>2, <1>5, <1>6, <2>1, <2>3, FinishOutput
<1>9. CASE ~AtLast(p)
  <2>1. UNCHANGED <<pc, status>>
    BY <1>9 DEF MemTable
  <2>2. Loads(p)'
    <3>1. \A i \in 1..Len(tasks[p]) : Files(p, i)' = Files(p, i)
      BY <1>2 DEF Files
    <3> QED
      BY <1>1, <1>2, <2>1, <3>1 DEF Output, Loads
  <2>3. Fills(p)'
    BY <1>1, <2>1 DEF Fills
  <2>4. Answers(p)'
    BY <1>1, <1>2, <1>5, <1>6, <2>1 DEF Answers, Loading
  <2>5. Outcome(p)'
    BY <1>1, <1>2, <1>7, <2>1 DEF Outcome
  <2> QED
    BY <2>2, <2>3, <2>4, <2>5 DEF Output
<1> QED
  BY <1>8, <1>9

LEMMA MemPagesOutput ==
  ASSUME OutInv, NEW p \in Procs, MemPages(p)
  PROVE  Output(p)'
<1>1. /\ ValuesOK /\ pc[p] = "collect" /\ pc[p] \in Rendering /\ cmd[p] = "memparse --pid"
      /\ pc'[p] \in {"dump", "cleanup"} /\ Output(p)
      /\ status'[p] \in {status[p], "renderError"}
  BY DEF OutInv, Inv, TypeInv, ValuesOK, MemPages, Goto, Finish, Rendering
<1>2. UNCHANGED <<cmd, args, tasks, source, report, out>>
  BY DEF MemPages, command, loader, result
<1>3. out[p] = <<>> /\ status[p] = "none"
  BY <1>1, RenderingFacts DEF Output, Answers
<1>4. Loads(p)'
  <2> SUFFICES ASSUME pc'[p] = "dump" PROVE Loads(p)'
    BY <1>1 DEF Loads, Loading, Rendering
  <2>1. ASSUME NEW i \in 1..Len(tasks[p])
        PROVE  Holds(cmd[p], Files(p, i)', source[p][i])
    <3>1. Holds(cmd[p], Files(p, i), source[p][i])
      BY <1>1 DEF Output, Loads
    <3>2. tasks[p][i].dir \in Dirs
      <4>1. tasks[p][i] \in TaskType
        <5>1. tasks[p] \in Seq(TaskType)
          BY <1>1 DEF ValuesOK
        <5> QED
          BY <5>1
      <4> QED
        BY <4>1 DEF TaskType
    <3>3. ASSUME NEW n \in Names \ {"pages"} PROVE Files(p, i)'[n] = Files(p, i)[n]
      <4>1. content'[tasks[p][1].dir][n] = content[tasks[p][1].dir][n]
        BY PagesWritten DEF OutInv, Inv
      <4>2. tasks[p][i].dir # tasks[p][1].dir =>
              content'[tasks[p][i].dir] = content[tasks[p][i].dir]
        BY <1>1, <3>2 DEF ValuesOK, MemPages
      <4> QED
        BY <1>2, <4>1, <4>2 DEF Files
    <3>4. Required(cmd[p]) \subseteq Names \ {"pages"}
      BY PagesNotRequired
    <3> HIDE DEF Files
    <3> QED
      BY <3>1, <3>3, <3>4 DEF Holds, HoldsFirst
  <2> QED
    BY <1>1, <1>2, <2>1 DEF Output, Loads, Rendering
<1>5. Fills(p)'
  BY <1>1 DEF Fills
<1>6. Answers(p)'
  BY <1>1, <1>2, <1>3 DEF Output, Answers, Loading
<1>7. Outcome(p)'
  BY <1>1, <1>2, <1>3 DEF Outcome
<1> QED
  BY <1>4, <1>5, <1>6, <1>7 DEF Output

LEMMA DumpOutput ==
  ASSUME OutInv, NEW p \in Procs, Dump(p)
  PROVE  Output(p)'
<1> PICK item : item = Item(p, 1, TRUE)
  OBVIOUS
<1>1. /\ pc[p] = "dump" /\ pc[p] \in Rendering /\ pc'[p] = "cleanup" /\ status'[p] = "ok"
      /\ report'[p] = <<item>> /\ out'[p] = <<item>> /\ Output(p)
  BY DEF OutInv, Inv, TypeInv, ValuesOK, Dump, Finish, Rendering
<1>2. UNCHANGED <<cmd, args, source>>
  BY DEF Dump, command, loader
<1>3. item.path = args[p][1] /\ Holds(cmd[p], item.files, source[p][1])
  BY <1>1, FirstTask, ItemTells DEF OutInv, Inv
<1>4. cmd[p] = "memparse --pid" /\ Len(<<item>>) = 1 /\ Len(source[p]) = Len(args[p])
  BY <1>1, RenderingFacts DEF Output, Answers
<1>5. Outcome(p)'
  BY <1>1, <1>2, <1>4 DEF Outcome, PrintsAtEnd
<1> QED
  BY <1>1, <1>2, <1>3, <1>5, TellsOne, FinishOutput

LEMMA DumpFailsOutput ==
  ASSUME OutInv, NEW p \in Procs, DumpFails(p)
  PROVE  Output(p)'
<1> PICK item : item = Item(p, 1, FALSE)
  OBVIOUS
<1>1. /\ pc[p] = "dump" /\ pc[p] \in Rendering /\ pc'[p] = "cleanup"
      /\ status'[p] = "renderError" /\ out'[p] \in {<<>>, <<item>>} /\ Output(p)
  BY DEF OutInv, Inv, TypeInv, ValuesOK, DumpFails, Finish, Rendering
<1>2. UNCHANGED <<cmd, args, source, report>>
  BY DEF DumpFails, command, loader
<1>3. item.path = args[p][1] /\ Holds(cmd[p], item.files, source[p][1])
  BY <1>1, FirstTask, ItemTells DEF OutInv, Inv
<1>4. cmd[p] = "memparse --pid" /\ Len(source[p]) = Len(args[p])
      /\ Tells(cmd[p], args[p], source[p], report[p])
  BY <1>1, RenderingFacts DEF Output, Answers
<1>5. Outcome(p)'
  BY <1>1, <1>2, <1>4 DEF Outcome, PrintsAtEnd
<1>6. Tells(cmd[p], args[p], source[p], out'[p])
  BY <1>1, <1>3, TellsOne
<1> QED
  BY <1>1, <1>2, <1>4, <1>5, <1>6, FinishOutput

LEMMA CleanupOutput ==
  ASSUME OutInv, NEW p \in Procs, Cleanup(p)
  PROVE  Output(p)'
<1>1. pc'[p] = "cleanup" /\ pc[p] = "cleanup" /\ Output(p)
  BY DEF OutInv, Cleanup
<1>2. UNCHANGED <<cmd, args, source, report, out, status>>
  BY DEF Cleanup, command, loader, result
<1>3. Outcome(p)'
  BY <1>1, <1>2 DEF Output, Outcome
<1> QED
  BY <1>1, <1>2, <1>3, FinishOutput DEF Output, Answers

-----------------------------------------------------------------------------
(***************************************************************************)
(* The invariant and the theorems                                          *)
(***************************************************************************)

LEMMA LoadOutput ==
  ASSUME OutInv, NEW p \in Procs, Load(p)
  PROVE  Output(p)'
<1>1. TypeInv /\ Output(p)
  BY DEF OutInv, Inv
<1>2. CASE FailLoad(p)
  <2>1. pc[p] \in Loading
    BY DEF Load, Stat, Scan, Mkdir, MkdirFails, Open, Untar, UntarFails, UntarEnds, Loading
  <2> QED
    BY <1>1, <1>2, <2>1, FailLoadOutput
<1>3. CASE ~FailLoad(p)
  <2>1. CASE Stat(p)
    BY <1>1, <1>3, <2>1, GotoOutput DEF Stat, files, Loading
  <2>2. CASE Scan(p)
    BY <1>1, <1>3, <2>2, GotoOutput DEF Scan, files, Loading
  <2>3. CASE Mkdir(p)
    BY <2>3, MkdirOutput
  <2>4. CASE Open(p)
    BY <1>3, <2>4, OpenOutput
  <2>5. CASE Untar(p)
    BY <2>5, UntarOutput
  <2>6. CASE UntarEnds(p)
    BY <1>3, <2>6, UntarEndsOutput
  <2> QED
    BY <1>3, <2>1, <2>2, <2>3, <2>4, <2>5, <2>6 DEF Load, MkdirFails, UntarFails
<1> QED
  BY <1>2, <1>3

LEMMA BlocksOutput ==
  ASSUME OutInv, NEW p \in Procs, BlocksInPipe(p)
  PROVE  Output(p)'
<1>1. Output(p) /\ pc[p] = "collect" /\ cmd[p] = "diff" /\ pc'[p] = "blocked"
  BY DEF OutInv, Inv, TypeInv, ValuesOK, BlocksInPipe, Goto
<1>2. UNCHANGED <<content, cmd, args, tasks, cur, source, pos, report, out, status>>
  BY DEF BlocksInPipe, files, command, loader, result
<1>3. Loads(p)'
  BY <1>1, <1>2 DEF Output, Loads, Files, Rendering
<1>4. Fills(p)' /\ Answers(p)' /\ Outcome(p)'
  BY <1>1, <1>2 DEF Output, Fills, Answers, Outcome, Loading
<1> QED
  BY <1>3, <1>4 DEF Output

LEMMA RenderOutput ==
  ASSUME OutInv, NEW p \in Procs, Render(p)
  PROVE  Output(p)'
<1>1. CASE FailRender(p)
  <2>1. pc[p] \in Rendering
    BY DEF Render, Collect, BlocksInPipe, PrintReport, MemTable, MemPages, MemPagesFails, Dump,
           DumpFails, Refuse, Refusing, Rendering
  <2> QED
    BY <1>1, <2>1, FailRenderOutput
<1>2. CASE ~FailRender(p)
  BY <1>2, CollectOutput, BlocksOutput, PrintReportOutput, MemTableOutput, MemPagesOutput, DumpOutput,
     DumpFailsOutput
  DEF Render, MemPagesFails, Refuse
<1> QED
  BY <1>1, <1>2

LEMMA StepOutput ==
  ASSUME OutInv, NEW p \in Procs, Start(p) \/ Step(p) \/ Kill(p)
  PROVE  Output(p)'
<1>1. TypeInv /\ Output(p)
  BY DEF OutInv, Inv
<1>2. CASE Exit(p)
  BY <1>1, <1>2, GotoOutput DEF Exit, files, Loading
<1>3. CASE Kill(p)
  BY <1>1, <1>3, GotoOutput DEF Kill, files, Loading
<1> QED
  BY <1>2, <1>3, StartOutput, LoadOutput, RenderOutput, CleanupOutput DEF Step

(* A step of an invocation moves no other.                                  *)
LEMMA StepMoves ==
  ASSUME TypeInv, NEW p \in Procs, Start(p) \/ Step(p) \/ Kill(p)
  PROVE  Moves(p)
<1> USE DEF TypeInv, ValuesOK, Moves, Goto, Finish, files, command, loader, result
<1>1. CASE Start(p)
  BY <1>1 DEF Start
<1>2. CASE Kill(p) \/ Exit(p) \/ Cleanup(p)
  BY <1>2 DEF Kill, Exit, Cleanup
<1>3. CASE FailLoad(p)
  BY <1>3 DEF FailLoad
<1>4. CASE Load(p) /\ ~FailLoad(p)
  <2>1. CASE Stat(p) \/ Scan(p)
    BY <1>4, <2>1 DEF Stat, Scan
  <2>2. CASE Mkdir(p)
    BY <2>2 DEF Mkdir
  <2>3. CASE Open(p)
    BY <1>4, <2>3 DEF Open
  <2>4. CASE Untar(p)
    BY <2>4 DEF Untar
  <2>5. CASE UntarEnds(p)
    BY <1>4, <2>5 DEF UntarEnds
  <2> QED
    BY <1>4, <2>1, <2>2, <2>3, <2>4, <2>5 DEF Load, MkdirFails, UntarFails
<1>5. CASE FailRender(p)
  BY <1>5 DEF FailRender
<1>6. CASE Render(p) /\ ~FailRender(p)
  <2>1. CASE Collect(p)
    BY <1>6, <2>1 DEF Collect
  <2>2. CASE PrintReport(p)
    BY <2>2 DEF PrintReport
  <2>3. CASE MemTable(p)
    <3>1. /\ UNCHANGED <<cmd, args, tasks, cur, source, pos>>
          /\ UNCHANGED <<pc, status>> \/ Finish(p, "ok")
      BY <1>6, <2>3 DEF MemTable
    <3>2. \A q \in Procs \ {p} : report'[q] = report[q] /\ out'[q] = out[q]
      BY <1>6, <2>3 DEF MemTable
    <3> QED
      BY <3>1, <3>2
  <2>4. CASE MemPages(p)
    BY <2>4 DEF MemPages
  <2>5. CASE Dump(p) \/ DumpFails(p)
    BY <2>5 DEF Dump, DumpFails
  <2>6. CASE BlocksInPipe(p)
    BY <2>6 DEF BlocksInPipe
  <2> QED
    BY <1>6, <2>1, <2>2, <2>3, <2>4, <2>5, <2>6 DEF Render, MemPagesFails, Refuse
<1> QED
  BY <1>1, <1>2, <1>3, <1>4, <1>5, <1>6 DEF Step

LEMMA NextOutput ==
  ASSUME OutInv, [Next]_vars
  PROVE  \A p \in Procs : Output(p)'
<1>1. CASE UNCHANGED vars
  BY <1>1, StillOutput DEF OutInv, vars, files, command, loader, result
<1>2. ASSUME NEW a \in Archives, Replace(a) PROVE \A p \in Procs : Output(p)'
  BY <1>2, StillOutput DEF OutInv, Replace, files, command, loader, result
<1>3. ASSUME NEW p \in Procs, Start(p) \/ Step(p) \/ Kill(p)
      PROVE  \A q \in Procs : Output(q)'
  <2>1. Moves(p)
    BY <1>3, StepMoves DEF OutInv, Inv
  <2>2. Output(p)'
    BY <1>3, StepOutput
  <2>3. \A q \in Procs \ {p} : Output(q)'
    BY <1>3, <2>1, OthersOutput
  <2> QED
    BY <2>2, <2>3
<1> QED
  BY <1>1, <1>2, <1>3 DEF Next

LEMMA OutputInvariance == Spec => []OutInv
<1>1. Init => \A p \in Procs : Output(p)
  BY InitOutput
<1>2. Inv /\ Inv' /\ (\A p \in Procs : Output(p)) /\ [Next]_vars => (\A p \in Procs : Output(p))'
  BY NextOutput DEF OutInv
<1>3. Inv /\ (\A p \in Procs : Output(p)) => OutInv
  BY DEF OutInv
<1> QED
  BY <1>1, <1>2, <1>3, DirInvariance, PTL DEF Spec

(* CreateTasks, UntarFiles and the renderers together: item i of what is       *)
(* printed is of path i of the command line, and of the archive opened for    *)
(* it, whatever other invocations and the owners of the archives do; success  *)
(* means an item for each.                                                  *)
THEOREM OutputFaithful == Spec => []FaithfulOutput
<1>1. OutInv => FaithfulOutput
  BY DEF OutInv, Output, Answers, Tells, Holds, HoldsFirst, Outcome, FaithfulOutput
<1> QED
  BY <1>1, OutputInvariance, PTL

(* What is on stdout was printed after every archive was extracted, and of     *)
(* show, inspect and diff only by a command that succeeded.                  *)
THEOREM NoPartialAnswers == Spec => []NoPartialAnswer
<1>1. OutInv => NoPartialAnswer
  BY DEF OutInv, Output, Outcome, NoPartialAnswer, PrintsAtEnd
<1> QED
  BY <1>1, OutputInvariance, PTL
=============================================================================
