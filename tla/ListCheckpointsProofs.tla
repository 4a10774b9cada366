------------------------ MODULE ListCheckpointsProofs ------------------------
(***************************************************************************)
(* Proofs about checkpointctl list for any archives, directories and         *)
(* replacements: types, the temporary directories, where rows come from, and *)
(* that no file goes missing.                                               *)
(***************************************************************************)
EXTENDS ListCheckpoints, FiniteSetTheorems, FunctionTheorems, TLAPS

LEMMA DiskType ==
  ASSUME NEW d
  PROVE  d \in Disk <=> /\ d = [x \in DOMAIN d |-> d[x]]
                        /\ DOMAIN d \subseteq TempDirs
                        /\ \A x \in DOMAIN d : d[x] \in Pair
<1>1. ASSUME d \in Disk
      PROVE  /\ d = [x \in DOMAIN d |-> d[x]]
             /\ DOMAIN d \subseteq TempDirs
             /\ \A x \in DOMAIN d : d[x] \in Pair
  <2>1. PICK D \in SUBSET TempDirs : d \in [D -> Pair]
    BY <1>1 DEF Disk
  <2> QED BY <2>1
<1>2. ASSUME d = [x \in DOMAIN d |-> d[x]], DOMAIN d \subseteq TempDirs,
             \A x \in DOMAIN d : d[x] \in Pair
      PROVE  d \in Disk
  <2>1. d \in [DOMAIN d -> Pair] /\ DOMAIN d \in SUBSET TempDirs
    BY <1>2
  <2> QED BY <2>1 DEF Disk
<1> QED BY <1>1, <1>2

LEMMA Appended ==
  ASSUME NEW S, NEW list \in Seq(S), NEW new \in S
  PROVE  Append(list, new) \in Seq(S)
  OBVIOUS

LEMMA Element ==
  ASSUME NEW S, NEW list \in Seq(S), NEW i \in DOMAIN list
  PROVE  list[i] \in S
  OBVIOUS

(* What is logged, and that a line is such.                                  *)
Lines == [file : Archives, by : {"ExtractConfigDump", "list"}, io : BOOLEAN]

LEMMA LineType ==
  ASSUME NEW f \in Archives, NEW by \in {"ExtractConfigDump", "list"}, NEW io \in BOOLEAN
  PROVE  /\ LogLine(f, by, io) \in Lines /\ LogLine(f, by, io).file = f
         /\ LogLine(f, by, io).by = by /\ LogLine(f, by, io).io = io
BY DEF LogLine, Lines

LEMMA LogType == ListTypeOK => logged \in Seq(Lines)
BY DEF ListTypeOK, Lines

LEMMA QueueHead ==
  ASSUME ListTypeOK, queue # <<>>
  PROVE  Head(queue) \in Archives /\ Tail(queue) \in Seq(Archives)
<1>1. queue \in Seq(Archives)
  BY DEF ListTypeOK
<1> QED BY <1>1

(* One more line keeps the type of the log.                                  *)
LEMMA LineAppended ==
  ASSUME ListTypeOK, queue # <<>>,
         NEW by \in {"ExtractConfigDump", "list"}, NEW io \in BOOLEAN,
         logged' = Append(logged, LogLine(Head(queue), by, io))
  PROVE  logged' \in Seq([file : Archives, by : {"ExtractConfigDump", "list"}, io : BOOLEAN])
<1>1. logged \in Seq(Lines) /\ LogLine(Head(queue), by, io) \in Lines
  BY QueueHead, LineType, LogType
<1>2. Append(logged, LogLine(Head(queue), by, io)) \in Seq(Lines)
  BY ONLY <1>1, Appended
<1> QED BY <1>2 DEF Lines

LEMMA NothingIsPair == Nothing \in Pair
  BY DEF Nothing, Pair, Dump

-----------------------------------------------------------------------------
(***************************************************************************)
(* Types                                                                   *)
(***************************************************************************)

LEMMA TypeInit == ListInit => ListTypeOK
<1> SUFFICES ASSUME ListInit PROVE ListTypeOK
  OBVIOUS
<1> USE ListAssumption DEF ListInit, ListInput, ListStart
<1>1. archive \in [Archives -> Content] /\ was \in [Archives -> SUBSET Content]
  OBVIOUS
<1>2. before \in Disk /\ disk \in Disk
  OBVIOUS
<1>3. row \in Pair
  BY NothingIsPair
<1>4. args \in Seq(DOMAIN FilesIn) /\ path \in 0..Len(args)
  OBVIOUS
<1>5. /\ queue \in Seq(Archives) /\ globbed \in Seq(Archives)
      /\ table \in Seq([file : Archives, config : Dumps, spec : Dumps])
      /\ logged \in Seq([file : Archives, by : {"ExtractConfigDump", "list"}, io : BOOLEAN])
  OBVIOUS
<1>6. replaced \in Nat /\ listPc = "path" /\ unremoved \subseteq TempDirs /\ shown \in BOOLEAN
  OBVIOUS
<1> QED BY ONLY <1>1, <1>2, <1>3, <1>4, <1>5, <1>6 DEF ListTypeOK

(* What a step does to the disk keeps its type.                              *)
LEMMA UnpackedType ==
  ASSUME ListTypeOK, dir \in DOMAIN disk, NEW c, c.config \in Dump, c.spec \in Dump
  PROVE  /\ Unpacked(c) \in Disk
         /\ DOMAIN Unpacked(c) = DOMAIN disk
         /\ Unpacked(c)[dir] = [config |-> Over(c.config, disk[dir].config),
                                spec |-> Over(c.spec, disk[dir].spec)]
         /\ \A x \in DOMAIN disk \ {dir} : Unpacked(c)[x] = disk[x]
<1> DEFINE new == [config |-> Over(c.config, disk[dir].config),
                   spec |-> Over(c.spec, disk[dir].spec)]
<1>1. disk = [x \in DOMAIN disk |-> disk[x]] /\ DOMAIN disk \subseteq TempDirs
      /\ \A x \in DOMAIN disk : disk[x] \in Pair
  BY DiskType DEF ListTypeOK
<1>2. new \in Pair
  BY <1>1 DEF Pair, Over
<1>3. Unpacked(c) = [x \in DOMAIN disk |-> IF x = dir THEN new ELSE disk[x]]
  BY <1>1 DEF Unpacked
<1> HIDE DEF new
<1>4. /\ DOMAIN Unpacked(c) = DOMAIN disk
      /\ Unpacked(c) = [x \in DOMAIN disk |-> Unpacked(c)[x]]
      /\ \A x \in DOMAIN disk : Unpacked(c)[x] \in Pair
  BY <1>1, <1>2, <1>3
<1>5. Unpacked(c) \in Disk
  BY <1>1, <1>4, DiskType
<1>6. Unpacked(c)[dir] = new /\ \A x \in DOMAIN disk \ {dir} : Unpacked(c)[x] = disk[x]
  BY <1>3
<1> QED BY <1>4, <1>5, <1>6 DEF new

LEMMA MakeDirDisk ==
  ASSUME ListTypeOK, NEW d \in TempDirs, MakeDir(d)
  PROVE  /\ disk' \in Disk /\ DOMAIN disk' = DOMAIN disk \union {d} /\ d \notin DOMAIN disk
         /\ disk'[d] = Nothing /\ \A x \in DOMAIN disk : disk'[x] = disk[x]
<1>1. disk = [x \in DOMAIN disk |-> disk[x]] /\ DOMAIN disk \subseteq TempDirs
      /\ \A x \in DOMAIN disk : disk[x] \in Pair
  BY DiskType DEF ListTypeOK
<1>2. /\ DOMAIN disk' = DOMAIN disk \union {d}
      /\ disk' = [x \in DOMAIN disk' |-> disk'[x]]
      /\ disk'[d] = Nothing /\ d \notin DOMAIN disk
      /\ \A x \in DOMAIN disk : disk'[x] = disk[x]
  BY DEF MakeDir, FreshTemp
<1>3. \A x \in DOMAIN disk' : disk'[x] \in Pair
  BY <1>1, <1>2, NothingIsPair
<1>4. disk' \in Disk
  BY <1>1, <1>2, <1>3, DiskType
<1> QED BY <1>2, <1>4

LEMMA RemoveDirDisk ==
  ASSUME ListTypeOK, RemoveDir
  PROVE  /\ disk' \in Disk /\ DOMAIN disk' = DOMAIN disk \ {dir}
         /\ \A x \in DOMAIN disk' : disk'[x] = disk[x]
<1>1. disk = [x \in DOMAIN disk |-> disk[x]] /\ DOMAIN disk \subseteq TempDirs
      /\ \A x \in DOMAIN disk : disk[x] \in Pair
  BY DiskType DEF ListTypeOK
<1>2. /\ DOMAIN disk' = DOMAIN disk \ {dir}
      /\ disk' = [x \in DOMAIN disk' |-> disk'[x]]
      /\ \A x \in DOMAIN disk' : disk'[x] = disk[x]
  BY DEF RemoveDir
<1>3. disk' \in Disk
  BY <1>1, <1>2, DiskType
<1> QED BY <1>2, <1>3

LEMMA TypeStep == ListTypeOK /\ [ListNext]_listVars => ListTypeOK'
<1> SUFFICES ASSUME ListTypeOK, [ListNext]_listVars PROVE ListTypeOK'
  OBVIOUS
<1> USE DEF ListTypeOK, listEnv
<1>1. CASE Glob
  <2>1. CASE args[path + 1] \in BadPatterns
    BY <1>1, <2>1 DEF Glob
  <2>2. CASE args[path + 1] \notin BadPatterns
    <3>1. path' = path + 1 /\ path < Len(args) /\ path' \in 1..Len(args)
      BY <1>1, <2>2 DEF Glob
    <3>2. args[path'] \in DOMAIN FilesIn
      BY <3>1
    <3>3. {f \in FilesIn[args[path']] : archive[f].exists} \in SUBSET Archives
      BY <3>2, ListAssumption
    <3>4. queue' \in Seq(Archives)
      BY <1>1, <2>2, <3>3, ListAssumption DEF Glob
    <3>5. globbed' \in Seq(Archives)
      <4>1. globbed' = globbed \o queue' /\ globbed \in Seq(Archives)
        BY <1>1, <2>2 DEF Glob
      <4> QED BY ONLY <3>4, <4>1
    <3> QED BY <1>1, <2>2, <3>1, <3>4, <3>5 DEF Glob
  <2> QED BY <2>1, <2>2
<1>2. CASE NextPath
  BY <1>2 DEF NextPath
<1>3. CASE MakeDirFails
  <2>1. logged' \in Seq([file : Archives, by : {"ExtractConfigDump", "list"}, io : BOOLEAN])
    BY <1>3, LineAppended DEF MakeDirFails
  <2>2. queue' \in Seq(Archives) /\ listPc' = "file"
    BY <1>3, QueueHead DEF MakeDirFails
  <2>3. UNCHANGED <<args, archive, was, replaced, before, path, globbed, disk, dir, row, table,
                    unremoved, shown>>
    BY <1>3 DEF MakeDirFails
  <2> QED BY <2>1, <2>2, <2>3
<1>4. ASSUME NEW d \in TempDirs, MakeDir(d) PROVE ListTypeOK'
  <2>1. disk' \in Disk /\ d \in DOMAIN disk'
    BY <1>4, MakeDirDisk
  <2> QED BY <1>4, <2>1 DEF MakeDir
<1>5. CASE ExtractDumps
  <2>1. archive[Head(queue)] \in Content
    BY <1>5 DEF ExtractDumps
  <2>2. disk' \in Disk /\ DOMAIN disk' = DOMAIN disk
    BY <1>5, <2>1, UnpackedType DEF ExtractDumps, Content
  <2> QED BY <1>5, <2>2 DEF ExtractDumps
<1>6. CASE ExtractDumpsFails
  <2>1. archive[Head(queue)] \in Content
    BY <1>6 DEF ExtractDumpsFails
  <2>2. PICK config \in {NoFile, archive[Head(queue)].config}, spec \in {NoFile, archive[Head(queue)].spec} :
          disk' = Unpacked([config |-> config, spec |-> spec])
    BY <1>6 DEF ExtractDumpsFails
  <2>3. config \in Dump /\ spec \in Dump
    BY <2>1 DEF Content, Dump
  <2>4. disk' \in Disk /\ DOMAIN disk' = DOMAIN disk
    BY <1>6, <2>2, <2>3, UnpackedType DEF ExtractDumpsFails
  <2>5. row' \in Pair
    BY <1>6 DEF ExtractDumpsFails, Nothing, Pair, Dump
  <2>6. logged' \in Seq([file : Archives, by : {"ExtractConfigDump", "list"}, io : BOOLEAN])
    <3>1. PICK io \in BOOLEAN : io <=> row'.config = NoFile
      OBVIOUS
    <3>2. logged' = Append(logged, LogLine(Head(queue), "ExtractConfigDump", io))
      BY <1>6, <3>1 DEF ExtractDumpsFails
    <3> QED BY <1>6, <3>2, LineAppended DEF ExtractDumpsFails
  <2> QED BY <1>6, <2>4, <2>5, <2>6 DEF ExtractDumpsFails, AfterFailure
<1>7. CASE ReadDumps
  <2>1. disk[dir] \in Pair
    BY <1>7, DiskType DEF ReadDumps
  <2>2. row' \in Pair
    BY <1>7, <2>1 DEF ReadDumps, Nothing, Pair, Dump
  <2> QED BY <1>7, <2>2 DEF ReadDumps
<1>8. CASE RemoveDir
  <2>1. disk' \in Disk
    BY <1>8, RemoveDirDisk
  <2> QED BY <1>8, <2>1 DEF RemoveDir
<1>9. CASE RemoveDirFails
  <2>1. dir \in TempDirs
    BY <1>9, DiskType DEF RemoveDirFails
  <2> QED BY <1>9, <2>1 DEF RemoveDirFails
<1>10. CASE ListFile
  <2>1. Head(queue) \in Archives /\ queue' \in Seq(Archives)
    BY <1>10 DEF ListFile, QueueAfter
  <2>2. row' \in Pair
    BY <1>10, NothingIsPair DEF ListFile
  <2>3. table' \in Seq([file : Archives, config : Dumps, spec : Dumps])
    <3> DEFINE new == [file |-> Head(queue), config |-> row.config, spec |-> row.spec]
    <3>1. Good(row) => new \in [file : Archives, config : Dumps, spec : Dumps]
      BY <2>1 DEF Good
    <3>2. table' = IF Good(row) THEN Append(table, new) ELSE table
      BY <1>10 DEF ListFile
    <3>3. table \in Seq([file : Archives, config : Dumps, spec : Dumps])
      OBVIOUS
    <3> HIDE DEF new
    <3>4. CASE Good(row)
      BY <3>1, <3>2, <3>3, <3>4, Appended
    <3>5. CASE ~Good(row)
      BY <3>2, <3>3, <3>5
    <3> QED BY <3>4, <3>5
  <2>4. logged' \in Seq([file : Archives, by : {"ExtractConfigDump", "list"}, io : BOOLEAN])
    <3>1. CASE Good(row)
      BY <1>10, <3>1 DEF ListFile
    <3>2. CASE ~Good(row)
      <4>1. PICK io \in BOOLEAN : io <=> row.config = NoFile
        OBVIOUS
      <4>2. logged' = Append(logged, LogLine(Head(queue), "list", io))
        BY <1>10, <3>2, <4>1 DEF ListFile
      <4> QED BY <1>10, <4>2, LineAppended DEF ListFile
    <3> QED BY <3>1, <3>2
  <2> QED BY <1>10, <2>1, <2>2, <2>3, <2>4 DEF ListFile
<1>11. CASE PrintTable
  BY <1>11 DEF PrintTable
<1>12. CASE KillList
  BY <1>12 DEF KillList
<1>13. CASE ReplaceArchive
  <2>1. archive' \in [Archives -> Content] /\ was' \in [Archives -> SUBSET Content]
    BY <1>13, ListAssumption DEF ReplaceArchive
  <2> QED BY <1>13, <2>1 DEF ReplaceArchive
<1>14. CASE UNCHANGED listVars
  BY <1>14 DEF listVars
<1> QED BY <1>1, <1>2, <1>3, <1>4, <1>5, <1>6, <1>7, <1>8, <1>9, <1>10, <1>11, <1>12, <1>13, <1>14
        DEF ListNext, ListStep

(* The variables of list keep their kinds; in particular there is a file to    *)
(* work on and a directory to work in whenever the next statement takes one.   *)
THEOREM ListTypeCorrect == ListSpec => []ListTypeOK
BY TypeInit, TypeStep, PTL DEF ListSpec

-----------------------------------------------------------------------------
(***************************************************************************)
(* Temporary directories                                                   *)
(***************************************************************************)

(* Own directories are none of those that were there before.                 *)
DirInv ==
  /\ ListTypeOK
  /\ OneDirAtATime
  /\ dir \notin DOMAIN before
  /\ unremoved \intersect DOMAIN before = {}
  /\ dir = NoDir \/ dir \in DOMAIN disk

LEMMA DirInit == ListInit => DirInv
<1> SUFFICES ASSUME ListInit PROVE DirInv
  OBVIOUS
<1>1. ListTypeOK /\ before \in Disk
  BY TypeInit, ListAssumption DEF ListInit, ListInput
<1>2. disk = before /\ dir = NoDir /\ unremoved = {}
  BY DEF ListInit, ListStart
<1>3. NoDir \notin DOMAIN before
  BY <1>1, DiskType, ListAssumption
<1> QED BY <1>1, <1>2, <1>3 DEF DirInv, OneDirAtATime

LEMMA DirStep == DirInv /\ [ListNext]_listVars => DirInv'
<1> SUFFICES ASSUME DirInv, [ListNext]_listVars PROVE DirInv'
  OBVIOUS
<1>0. ListTypeOK /\ ListTypeOK' /\ DOMAIN before \subseteq TempDirs
  BY TypeStep, DiskType DEF DirInv, ListTypeOK
<1> USE DEF DirInv, OneDirAtATime, listEnv
<1>1. CASE Glob
  BY <1>0, <1>1 DEF Glob
<1>2. CASE NextPath
  BY <1>0, <1>2 DEF NextPath
<1>3. CASE MakeDirFails
  BY <1>0, <1>3 DEF MakeDirFails
<1>4. ASSUME NEW d \in TempDirs, MakeDir(d) PROVE DirInv'
  <2>1. /\ DOMAIN disk' = DOMAIN disk \union {d} /\ d \notin DOMAIN disk
        /\ \A x \in DOMAIN disk : disk'[x] = disk[x]
    BY <1>0, <1>4, MakeDirDisk
  <2>2. dir = NoDir /\ dir' = d /\ listPc' = "extract" /\ UNCHANGED <<before, unremoved>>
    BY <1>4 DEF MakeDir
  <2>3. \A x \in DOMAIN before : x \in DOMAIN disk /\ disk[x] = before[x]
    OBVIOUS
  <2>4. DOMAIN disk \ DOMAIN before \subseteq unremoved \union {dir} /\ NoDir \notin DOMAIN disk
    BY <1>0, DiskType, ListAssumption DEF ListTypeOK
  <2>5. \A x \in DOMAIN before' : x \in DOMAIN disk' /\ disk'[x] = before'[x]
    BY <2>1, <2>2, <2>3
  <2>6. DOMAIN disk' \ DOMAIN before' \subseteq unremoved' \union {dir'}
    BY <2>1, <2>2, <2>4
  <2>7. dir' \notin DOMAIN before' /\ dir' \in DOMAIN disk'
    BY <2>1, <2>2, <2>3
  <2> QED BY <1>0, <2>2, <2>5, <2>6, <2>7
<1>5. CASE ExtractDumps
  <2>1. archive[Head(queue)] \in Content
    BY <1>0, <1>5 DEF ExtractDumps, ListTypeOK
  <2>2. DOMAIN disk' = DOMAIN disk /\ \A x \in DOMAIN disk \ {dir} : disk'[x] = disk[x]
    BY <1>0, <1>5, <2>1, UnpackedType DEF ExtractDumps, Content, ListTypeOK
  <2> QED BY <1>0, <1>5, <2>2 DEF ExtractDumps
<1>6. CASE ExtractDumpsFails
  <2>1. archive[Head(queue)] \in Content
    BY <1>0, <1>6 DEF ExtractDumpsFails, ListTypeOK
  <2>2. PICK config \in {NoFile, archive[Head(queue)].config}, spec \in {NoFile, archive[Head(queue)].spec} :
          disk' = Unpacked([config |-> config, spec |-> spec])
    BY <1>6 DEF ExtractDumpsFails
  <2>3. config \in Dump /\ spec \in Dump
    BY <2>1 DEF Content, Dump
  <2>4. DOMAIN disk' = DOMAIN disk /\ \A x \in DOMAIN disk \ {dir} : disk'[x] = disk[x]
    BY <1>0, <1>6, <2>2, <2>3, UnpackedType DEF ExtractDumpsFails, ListTypeOK
  <2> QED BY <1>0, <1>6, <2>4 DEF ExtractDumpsFails, AfterFailure
<1>7. CASE ReadDumps
  BY <1>0, <1>7 DEF ReadDumps
<1>8. CASE RemoveDir
  <2>1. DOMAIN disk' = DOMAIN disk \ {dir} /\ \A x \in DOMAIN disk' : disk'[x] = disk[x]
    BY <1>0, <1>8, RemoveDirDisk
  <2>2. NoDir \notin DOMAIN before
    BY <1>0, ListAssumption
  <2> QED BY <1>0, <1>8, <2>1, <2>2 DEF RemoveDir
<1>9. CASE RemoveDirFails
  <2>1. NoDir \notin DOMAIN before
    BY <1>0, ListAssumption
  <2> QED BY <1>0, <1>9, <2>1 DEF RemoveDirFails
<1>10. CASE ListFile
  BY <1>0, <1>10 DEF ListFile
<1>11. CASE PrintTable
  BY <1>0, <1>11 DEF PrintTable
<1>12. CASE KillList
  BY <1>0, <1>12 DEF KillList
<1>13. CASE ReplaceArchive
  BY <1>0, <1>13 DEF ReplaceArchive
<1>14. CASE UNCHANGED listVars
  BY <1>0, <1>14 DEF listVars
<1> QED BY <1>1, <1>2, <1>3, <1>4, <1>5, <1>6, <1>7, <1>8, <1>9, <1>10, <1>11, <1>12, <1>13, <1>14
        DEF ListNext, ListStep

(* For any TMPDIR and any number of files: list leaves what others have there  *)
(* alone, has one directory at a time, and none when it ends, but for those    *)
(* whose removal failed.                                                     *)
THEOREM DirectoriesRemoved == ListSpec => []OneDirAtATime
<1>1. DirInv => OneDirAtATime
  BY DEF DirInv
<1> QED BY <1>1, DirInit, DirStep, PTL DEF ListSpec

-----------------------------------------------------------------------------
(***************************************************************************)
(* Where rows come from                                                    *)
(***************************************************************************)

(* One archive that was at path f says what the pair says.                   *)
Says(f, pair) == \E c \in was[f] : c.whole /\ c.config = pair.config /\ c.spec = pair.spec

RowInv ==
  /\ ListTypeOK
  /\ RowsFromOneArchive
  /\ \A f \in Archives : archive[f] \in was[f]
  /\ listPc = "extract" => disk[dir] = Nothing
  /\ listPc = "read" => Says(Head(queue), disk[dir])
  /\ listPc \in {"remove", "next"} /\ Good(row) => Says(Head(queue), row)

LEMMA RowInit == ListInit => RowInv
<1> SUFFICES ASSUME ListInit PROVE RowInv
  OBVIOUS
<1>1. table = <<>> /\ listPc = "path" /\ was = [f \in Archives |-> {archive[f]}]
  BY DEF ListInit, ListStart
<1> QED BY <1>1, TypeInit DEF RowInv, RowsFromOneArchive

LEMMA RowStep == RowInv /\ [ListNext]_listVars => RowInv'
<1> SUFFICES ASSUME RowInv, [ListNext]_listVars PROVE RowInv'
  OBVIOUS
<1>0. ListTypeOK /\ ListTypeOK'
  BY TypeStep DEF RowInv
<1> USE DEF RowInv, RowsFromOneArchive, Says, listEnv
<1>1. CASE Glob
  BY <1>0, <1>1 DEF Glob
<1>2. CASE NextPath
  BY <1>0, <1>2 DEF NextPath
<1>3. CASE MakeDirFails
  BY <1>0, <1>3 DEF MakeDirFails
<1>4. ASSUME NEW d \in TempDirs, MakeDir(d) PROVE RowInv'
  <2>1. disk'[dir'] = Nothing
    BY <1>0, <1>4, MakeDirDisk DEF MakeDir
  <2> QED BY <1>0, <1>4, <2>1 DEF MakeDir
<1>5. CASE ExtractDumps
  <2> DEFINE content == archive[Head(queue)]
  <2>1. content \in Content /\ Head(queue) \in Archives /\ dir \in DOMAIN disk
    BY <1>0, <1>5 DEF ExtractDumps, ListTypeOK
  <2>2. content.whole /\ disk' = Unpacked(content)
    BY <1>5 DEF ExtractDumps
  <2>3. disk'[dir] = [config |-> Over(content.config, disk[dir].config),
                      spec |-> Over(content.spec, disk[dir].spec)]
    BY <1>0, <2>1, <2>2, UnpackedType DEF Content
  <2>4. disk'[dir] = [config |-> content.config, spec |-> content.spec]
    BY <1>5, <2>3 DEF ExtractDumps, Nothing, Over
  <2>5. content \in was[Head(queue)] /\ UNCHANGED <<queue, dir, was, table, archive, row>> /\ listPc' = "read"
    BY <1>5, <2>1 DEF ExtractDumps
  <2> HIDE DEF content
  <2>6. /\ content.whole /\ content.config = disk'[dir].config
        /\ content.spec = disk'[dir].spec
    BY <2>2, <2>4
  <2>7. Says(Head(queue), disk[dir])'
    BY <2>5, <2>6
  <2>8. RowsFromOneArchive' /\ \A f \in Archives : archive'[f] \in was'[f]
    BY <2>5
  <2> QED BY ONLY <1>0, <2>5, <2>7, <2>8 DEF RowInv
<1>6. CASE ExtractDumpsFails
  <2>1. ~Good(row')
    BY ListAssumption, <1>6 DEF ExtractDumpsFails, Good, Nothing
  <2> QED BY <1>0, <1>6, <2>1 DEF ExtractDumpsFails, AfterFailure
<1>7. CASE ReadDumps
  <2>1. Good(row') => row' = disk[dir]
    BY <1>7, ListAssumption DEF ReadDumps, Good, Nothing
  <2> QED BY <1>0, <1>7, <2>1 DEF ReadDumps
<1>8. CASE RemoveDir
  BY <1>0, <1>8 DEF RemoveDir
<1>9. CASE RemoveDirFails
  BY <1>0, <1>9 DEF RemoveDirFails
<1>10. CASE ListFile
  <2>1. UNCHANGED <<was, archive>> /\ listPc' = "file"
    BY <1>10 DEF ListFile
  <2>2. CASE ~Good(row)
    BY <1>0, <1>10, <2>1, <2>2 DEF ListFile
  <2>3. CASE Good(row)
    <3> DEFINE new == [file |-> Head(queue), config |-> row.config, spec |-> row.spec]
    <3>1. table' = Append(table, new)
      BY <1>10, <2>3 DEF ListFile
    <3>2. Says(new.file, new)
      BY <1>10, <2>3 DEF ListFile
    <3>3. table \in Seq([file : Archives, config : Dumps, spec : Dumps])
      BY <1>0 DEF ListTypeOK
    <3> HIDE DEF new
    <3>4. \A i \in DOMAIN table' : Says(table'[i].file, table'[i])
      BY <3>1, <3>2, <3>3
    <3> QED BY <1>0, <2>1, <3>4
  <2> QED BY <2>2, <2>3
<1>11. CASE PrintTable
  BY <1>0, <1>11 DEF PrintTable
<1>12. CASE KillList
  BY <1>0, <1>12 DEF KillList
<1>13. CASE ReplaceArchive
  <2>1. PICK f \in Archives, c \in Contents :
          archive' = [archive EXCEPT ![f] = c] /\ was' = [was EXCEPT ![f] = @ \union {c}]
    BY <1>13 DEF ReplaceArchive
  <2>2. \A g \in Archives : was[g] \subseteq was'[g] /\ archive'[g] \in was'[g]
    BY <1>0, <2>1 DEF ListTypeOK
  <2>3. UNCHANGED <<listPc, queue, disk, dir, row, table>>
    BY <1>13 DEF ReplaceArchive
  <2>4. \A i \in DOMAIN table : table[i].file \in Archives
    <3>1. table \in Seq([file : Archives, config : Dumps, spec : Dumps])
      BY <1>0 DEF ListTypeOK
    <3>2. \A i \in DOMAIN table : table[i] \in [file : Archives, config : Dumps, spec : Dumps]
      BY ONLY <3>1, Element
    <3> QED BY <3>2
  <2>5. listPc \in {"extract", "read", "remove", "next"} => Head(queue) \in Archives
    <3>1. queue \in Seq(Archives) /\ (listPc \in {"extract", "read", "remove", "next"} => queue # <<>>)
      BY <1>0 DEF ListTypeOK
    <3> QED BY ONLY <3>1
  <2> QED BY <1>0, <2>2, <2>3, <2>4, <2>5
<1>14. CASE UNCHANGED listVars
  BY <1>0, <1>14 DEF listVars
<1> QED BY <1>1, <1>2, <1>3, <1>4, <1>5, <1>6, <1>7, <1>8, <1>9, <1>10, <1>11, <1>12, <1>13, <1>14
        DEF ListNext, ListStep

(* For any archives and replacements: no row mixes two archives, or tells what *)
(* an earlier file or command left behind.                                   *)
THEOREM RowsTrue == ListSpec => []RowsFromOneArchive
<1>1. RowInv => RowsFromOneArchive
  BY DEF RowInv
<1> QED BY <1>1, RowInit, RowStep, PTL DEF ListSpec

-----------------------------------------------------------------------------
(***************************************************************************)
(* Counting the places of a file in a list                                 *)
(***************************************************************************)

LEMMA PlacesFinite ==
  ASSUME NEW n \in Nat, NEW I \in SUBSET (1..n)
  PROVE  IsFiniteSet(I) /\ Cardinality(I) \in Nat
<1>1. IsFiniteSet(1..n)
  BY FS_Interval
<1>2. IsFiniteSet(I)
  BY <1>1, FS_Subset
<1> QED BY <1>2, FS_CardinalityType

LEMMA TimesAppended ==
  ASSUME NEW S, NEW list \in Seq(S), NEW new \in S, NEW f
  PROVE  /\ Times(f, list) \in Nat
         /\ Times(f, Append(list, new)) = Times(f, list) + IF new.file = f THEN 1 ELSE 0
<1> DEFINE n == Len(list)
           more == Append(list, new)
           I == {i \in 1..n : list[i].file = f}
           J == {i \in 1..(n + 1) : more[i].file = f}
<1>1. /\ n \in Nat /\ DOMAIN list = 1..n /\ DOMAIN more = 1..(n + 1) /\ more[n + 1] = new
      /\ \A i \in 1..n : more[i] = list[i]
  OBVIOUS
<1>a. Times(f, list) = Cardinality(I) /\ Times(f, Append(list, new)) = Cardinality(J)
  BY <1>1, Zenon DEF Times
<1> HIDE DEF more, n
<1>2. IsFiniteSet(I) /\ Cardinality(I) \in Nat /\ n + 1 \notin I
  <2>1. I \in SUBSET (1..n)
    OBVIOUS
  <2>2. n + 1 \notin 1..n
    BY <1>1
  <2> HIDE DEF I
  <2>3. IsFiniteSet(I) /\ Cardinality(I) \in Nat
    BY <1>1, <2>1, PlacesFinite
  <2> QED BY <2>1, <2>2, <2>3
<1>3. CASE new.file = f
  <2>1. J = I \union {n + 1}
    BY <1>1, <1>3
  <2>2. Cardinality(J) = Cardinality(I) + 1
    BY <1>2, <2>1, FS_AddElement
  <2> QED BY <1>a, <1>2, <1>3, <2>2
<1>4. CASE new.file # f
  <2>1. J = I
    BY <1>1, <1>4
  <2> HIDE DEF I, J
  <2> QED BY <1>a, <1>2, <1>4, <2>1
<1> QED BY <1>3, <1>4

LEMMA LinesNat ==
  ASSUME NEW S, NEW log \in Seq(S), NEW f
  PROVE  LinesByList(f, log) \in Nat
<1>1. Len(log) \in Nat /\ DOMAIN log = 1..Len(log)
  OBVIOUS
<1> DEFINE I == {i \in DOMAIN log : log[i].file = f /\ log[i].by = "list"}
<1>2. I \in SUBSET (1..Len(log))
  BY <1>1
<1> HIDE DEF I
<1>3. Cardinality(I) \in Nat
  BY <1>1, <1>2, PlacesFinite
<1> QED BY <1>3 DEF LinesByList, I

LEMMA LinesAppended ==
  ASSUME NEW S, NEW log \in Seq(S), NEW new \in S, NEW f
  PROVE  /\ LinesByList(f, log) \in Nat
         /\ LinesByList(f, Append(log, new)) =
              LinesByList(f, log) + IF new.file = f /\ new.by = "list" THEN 1 ELSE 0
<1> DEFINE n == Len(log)
           more == Append(log, new)
           I == {i \in 1..n : log[i].file = f /\ log[i].by = "list"}
           J == {i \in 1..(n + 1) : more[i].file = f /\ more[i].by = "list"}
<1>1. /\ n \in Nat /\ DOMAIN log = 1..n /\ DOMAIN more = 1..(n + 1) /\ more[n + 1] = new
      /\ \A i \in 1..n : more[i] = log[i]
  OBVIOUS
<1>a. LinesByList(f, log) = Cardinality(I) /\ LinesByList(f, Append(log, new)) = Cardinality(J)
  BY <1>1, Zenon DEF LinesByList
<1> HIDE DEF more, n
<1>2. IsFiniteSet(I) /\ Cardinality(I) \in Nat /\ n + 1 \notin I
  <2>1. I \in SUBSET (1..n)
    OBVIOUS
  <2>2. n + 1 \notin 1..n
    BY <1>1
  <2> HIDE DEF I
  <2>3. IsFiniteSet(I) /\ Cardinality(I) \in Nat
    BY <1>1, <2>1, PlacesFinite
  <2> QED BY <2>1, <2>2, <2>3
<1>3. CASE new.file = f /\ new.by = "list"
  <2>1. J = I \union {n + 1}
    BY <1>1, <1>3
  <2>2. Cardinality(J) = Cardinality(I) + 1
    BY <1>2, <2>1, FS_AddElement
  <2> QED BY <1>a, <1>2, <1>3, <2>2
<1>4. CASE ~(new.file = f /\ new.by = "list")
  <2>1. J = I
    BY <1>1, <1>4
  <2> HIDE DEF I, J
  <2> QED BY <1>a, <1>2, <1>4, <2>1
<1> QED BY <1>3, <1>4

LEMMA TimesNat ==
  ASSUME NEW S, NEW list \in Seq(S), NEW f
  PROVE  Times(f, list) \in Nat
<1>1. Len(list) \in Nat /\ DOMAIN list = 1..Len(list)
  OBVIOUS
<1> DEFINE I == {i \in DOMAIN list : list[i].file = f}
<1>2. I \in SUBSET (1..Len(list))
  BY <1>1
<1> HIDE DEF I
<1>3. Cardinality(I) \in Nat
  BY <1>1, <1>2, PlacesFinite
<1> QED BY <1>3 DEF Times, I

LEMMA TimesJoined ==
  ASSUME NEW S, NEW a \in Seq(S), NEW b \in Seq(S), NEW f
  PROVE  /\ TimesIn(f, a) \in Nat /\ TimesIn(f, b) \in Nat
         /\ TimesIn(f, a \o b) = TimesIn(f, a) + TimesIn(f, b)
<1> DEFINE m == Len(a)
           n == Len(b)
           c == a \o b
           I == {i \in 1..m : a[i] = f}
           J == {i \in 1..n : b[i] = f}
           K == {i + m : i \in J}
           shift == [i \in J |-> i + m]
<1>1. /\ m \in Nat /\ n \in Nat
      /\ DOMAIN a = 1..m /\ DOMAIN b = 1..n /\ DOMAIN c = 1..(m + n)
      /\ \A i \in 1..m : c[i] = a[i]
      /\ \A i \in 1..n : c[i + m] = b[i]
  OBVIOUS
<1> HIDE DEF m, n, c
<1>2. IsFiniteSet(I) /\ Cardinality(I) \in Nat
  BY <1>1, PlacesFinite
<1>3. IsFiniteSet(J) /\ Cardinality(J) \in Nat
  BY <1>1, PlacesFinite
<1>4. IsFiniteSet(K) /\ Cardinality(K) = Cardinality(J)
  <2>1. shift \in [J -> K] /\ \A i, j \in J : shift[i] = shift[j] => i = j
    BY <1>1
  <2>2. \A k \in K : \E i \in J : shift[i] = k
    OBVIOUS
  <2>3. shift \in Bijection(J, K)
    BY <2>1, <2>2, Fun_IsBij
  <2>4. ExistsBijection(J, K)
    BY <2>3 DEF ExistsBijection
  <2> QED BY <1>3, <2>4, FS_Bijection
<1>5. {i \in 1..(m + n) : c[i] = f} = I \union K
  <2>1. ASSUME NEW i \in 1..(m + n), c[i] = f PROVE i \in I \union K
    <3>1. CASE i \in 1..m
      BY <1>1, <2>1, <3>1
    <3>2. CASE i \notin 1..m
      <4>1. i - m \in 1..n /\ (i - m) + m = i
        BY <1>1, <3>2
      <4>2. b[i - m] = f
        BY <1>1, <2>1, <4>1
      <4> QED BY <4>1, <4>2
    <3> QED BY <3>1, <3>2
  <2>2. ASSUME NEW i \in I \union K PROVE i \in 1..(m + n) /\ c[i] = f
    BY <1>1
  <2> QED BY <2>1, <2>2
<1>6. I \intersect K = {}
  BY <1>1
<1> HIDE DEF I, J, K
<1>7. Cardinality(I \union K) = Cardinality(I) + Cardinality(K)
  <2>1. Cardinality(I \union K) = Cardinality(I) + Cardinality(K) - Cardinality(I \intersect K)
    BY <1>2, <1>4, FS_Union
  <2>2. Cardinality(I \intersect K) = 0
    BY <1>6, FS_EmptySet
  <2> QED BY <1>2, <1>3, <1>4, <2>1, <2>2
<1>8. TimesIn(f, a) = Cardinality(I) /\ TimesIn(f, b) = Cardinality(J)
  BY <1>1 DEF TimesIn, I, J
<1>9. TimesIn(f, a \o b) = Cardinality(I \union K)
  BY <1>1, <1>5 DEF TimesIn, c
<1> QED BY <1>2, <1>3, <1>4, <1>7, <1>8, <1>9

LEMMA TimesAtHead ==
  ASSUME NEW S, NEW q \in Seq(S), q # <<>>, NEW f
  PROVE  /\ TimesIn(f, Tail(q)) \in Nat
         /\ TimesIn(f, q) = TimesIn(f, Tail(q)) + IF Head(q) = f THEN 1 ELSE 0
<1>1. Head(q) \in S /\ Tail(q) \in Seq(S) /\ <<Head(q)>> \in Seq(S) /\ q = <<Head(q)>> \o Tail(q)
  OBVIOUS
<1>2. TimesIn(f, q) = TimesIn(f, <<Head(q)>>) + TimesIn(f, Tail(q))
      /\ TimesIn(f, Tail(q)) \in Nat
  BY <1>1, TimesJoined
<1>3. TimesIn(f, <<Head(q)>>) = IF Head(q) = f THEN 1 ELSE 0
  <2> PICK x : x = Head(q)
    OBVIOUS
  <2>1. DOMAIN <<x>> = {1} /\ <<x>>[1] = x
    OBVIOUS
  <2>2. CASE x = f
    <3>1. {i \in {1} : <<x>>[i] = f} = {1}
      BY <2>1, <2>2
    <3>2. Cardinality({1}) = 1
      BY FS_Singleton
    <3>3. TimesIn(f, <<x>>) = Cardinality({1})
      BY <2>1, <3>1 DEF TimesIn
    <3> QED BY <2>2, <3>2, <3>3
  <2>3. CASE x # f
    <3>1. {i \in {1} : <<x>>[i] = f} = {}
      BY <2>1, <2>3
    <3> QED BY <2>1, <2>3, <3>1, FS_EmptySet DEF TimesIn
  <2> QED BY <2>2, <2>3
<1> QED BY <1>2, <1>3

-----------------------------------------------------------------------------
(***************************************************************************)
(* No file goes missing                                                    *)
(***************************************************************************)

(* The path held something that is no whole archive with both dumps.         *)
Unfit(f) == \E c \in was[f] : ~(c.exists /\ c.whole /\ Good(c))

(* Every file found is still queued, in the table or in a line of list.       *)
Balance ==
  \A f \in Archives :
    Times(f, table) + LinesByList(f, logged) + TimesIn(f, queue) = TimesIn(f, globbed)

(* A file that cannot be listed was unfit, or an I/O error kept it out.       *)
LogTrue ==
  /\ \A i \in DOMAIN logged : logged[i].io \/ Unfit(logged[i].file)
  /\ listPc \in {"remove", "next"} =>
       Good(row) \/ row.config = NoFile \/ Unfit(Head(queue))

(* A line of ExtractConfigDump that list has repeated, and the last one, which *)
(* it is about to repeat.                                                    *)
Repeated(i) ==
  i + 1 \in DOMAIN logged /\ logged[i + 1] = LogLine(logged[i].file, "list", logged[i].io)
AboutToRepeat(i) ==
  /\ i = Len(logged) /\ listPc \in {"remove", "next"} /\ ~Good(row)
  /\ logged[i].file = Head(queue) /\ (logged[i].io <=> row.config = NoFile)

LogRepeats ==
  \A i \in DOMAIN logged :
    logged[i].by = "ExtractConfigDump" =>
      Repeated(i) \/ AboutToRepeat(i) \/ listPc = "killed"

ShownIfFound == listPc = "done" => (shown <=> globbed # <<>>)

CountInv ==
  /\ Balance /\ LogTrue /\ LogRepeats /\ ShownIfFound
  /\ listPc = "path" => queue = <<>>

LEMMA CountInit == ListInit => CountInv
<1> SUFFICES ASSUME ListInit PROVE CountInv
  OBVIOUS
<1>1. table = <<>> /\ logged = <<>> /\ queue = <<>> /\ globbed = <<>> /\ listPc = "path"
  BY DEF ListInit, ListStart
<1>2. \A f : Times(f, <<>>) = 0 /\ TimesIn(f, <<>>) = 0 /\ LinesByList(f, <<>>) = 0
  BY FS_EmptySet DEF Times, TimesIn, LinesByList
<1> QED BY <1>1, <1>2 DEF CountInv, Balance, LogTrue, LogRepeats, ShownIfFound

(* What a path held stays in its history.                                   *)
LEMMA StaysUnfit ==
  ASSUME NEW f, Unfit(f), was[f] \subseteq was'[f]
  PROVE  Unfit(f)'
BY DEF Unfit

(* One file leaves the queue for the log.  If ExtractConfigDump has logged it,  *)
(* the line is the same.                                                     *)
LEMMA LoggedCount ==
  ASSUME ListTypeOK, CountInv, queue # <<>>, NEW io \in BOOLEAN,
         io \/ Unfit(Head(queue)),
         listPc \in {"remove", "next"} => (io <=> row.config = NoFile),
         listPc # "killed",
         logged' = Append(logged, LogLine(Head(queue), "list", io)),
         queue' = Tail(queue), listPc' = "file",
         UNCHANGED <<was, table, globbed>>
  PROVE  CountInv'
<1> PICK line : line = LogLine(Head(queue), "list", io)
  OBVIOUS
<1>1. /\ queue \in Seq(Archives) /\ Head(queue) \in Archives
      /\ logged \in Seq(Lines) /\ line \in Lines /\ logged' = Append(logged, line)
      /\ line.file = Head(queue) /\ line.by = "list" /\ line.io = io
  BY QueueHead, LineType, LogType DEF ListTypeOK
<1>2. ASSUME NEW f \in Archives
      PROVE  (Times(f, table) + LinesByList(f, logged) + TimesIn(f, queue) = TimesIn(f, globbed))'
  <2>1. LinesByList(f, logged') = LinesByList(f, logged) + (IF Head(queue) = f THEN 1 ELSE 0)
        /\ LinesByList(f, logged) \in Nat
    <3>1. /\ LinesByList(f, logged) \in Nat
          /\ LinesByList(f, Append(logged, line)) =
               LinesByList(f, logged) + IF line.file = f /\ line.by = "list" THEN 1 ELSE 0
      BY ONLY <1>1, LinesAppended
    <3>2. LinesByList(f, logged') = LinesByList(f, Append(logged, line))
      BY <1>1
    <3> QED BY ONLY <1>1, <3>1, <3>2
  <2>2. TimesIn(f, queue) = TimesIn(f, queue') + (IF Head(queue) = f THEN 1 ELSE 0)
        /\ TimesIn(f, queue') \in Nat
    BY <1>1, TimesAtHead
  <2>3. Times(f, table) + LinesByList(f, logged) + TimesIn(f, queue) = TimesIn(f, globbed)
    BY DEF CountInv, Balance
  <2>4. Times(f, table) \in Nat
    BY TimesNat DEF ListTypeOK
  <2> QED BY <2>1, <2>2, <2>3, <2>4
<1>3. /\ Len(logged) \in Nat /\ DOMAIN logged = 1..Len(logged) /\ DOMAIN logged' = 1..(Len(logged) + 1)
      /\ \A i \in DOMAIN logged : logged'[i] = logged[i]
      /\ logged'[Len(logged) + 1] = line
  BY ONLY <1>1
<1>4. \A i \in DOMAIN logged' : logged'[i].io \/ Unfit(logged'[i].file)
  <2> SUFFICES ASSUME NEW i \in DOMAIN logged' PROVE logged'[i].io \/ Unfit(logged'[i].file)
    OBVIOUS
  <2>1. CASE i = Len(logged) + 1
    BY <1>1, <1>3, <2>1
  <2>2. CASE i # Len(logged) + 1
    BY <1>3, <2>2 DEF CountInv, LogTrue
  <2> QED BY <2>1, <2>2
<1>5. \A f : Unfit(f)' <=> Unfit(f)
  BY DEF Unfit
<1>6. LogTrue'
  BY <1>4, <1>5 DEF LogTrue
<1>7. ASSUME NEW i \in DOMAIN logged', logged'[i].by = "ExtractConfigDump" PROVE Repeated(i)'
  <2>1. i \in DOMAIN logged
    BY <1>1, <1>3, <1>7
  <2>2. logged'[i] = logged[i]
    BY <1>3, <2>1
  <2>3. Repeated(i) \/ AboutToRepeat(i)
    BY <1>7, <2>1, <2>2 DEF CountInv, LogRepeats
  <2>4. CASE Repeated(i)
    BY <1>3, <2>2, <2>4 DEF Repeated
  <2>5. CASE AboutToRepeat(i)
    <3>1. i + 1 \in DOMAIN logged' /\ logged'[i + 1] = line
      BY <1>3, <2>5 DEF AboutToRepeat
    <3>2. logged[i].io \in BOOLEAN
      <4>1. logged[i] \in Lines
        BY ONLY <1>1, <2>1, Element
      <4> QED BY <4>1 DEF Lines
    <3>3. line = LogLine(logged[i].file, "list", logged[i].io)
      BY <2>5, <3>2 DEF AboutToRepeat
    <3> QED BY <2>2, <3>1, <3>3 DEF Repeated
  <2> QED BY <2>3, <2>4, <2>5
<1> QED BY <1>2, <1>6, <1>7 DEF CountInv, Balance, LogRepeats, ShownIfFound

(* One file leaves the queue for the table.                                 *)
LEMMA ListedCount ==
  ASSUME ListTypeOK, CountInv, queue # <<>>, Good(row), listPc # "killed",
         NEW new \in [file : Archives, config : Dumps, spec : Dumps], new.file = Head(queue),
         table' = Append(table, new),
         queue' = Tail(queue), listPc' = "file",
         UNCHANGED <<was, logged, globbed>>
  PROVE  CountInv'
<1>1. /\ queue \in Seq(Archives) /\ Head(queue) \in Archives
      /\ table \in Seq([file : Archives, config : Dumps, spec : Dumps])
  BY QueueHead DEF ListTypeOK
<1>2. ASSUME NEW f \in Archives
      PROVE  (Times(f, table) + LinesByList(f, logged) + TimesIn(f, queue) = TimesIn(f, globbed))'
  <2>1. Times(f, table') = Times(f, table) + (IF Head(queue) = f THEN 1 ELSE 0)
        /\ Times(f, table) \in Nat
    <3> PICK S : S = [file : Archives, config : Dumps, spec : Dumps]
      OBVIOUS
    <3>1. table \in Seq(S) /\ new \in S
      BY <1>1
    <3>2. /\ Times(f, table) \in Nat
          /\ Times(f, Append(table, new)) = Times(f, table) + IF new.file = f THEN 1 ELSE 0
      BY ONLY <3>1, TimesAppended
    <3>3. Times(f, table') = Times(f, Append(table, new)) /\ new.file = Head(queue)
      OBVIOUS
    <3> QED BY ONLY <3>2, <3>3
  <2>2. TimesIn(f, queue) = TimesIn(f, queue') + (IF Head(queue) = f THEN 1 ELSE 0)
        /\ TimesIn(f, queue') \in Nat
    BY <1>1, TimesAtHead
  <2>3. Times(f, table) + LinesByList(f, logged) + TimesIn(f, queue) = TimesIn(f, globbed)
    BY DEF CountInv, Balance
  <2>4. LinesByList(f, logged) \in Nat
    BY LinesNat, LogType
  <2> QED BY <2>1, <2>2, <2>3, <2>4
<1>3. LogTrue'
  BY DEF CountInv, LogTrue, Unfit
<1>4. LogRepeats'
  BY DEF CountInv, LogRepeats, Repeated, AboutToRepeat
<1> QED BY <1>2, <1>3, <1>4 DEF CountInv, Balance, ShownIfFound

(* A step that moves no file and logs nothing keeps the balance; it may end the *)
(* work on a file only if the line of ExtractConfigDump has been repeated.      *)
LEMMA StillCount ==
  ASSUME CountInv, UNCHANGED <<was, queue, globbed, table, logged>>,
         listPc' \in {"remove", "next"} =>
           Good(row') \/ row'.config = NoFile \/ Unfit(Head(queue)),
         listPc' = "done" => (shown' <=> globbed # <<>>),
         listPc' = "path" => queue = <<>>,
         \/ listPc' = "killed"
         \/ listPc \notin {"remove", "next", "killed"}
         \/ listPc \in {"remove", "next"} /\ listPc' \in {"remove", "next"} /\ UNCHANGED row
  PROVE  CountInv'
<1>1. Balance'
  BY DEF CountInv, Balance
<1>2. LogTrue'
  BY DEF CountInv, LogTrue, Unfit
<1>3. LogRepeats'
  BY DEF CountInv, LogRepeats, Repeated, AboutToRepeat
<1> QED BY <1>1, <1>2, <1>3 DEF CountInv, ShownIfFound

LEMMA GlobCount ==
  ASSUME ListTypeOK, CountInv, Glob
  PROVE  CountInv'
<1>1. CASE listPc' = "error"
  BY <1>1, StillCount DEF Glob, listEnv
<1>2. CASE listPc' # "error"
  <2>1. /\ globbed' = globbed \o queue' /\ queue = <<>> /\ listPc' = "file" /\ listPc = "path"
        /\ UNCHANGED <<was, table, logged>>
    BY <1>2 DEF Glob, listEnv, CountInv
  <2>2. globbed \in Seq(Archives) /\ queue' \in Seq(Archives)
    <3>1. PICK S \in SUBSET Archives : queue' = InOrder(S)
      <4> DEFINE S == {f \in FilesIn[args[path']] : archive[f].exists}
      <4>1. queue' = InOrder(S)
        BY <1>2 DEF Glob
      <4>2. args[path'] \in DOMAIN FilesIn
        BY <1>2 DEF Glob, ListTypeOK
      <4>3. S \in SUBSET Archives
        BY <4>2, ListAssumption
      <4> QED BY <4>1, <4>3
    <3> QED BY <3>1, ListAssumption DEF ListTypeOK
  <2>3. ASSUME NEW f \in Archives
        PROVE  (Times(f, table) + LinesByList(f, logged) + TimesIn(f, queue) = TimesIn(f, globbed))'
    <3>1. TimesIn(f, globbed') = TimesIn(f, globbed) + TimesIn(f, queue')
          /\ TimesIn(f, globbed) \in Nat /\ TimesIn(f, queue') \in Nat
      BY <2>1, <2>2, TimesJoined
    <3>2. TimesIn(f, queue) = 0
      BY <2>1, FS_EmptySet DEF TimesIn
    <3>3. Times(f, table) \in Nat /\ LinesByList(f, logged) \in Nat
      BY TimesNat, LinesNat, LogType DEF ListTypeOK
    <3>4. Times(f, table) + LinesByList(f, logged) + TimesIn(f, queue) = TimesIn(f, globbed)
      BY DEF CountInv, Balance
    <3> QED BY <2>1, <3>1, <3>2, <3>3, <3>4
  <2>4. LogTrue'
    BY <2>1 DEF CountInv, LogTrue, Unfit
  <2>5. LogRepeats'
    BY <2>1 DEF CountInv, LogRepeats, Repeated, AboutToRepeat
  <2> QED BY <2>1, <2>3, <2>4, <2>5 DEF CountInv, Balance, ShownIfFound
<1> QED BY <1>1, <1>2

(* ExtractConfigDump logs a file that stays in work.                         *)
LEMMA ExtractFailureCount ==
  ASSUME RowInv, CountInv, ExtractDumpsFails
  PROVE  CountInv'
<1> DEFINE content == archive[Head(queue)]
<1>0. ListTypeOK /\ queue # <<>> /\ listPc = "extract"
  BY DEF RowInv, ListTypeOK, ExtractDumpsFails
<1>1. content \in was[Head(queue)]
  BY <1>0, QueueHead DEF RowInv
<1>2. row'.config = NoFile \/ ~(content.exists /\ content.whole)
  BY DEF ExtractDumpsFails, Nothing
<1>3. row'.config = NoFile \/ Unfit(Head(queue))
  BY <1>1, <1>2 DEF Unfit
<1>4. ~Good(row')
  BY ListAssumption DEF ExtractDumpsFails, Good, Nothing
<1>5. /\ listPc' = "remove" /\ UNCHANGED <<was, queue, globbed, table, shown>>
      /\ logged' = Append(logged, LogLine(Head(queue), "ExtractConfigDump", row'.config = NoFile))
  BY DEF ExtractDumpsFails, AfterFailure, listEnv
<1> HIDE DEF content
<1> PICK io \in BOOLEAN : io <=> row'.config = NoFile
  OBVIOUS
<1> PICK line : line = LogLine(Head(queue), "ExtractConfigDump", io)
  OBVIOUS
<1>6. /\ logged \in Seq(Lines) /\ line \in Lines /\ logged' = Append(logged, line)
      /\ line.file = Head(queue) /\ line.by = "ExtractConfigDump" /\ line.io = io
  BY <1>0, <1>5, QueueHead, LineType, LogType
<1>7. ASSUME NEW f \in Archives
      PROVE  LinesByList(f, logged') = LinesByList(f, logged)
  <2>1. /\ LinesByList(f, logged) \in Nat
        /\ LinesByList(f, Append(logged, line)) =
             LinesByList(f, logged) + IF line.file = f /\ line.by = "list" THEN 1 ELSE 0
    BY ONLY <1>6, LinesAppended
  <2>2. LinesByList(f, logged') = LinesByList(f, Append(logged, line))
    BY <1>6
  <2> QED BY ONLY <1>6, <2>1, <2>2
<1>8. Balance'
  BY <1>5, <1>7 DEF CountInv, Balance
<1>9. /\ Len(logged) \in Nat /\ Len(logged') = Len(logged) + 1
      /\ DOMAIN logged = 1..Len(logged) /\ DOMAIN logged' = 1..(Len(logged) + 1)
      /\ \A i \in DOMAIN logged : logged'[i] = logged[i]
      /\ logged'[Len(logged) + 1] = line
  BY ONLY <1>6
<1>10. \A f : Unfit(f)' <=> Unfit(f)
  BY <1>5 DEF Unfit
<1>11. LogTrue'
  <2>1. ASSUME NEW i \in DOMAIN logged' PROVE logged'[i].io \/ Unfit(logged'[i].file)
    <3>1. CASE i = Len(logged) + 1
      BY <1>3, <1>6, <1>9, <3>1
    <3>2. CASE i # Len(logged) + 1
      BY <1>9, <3>2 DEF CountInv, LogTrue
    <3> QED BY <3>1, <3>2
  <2> QED BY <1>3, <1>5, <1>10, <2>1 DEF LogTrue
<1>12. LogRepeats'
  <2> SUFFICES ASSUME NEW i \in DOMAIN logged', logged'[i].by = "ExtractConfigDump"
               PROVE  Repeated(i)' \/ AboutToRepeat(i)'
    BY DEF LogRepeats
  <2>1. CASE i = Len(logged) + 1
    BY <1>4, <1>5, <1>6, <1>9, <2>1 DEF AboutToRepeat
  <2>2. CASE i # Len(logged) + 1
    <3>1. i \in DOMAIN logged /\ logged'[i] = logged[i]
      BY <1>9, <2>2
    <3>2. Repeated(i)
      BY <1>0, <3>1 DEF CountInv, LogRepeats, AboutToRepeat
    <3> QED BY <1>9, <3>1, <3>2 DEF Repeated
  <2> QED BY <2>1, <2>2
<1> QED BY <1>5, <1>8, <1>11, <1>12 DEF CountInv, ShownIfFound

LEMMA CountStep == RowInv /\ CountInv /\ [ListNext]_listVars => CountInv'
<1> SUFFICES ASSUME RowInv, CountInv, [ListNext]_listVars PROVE CountInv'
  OBVIOUS
<1>0. ListTypeOK
  BY DEF RowInv
<1> USE DEF listEnv
<1>1. CASE Glob
  BY <1>0, <1>1, GlobCount
<1>2. CASE NextPath
  BY <1>2, StillCount DEF NextPath
<1>3. CASE MakeDirFails
  BY <1>0, <1>3, LoggedCount DEF MakeDirFails
<1>4. ASSUME NEW d \in TempDirs, MakeDir(d) PROVE CountInv'
  BY <1>4, StillCount DEF MakeDir
<1>5. CASE ExtractDumps
  BY <1>5, StillCount DEF ExtractDumps
<1>6. CASE ExtractDumpsFails
  BY <1>6, ExtractFailureCount
<1>7. CASE ReadDumps
  <2>1. Good(row') \/ Unfit(Head(queue))
    <3>1. PICK c \in was[Head(queue)] : c.config = disk[dir].config /\ c.spec = disk[dir].spec
      BY <1>7 DEF ReadDumps, RowInv, Says
    <3> QED BY <1>7, <3>1 DEF ReadDumps, Good, Unfit
  <2> QED BY <1>7, <2>1, StillCount DEF ReadDumps
<1>8. CASE RemoveDir \/ RemoveDirFails
  BY <1>8, StillCount DEF RemoveDir, RemoveDirFails, CountInv, LogTrue
<1>9. CASE ListFile
  <2>1. /\ listPc = "next" /\ queue # <<>> /\ queue' = Tail(queue) /\ listPc' = "file"
        /\ UNCHANGED <<was, globbed>>
    BY <1>0, <1>9 DEF ListFile, ListTypeOK, QueueAfter
  <2>2. CASE Good(row)
    <3> DEFINE new == [file |-> Head(queue), config |-> row.config, spec |-> row.spec]
    <3>1. new \in [file : Archives, config : Dumps, spec : Dumps] /\ new.file = Head(queue)
      BY <1>0, <2>1, <2>2, QueueHead DEF Good
    <3>2. table' = Append(table, new) /\ UNCHANGED logged
      BY <1>9, <2>2 DEF ListFile
    <3> HIDE DEF new
    <3> QED BY <1>0, <2>1, <2>2, <3>1, <3>2, ListedCount
  <2>3. CASE ~Good(row)
    <3>1. PICK io \in BOOLEAN : io <=> row.config = NoFile
      OBVIOUS
    <3>2. logged' = Append(logged, LogLine(Head(queue), "list", io)) /\ UNCHANGED table
      BY <1>9, <2>3, <3>1 DEF ListFile
    <3>3. io \/ Unfit(Head(queue))
      BY <2>1, <2>3, <3>1 DEF CountInv, LogTrue
    <3> QED BY <1>0, <2>1, <3>1, <3>2, <3>3, LoggedCount
  <2> QED BY <2>2, <2>3
<1>10. CASE PrintTable
  BY <1>10, StillCount DEF PrintTable
<1>11. CASE KillList
  BY <1>11, StillCount DEF KillList
<1>12. CASE ReplaceArchive
  <2>1. /\ UNCHANGED <<listPc, queue, globbed, row, table, logged, shown>>
        /\ \A f \in Archives : was[f] \subseteq was'[f]
    BY <1>0, <1>12 DEF ReplaceArchive, ListTypeOK
  <2>2. \A i \in DOMAIN logged : logged[i].file \in Archives
    <3>1. logged \in Seq(Lines)
      BY <1>0, LogType
    <3>2. \A i \in DOMAIN logged : logged[i] \in Lines
      BY ONLY <3>1, Element
    <3> QED BY <3>2 DEF Lines
  <2>3. listPc \in {"remove", "next"} => Head(queue) \in Archives
    BY <1>0, QueueHead DEF ListTypeOK
  <2>4. LogTrue'
    BY <2>1, <2>2, <2>3, StaysUnfit DEF CountInv, LogTrue
  <2>5. LogRepeats'
    BY <2>1 DEF CountInv, LogRepeats, Repeated, AboutToRepeat
  <2> QED BY <2>1, <2>4, <2>5 DEF CountInv, Balance, ShownIfFound
<1>13. CASE UNCHANGED listVars
  <2>1. LogTrue' /\ LogRepeats'
    BY <1>13 DEF listVars, CountInv, LogTrue, Unfit, LogRepeats, Repeated, AboutToRepeat
  <2> QED BY <1>13, <2>1 DEF listVars, CountInv, Balance, ShownIfFound
<1> QED BY <1>1, <1>2, <1>3, <1>4, <1>5, <1>6, <1>7, <1>8, <1>9, <1>10, <1>11, <1>12, <1>13
        DEF ListNext, ListStep

(* For any directories, archives and replacements: a file that was found is   *)
(* listed, or logged by list, as often as it was found; what ExtractConfigDump *)
(* logs is repeated and counted once; a file that always was in order is logged *)
(* after an I/O error alone; and the table says that there are files.         *)
THEOREM NothingHidden == ListSpec => []NoFileHidden
<1>1. RowInv /\ CountInv /\ [ListNext]_listVars => CountInv'
  BY CountStep
<1>2. CountInv => NoFileHidden
  <2> SUFFICES ASSUME CountInv PROVE NoFileHidden
    OBVIOUS
  <2>1. listPc \in {"path", "file", "done"} =>
          \A i \in DOMAIN logged : logged[i].by = "ExtractConfigDump" => Repeated(i)
    BY DEF CountInv, LogRepeats, AboutToRepeat
  <2> QED BY <2>1 DEF CountInv, Balance, LogTrue, ShownIfFound, Unfit, Repeated, NoFileHidden
<1> QED BY <1>1, <1>2, RowInit, RowStep, CountInit, PTL DEF ListSpec
=============================================================================
