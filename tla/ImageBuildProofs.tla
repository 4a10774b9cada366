-------------------------- MODULE ImageBuildProofs --------------------------
(***************************************************************************)
(* Proofs about ImageBuild, for any number of builds, archives, images and  *)
(* annotations.                                                            *)
(***************************************************************************)
EXTENDS ImageBuild, TLAPS

(* What a build has told and done at each place.                            *)
Phase(p) ==
  /\ p \in published => pc[p] \in {"rm", "exit", "killed"} /\ status[p] # "error"
  /\ status[p] = "ok" => p \in published /\ pc[p] \in {"rm", "exit", "killed"}
  /\ pc[p] \in {"rm", "exit"} => status[p] # "none"
  /\ pc[p] \in Running \ {"untemp", "rm"} => status[p] = "none"
  /\ pc[p] = "orphan" => status[p] = "none"

(* The container of a build holds an archive once it was added, and          *)
(* annotations are read from a good one.                                    *)
Loaded(p) ==
  /\ Using(p) => container[p] \in Containers
  /\ pc[p] \in {"temp", "extract", "untemp", "annotate", "commit", "orphan"} =>
       layers[container[p]] \in Contents
  /\ pc[p] = "untemp" /\ status[p] # "error" => found[p] \in Good
  /\ pc[p] = "annotate" => found[p] \in Good

IInv ==
  TypeOK /\ ContainersApart /\ \A p \in Builders : Phase(p) /\ Loaded(p)

LEMMA StaysApart ==
  ASSUME ContainersApart, UNCHANGED <<live, container>>,
         \A q \in Builders : Using(q)' => Using(q)
  PROVE  ContainersApart'
BY DEF ContainersApart

LEMMA InitIInv == Init => IInv
<1> SUFFICES ASSUME Init PROVE IInv
    OBVIOUS
<1> USE BuildAssumption DEF Init, Running, Ended
<1>1. TypeOK
  BY DEF TypeOK
<1>2. ContainersApart
  BY DEF ContainersApart, Using
<1>3. \A p \in Builders : Phase(p) /\ Loaded(p)
  BY DEF Phase, Loaded, Using
<1> QED BY <1>1, <1>2, <1>3 DEF IInv

LEMMA FromIInv == ASSUME IInv, NEW p \in Builders, From(p) PROVE IInv'
<1> USE BuildAssumption DEF From, Fresh, Goto, FailTo, Running, Ended, store, local
<1>0. TypeOK /\ ContainersApart /\ \A q \in Builders : Phase(q) /\ Loaded(q)
  BY DEF IInv
<1>1. TypeOK'
  BY <1>0 DEF TypeOK, Loaded, Using
<1>2. ContainersApart'
  BY <1>0 DEF TypeOK, ContainersApart, Using
<1>3. ASSUME NEW q \in Builders PROVE Phase(q)'
  BY <1>0 DEF TypeOK, Phase
<1>4. ASSUME NEW q \in Builders PROVE Loaded(q)'
  BY <1>0 DEF TypeOK, ContainersApart, Loaded, Using
<1> QED BY <1>1, <1>2, <1>3, <1>4 DEF IInv

LEMMA FromFailsIInv == ASSUME IInv, NEW p \in Builders, FromFails(p) PROVE IInv'
<1> USE BuildAssumption DEF FromFails, Goto, FailTo, Running, Ended, store, local
<1>0. TypeOK /\ ContainersApart /\ \A q \in Builders : Phase(q) /\ Loaded(q)
  BY DEF IInv
<1>1. TypeOK'
  BY <1>0 DEF TypeOK, Loaded, Using
<1>2. ContainersApart'
  BY <1>0 DEF TypeOK, ContainersApart, Using
<1>3. ASSUME NEW q \in Builders PROVE Phase(q)'
  BY <1>0 DEF TypeOK, Phase
<1>4. ASSUME NEW q \in Builders PROVE Loaded(q)'
  BY <1>0 DEF TypeOK, ContainersApart, Loaded, Using
<1> QED BY <1>1, <1>2, <1>3, <1>4 DEF IInv

LEMMA AddIInv == ASSUME IInv, NEW p \in Builders, Add(p) PROVE IInv'
<1> USE BuildAssumption DEF Add, Goto, FailTo, Running, Ended, store, local
<1>0. TypeOK /\ ContainersApart /\ \A q \in Builders : Phase(q) /\ Loaded(q)
  BY DEF IInv
<1>1. TypeOK'
  BY <1>0 DEF TypeOK, Loaded, Using
<1>2. ContainersApart'
  BY <1>0 DEF TypeOK, ContainersApart, Using
<1>3. ASSUME NEW q \in Builders PROVE Phase(q)'
  BY <1>0 DEF TypeOK, Phase
<1>4. ASSUME NEW q \in Builders PROVE Loaded(q)'
  BY <1>0 DEF TypeOK, ContainersApart, Loaded, Using
<1> QED BY <1>1, <1>2, <1>3, <1>4 DEF IInv

LEMMA AddFailsIInv == ASSUME IInv, NEW p \in Builders, AddFails(p) PROVE IInv'
<1> USE BuildAssumption DEF AddFails, Goto, FailTo, Running, Ended, store, local
<1>0. TypeOK /\ ContainersApart /\ \A q \in Builders : Phase(q) /\ Loaded(q)
  BY DEF IInv
<1>1. TypeOK'
  BY <1>0 DEF TypeOK, Loaded, Using
<1>2. ContainersApart'
  BY <1>0 DEF TypeOK, ContainersApart, Using
<1>3. ASSUME NEW q \in Builders PROVE Phase(q)'
  BY <1>0 DEF TypeOK, Phase
<1>4. ASSUME NEW q \in Builders PROVE Loaded(q)'
  <2>1. CASE q = p
    BY <1>0, <2>1 DEF TypeOK, Loaded, Using
  <2>2. CASE q # p
    BY <1>0, <2>2 DEF TypeOK, Loaded, Using
  <2> QED BY <2>1, <2>2
<1> QED BY <1>1, <1>2, <1>3, <1>4 DEF IInv

LEMMA MakeTempIInv == ASSUME IInv, NEW p \in Builders, MakeTemp(p) PROVE IInv'
<1> USE BuildAssumption DEF MakeTemp, Goto, FailTo, Running, Ended, store, local
<1>0. TypeOK /\ ContainersApart /\ \A q \in Builders : Phase(q) /\ Loaded(q)
  BY DEF IInv
<1>1. TypeOK'
  BY <1>0 DEF TypeOK, Loaded, Using
<1>a. \A q \in Builders : Using(q)' => Using(q)
  BY <1>0 DEF TypeOK, Using
<1>2. ContainersApart'
  BY <1>0, <1>a, StaysApart
<1>3. ASSUME NEW q \in Builders PROVE Phase(q)'
  BY <1>0 DEF TypeOK, Phase
<1>4. ASSUME NEW q \in Builders PROVE Loaded(q)'
  BY <1>0 DEF TypeOK, ContainersApart, Loaded, Using
<1> QED BY <1>1, <1>2, <1>3, <1>4 DEF IInv

LEMMA ExtractIInv == ASSUME IInv, NEW p \in Builders, Extract(p) PROVE IInv'
<1> USE BuildAssumption DEF Extract, Goto, FailTo, Running, Ended, store, local
<1>0. TypeOK /\ ContainersApart /\ \A q \in Builders : Phase(q) /\ Loaded(q)
  BY DEF IInv
<1>1. TypeOK'
  <2>1. found' \in [Builders -> Good \union {NoArchive}]
    <3>1. CASE archive[request[p].path] \in Good
      BY <1>0, <3>1 DEF TypeOK
    <3>2. CASE archive[request[p].path] \notin Good
      BY <1>0, <3>2 DEF TypeOK
    <3> QED BY <3>1, <3>2
  <2>2. todo' \in [Builders -> SUBSET Keys]
    <3>1. Keys \in SUBSET Keys /\ todo \in [Builders -> SUBSET Keys]
      BY <1>0 DEF TypeOK
    <3>2. todo' = todo \/ todo' = [todo EXCEPT ![p] = Keys]
      OBVIOUS
    <3> QED BY <3>1, <3>2
  <2>3. pc' \in [Builders -> Running \union Ended]
    BY <1>0 DEF TypeOK, Loaded, Using
  <2>4. status' \in [Builders -> {"none", "ok", "error"}]
    BY <1>0 DEF TypeOK, Loaded, Using
  <2> QED BY <1>0, <2>1, <2>2, <2>3, <2>4 DEF TypeOK
<1>a. \A q \in Builders : Using(q)' => Using(q)
  BY <1>0 DEF TypeOK, Using
<1>2. ContainersApart'
  BY <1>0, <1>a, StaysApart
<1>3. ASSUME NEW q \in Builders PROVE Phase(q)'
  BY <1>0 DEF TypeOK, Phase
<1>4. ASSUME NEW q \in Builders PROVE Loaded(q)'
  BY <1>0 DEF TypeOK, ContainersApart, Loaded, Using
<1> QED BY <1>1, <1>2, <1>3, <1>4 DEF IInv

LEMMA ExtractFailsIInv == ASSUME IInv, NEW p \in Builders, ExtractFails(p) PROVE IInv'
<1> USE BuildAssumption DEF ExtractFails, Goto, FailTo, Running, Ended, store, local
<1>0. TypeOK /\ ContainersApart /\ \A q \in Builders : Phase(q) /\ Loaded(q)
  BY DEF IInv
<1>1. TypeOK'
  BY <1>0 DEF TypeOK, Loaded, Using
<1>2. ContainersApart'
  BY <1>0 DEF TypeOK, ContainersApart, Using
<1>3. ASSUME NEW q \in Builders PROVE Phase(q)'
  BY <1>0 DEF TypeOK, Phase
<1>4. ASSUME NEW q \in Builders PROVE Loaded(q)'
  BY <1>0 DEF TypeOK, ContainersApart, Loaded, Using
<1> QED BY <1>1, <1>2, <1>3, <1>4 DEF IInv

LEMMA RemoveTempIInv == ASSUME IInv, NEW p \in Builders, RemoveTemp(p) PROVE IInv'
<1> USE BuildAssumption DEF RemoveTemp, Goto, FailTo, Running, Ended, store, local
<1>0. TypeOK /\ ContainersApart /\ \A q \in Builders : Phase(q) /\ Loaded(q)
  BY DEF IInv
<1>1. TypeOK'
  <2>1. tempDir' \in [Builders -> BOOLEAN]
    BY <1>0 DEF TypeOK, Loaded, Using
  <2>2. stuck' \in [Builders -> SUBSET {"tempDir", "container"}]
    BY <1>0 DEF TypeOK, Loaded, Using
  <2>3. pc' \in [Builders -> Running \union Ended]
    BY <1>0 DEF TypeOK, Loaded, Using
  <2> QED BY <1>0, <2>1, <2>2, <2>3 DEF TypeOK
<1>2. ContainersApart'
  BY <1>0 DEF TypeOK, ContainersApart, Using
<1>3. ASSUME NEW q \in Builders PROVE Phase(q)'
  BY <1>0 DEF TypeOK, Phase
<1>4. ASSUME NEW q \in Builders PROVE Loaded(q)'
  BY <1>0 DEF TypeOK, ContainersApart, Loaded, Using
<1> QED BY <1>1, <1>2, <1>3, <1>4 DEF IInv

LEMMA AnnotateIInv == ASSUME IInv, NEW p \in Builders, Annotate(p) PROVE IInv'
<1> USE BuildAssumption DEF Annotate, Goto, FailTo, Running, Ended, store, local
<1>0. TypeOK /\ ContainersApart /\ \A q \in Builders : Phase(q) /\ Loaded(q)
  BY DEF IInv
<1>1. TypeOK'
  <2>a. PICK key \in todo[p] :
          \/ notes' = [notes EXCEPT ![container[p]] = @ \union {<<key, found[p]>>}]
          \/ notes' = notes
    OBVIOUS
  <2>b. found[p] \in Good /\ container[p] \in Containers
    BY <1>0 DEF Loaded, Using
  <2>c. <<key, found[p]>> \in Keys \X Good
    BY <1>0, <2>a, <2>b DEF TypeOK
  <2>1. notes' \in [Containers -> SUBSET (Keys \X Good)]
    BY <1>0, <2>a, <2>b, <2>c DEF TypeOK
  <2>2. todo' \in [Builders -> SUBSET Keys]
    BY <1>0 DEF TypeOK, Loaded, Using
  <2> QED BY <1>0, <2>1, <2>2 DEF TypeOK
<1>2. ContainersApart'
  BY <1>0 DEF TypeOK, ContainersApart, Using
<1>3. ASSUME NEW q \in Builders PROVE Phase(q)'
  BY <1>0 DEF TypeOK, Phase
<1>4. ASSUME NEW q \in Builders PROVE Loaded(q)'
  BY <1>0 DEF TypeOK, ContainersApart, Loaded, Using
<1> QED BY <1>1, <1>2, <1>3, <1>4 DEF IInv

LEMMA AnnotateEndsIInv == ASSUME IInv, NEW p \in Builders, AnnotateEnds(p) PROVE IInv'
<1> USE BuildAssumption DEF AnnotateEnds, Goto, FailTo, Running, Ended, store, local
<1>0. TypeOK /\ ContainersApart /\ \A q \in Builders : Phase(q) /\ Loaded(q)
  BY DEF IInv
<1>1. TypeOK'
  BY <1>0 DEF TypeOK, Loaded, Using
<1>2. ContainersApart'
  BY <1>0 DEF TypeOK, ContainersApart, Using
<1>3. ASSUME NEW q \in Builders PROVE Phase(q)'
  BY <1>0 DEF TypeOK, Phase
<1>4. ASSUME NEW q \in Builders PROVE Loaded(q)'
  BY <1>0 DEF TypeOK, ContainersApart, Loaded, Using
<1> QED BY <1>1, <1>2, <1>3, <1>4 DEF IInv

LEMMA CommitIInv == ASSUME IInv, NEW p \in Builders, Commit(p) PROVE IInv'
<1> USE BuildAssumption DEF Commit, Publish, Image, ImageType, Goto, FailTo, Running, Ended, store, local
<1>0. TypeOK /\ ContainersApart /\ \A q \in Builders : Phase(q) /\ Loaded(q)
  BY DEF IInv
<1>1. TypeOK'
  BY <1>0 DEF TypeOK, Loaded, Using
<1>2. ContainersApart'
  BY <1>0 DEF TypeOK, ContainersApart, Using
<1>3. ASSUME NEW q \in Builders PROVE Phase(q)'
  BY <1>0 DEF TypeOK, Phase
<1>4. ASSUME NEW q \in Builders PROVE Loaded(q)'
  BY <1>0 DEF TypeOK, ContainersApart, Loaded, Using
<1> QED BY <1>1, <1>2, <1>3, <1>4 DEF IInv

LEMMA CommitFailsIInv == ASSUME IInv, NEW p \in Builders, CommitFails(p) PROVE IInv'
<1> USE BuildAssumption DEF CommitFails, Goto, FailTo, Running, Ended, store, local
<1>0. TypeOK /\ ContainersApart /\ \A q \in Builders : Phase(q) /\ Loaded(q)
  BY DEF IInv
<1>1. TypeOK'
  BY <1>0 DEF TypeOK, Loaded, Using
<1>2. ContainersApart'
  BY <1>0 DEF TypeOK, ContainersApart, Using
<1>3. ASSUME NEW q \in Builders PROVE Phase(q)'
  BY <1>0 DEF TypeOK, Phase
<1>4. ASSUME NEW q \in Builders PROVE Loaded(q)'
  BY <1>0 DEF TypeOK, ContainersApart, Loaded, Using
<1> QED BY <1>1, <1>2, <1>3, <1>4 DEF IInv

LEMMA RemoveIInv == ASSUME IInv, NEW p \in Builders, Remove(p) PROVE IInv'
<1> USE BuildAssumption DEF Remove, Goto, FailTo, Running, Ended, store, local
<1>0. TypeOK /\ ContainersApart /\ \A q \in Builders : Phase(q) /\ Loaded(q)
  BY DEF IInv
<1>1. TypeOK'
  <2>1. stuck' \in [Builders -> SUBSET {"tempDir", "container"}]
    BY <1>0 DEF TypeOK, Loaded, Using
  <2>2. live' \subseteq Containers
    BY <1>0 DEF TypeOK, Loaded, Using
  <2>3. pc' \in [Builders -> Running \union Ended]
    BY <1>0 DEF TypeOK, Loaded, Using
  <2> QED BY <1>0, <2>1, <2>2, <2>3 DEF TypeOK
<1>2. ContainersApart'
  BY <1>0 DEF TypeOK, ContainersApart, Using
<1>3. ASSUME NEW q \in Builders PROVE Phase(q)'
  BY <1>0 DEF TypeOK, Phase
<1>4. ASSUME NEW q \in Builders PROVE Loaded(q)'
  BY <1>0 DEF TypeOK, ContainersApart, Loaded, Using
<1> QED BY <1>1, <1>2, <1>3, <1>4 DEF IInv

LEMMA KillIInv == ASSUME IInv, NEW p \in Builders, Kill(p) PROVE IInv'
<1> USE BuildAssumption DEF Kill, Goto, FailTo, Running, Ended, store, local
<1>0. TypeOK /\ ContainersApart /\ \A q \in Builders : Phase(q) /\ Loaded(q)
  BY DEF IInv
<1>1. TypeOK'
  BY <1>0 DEF TypeOK, Loaded, Using
<1>a. \A q \in Builders : Using(q)' => Using(q)
  BY <1>0 DEF TypeOK, Using
<1>2. ContainersApart'
  BY <1>0, <1>a, StaysApart
<1>3. ASSUME NEW q \in Builders PROVE Phase(q)'
  BY <1>0 DEF TypeOK, Phase
<1>4. ASSUME NEW q \in Builders PROVE Loaded(q)'
  BY <1>0 DEF TypeOK, ContainersApart, Loaded, Using
<1> QED BY <1>1, <1>2, <1>3, <1>4 DEF IInv

LEMMA OrphanCommitIInv == ASSUME IInv, NEW p \in Builders, OrphanCommit(p) PROVE IInv'
<1> USE BuildAssumption DEF OrphanCommit, Publish, Image, ImageType, Goto, FailTo, Running, Ended, store, local
<1>0. TypeOK /\ ContainersApart /\ \A q \in Builders : Phase(q) /\ Loaded(q)
  BY DEF IInv
<1>1. TypeOK'
  BY <1>0 DEF TypeOK, Loaded, Using
<1>2. ContainersApart'
  BY <1>0 DEF TypeOK, ContainersApart, Using
<1>3. ASSUME NEW q \in Builders PROVE Phase(q)'
  BY <1>0 DEF TypeOK, Phase
<1>4. ASSUME NEW q \in Builders PROVE Loaded(q)'
  BY <1>0 DEF TypeOK, ContainersApart, Loaded, Using
<1> QED BY <1>1, <1>2, <1>3, <1>4 DEF IInv

LEMMA ReplaceIInv == ASSUME IInv, NEW a \in Paths, Replace(a) PROVE IInv'
<1> USE BuildAssumption DEF Replace, store, local
<1>0. TypeOK /\ ContainersApart /\ \A q \in Builders : Phase(q) /\ Loaded(q)
  BY DEF IInv
<1>1. TypeOK'
  BY <1>0 DEF TypeOK
<1>a. \A q \in Builders : Using(q)' => Using(q)
  BY DEF Using
<1>2. ContainersApart'
  BY <1>0, <1>a, StaysApart
<1>3. ASSUME NEW q \in Builders PROVE Phase(q)' /\ Loaded(q)'
  BY <1>0 DEF Phase, Loaded, Using
<1> QED BY <1>1, <1>2, <1>3 DEF IInv

LEMMA StutterIInv == ASSUME IInv, UNCHANGED vars PROVE IInv'
<1>1. UNCHANGED <<archive, live, layers, notes, images, published, request, pc,
                  container, tempDir, stuck, found, todo, status, replaced>>
  BY DEF vars, store, local
<1>2. TypeOK'
  BY <1>1 DEF IInv, TypeOK
<1>3. ContainersApart'
  BY <1>1 DEF IInv, ContainersApart, Using
<1>4. ASSUME NEW q \in Builders PROVE Phase(q)' /\ Loaded(q)'
  BY <1>1 DEF IInv, Phase, Loaded, Using
<1> QED BY <1>2, <1>3, <1>4 DEF IInv

LEMMA NextIInv == IInv /\ [Next]_vars => IInv'
<1> SUFFICES ASSUME IInv, [Next]_vars PROVE IInv'
    OBVIOUS
<1>1. ASSUME NEW p \in Builders, Step(p) PROVE IInv'
  BY <1>1, FromIInv, FromFailsIInv, AddIInv, AddFailsIInv, MakeTempIInv, ExtractIInv,
     ExtractFailsIInv, RemoveTempIInv, AnnotateIInv, AnnotateEndsIInv, CommitIInv,
     CommitFailsIInv, RemoveIInv DEF Step
<1>2. ASSUME NEW p \in Builders, Kill(p) \/ OrphanCommit(p) PROVE IInv'
  BY <1>2, KillIInv, OrphanCommitIInv
<1>3. ASSUME NEW a \in Paths, Replace(a) PROVE IInv'
  BY <1>3, ReplaceIInv
<1>4. CASE UNCHANGED vars
  BY <1>4, StutterIInv
<1> QED BY <1>1, <1>2, <1>3, <1>4 DEF Next

LEMMA Invariance == Spec => []IInv
BY InitIInv, NextIInv, PTL DEF Spec

(* Every variable of a build and of the store holds a value of its kind.     *)
THEOREM TypeCorrect == Spec => []TypeOK
<1>1. IInv => TypeOK
  BY DEF IInv
<1> QED BY Invariance, <1>1, PTL

(* However many builds run, are killed or leave containers behind, no build   *)
(* works on another one's container.                                        *)
THEOREM Apart == Spec => []ContainersApart
<1>1. IInv => ContainersApart
  BY DEF IInv
<1> QED BY Invariance, <1>1, PTL

-----------------------------------------------------------------------------
(***************************************************************************)
(* What a build leaves behind and what its image tells                     *)
(***************************************************************************)

(* A directory or a container that is there is one whose removal is to come,  *)
(* was lost with a kill, or failed; the name of a removed container may be    *)
(* another build's by now.                                                  *)
Removed(p) ==
  /\ tempDir[p] => pc[p] \in {"extract", "untemp", "killed"} \/ "tempDir" \in stuck[p]
  /\ pc[p] = "from" => container[p] = NoContainer
  /\ pc[p] = "exit" /\ container[p] \in live =>
       "container" \in stuck[p] \/ \E q \in Builders \ {p} : container[q] = container[p]

(* Between the archive is added and the image is there: as long as nobody     *)
(* replaces the archive, what was added is what is read for the annotations,  *)
(* and the annotations tell of what was read.                               *)
HasRead(p) ==
  pc[p] \in {"annotate", "commit", "orphan"} \/ (pc[p] = "untemp" /\ status[p] # "error")
Dated(p) ==
  /\ pc[p] \in {"add", "temp", "extract", "untemp"} => notes[container[p]] = {}
  /\ HasRead(p) => \A x \in notes[container[p]] : x[2] = found[p]
  /\ ~replaced[p] =>
       /\ pc[p] \in {"temp", "extract"} => layers[container[p]] = archive[request[p].path]
       /\ HasRead(p) => layers[container[p]] = found[p]

Consistent(img) ==
  /\ img.by \in published
  /\ \A x, y \in img.notes : x[2] = y[2]
  /\ ~replaced[img.by] => \A x \in img.notes : x[2] = img.payload

ContentInv ==
  /\ \A p \in Builders : Removed(p) /\ Dated(p)
  /\ \A n \in ImageNames : images[n] # NoImage => Consistent(images[n])

(* What a step of p leaves to the others: their variables, the archives, and   *)
(* every container but the one p uses.                                      *)
Elsewhere(p) ==
  /\ UNCHANGED <<archive, request>>
  /\ \A q \in Builders \ {p} :
       /\ pc'[q] = pc[q] /\ status'[q] = status[q] /\ found'[q] = found[q]
       /\ container'[q] = container[q] /\ tempDir'[q] = tempDir[q]
       /\ stuck'[q] = stuck[q] /\ replaced'[q] = replaced[q]
  /\ \A c \in Containers :
       \/ Using(p)' /\ c = container'[p]
       \/ notes'[c] = notes[c] /\ layers'[c] = layers[c]
  /\ container'[p] = container[p] \/ pc[p] = "from"
  /\ live' \subseteq live \union {container'[p]}

Acts(p) == Step(p) \/ Kill(p) \/ OrphanCommit(p)

LEMMA ActsElsewhere ==
  ASSUME IInv, NEW p \in Builders, Acts(p)
  PROVE  Elsewhere(p)
<1> USE DEF IInv, TypeOK, Elsewhere, Goto, FailTo, store, local
<1>1. CASE From(p)
  BY <1>1 DEF From, Fresh, Using, Running
<1>2. CASE Add(p)
  BY <1>2 DEF Add, Using, Running
<1>3. CASE FromFails(p) \/ AddFails(p) \/ ExtractFails(p) \/ CommitFails(p) \/ AnnotateEnds(p)
  BY <1>3 DEF FromFails, AddFails, ExtractFails, CommitFails, AnnotateEnds
<1>4. CASE MakeTemp(p)
  BY <1>4 DEF MakeTemp
<1>5. CASE Extract(p)
  BY <1>5 DEF Extract
<1>6. CASE RemoveTemp(p)
  BY <1>6 DEF RemoveTemp
<1>7. CASE Annotate(p)
  BY <1>7 DEF Annotate, Using, Running
<1>8. CASE Commit(p)
  BY <1>8 DEF Commit, Publish
<1>9. CASE Remove(p)
  BY <1>9 DEF Remove
<1>10. CASE Kill(p)
  BY <1>10 DEF Kill
<1>11. CASE OrphanCommit(p)
  BY <1>11 DEF OrphanCommit, Publish
<1> QED
  BY <1>1, <1>2, <1>3, <1>4, <1>5, <1>6, <1>7, <1>8, <1>9, <1>10, <1>11 DEF Acts, Step

LEMMA OthersContent ==
  ASSUME IInv, IInv', ContentInv, NEW p \in Builders, Elsewhere(p), NEW q \in Builders \ {p}
  PROVE  Removed(q)' /\ Dated(q)'
<1>1. Removed(q) /\ Dated(q) /\ Removed(p) /\ live \subseteq Containers
  BY DEF ContentInv, IInv, TypeOK
<1>2. Removed(q)'
  <2>1. ASSUME NEW r \in Builders \ {q}, container[q] \in live, container[r] = container[q]
        PROVE  container'[r] = container[r]
    BY <1>1, <2>1, BuildAssumption DEF Elsewhere, Removed
  <2>2. container[q] \in live' => container[q] \in live \/ container'[p] = container[q]
    BY DEF Elsewhere
  <2>3. /\ pc'[q] = pc[q] /\ container'[q] = container[q] /\ tempDir'[q] = tempDir[q]
        /\ stuck'[q] = stuck[q]
    BY DEF Elsewhere
  <2>4. ASSUME pc'[q] = "exit", container'[q] \in live', "container" \notin stuck'[q]
        PROVE  \E r \in Builders \ {q} : container'[r] = container'[q]
    <3>1. CASE container[q] \in live
      <4>1. PICK r \in Builders \ {q} : container[r] = container[q]
        BY <1>1, <2>3, <2>4, <3>1 DEF Removed
      <4> QED
        BY <2>1, <2>3, <3>1, <4>1
    <3>2. CASE container'[p] = container[q]
      BY <2>3, <3>2
    <3> QED
      BY <2>2, <2>3, <2>4, <3>1, <3>2
  <2> QED
    BY <1>1, <2>3, <2>4 DEF Removed
<1>3. Dated(q)'
  <2>1. /\ pc'[q] = pc[q] /\ status'[q] = status[q] /\ found'[q] = found[q]
        /\ container'[q] = container[q] /\ replaced'[q] = replaced[q]
        /\ UNCHANGED <<archive, request>>
    BY DEF Elsewhere
  <2>2. Using(q) => notes'[container[q]] = notes[container[q]]
                    /\ layers'[container[q]] = layers[container[q]]
    <3>1. Using(q) => Using(q)' /\ container[q] \in Containers
      BY <2>1 DEF Using, IInv, Loaded
    <3>2. Using(q) /\ Using(p)' => container'[p] # container[q]
      BY <2>1, <3>1 DEF IInv, ContainersApart
    <3> QED
      BY <3>1, <3>2 DEF Elsewhere
  <2>3. pc[q] \in {"add", "temp", "extract", "untemp", "annotate", "commit", "orphan"} => Using(q)
    BY DEF Using, Running
  <2> QED
    BY <1>1, <2>1, <2>2, <2>3 DEF Dated, HasRead
<1> QED
  BY <1>2, <1>3

LEMMA OwnRemoved ==
  ASSUME IInv, ContentInv, NEW p \in Builders, Acts(p)
  PROVE  Removed(p)'
<1> USE BuildAssumption DEF IInv, TypeOK, Goto, FailTo, store, local, Running
<1>0. Removed(p)
  BY DEF ContentInv
<1>1. CASE From(p)
  BY <1>0, <1>1 DEF From, Removed
<1>2. CASE Add(p) \/ AddFails(p) \/ ExtractFails(p) \/ CommitFails(p) \/ AnnotateEnds(p)
  BY <1>0, <1>2 DEF Add, AddFails, ExtractFails, CommitFails, AnnotateEnds, Removed
<1>3. CASE FromFails(p)
  BY <1>0, <1>3 DEF FromFails, Removed
<1>4. CASE MakeTemp(p)
  BY <1>0, <1>4 DEF MakeTemp, Removed
<1>5. CASE Extract(p)
  BY <1>0, <1>5 DEF Extract, Removed
<1>6. CASE RemoveTemp(p)
  <2>1. pc'[p] \in {"rm", "annotate"} /\ UNCHANGED container
        /\ (tempDir'[p] => "tempDir" \in stuck'[p])
    BY <1>6 DEF RemoveTemp
  <2> QED
    BY <2>1 DEF Removed
<1>7. CASE Annotate(p)
  BY <1>0, <1>7 DEF Annotate, Removed
<1>8. CASE Commit(p)
  BY <1>0, <1>8 DEF Commit, Publish, Removed
<1>9. CASE Remove(p)
  <2>1. /\ pc[p] = "rm" /\ pc'[p] = "exit" /\ UNCHANGED <<tempDir, container>>
        /\ "tempDir" \in stuck[p] => "tempDir" \in stuck'[p]
        /\ "container" \in stuck'[p] \/ container[p] \notin live'
    BY <1>9 DEF Remove
  <2> QED
    BY <1>0, <2>1 DEF Removed
<1>10. CASE Kill(p)
  <2>1. /\ UNCHANGED <<tempDir, container, stuck, live>>
        /\ pc'[p] = "killed" \/ (pc[p] = "commit" /\ pc'[p] = "orphan")
    <3>1. UNCHANGED <<tempDir, container, stuck, live>>
      BY <1>10 DEF Kill
    <3>2. pc'[p] = "killed" \/ (pc[p] = "commit" /\ pc'[p] = "orphan")
      BY <1>10 DEF Kill
    <3> QED
      BY <3>1, <3>2
  <2> QED
    BY <1>0, <2>1 DEF Removed
<1>11. CASE OrphanCommit(p)
  BY <1>0, <1>11 DEF OrphanCommit, Publish, Removed
<1> QED
  BY <1>1, <1>2, <1>3, <1>4, <1>5, <1>6, <1>7, <1>8, <1>9, <1>10, <1>11 DEF Acts, Step

LEMMA OwnDated ==
  ASSUME IInv, ContentInv, NEW p \in Builders, Acts(p)
  PROVE  Dated(p)'
<1> USE DEF IInv, TypeOK, Goto, FailTo, store, local, HasRead
<1>0. Dated(p) /\ Phase(p) /\ Loaded(p)
  BY DEF ContentInv
<1>1. CASE From(p)
  BY <1>1 DEF From, Fresh, Dated
<1>2. CASE FromFails(p) \/ AddFails(p) \/ ExtractFails(p) \/ CommitFails(p) \/ Commit(p)
           \/ Remove(p) \/ OrphanCommit(p)
  <2>1. /\ UNCHANGED <<notes, container>>
        /\ pc'[p] \in {"exit", "rm", "killed"}
           \/ (pc[p] = "extract" /\ pc'[p] = "untemp" /\ status'[p] = "error")
    BY <1>2 DEF FromFails, AddFails, ExtractFails, CommitFails, Commit, Remove, OrphanCommit,
                Publish
  <2> QED
    BY <1>0, <2>1 DEF Dated
<1>3. CASE Add(p)
  <2>1. container[p] \in Containers
    BY <1>0, <1>3 DEF Add, Loaded, Using, Running
  <2> QED
    BY <1>0, <1>3, <2>1 DEF Add, Dated
<1>4. CASE MakeTemp(p)
  BY <1>0, <1>4 DEF MakeTemp, Dated
<1>5. CASE Extract(p)
  BY <1>0, <1>5 DEF Extract, Dated
<1>6. CASE RemoveTemp(p)
  BY <1>0, <1>6 DEF RemoveTemp, Dated
<1>7. CASE Annotate(p)
  <2>1. container[p] \in Containers
    BY <1>0, <1>7 DEF Annotate, Loaded, Using, Running
  <2>2. /\ UNCHANGED <<archive, layers, request, pc, container, found, status, replaced>>
        /\ pc[p] = "annotate"
        /\ \A x \in notes'[container[p]] : x \in notes[container[p]] \/ x[2] = found[p]
    BY <1>7, <2>1 DEF Annotate
  <2> QED
    BY <1>0, <2>2 DEF Dated
<1>8. CASE AnnotateEnds(p)
  BY <1>0, <1>8 DEF AnnotateEnds, Dated
<1>9. CASE Kill(p)
  <2>1. /\ UNCHANGED <<archive, notes, layers, request, container, found, status, replaced>>
        /\ pc'[p] = "killed" \/ (pc[p] = "commit" /\ pc'[p] = "orphan")
    <3>1. UNCHANGED <<archive, notes, layers, request, container, found, status, replaced>>
      BY <1>9 DEF Kill
    <3>2. pc'[p] = "killed" \/ (pc[p] = "commit" /\ pc'[p] = "orphan")
      BY <1>9 DEF Kill
    <3> QED
      BY <3>1, <3>2
  <2> QED
    BY <1>0, <2>1 DEF Dated
<1> QED
  BY <1>1, <1>2, <1>3, <1>4, <1>5, <1>6, <1>7, <1>8, <1>9 DEF Acts, Step

(* An image stays what it is; that its archive was replaced since is never    *)
(* taken back, for its build adds nothing any more.                         *)
LEMMA ConsistentStays ==
  ASSUME NEW img, Consistent(img), published \subseteq published',
         \A q \in published : replaced[q] => replaced'[q]
  PROVE  Consistent(img)'
BY DEF Consistent

LEMMA ImagesContent ==
  ASSUME IInv, ContentInv, NEW p \in Builders, Acts(p),
         NEW n \in ImageNames, NEW img, img = images'[n], img # NoImage
  PROVE  Consistent(img)'
<1> USE DEF IInv, TypeOK
<1>1. published \subseteq published' /\ \A q \in published : replaced[q] => replaced'[q]
  <2>1. CASE Add(p)
    <3>1. p \notin published
      BY <2>1 DEF Add, Phase
    <3> QED
      BY <2>1, <3>1 DEF Add
  <2>2. CASE ~Add(p)
    <3>1. UNCHANGED replaced /\ published \subseteq published'
      BY <2>2 DEF Acts, Step, From, FromFails, AddFails, MakeTemp, Extract, ExtractFails,
                  RemoveTemp, Annotate, AnnotateEnds, Commit, CommitFails, Remove, Kill,
                  OrphanCommit, Publish, store
    <3> QED
      BY <3>1
  <2> QED
    BY <2>1, <2>2
<1>2. CASE images'[n] = images[n]
  <2>1. Consistent(img)
    BY <1>2 DEF ContentInv
  <2> QED
    BY <1>1, <1>2, <2>1, ConsistentStays
<1>3. CASE images'[n] # images[n]
  <2>1. (Commit(p) \/ OrphanCommit(p)) /\ Publish(p)
    BY <1>3 DEF Acts, Step, From, FromFails, Add, AddFails, MakeTemp, Extract, ExtractFails,
                RemoveTemp, Annotate, AnnotateEnds, Commit, CommitFails, Remove, Kill,
                OrphanCommit, store
  <2>2. img = Image(p) /\ p \in published' /\ UNCHANGED replaced
    BY <1>3, <2>1 DEF Publish, Commit, OrphanCommit
  <2>3. /\ \A x \in notes[container[p]] : x[2] = found[p]
        /\ ~replaced[p] => layers[container[p]] = found[p]
    BY <2>1 DEF Commit, OrphanCommit, ContentInv, Dated, HasRead
  <2>4. /\ img.by = p /\ img.payload = layers[container[p]]
        /\ img.notes = notes[container[p]]
    BY <2>2 DEF Image
  <2> QED
    BY <2>2, <2>3, <2>4 DEF Consistent
<1> QED
  BY <1>2, <1>3

LEMMA NextContent ==
  ASSUME IInv, IInv', ContentInv, [Next]_vars
  PROVE  ContentInv'
<1>1. ASSUME NEW p \in Builders, Acts(p) PROVE ContentInv'
  <2>1. Elsewhere(p)
    BY <1>1, ActsElsewhere
  <2>2. \A q \in Builders : Removed(q)' /\ Dated(q)'
    BY <1>1, <2>1, OthersContent, OwnRemoved, OwnDated
  <2>3. ASSUME NEW n \in ImageNames, (images[n] # NoImage)' PROVE Consistent(images[n])'
    <3>1. PICK img : img = images'[n]
      OBVIOUS
    <3>2. Consistent(img)'
      BY <1>1, <2>3, <3>1, ImagesContent
    <3> QED
      BY <3>1, <3>2 DEF Consistent
  <2> QED
    BY <2>2, <2>3 DEF ContentInv
<1>2. ASSUME NEW a \in Paths, Replace(a) PROVE ContentInv'
  <2>1. /\ UNCHANGED <<live, layers, notes, images, published, request, pc, container,
                       tempDir, stuck, found, status>>
        /\ archive \in [Paths -> Contents \union {NoArchive}]
        /\ \A b \in Paths : b # a => archive'[b] = archive[b]
        /\ \A q \in Builders : replaced'[q] = (replaced[q] \/ request[q].path = a)
        /\ published \subseteq Builders
        /\ \A q \in Builders : request[q].path \in Paths
    BY <1>2 DEF Replace, store, local, IInv, TypeOK
  <2>2. \A q \in Builders : Removed(q)'
    BY <2>1 DEF ContentInv, Removed
  <2>3. \A q \in Builders : Dated(q)'
    BY <2>1 DEF ContentInv, Dated, HasRead
  <2>4. \A n \in ImageNames : images[n] # NoImage => Consistent(images[n])'
    BY <2>1, ConsistentStays DEF ContentInv
  <2> QED
    BY <2>1, <2>2, <2>3, <2>4 DEF ContentInv
<1>3. CASE UNCHANGED vars
  <2>1. UNCHANGED <<archive, live, layers, notes, images, published, request, pc,
                    container, tempDir, stuck, found, status, replaced>>
    BY <1>3 DEF vars, store, local
  <2> QED
    BY <2>1 DEF ContentInv, Removed, Dated, HasRead, Consistent
<1> QED
  BY <1>1, <1>2, <1>3 DEF Next, Acts

LEMMA InitContent == Init => ContentInv
BY BuildAssumption DEF Init, ContentInv, Removed, Dated, HasRead

LEMMA ContentInvariance == Spec => [](IInv /\ ContentInv)
<1>1. IInv /\ IInv' /\ ContentInv /\ [Next]_vars => ContentInv'
  BY NextContent
<1> QED
  BY <1>1, InitContent, Invariance, PTL DEF Spec

(* The deferred calls remove what a build made, whatever failed and however   *)
(* many builds share buildah's store, unless the removal itself failed.      *)
THEOREM LeavesNothing == Spec => []NothingLeft
<1>1. ContentInv => NothingLeft
  BY DEF ContentInv, Removed, NothingLeft
<1> QED BY ContentInvariance, <1>1, PTL

(* The annotations of an image tell of one content, and of the very one in     *)
(* the image unless the archive was replaced after it was added.             *)
THEOREM ContentIsOne == Spec => []OneContent
<1>1. ContentInv => OneContent
  BY DEF ContentInv, Consistent, OneContent
<1> QED BY ContentInvariance, <1>1, PTL

-----------------------------------------------------------------------------
(***************************************************************************)
(* ImageBuild implements ImagePublish.                                     *)
(***************************************************************************)

LEMMA Unseen ==
  ASSUME UNCHANGED <<request, images, published>>,
         \A p \in Builders : Outcome(p)' = Outcome(p)
  PROVE  UNCHANGED Publishing!vars
BY DEF Publishing!vars, Seen

LEMMA Reported ==
  ASSUME NEW p \in Builders, NEW how,
         UNCHANGED <<request, images, published>>,
         Outcome(p) = "running", Outcome(p)' = how,
         \A q \in Builders \ {p} : Outcome(q)' = Outcome(q)
  PROVE  Publishing!Report(p, how)
BY DEF Publishing!Report, Seen

LEMMA Published ==
  ASSUME IInv, NEW p \in Builders, pc[p] \in {"commit", "orphan"}, Publish(p),
         UNCHANGED request,
         Outcome(p) \in {"running", "killed"},
         \A q \in Builders : Outcome(q)' = Outcome(q)
  PROVE  Publishing!Publish(p)
<1>1. p \notin published
  BY DEF IInv, Phase
<1>2. container[p] \in Containers /\ layers[container[p]] \in Contents
  BY DEF IInv, Loaded, Using, Running
<1>a. notes[container[p]] \subseteq Keys \X Contents
  BY <1>2, BuildAssumption DEF IInv, TypeOK
<1>b. Image(p) \in [by : Builders, payload : Contents, notes : SUBSET (Keys \X Contents)]
  BY <1>2, <1>a DEF Image
<1>3. Image(p) # NoImage
  BY <1>b, BuildAssumption
<1>4. Seen(Image(p)) = [by |-> p, payload |-> layers[container[p]]]
  BY <1>3 DEF Seen, Image
<1>5. request[p].image \in ImageNames /\ images \in [ImageNames -> ImageType \union {NoImage}]
  BY DEF IInv, TypeOK
<1>6. images' = [images EXCEPT ![request[p].image] = Image(p)]
      /\ published' = published \union {p}
  BY DEF Publish
<1>7. [n \in ImageNames |-> Seen(images[n])]' =
        [[n \in ImageNames |-> Seen(images[n])] EXCEPT
          ![[q \in Builders |-> request[q].image][p]] =
            [by |-> p, payload |-> layers[container[p]]]]
  BY <1>4, <1>5, <1>6 DEF Seen
<1> QED BY <1>1, <1>2, <1>6, <1>7 DEF Publishing!Publish

LEMMA FailRefines ==
  ASSUME IInv, NEW p \in Builders, status[p] = "none", pc[p] \in Running, p \notin published,
         UNCHANGED <<request, images, published>>,
         NEW next, FailTo(p, next)
  PROVE  Publishing!Fail(p)
<1>1. Outcome(p) = "running" /\ Outcome(p)' = "error"
  BY DEF Outcome, IInv, TypeOK, FailTo, Goto, Running
<1>2. \A q \in Builders \ {p} : Outcome(q)' = Outcome(q)
  BY DEF Outcome, IInv, TypeOK, FailTo, Goto
<1>3. Publishing!Report(p, "error")
  BY <1>1, <1>2, Reported
<1> QED BY <1>3 DEF Publishing!Fail

LEMMA QuietRefines ==
  ASSUME IInv, NEW p \in Builders, pc[p] \in Running \ {"rm"},
         UNCHANGED <<request, images, published, status>>,
         NEW next \in Running, pc' = [pc EXCEPT ![p] = next]
  PROVE  UNCHANGED Publishing!vars
<1>1. \A q \in Builders : Outcome(q)' = Outcome(q)
  BY DEF Outcome, IInv, TypeOK, Running
<1> QED BY <1>1, Unseen

LEMMA StepRefines ==
  ASSUME IInv, NEW p \in Builders, Step(p)
  PROVE  Publishing!Next \/ UNCHANGED Publishing!vars
<1> USE DEF store, local
<1>0. TypeOK /\ Phase(p)
  BY DEF IInv
<1>1. CASE \/ From(p) \/ Add(p) \/ RemoveTemp(p) \/ AnnotateEnds(p)
  <2>1. PICK next \in Running : pc' = [pc EXCEPT ![p] = next]
    BY <1>1 DEF From, Add, RemoveTemp, AnnotateEnds, Goto, Running
  <2>2. pc[p] \in Running \ {"rm"} /\ UNCHANGED <<request, images, published, status>>
    BY <1>1 DEF From, Add, RemoveTemp, AnnotateEnds, Running
  <2> QED BY <2>1, <2>2, QuietRefines
<1>2. CASE Annotate(p)
  <2>1. UNCHANGED <<request, images, published, pc, status>>
    BY <1>2 DEF Annotate
  <2> QED BY <2>1, Unseen DEF Outcome
<1>3. CASE FromFails(p) \/ AddFails(p) \/ ExtractFails(p) \/ CommitFails(p)
  <2>1. /\ status[p] = "none" /\ pc[p] \in Running /\ p \notin published
        /\ UNCHANGED <<request, images, published>>
    BY <1>0, <1>3 DEF FromFails, AddFails, ExtractFails, CommitFails, Phase, Running
  <2>2. PICK next \in {"exit", "rm", "untemp"} : FailTo(p, next)
    BY <1>3 DEF FromFails, AddFails, ExtractFails, CommitFails
  <2> QED BY <2>1, <2>2, FailRefines DEF Publishing!Next
<1>4. CASE MakeTemp(p) \/ Extract(p)
  <2>1. /\ status[p] = "none" /\ pc[p] \in Running \ {"rm"} /\ p \notin published
        /\ UNCHANGED <<request, images, published>>
    BY <1>0, <1>4 DEF MakeTemp, Extract, Phase, Running
  <2>2. CASE UNCHANGED status
    <3>1. PICK next \in Running : pc' = [pc EXCEPT ![p] = next]
      BY <1>4, <2>1 DEF MakeTemp, Extract, Goto, FailTo, Running
    <3> QED BY <2>1, <2>2, <3>1, QuietRefines
  <2>3. CASE \E next \in {"rm", "untemp"} : FailTo(p, next)
    BY <2>1, <2>3, FailRefines DEF Publishing!Next
  <2>4. UNCHANGED status \/ \E next \in {"rm", "untemp"} : FailTo(p, next)
    BY <1>4 DEF MakeTemp, Extract
  <2> QED BY <2>2, <2>3, <2>4
<1>5. CASE Commit(p)
  <2>1. status[p] = "none" /\ Outcome(p) = "running"
    BY <1>0, <1>5 DEF Commit, Phase, Outcome, Running
  <2>2. \A q \in Builders : Outcome(q)' = Outcome(q)
    BY <1>0, <1>5, <2>1 DEF Commit, Goto, Outcome, TypeOK
  <2>3. Publishing!Publish(p)
    BY <1>5, <2>1, <2>2, Published DEF Commit
  <2> QED BY <2>3 DEF Publishing!Next
<1>6. CASE Remove(p)
  <2>1. UNCHANGED <<request, images, published, status>> /\ pc[p] = "rm"
        /\ pc' = [pc EXCEPT ![p] = "exit"]
    BY <1>6 DEF Remove, Goto
  <2>2. \A q \in Builders \ {p} : Outcome(q)' = Outcome(q)
    BY <1>0, <2>1 DEF Outcome, TypeOK
  <2>3. CASE status[p] = "error"
    <3>1. Outcome(p)' = Outcome(p)
      BY <2>1, <2>3 DEF Outcome
    <3> QED BY <2>1, <2>2, <3>1, Unseen
  <2>4. CASE status[p] = "ok"
    <3>1. Outcome(p) = "running" /\ Outcome(p)' = "ok"
      BY <1>0, <2>1, <2>4 DEF Outcome, TypeOK
    <3>2. Publishing!Report(p, "ok")
      BY <2>1, <2>2, <3>1, Reported
    <3> QED BY <1>0, <2>4, <3>2 DEF Publishing!Next, Publishing!Succeed, Phase
  <2> QED BY <1>0, <2>1, <2>3, <2>4 DEF TypeOK, Phase
<1> QED BY <1>1, <1>2, <1>3, <1>4, <1>5, <1>6 DEF Step

LEMMA KillRefines ==
  ASSUME IInv, NEW p \in Builders, Kill(p) \/ OrphanCommit(p)
  PROVE  Publishing!Next \/ UNCHANGED Publishing!vars
<1> USE DEF store, local
<1>0. TypeOK /\ Phase(p)
  BY DEF IInv
<1>1. CASE Kill(p)
  <2>1. /\ UNCHANGED <<request, images, published, status>> /\ pc[p] \in Running
        /\ pc' = [pc EXCEPT ![p] = "killed"] \/ pc' = [pc EXCEPT ![p] = "orphan"]
    BY <1>1 DEF Kill, Goto
  <2>2. \A q \in Builders \ {p} : Outcome(q)' = Outcome(q)
    BY <1>0, <2>1 DEF Outcome, TypeOK
  <2>3. CASE status[p] = "error"
    <3>1. Outcome(p)' = Outcome(p)
      BY <2>1, <2>3 DEF Outcome
    <3> QED BY <2>1, <2>2, <3>1, Unseen
  <2>4. CASE status[p] # "error"
    <3>1. Outcome(p) = "running" /\ Outcome(p)' = "killed"
      BY <1>0, <2>1, <2>4 DEF Outcome, TypeOK, Running
    <3>2. Publishing!Report(p, "killed")
      BY <2>1, <2>2, <3>1, Reported
    <3> QED BY <3>2 DEF Publishing!Next, Publishing!Kill
  <2> QED BY <2>3, <2>4
<1>2. CASE OrphanCommit(p)
  <2>1. Outcome(p) = "killed" /\ \A q \in Builders : Outcome(q)' = Outcome(q)
    BY <1>0, <1>2 DEF OrphanCommit, Goto, Phase, Outcome, TypeOK
  <2>2. Publishing!Publish(p)
    BY <1>2, <2>1, Published DEF OrphanCommit
  <2> QED BY <2>2 DEF Publishing!Next
<1> QED BY <1>1, <1>2

LEMMA NextRefines == IInv /\ [Next]_vars => [Publishing!Next]_(Publishing!vars)
<1> SUFFICES ASSUME IInv, [Next]_vars
             PROVE  Publishing!Next \/ UNCHANGED Publishing!vars
    OBVIOUS
<1>1. ASSUME NEW p \in Builders, Step(p) \/ Kill(p) \/ OrphanCommit(p)
      PROVE  Publishing!Next \/ UNCHANGED Publishing!vars
  BY <1>1, StepRefines, KillRefines
<1>2. ASSUME NEW a \in Paths, Replace(a) PROVE UNCHANGED Publishing!vars
  BY <1>2, Unseen DEF Replace, store, Outcome
<1>3. CASE UNCHANGED vars
  BY <1>3, Unseen DEF vars, store, Outcome
<1> QED BY <1>1, <1>2, <1>3 DEF Next

LEMMA InitRefines == Init => Publishing!Init
<1> SUFFICES ASSUME Init PROVE Publishing!Init
    OBVIOUS
<1>1. \A p \in Builders : Outcome(p) = "running"
  BY DEF Init, Outcome
<1>2. \A n \in ImageNames : Seen(images[n]) = NoImage
  BY DEF Init, Seen
<1>3. [p \in Builders |-> request[p].image] \in [Builders -> ImageNames]
  BY DEF Init
<1> QED BY <1>1, <1>2, <1>3 DEF Init, Publishing!Init

(* CreateImageFromCheckpoint publishes at most once, reports success only for *)
(* a published image, and failure only when there is and will be none.       *)
THEOREM Refinement == Spec => PublishesOnce
BY InitRefines, NextRefines, Invariance, PTL DEF Spec, PublishesOnce, Publishing!Spec
=============================================================================
