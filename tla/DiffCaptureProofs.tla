------------------------- MODULE DiffCaptureProofs -------------------------
(***************************************************************************)
(* Proofs about DiffCapture, for any capacity of the pipe, any buffer that   *)
(* is not smaller, and JSON of any size.                                    *)
(***************************************************************************)
EXTENDS DiffCapture, SequenceTheorems, TLAPS

(* Where the JSON of checkpoint k is while it travels.                      *)
Travelling ==
  /\ pc \in {"render", "write"} => written <= size[k]
  /\ pc \in {"render", "write"} =>
       stdout # "terminal" /\ (stdout = "pipe" => piped) /\ (piped => stdout = "pipe")
  /\ pc = "render" => written = 0 /\ pipe = 0
  /\ pc = "write" /\ piped => pipe = written
  /\ pc \in {"restore", "read"} /\ piped /\ size[k] # 0 => pipe = size[k]
  /\ pc = "read" => size[k] # 0

(* The parsed documents are those of the checkpoints before k, or of both.   *)
Document(j) == <<size[j], pstree[j]>>

Parsed ==
  /\ pc \in Capturing => docs = IF k = 1 THEN <<>> ELSE <<Document(1)>>
  /\ pc \in {"compare", "print"} \/ status = "ok" =>
       docs = <<Document(1), Document(2)>>
  /\ pc \in Capturing \ {"stat"} => showTree = pstree[k]
  /\ pc \in Capturing \union {"compare", "print"} => status = "none"

Printed == terminal = IF status = "ok" THEN <<"diff">> ELSE <<>>

Inv == TypeOK /\ Travelling /\ CompleteCapture /\ OutputRestored /\ Parsed /\ Printed

LEMMA AppendPair ==
  ASSUME NEW S, NEW a \in S, NEW b \in S
  PROVE  Append(<<a>>, b) = <<a, b>>
<1> DEFINE s == Append(<<a>>, b)
           t == <<a, b>>
<1>1. <<a>> \in Seq(S) /\ t \in Seq(S) /\ Len(t) = 2 /\ t[1] = a /\ t[2] = b
  OBVIOUS
<1>2. s \in Seq(S) /\ Len(s) = 2 /\ s[1] = a /\ s[2] = b
  BY <1>1, AppendProperties
<1>3. \A i \in 1..Len(s) : s[i] = t[i]
  BY <1>1, <1>2
<1> HIDE DEF s, t
<1>4. s = t
  BY <1>1, <1>2, <1>3, SeqEqual
<1> QED BY <1>4 DEF s, t

LEMMA InitInv == Init => Inv
<1> SUFFICES ASSUME Init PROVE Inv
    OBVIOUS
<1> USE CaptureAssumption DEF Init, PCs, Capturing, Statuses, Both
<1>a. docs \in Seq((0..MaxJson) \X BOOLEAN) /\ terminal \in Seq({"json", "diff"})
  BY EmptySeq
<1>b. pipe \in 0..PipeCapacity /\ got \in Nat /\ written \in Nat /\ left \in 0..2
  OBVIOUS
<1>c. pc \in PCs /\ k \in Both /\ stdout \in {"terminal", "pipe", "nil"} /\ status \in Statuses
  OBVIOUS
<1>d. size \in [Both -> 0..MaxJson] /\ pstree \in [Both -> BOOLEAN]
  OBVIOUS
<1>e. piped \in BOOLEAN /\ showTree \in BOOLEAN
  OBVIOUS
<1>1. TypeOK
  BY <1>a, <1>b, <1>c, <1>d, <1>e, Zenon DEF TypeOK
<1>2. Travelling
  BY DEF Travelling
<1>3. CompleteCapture /\ OutputRestored
  BY DEF CompleteCapture, OutputRestored
<1>4. Parsed /\ Printed
  BY DEF Parsed, Printed
<1> QED BY <1>1, <1>2, <1>3, <1>4 DEF Inv

LEMMA StatPstreeInv == Inv /\ StatPstree => Inv'
<1> SUFFICES ASSUME Inv, StatPstree PROVE Inv'
    OBVIOUS
<1> USE CaptureAssumption DEF StatPstree, Goto, PCs, Capturing, Statuses, Both,
        input, answer, channel
<1>0. TypeOK /\ Travelling /\ CompleteCapture /\ OutputRestored /\ Parsed /\ Printed
  BY DEF Inv
<1>1. TypeOK'
  BY <1>0 DEF TypeOK, Travelling
<1>2. Travelling'
  BY <1>0 DEF TypeOK, Travelling, OutputRestored
<1>3. CompleteCapture' /\ OutputRestored'
  BY <1>0 DEF TypeOK, Travelling, CompleteCapture, OutputRestored, Parsed
<1>4. Parsed' /\ Printed'
  BY <1>0 DEF TypeOK, Travelling, CompleteCapture, Parsed, Printed, Document
<1> QED BY <1>1, <1>2, <1>3, <1>4 DEF Inv

LEMMA OpenPipeInv == Inv /\ OpenPipe => Inv'
<1> SUFFICES ASSUME Inv, OpenPipe PROVE Inv'
    OBVIOUS
<1> USE CaptureAssumption DEF OpenPipe, Goto, RedirectedTo, PCs, Capturing, Statuses, Both,
        input, answer, channel
<1>0. TypeOK /\ Travelling /\ CompleteCapture /\ OutputRestored /\ Parsed /\ Printed
  BY DEF Inv
<1>1. TypeOK'
  BY <1>0 DEF TypeOK, Travelling
<1>2. Travelling'
  BY <1>0 DEF TypeOK, Travelling, OutputRestored
<1>3. CompleteCapture' /\ OutputRestored'
  BY <1>0 DEF TypeOK, Travelling, CompleteCapture, OutputRestored, Parsed
<1>4. Parsed' /\ Printed'
  BY <1>0 DEF TypeOK, Travelling, CompleteCapture, Parsed, Printed, Document
<1> QED BY <1>1, <1>2, <1>3, <1>4 DEF Inv

LEMMA RenderInv == Inv /\ Render => Inv'
<1> SUFFICES ASSUME Inv, Render PROVE Inv'
    OBVIOUS
<1> USE CaptureAssumption DEF Render, Goto, PCs, Capturing, Statuses, Both,
        input, answer, channel
<1>0. TypeOK /\ Travelling /\ CompleteCapture /\ OutputRestored /\ Parsed /\ Printed
  BY DEF Inv
<1>1. TypeOK'
  BY <1>0 DEF TypeOK, Travelling
<1>2. Travelling'
  BY <1>0 DEF TypeOK, Travelling, OutputRestored
<1>3. CompleteCapture' /\ OutputRestored'
  BY <1>0 DEF TypeOK, Travelling, CompleteCapture, OutputRestored, Parsed
<1>4. Parsed' /\ Printed'
  BY <1>0 DEF TypeOK, Travelling, CompleteCapture, Parsed, Printed, Document
<1> QED BY <1>1, <1>2, <1>3, <1>4 DEF Inv

LEMMA WriteChunkInv == Inv /\ WriteChunk => Inv'
<1> SUFFICES ASSUME Inv, WriteChunk PROVE Inv'
    OBVIOUS
<1> USE CaptureAssumption DEF WriteChunk, Goto, Room, PCs, Capturing, Statuses, Both,
        input, answer, channel
<1>0. TypeOK /\ Travelling /\ CompleteCapture /\ OutputRestored /\ Parsed /\ Printed
  BY DEF Inv
<1>1. TypeOK'
  BY <1>0 DEF TypeOK, Travelling
<1>2. Travelling'
  BY <1>0 DEF TypeOK, Travelling, OutputRestored
<1>3. CompleteCapture' /\ OutputRestored'
  BY <1>0 DEF TypeOK, Travelling, CompleteCapture, OutputRestored, Parsed
<1>4. Parsed' /\ Printed'
  BY <1>0 DEF TypeOK, Travelling, CompleteCapture, Parsed, Printed, Document
<1> QED BY <1>1, <1>2, <1>3, <1>4 DEF Inv

LEMMA RenderEndsInv == Inv /\ RenderEnds => Inv'
<1> SUFFICES ASSUME Inv, RenderEnds PROVE Inv'
    OBVIOUS
<1> USE CaptureAssumption DEF RenderEnds, Goto, PCs, Capturing, Statuses, Both,
        input, answer, channel
<1>0. TypeOK /\ Travelling /\ CompleteCapture /\ OutputRestored /\ Parsed /\ Printed
  BY DEF Inv
<1>1. TypeOK'
  BY <1>0 DEF TypeOK, Travelling
<1>2. Travelling'
  BY <1>0 DEF TypeOK, Travelling, OutputRestored
<1>3. CompleteCapture' /\ OutputRestored'
  BY <1>0 DEF TypeOK, Travelling, CompleteCapture, OutputRestored, Parsed
<1>4. Parsed' /\ Printed'
  BY <1>0 DEF TypeOK, Travelling, CompleteCapture, Parsed, Printed, Document
<1> QED BY <1>1, <1>2, <1>3, <1>4 DEF Inv

LEMMA RestoreInv == Inv /\ Restore => Inv'
<1> SUFFICES ASSUME Inv, Restore PROVE Inv'
    OBVIOUS
<1> USE CaptureAssumption DEF Restore, Goto, Restored, Return, PCs, Capturing, Statuses, Both,
        input, answer, channel
<1>0. TypeOK /\ Travelling /\ CompleteCapture /\ OutputRestored /\ Parsed /\ Printed
  BY DEF Inv
<1>1. TypeOK'
  BY <1>0 DEF TypeOK, Travelling
<1>2. Travelling'
  BY <1>0 DEF TypeOK, Travelling, OutputRestored
<1>3. CompleteCapture' /\ OutputRestored'
  BY <1>0 DEF TypeOK, Travelling, CompleteCapture, OutputRestored, Parsed
<1>4. Parsed' /\ Printed'
  BY <1>0 DEF TypeOK, Travelling, CompleteCapture, Parsed, Printed, Document
<1> QED BY <1>1, <1>2, <1>3, <1>4 DEF Inv

LEMMA ReadInv == Inv /\ Read => Inv'
<1> SUFFICES ASSUME Inv, Read PROVE Inv'
    OBVIOUS
<1> USE CaptureAssumption DEF Read, Goto, Readable, PCs, Capturing, Statuses, Both,
        input, answer, channel
<1>0. TypeOK /\ Travelling /\ CompleteCapture /\ OutputRestored /\ Parsed /\ Printed
  BY DEF Inv
<1>1. TypeOK'
  BY <1>0 DEF TypeOK, Travelling
<1>2. Travelling'
  BY <1>0 DEF TypeOK, Travelling, OutputRestored
<1>3. CompleteCapture' /\ OutputRestored'
  BY <1>0 DEF TypeOK, Travelling, CompleteCapture, OutputRestored, Parsed
<1>4. Parsed' /\ Printed'
  BY <1>0 DEF TypeOK, Travelling, CompleteCapture, Parsed, Printed, Document
<1> QED BY <1>1, <1>2, <1>3, <1>4 DEF Inv

LEMMA ParseInv == Inv /\ Parse => Inv'
<1> SUFFICES ASSUME Inv, Parse PROVE Inv'
    OBVIOUS
<1> USE CaptureAssumption DEF Goto, Return, PCs, Capturing, Statuses, Both,
        input, answer, channel
<1>0. TypeOK /\ Travelling /\ CompleteCapture /\ OutputRestored /\ Parsed /\ Printed
  BY DEF Inv
<1>a. /\ pc = "parse" /\ showTree = pstree[k] /\ status = "none"
      /\ docs = IF k = 1 THEN <<>> ELSE <<Document(1)>>
      /\ showTree' = FALSE /\ stdout = "terminal"
      /\ UNCHANGED <<size, pstree, piped, written, pipe, got, stdout, terminal, left>>
  BY <1>0 DEF Parse, Parsed, OutputRestored
<1>b. k \in {1, 2} /\ Document(k) \in (0..MaxJson) \X BOOLEAN
  BY <1>0 DEF TypeOK, Document
<1>1. CASE got = size[k] /\ k = 1
  <2>1. k' = 2 /\ pc' = "stat" /\ status' = status /\ docs' = Append(<<>>, Document(1))
    BY <1>a, <1>1 DEF Parse, Document
  <2>2. docs' = <<Document(1)>> /\ docs' \in Seq((0..MaxJson) \X BOOLEAN)
    BY <1>b, <1>1, <2>1, EmptySeq, AppendProperties
  <2>3. TypeOK'
    BY <1>0, <1>a, <2>1, <2>2 DEF TypeOK
  <2>4. Travelling' /\ CompleteCapture' /\ OutputRestored'
    BY <1>0, <1>a, <2>1 DEF Travelling, CompleteCapture, OutputRestored
  <2>5. Parsed' /\ Printed'
    BY <1>0, <1>a, <2>1, <2>2 DEF Parsed, Printed, Document
  <2> QED BY <2>3, <2>4, <2>5 DEF Inv
<1>2. CASE got = size[k] /\ k = 2
  <2>1. k' = 2 /\ pc' = "compare" /\ status' = status /\ docs' = Append(<<Document(1)>>, Document(2))
    BY <1>a, <1>2 DEF Parse, Document
  <2>a. Document(1) \in (0..MaxJson) \X BOOLEAN /\ Document(2) \in (0..MaxJson) \X BOOLEAN
    BY <1>0 DEF TypeOK, Document
  <2>2. docs' = <<Document(1), Document(2)>>
    BY <2>1, <2>a, AppendPair
  <2>3. docs' \in Seq((0..MaxJson) \X BOOLEAN)
    BY <1>0, <1>a, <1>b, <1>2, <2>1, AppendProperties DEF TypeOK
  <2>4. TypeOK'
    BY <1>0, <1>a, <2>1, <2>3 DEF TypeOK
  <2>5. Travelling' /\ CompleteCapture' /\ OutputRestored'
    BY <1>0, <1>a, <2>1 DEF Travelling, CompleteCapture, OutputRestored
  <2>6. Parsed' /\ Printed'
    BY <1>0, <1>a, <2>1, <2>2 DEF Parsed, Printed, Document
  <2> QED BY <2>4, <2>5, <2>6 DEF Inv
<1>3. CASE got # size[k]
  <2>1. pc' = "cleanup" /\ status' = "parseError" /\ UNCHANGED <<docs, k>>
    BY <1>3 DEF Parse
  <2>2. ~piped
    BY <1>0, <1>a, <1>3 DEF CompleteCapture
  <2>3. TypeOK'
    BY <1>0, <1>a, <2>1 DEF TypeOK
  <2>4. Travelling' /\ CompleteCapture' /\ OutputRestored'
    BY <1>0, <1>a, <2>1, <2>2 DEF Travelling, CompleteCapture, OutputRestored
  <2>5. Parsed' /\ Printed'
    BY <1>0, <1>a, <2>1 DEF Parsed, Printed
  <2> QED BY <2>3, <2>4, <2>5 DEF Inv
<1> QED BY <1>b, <1>1, <1>2, <1>3

LEMMA CompareInv == Inv /\ Compare => Inv'
<1> SUFFICES ASSUME Inv, Compare PROVE Inv'
    OBVIOUS
<1> USE CaptureAssumption DEF Compare, Goto, Return, PCs, Capturing, Statuses, Both,
        input, answer, channel
<1>0. TypeOK /\ Travelling /\ CompleteCapture /\ OutputRestored /\ Parsed /\ Printed
  BY DEF Inv
<1>1. TypeOK'
  BY <1>0 DEF TypeOK, Travelling
<1>2. Travelling'
  BY <1>0 DEF TypeOK, Travelling, OutputRestored
<1>3. CompleteCapture' /\ OutputRestored'
  BY <1>0 DEF TypeOK, Travelling, CompleteCapture, OutputRestored, Parsed
<1>4. Parsed' /\ Printed'
  BY <1>0 DEF TypeOK, Travelling, CompleteCapture, Parsed, Printed, Document
<1> QED BY <1>1, <1>2, <1>3, <1>4 DEF Inv

LEMMA PrintDiffInv == Inv /\ PrintDiff => Inv'
<1> SUFFICES ASSUME Inv, PrintDiff PROVE Inv'
    OBVIOUS
<1> USE CaptureAssumption DEF PrintDiff, Goto, Return, PCs, Capturing, Statuses, Both,
        input, answer, channel
<1>0. TypeOK /\ Travelling /\ CompleteCapture /\ OutputRestored /\ Parsed /\ Printed
  BY DEF Inv
<1>a. docs' \in Seq((0..MaxJson) \X BOOLEAN) /\ terminal' \in Seq({"json", "diff"})
  BY <1>0, ElementOfSeq, AppendProperties DEF TypeOK
<1>1. TypeOK'
  BY <1>0, <1>a DEF TypeOK, Travelling
<1>2. Travelling'
  BY <1>0 DEF TypeOK, Travelling, OutputRestored
<1>3. CompleteCapture' /\ OutputRestored'
  BY <1>0 DEF TypeOK, Travelling, CompleteCapture, OutputRestored, Parsed
<1>4. Parsed' /\ Printed'
  BY <1>0 DEF TypeOK, Travelling, CompleteCapture, Parsed, Printed, Document
<1> QED BY <1>1, <1>2, <1>3, <1>4 DEF Inv

LEMMA CleanupInv == Inv /\ Cleanup => Inv'
<1> SUFFICES ASSUME Inv, Cleanup PROVE Inv'
    OBVIOUS
<1> USE CaptureAssumption DEF Cleanup, Goto, PCs, Capturing, Statuses, Both,
        input, answer, channel
<1>0. TypeOK /\ Travelling /\ CompleteCapture /\ OutputRestored /\ Parsed /\ Printed
  BY DEF Inv
<1>1. TypeOK'
  BY <1>0 DEF TypeOK, Travelling
<1>2. Travelling'
  BY <1>0 DEF TypeOK, Travelling, OutputRestored
<1>3. CompleteCapture' /\ OutputRestored'
  BY <1>0 DEF TypeOK, Travelling, CompleteCapture, OutputRestored, Parsed
<1>4. Parsed' /\ Printed'
  BY <1>0 DEF TypeOK, Travelling, CompleteCapture, Parsed, Printed, Document
<1> QED BY <1>1, <1>2, <1>3, <1>4 DEF Inv

LEMMA NextInv == Inv /\ [Next]_vars => Inv'
<1> SUFFICES ASSUME Inv, [Next]_vars PROVE Inv'
    OBVIOUS
<1>1. CASE UNCHANGED vars
  <2>1. UNCHANGED <<size, pstree, pc, k, piped, written, pipe, got, stdout,
                    showTree, docs, terminal, status, left>>
    BY <1>1 DEF vars, input, channel, answer
  <2>2. TypeOK' /\ Travelling' /\ CompleteCapture'
    BY <2>1 DEF Inv, TypeOK, Travelling, CompleteCapture
  <2>3. OutputRestored' /\ Parsed' /\ Printed'
    BY <2>1 DEF Inv, OutputRestored, Parsed, Printed, Document
  <2> QED BY <2>2, <2>3 DEF Inv
<1>2. CASE Next
  BY <1>2, StatPstreeInv, OpenPipeInv, RenderInv, WriteChunkInv, RenderEndsInv,
     RestoreInv, ReadInv, ParseInv, CompareInv, PrintDiffInv, CleanupInv DEF Next
<1> QED BY <1>1, <1>2

LEMMA Invariance == Spec => []Inv
BY InitInv, NextInv, PTL DEF Spec

LEMMA InvImplies ==
  Inv => TypeOK /\ CompleteCapture /\ OutputRestored /\ OnlyTheAnswer
<1> SUFFICES ASSUME Inv PROVE OnlyTheAnswer
    BY DEF Inv
<1>1. ASSUME status = "ok" PROVE docs = [j \in Both |-> <<size[j], pstree[j]>>]
  <2>1. docs = <<Document(1), Document(2)>>
    BY <1>1 DEF Inv, Parsed
  <2> QED BY <2>1 DEF Document, Both
<1> QED BY <1>1 DEF Inv, Printed, OnlyTheAnswer

(* Whatever the capacity of the pipe, it never holds more, and every         *)
(* variable of getTaskJSON and diff holds a value of its kind.              *)
THEOREM TypeCorrect == Spec => []TypeOK
BY Invariance, InvImplies, PTL

(* The one Read of getTaskJSON is enough for any capacity of a pipe and any  *)
(* buffer that is not smaller: what fitted into the pipe is read whole.      *)
THEOREM OneReadIsEnough == Spec => []CompleteCapture
BY Invariance, InvImplies, PTL

(* getTaskJSON puts os.Stdout and internal.PsTree back on every path.        *)
THEOREM GlobalsRestored == Spec => []OutputRestored
BY Invariance, InvImplies, PTL

(* diff prints its answer, about both whole documents, or nothing.           *)
THEOREM AnswerOnly == Spec => []OnlyTheAnswer
BY Invariance, InvImplies, PTL
=============================================================================
