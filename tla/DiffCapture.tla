---------------------------- MODULE DiffCapture ----------------------------
(***************************************************************************)
(* checkpointctl diff, from the two loaded checkpoints to its answer.  The  *)
(* metadata of each checkpoint is rendered as JSON by the code of inspect,  *)
(* which prints on os.Stdout; getTaskJSON makes os.Stdout a pipe, lets it   *)
(* print, and reads the pipe once when it has returned.  The writer and     *)
(* the reader are one goroutine, so nobody drains the pipe while it fills.  *)
(*                                                                         *)
(* Sizes are in chunks: 64 KiB of PipeCapacity and 1 MiB of ReadMax keep    *)
(* their order, not their values.                                          *)
(***************************************************************************)
EXTENDS Naturals, Sequences

CONSTANTS
  PipeCapacity,  \* what a pipe holds before a write blocks
  ReadMax,       \* the buffer of the one Read
  MaxJson        \* bound on the size of a rendered checkpoint

ASSUME CaptureAssumption ==
  /\ PipeCapacity \in Nat \ {0}
  /\ ReadMax \in Nat /\ PipeCapacity <= ReadMax
  /\ MaxJson \in Nat \ {0}

Both == {1, 2}  \* checkpoint A and checkpoint B

VARIABLES
  size,      \* the JSON of each checkpoint; 0 where RenderJSONView fails
  pstree,    \* whether its directory holds pstree.img
  pc,
  k,         \* the checkpoint getTaskJSON works on
  piped,     \* os.Pipe succeeded
  written,   \* what RenderJSONView has printed
  pipe,      \* what the pipe holds
  stdout,    \* os.Stdout
  showTree,  \* internal.PsTree
  got,       \* what Read returned
  docs,      \* the parsed checkpoints, as pairs of size and process tree
  terminal,  \* what the user sees
  left,      \* temporary directories not yet removed
  status

input == <<size, pstree>>
answer == <<terminal, status>>
channel == <<piped, written, pipe, got>>
vars == <<input, pc, k, channel, stdout, showTree, docs, answer, left>>

Capturing == {"stat", "pipe", "render", "write", "restore", "read", "parse"}
PCs == Capturing \union {"compare", "print", "cleanup", "exit"}

Goto(next) == pc' = next

-----------------------------------------------------------------------------
Init ==
  /\ size \in [Both -> 0..MaxJson]
  /\ pstree \in [Both -> BOOLEAN]
  /\ pc = "stat"
  /\ k = 1
  /\ piped = FALSE
  /\ written = 0
  /\ pipe = 0
  /\ stdout = "terminal"
  /\ showTree = FALSE
  /\ got = 0
  /\ docs = <<>>
  /\ terminal = <<>>
  /\ left = 2
  /\ status = "none"

(* Back in diff, which has deferred the removal of both directories.        *)
Return(how) ==
  /\ status' = how
  /\ Goto("cleanup")

StatPstree ==
  /\ pc = "stat"
  /\ showTree' = pstree[k]
  /\ Goto("pipe")
  /\ UNCHANGED <<input, k, channel, stdout, docs, answer, left>>

(* mutant: without a pipe the output is not redirected                       *)
RedirectedToFallback(opened) == IF opened THEN "pipe" ELSE "terminal"

(* r, w, _ := os.Pipe(); os.Stdout = w.  Without a pipe w is nil, and        *)
(* printing to it is an error nobody looks at.                              *)
RedirectedTo(opened) == IF opened THEN "pipe" ELSE "nil"

OpenPipe ==
  /\ pc = "pipe"
  /\ \E opened \in BOOLEAN :
       /\ piped' = opened
       /\ stdout' = RedirectedTo(opened)
  /\ written' = 0
  /\ pipe' = 0
  /\ got' = 0
  /\ Goto("render")
  /\ UNCHANGED <<input, k, showTree, docs, answer, left>>

(* CollectCheckpointData: an error comes before anything is printed.        *)
Render ==
  /\ pc = "render"
  /\ Goto(IF size[k] = 0 THEN "restore" ELSE "write")
  /\ UNCHANGED <<input, k, channel, stdout, showTree, docs, answer, left>>

(* mutants: a pipe without a limit; one that is full a chunk too early *)
RoomUnbounded == MaxJson
RoomShort == IF pipe + 1 >= PipeCapacity THEN 0 ELSE PipeCapacity - pipe - 1

(* What can still be written before a write blocks.                          *)
Room == PipeCapacity - pipe

(* One write(2) of the loop inside Printf, to whatever os.Stdout is: a pipe   *)
(* takes what fits and, when nothing fits, the write waits for a reader.     *)
WriteChunk ==
  /\ pc = "write"
  /\ \E n \in 1..(size[k] - written) :
       /\ stdout = "pipe" => n <= Room
       /\ written' = written + n
       /\ pipe' = IF stdout = "pipe" THEN pipe + n ELSE pipe
       /\ terminal' = IF stdout = "terminal" THEN Append(terminal, "json") ELSE terminal
  /\ UNCHANGED <<input, pc, k, piped, got, stdout, showTree, docs, status, left>>

RenderEnds ==
  /\ pc = "write"
  /\ written = size[k]
  /\ Goto("restore")
  /\ UNCHANGED <<input, k, channel, stdout, showTree, docs, answer, left>>

(* mutant: the error of RenderJSONView is returned first                     *)
RestoredOnSuccess == IF size[k] = 0 THEN stdout ELSE "terminal"

(* w.Close(); os.Stdout = oldStdout, before the error is looked at.          *)
Restored == "terminal"

Restore ==
  /\ pc = "restore"
  /\ stdout' = Restored
  /\ IF size[k] = 0
     THEN Return("renderError") /\ showTree' = FALSE
     ELSE Goto("read") /\ UNCHANGED <<showTree, status>>
  /\ UNCHANGED <<input, k, channel, docs, terminal, left>>

(* mutant: a buffer smaller than the pipe                                    *)
ReadableSmall == IF pipe < PipeCapacity THEN pipe ELSE PipeCapacity - 1

(* n, _ := r.Read(buf): one read, after the writer's end is closed.          *)
Readable == IF pipe <= ReadMax THEN pipe ELSE ReadMax

Read ==
  /\ pc = "read"
  /\ got' = Readable
  /\ pipe' = pipe - Readable
  /\ Goto("parse")
  /\ UNCHANGED <<input, k, piped, written, stdout, showTree, docs, answer, left>>

(* json.Unmarshal takes a whole document only.  The deferred assignment puts  *)
(* internal.PsTree back on every way out of getTaskJSON.                    *)
Parse ==
  /\ pc = "parse"
  /\ IF got = size[k]
     THEN /\ docs' = Append(docs, <<got, showTree>>)
          /\ IF k = 1 THEN k' = 2 /\ Goto("stat") ELSE Goto("compare") /\ UNCHANGED k
          /\ UNCHANGED status
     ELSE Return("parseError") /\ UNCHANGED <<docs, k>>
  /\ showTree' = FALSE
  /\ UNCHANGED <<input, channel, stdout, terminal, left>>

(* The two IDs differ, or they do not and the diff is computed.              *)
Compare ==
  /\ pc = "compare"
  /\ \/ Goto("print") /\ UNCHANGED status
     \/ Return("otherContainer")
  /\ UNCHANGED <<input, k, channel, stdout, showTree, docs, terminal, left>>

PrintDiff ==
  /\ pc = "print"
  /\ \/ /\ terminal' = Append(terminal, "diff")
        /\ Return("ok")
     \/ Return("invalidFormat") /\ UNCHANGED terminal
  /\ UNCHANGED <<input, k, channel, stdout, showTree, docs, left>>

Cleanup ==
  /\ pc = "cleanup"
  /\ IF left > 0 THEN left' = left - 1 /\ UNCHANGED pc
                 ELSE Goto("exit") /\ UNCHANGED left
  /\ UNCHANGED <<input, k, channel, stdout, showTree, docs, answer>>

Next ==
  \/ StatPstree \/ OpenPipe \/ Render \/ WriteChunk \/ RenderEnds
  \/ Restore \/ Read \/ Parse \/ Compare \/ PrintDiff \/ Cleanup

(* The process is scheduled.                                                *)
Spec == Init /\ [][Next]_vars /\ WF_vars(Next)

-----------------------------------------------------------------------------
(***************************************************************************)
(* Properties                                                              *)
(***************************************************************************)

Statuses ==
  {"none", "ok", "renderError", "parseError", "otherContainer", "invalidFormat"}

(* Every variable holds a value of its kind; the pipe never holds more than   *)
(* its capacity.                                                            *)
TypeOK ==
  /\ size \in [Both -> 0..MaxJson]
  /\ pstree \in [Both -> BOOLEAN]
  /\ pc \in PCs
  /\ k \in Both
  /\ piped \in BOOLEAN
  /\ written \in Nat
  /\ pipe \in 0..PipeCapacity
  /\ stdout \in {"terminal", "pipe", "nil"}
  /\ showTree \in BOOLEAN
  /\ got \in Nat
  /\ docs \in Seq((0..MaxJson) \X BOOLEAN)
  /\ terminal \in Seq({"json", "diff"})
  /\ left \in 0..2
  /\ status \in Statuses

(* getTaskJSON's single Read: whenever the pipe was there and diff gets as far *)
(* as parsing, it parses the whole JSON, so the only parse error is that of  *)
(* a pipe that could not be opened.                                         *)
CompleteCapture ==
  /\ pc = "parse" /\ piped => got = size[k]
  /\ status = "parseError" => ~piped

(* getTaskJSON puts os.Stdout back before anything else is printed or         *)
(* returned, on the error paths too, and internal.PsTree before it returns.  *)
OutputRestored ==
  /\ pc \notin {"render", "write", "restore"} => stdout = "terminal"
  /\ pc \notin Capturing => ~showTree

(* diff prints its answer or nothing: no JSON of a checkpoint, nothing on an  *)
(* error, and an answer compares the whole JSON of A with the whole JSON of  *)
(* B, each with a process tree if and only if its own pstree.img is there.   *)
OnlyTheAnswer ==
  /\ terminal = IF status = "ok" THEN <<"diff">> ELSE <<>>
  /\ status = "ok" => docs = [j \in Both |-> <<size[j], pstree[j]>>]

(* diff ends if neither JSON is larger than a pipe.                          *)
FittingDiffEnds ==
  (\A j \in Both : size[j] <= PipeCapacity) => <>(pc = "exit")

(* diff ends whatever its two checkpoints are; the read buffer of 1 MB says    *)
(* that larger JSON than a pipe holds is expected.                          *)
DiffEnds == <>(pc = "exit")
=============================================================================
