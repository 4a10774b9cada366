------------------------------ MODULE Reports ------------------------------
(***************************************************************************)
(* One run of checkpointctl: the command line picks what is to be reported,  *)
(* and one of the components works on it while the others rest.  Every        *)
(* component starts from any of its initial states, for the directories that  *)
(* CreateTasks filled, the JSON that diff parsed or the process that was       *)
(* found may be any; how they get there is in CheckpointTasks and             *)
(* DiffCapture.  Archives are replaced and the process killed where the        *)
(* component lets them.                                                      *)
(***************************************************************************)
EXTENDS MemoryDump, InspectReport, ListCheckpoints, DiffCompute, Numbers

VARIABLE command

reportsVars == <<command, dumpVars, reportVars, listVars, compareVars, numberVars>>

ASSUME ReportsAssumption ==
  /\ \E m \in Memories : HasMemory(m.root)
  /\ {} \notin {Requests, Calls, Checkpoints, Arguments, Contents, Leftovers, Sizes}

(* The components at rest, with some input.                                  *)
SomeMemory == CHOOSE m \in Memories : HasMemory(m.root)
SomeRequest == CHOOSE q \in Requests : TRUE
SomeCall == CHOOSE c \in Calls : TRUE
SomeCheckpoint == CHOOSE c \in Checkpoints : TRUE
SomeArguments == CHOOSE a \in Arguments : TRUE
SomeContent == CHOOSE c \in Contents : TRUE
SomeLeftover == CHOOSE d \in Leftovers : TRUE
SomeSize == CHOOSE b \in Sizes : TRUE

DumpRests == mem = SomeMemory /\ ask = SomeRequest /\ DumpStart
ReportRests == call = SomeCall /\ content = SomeCheckpoint /\ ReportStart
ListRests ==
  /\ args = SomeArguments /\ archive = [f \in Archives |-> SomeContent] /\ before = SomeLeftover
  /\ ListStart
CompareRests ==
  /\ kind = "files" /\ psTreeCmd = FALSE /\ trees = <<>> /\ cmdline = <<>>
  /\ items = [s \in Sides |-> <<>>]
  /\ CompareStart
NumbersRest == quantity = [kind |-> "size", value |-> SomeSize] /\ NumbersStart

Init ==
  \/ command = "memory" /\ DumpInit /\ ReportRests /\ ListRests /\ CompareRests /\ NumbersRest
  \/ command = "report" /\ ReportInit /\ DumpRests /\ ListRests /\ CompareRests /\ NumbersRest
  \/ command = "list" /\ ListInit /\ DumpRests /\ ReportRests /\ CompareRests /\ NumbersRest
  \/ command = "compare" /\ CompareInit /\ DumpRests /\ ReportRests /\ ListRests /\ NumbersRest
  \/ command = "format" /\ NumbersInit /\ DumpRests /\ ReportRests /\ ListRests /\ CompareRests

(* The process works.                                                        *)
Work ==
  \/ /\ command = "memory" /\ DumpNext
     /\ UNCHANGED <<command, reportVars, listVars, compareVars, numberVars>>
  \/ /\ command = "report" /\ ReportNext
     /\ UNCHANGED <<command, dumpVars, listVars, compareVars, numberVars>>
  \/ /\ command = "list" /\ ListStep
     /\ UNCHANGED <<command, dumpVars, reportVars, compareVars, numberVars>>
  \/ /\ command = "compare" /\ CompareNext
     /\ UNCHANGED <<command, dumpVars, reportVars, listVars, numberVars>>
  \/ /\ command = "format" /\ NumbersNext
     /\ UNCHANGED <<command, dumpVars, reportVars, listVars, compareVars>>

(* What others do meanwhile.                                                 *)
Meanwhile ==
  /\ command = "list" /\ (KillList \/ ReplaceArchive)
  /\ UNCHANGED <<command, dumpVars, reportVars, compareVars, numberVars>>

Next == Work \/ Meanwhile

(* A process that can go on does so; nothing is assumed of the others.        *)
Spec == Init /\ [][Next]_reportsVars /\ WF_reportsVars(Work)

-----------------------------------------------------------------------------
(* Every command comes to its end, whatever the memory, the process tree and    *)
(* the archives are like, and though archives are replaced while it runs.     *)
CommandEnds ==
  <>CASE command = "memory" -> dumpPc \in {"done", "error"}
      [] command = "report" -> reportPc \in {"done", "error"}
      [] command = "list" -> listPc \in {"done", "error", "killed"}
      [] command = "compare" -> comparePc \in {"done", "refused"}
      [] command = "format" -> numberPc = "done"
=============================================================================
