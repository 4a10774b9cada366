----------------------------- MODULE MCReports -----------------------------
(* Values for TLC: those of the components' own instances.                   *)
EXTENDS Reports, MCMemoryDump, MCInspectReport, MCListCheckpoints, MCDiffCompute, MCNumbers
=============================================================================
