----------------------------- MODULE MCStreamRun -----------------------------
(***************************************************************************)
(* Instances of StreamRun for TLC.                                         *)
(***************************************************************************)
EXTENDS StreamRun

AllFaults == FaultKinds
SetFault == {"set"}
DumpFault == {"dump"}
NoFaults == {}
=============================================================================
