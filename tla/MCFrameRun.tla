----------------------------- MODULE MCFrameRun -----------------------------
(***************************************************************************)
(* Instances of FrameRun for TLC.                                          *)
(***************************************************************************)
EXTENDS FrameRun

\* Every fault; every fault but a thread woken up spuriously, for ever, which
\* no fairness excludes; the same without a wait given up; none.
AllFaults == FaultKinds
ThreadFaults == FaultKinds \ {"spurious"}
NoTimeOut == ThreadFaults \ {"slow"}
NoFaults == {}
=============================================================================
