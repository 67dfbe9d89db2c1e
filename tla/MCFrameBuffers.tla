--------------------------- MODULE MCFrameBuffers ---------------------------
(***************************************************************************)
(* Instances of FrameBuffers for TLC.                                      *)
(***************************************************************************)
EXTENDS FrameBuffers

Every(value) == [f \in Frames |-> value]
Plain == [num |-> Num, is_stream |-> FALSE, use_vcmd |-> FALSE, recycle |-> 1, cursor |-> FALSE,
          wb |-> Every("normal"), ramless |-> Every("absent"), faults |-> {}]

\* Frame and stream mode, both driver modes, all faults.  In stream mode a failed dump lets
\* the thread of the next round run ahead of main.  VCMD buffers serve one round only, so
\* there is no setup with several rounds of them.
Modes == {
  [Plain EXCEPT !.faults = {"set", "create", "commit"}, !.cursor = TRUE],
  [Plain EXCEPT !.faults = {"dump", "map", "commit"}],
  [Plain EXCEPT !.use_vcmd = TRUE, !.cursor = TRUE, !.faults = AllFaults],
  [Plain EXCEPT !.is_stream = TRUE, !.use_vcmd = TRUE, !.faults = {"create", "commit"}],
  [Plain EXCEPT !.is_stream = TRUE, !.recycle = 2, !.faults = {"set", "create", "commit"}],
  [Plain EXCEPT !.is_stream = TRUE, !.recycle = 2, !.faults = {"dump"}],
  [Plain EXCEPT !.is_stream = TRUE, !.num = 2, !.recycle = 3, !.faults = {"dump", "create"}],
  [Plain EXCEPT !.is_stream = TRUE, !.num = 2, !.recycle = 2, !.cursor = TRUE,
                !.faults = AllFaults] }

\* Striped pipes; and a ramless pipe, as in the cases of feature/ramless.
Ramless == [f \in Frames |-> IF f = 0 THEN "ramless" ELSE "normal"]
Kinds == {
  [Plain EXCEPT !.wb = Every("stripe"), !.faults = {"create"}],
  [Plain EXCEPT !.wb = Ramless,
                !.ramless = [f \in Frames |-> CASE f = 0 -> "absent" [] f = 1 -> "on"
                                                [] OTHER -> "off"]],
  [Plain EXCEPT !.wb = Ramless,
                !.ramless = [f \in Frames |-> IF f = 0 THEN "absent" ELSE "on"]] }

AllSetups == Modes \cup Kinds
VcmdOnly == {[Plain EXCEPT !.use_vcmd = TRUE]}
=============================================================================
