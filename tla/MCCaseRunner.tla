---------------------------- MODULE MCCaseRunner ----------------------------
(***************************************************************************)
(* Instances of CaseRunner for TLC.                                        *)
(***************************************************************************)
EXTENDS CaseRunner

\* Two different cases.
TwoCases == <<"a", "b">>
OnlyA == {"a"}
NoCases == {}
\* Both cases have every digest; or connector 1 of a's frame 1 is skipped, or has a
\* golden without a digest.
Full == [c \in Cases |-> [x \in Units |-> [y \in Wbs |-> "md5sum"]]]
FullGoldens == {Full}
SomeGoldens == {Full} \cup {[Full EXCEPT !["a"][1][1] = g] : g \in {"skip", "no md5"}}
\* An empty output directory, or one with files of a: a match for frame 0, a mismatch
\* for frame 1.
None == [c \in Cases |-> [x \in Units |-> [y \in Wbs |-> "none"]]]
Empty == {None}
SomeLeftovers == Empty \cup {[None EXCEPT !["a"][0][0] = "good", !["a"][1][0] = "bad",
                                         !["a"][1][1] = "good"]}
AllFaults == {"insmod"}
NoFaults == {}
AllArgs == [crc_check : BOOLEAN, reinstall : BOOLEAN]
Md5Args == {[crc_check |-> FALSE, reinstall |-> FALSE]}
=============================================================================
