---------------------------- MODULE MCCaseMaker ----------------------------
(***************************************************************************)
(* Instances of CaseMaker for TLC: the cases of the repository, and two    *)
(* releases of a few of them.                                              *)
(***************************************************************************)
EXTENDS CaseOrigins, CaseServer

\* Two small releases share a case; the older one still has dc8200, and no golden file for
\* 0x32a.  (0x316 and 0x32a have a dc9400, 0x31b has a dc8200.)
AllCases ==
  LET shared == scenario5_crtc01
  IN  "all" :> ("dc9400" :> dc9400_case_gen)
      @@ "old" :> ("dc9400" :> inAnyOrder(shared \cup wb_data_extend) @@ "dc8200" :> inAnyOrder(shared))
      @@ "new" :> ("dc9400" :> inAnyOrder(shared \cup stripe))
AllGolden == [all |-> {<<"dc9400", "common">>, <<"dc9400", "0x316">>},
              old |-> {<<"dc9400", "0x316">>, <<"dc8200", "fs">>}, new |-> {<<"dc9400", "common">>}]
TheWhole == {"all"}
OldToNew == {<<"old", "new">>}
SomeCids == [all |-> {"0x316"}, old |-> {"0x316", "0x32a", "0x31b"}, new |-> {"0x316", "0x31b"}]
SomeFilters == {"", "multiFrame"}
Deaths == [all |-> {1, 1000, Len(dc9400_case_gen) - 1}, old |-> 0 .. 3, new |-> 0 .. 3]

\* What the theorems of CaseMakerProofs about the cases rest on holds of those of the repository.
ASSUME OriginAssumption == OnlyStriped /\ OnlyScaled /\ OnlyNested
=============================================================================
