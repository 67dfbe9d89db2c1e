---------------------------- MODULE CaseOrigins -----------------------------
(***************************************************************************)
(* What the releases of CaseMaker get from their generators: of which the  *)
(* cases are that are written back in stripes or scaled, and of which      *)
(* objects the frames of a case are.                                       *)
(***************************************************************************)
EXTENDS CaseMaker, GenPlane, GenPostpq, GenConnector, GenScenario

\* Every case that some release can write.
CasesMade ==
  UNION {UNION {{case_gen[r][chip][x] : x \in DOMAIN case_gen[r][chip]} : chip \in infos(r)} : r \in Releases}

\* One generator names the places of stripes (connector/feature/stripe/stripe.py).
Striped(case) == \E f \in case.frames : \E c \in f.connectors : Has(c, "WB_STRIPE_POS")
OnlyStriped == \A case \in CasesMade : Striped(case) => case \in stripe

\* The generators that scale a plane or a CRTC.
Scaling(case) ==
  \E f \in case.frames : \E o \in f.planes \cup crtcsOf(f.planes \cup f.connectors) : Has(o, "SCALER")
Scalers ==
  scaler_baseScaler \cup scaler_filter84 \cup scaler_scaler \cup postpq_scaler \cup scenario1 \cup scenario3
OnlyScaled == \A case \in CasesMade : Scaling(case) => case \in Scalers

\* The objects of a case have ids of their own; of the CRTCs that the planes of a frame are
\* on and those that its connectors are on, the ones are among the others; and cursors lie
\* where planes or connectors are.
Nested(f) ==
  \/ crtcsOf(f.planes) \subseteq crtcsOf(f.connectors)
  \/ crtcsOf(f.connectors) \subseteq crtcsOf(f.planes)
OwnObjects(case) ==
  /\ ById(case.frames)
  /\ \A f \in case.frames :
       /\ ById(f.planes) /\ ById(f.cursors) /\ ById(f.connectors)
       /\ ById(crtcsOf(f.planes \cup f.connectors))
       /\ \A cursor \in f.cursors : cursor.crtc \in crtcsOf(f.planes \cup f.connectors)
       /\ Nested(f)
OnlyNested == \A case \in CasesMade : OwnObjects(case)
=============================================================================
