------------------------------ MODULE GenMulti ------------------------------
(***************************************************************************)
(* The case generators of script/dtest/dc9400/multiPlane, multiCrtc,       *)
(* multiFrame and cursor: planes over each other, CRTCs beside each other, *)
(* and objects switched on and off from frame to frame.                    *)
(***************************************************************************)
EXTENDS CaseObjects

multiPlane(n, subname) == "multiPlane." \o S(n) \o "plane." \o subname
-----------------------------------------------------------------------------
(* plane2: a pair of planes is blended, the second over the first.  Each   *)
(* CRTC has a primary plane, and two of them cannot be on one CRTC.        *)

primary_list == <<3, 4, 5, 9>>
primaries == {primary_list[k] : k \in DOMAIN primary_list}
PlanePairs == {p \in PlaneIds \X PlaneIds : p[1] < p[2]}
\* One pair is blended in every mode, each of these in one mode.
FixedPairs == {p \in PlanePairs : ~({p[1], p[2]} \subseteq primaries) /\ p # <<0, 1>>}
crtc_of(pair) ==
  IF {pair[1], pair[2]} \cap primaries = {} THEN 0
  ELSE (CHOOSE k \in DOMAIN primary_list : primary_list[k] \in {pair[1], pair[2]}) - 1

Blend(pair, label, over) ==
  LET crtc == Crtc(crtc_of(pair), NoProps)
      plane(id, x, zpos, properties) ==
        WithZpos(IF id \in cursor_plane_ids
                 THEN PlaneAt(Plane(id, crtc, "AR24", 256, 256, properties), x, 80, 256, 256)
                 ELSE Plane(id, crtc, "AR24", 640, 480, properties), zpos)
  IN  Case(multiPlane(2, "p" \o S(pair[1]) \o "p" \o S(pair[2]) \o "_" \o label),
           {plane(pair[1], 0, 0, NoProps), plane(pair[2], 30, 1, over)},
           {Connector(0, crtc, "AR30", 640, 480)})

stdBld ==
  LET get_case(pair, mode, alpha) == Blend(pair, "stdBld_" \o mode \o "_" \o S(alpha), NoProps)
  IN  {get_case(<<0, 1>>, mode, alpha)
         : mode \in {"PIXEL_NONE", "PREMULTI", "COVERAGE"}, alpha \in {0, 256, 500, 1023}}
      \cup {get_case(p, "PREMULTI", 256) : p \in {q \in FixedPairs : q[1] <= 3}}
      \cup {get_case(p, "PIXEL_NONE", 256) : p \in {q \in FixedPairs : q[1] \in 4 .. 7}}
      \cup {get_case(p, "COVERAGE", 1023) : p \in {q \in FixedPairs : q[1] > 7}}

fastBld ==
  LET modelist == <<"CLEAR", "SRC", "DST", "SRC_OVER", "DST_OVER", "SRC_IN", "DST_IN", "SRC_OUT",
                    "DST_OUT", "SRC_ATOP", "DST_ATOP", "XOR", "PLUS", "BLEND">>
      get_case(pair, mode) == Blend(pair, "fastBld_" \o mode, Props({"BLEND_MODE"}))
  IN  {get_case(<<0, 1>>, modelist[m]) : m \in DOMAIN modelist}
      \cup {get_case(p, modelist[p[2] + 1]) : p \in FixedPairs}
-----------------------------------------------------------------------------
(* planes: n planes tile the display, each over the ones before it.        *)

\* Three planes of a quarter of a 3840x2160 display; the ids of the quarters are
\* 0 and 1, 6 and 7, and with them 2 and 3, 8 and 9 and the cursor planes.
PlacedPlanes ==
  LET quarter(large, small, cursor, x, y) ==
        <<[id |-> large, at |-> Rect(x, y, 1280, 720)],
          [id |-> small, at |-> Rect(x + 980, y + 420, 640, 480)],
          [id |-> cursor, at |-> Rect(x + 824, y + 620, 256, 256)]>>
  IN  quarter(0, 2, 4, 0, 0) \o quarter(1, 3, 5, 1920, 0)
      \o quarter(6, 8, 10, 0, 1080) \o quarter(7, 9, 11, 1920, 1080)
Placed(n, crtc, properties) ==
  {LET it == PlacedPlanes[k]
   IN  WithZpos([Plane(it.id, crtc, "AR24", it.at.w, it.at.h, properties[k]) EXCEPT !.at = it.at], k - 1) : k \in 1 .. n}

planes ==
  LET blend == [k \in 1 .. 12 |-> IF k = 1 THEN NoProps ELSE Props({"BLEND_MODE"})]
      get_case(n, crtc, label) ==
        Case(multiPlane(n, label), Placed(n, crtc, blend),
             {IF n = 3 THEN Connector(0, crtc, "AR30", 1920, 1080) ELSE Connector(0, crtc, "AR30", 3840, 2160)})
  IN  {get_case(n, Crtc0, "nobg") : n \in 3 .. 12} \cup {get_case(12, Crtc(0, Props({"BG_COLOR"})), "addbg")}

\* Each of the first six planes shows three more pictures below its own.
planes_with_multi_extendlayers ==
  LET below(x, y) == Prop("MULTI_EXT_LAYER", [k \in 1 .. 3 |-> Rect(0, 0, 320, 240)],
                           [k \in 1 .. 3 |-> Rect(x, y + 260 * (k - 1), 320, 240)])
      places == <<<<0, 740>>, <<1200, 920>>, <<824, 920>>, <<1920, 740>>, <<3120, 920>>, <<2744, 920>>>>
      properties == [k \in 1 .. 6 |-> Also(below(places[k][1], places[k][2]), IF k = 1 THEN {} ELSE {"BLEND_MODE"})]
  IN  {Case(multiPlane(6, "with_18_multi_extendlayer"), Placed(6, Crtc0, properties),
            {Connector(0, Crtc0, "AR30", 3840, 2160)})}
-----------------------------------------------------------------------------
(* multiFrame: planes, CRTCs and properties are disabled and enabled again.*)

Disabled(conn) == WithOther(conn, {"globalDisable"})

pqGammaOffOnSwitch ==
  LET frame(crtc) == Frame({Plane(0, crtc, "AR24", 1920, 1080, NoProps)}, {Connector(0, crtc, "AR30", 1920, 1080)})
      prior == frame(Crtc(0, Props({"PRIOR_GAMMA"})))
  IN  {Frames("multiFrame.pqGammaOffOnSwitch",
              <<frame(Crtc0), prior, prior,
                Frame(frame(Crtc0).planes, {Disabled(c) : c \in frame(Crtc0).connectors})>>)}

multiPlaneOffOnSwitch ==
  LET full == Plane(0, Crtc0, "AR24", 1080, 2340, NoProps)
      bar(id, y) == PlaneAt(Plane(id, Crtc0, "AR24", 1080, 132, NoProps), 0, y, 1080, 132)
      conns == {Connector(0, Crtc0, "AR30", 1080, 2340)}
      three == Frame({full, bar(2, 0), bar(1, 2208)}, conns)
  IN  {Frames("multiFrame.multiPlaneOffOnSwitch", <<Frame({full}, conns), three, three, three>>)}

\* A plane and a connector for each of two CRTCs; those of off are disabled.
Pair(c0, off) ==
  LET conn(k) == Connector(k, Crtc(c0 + k, NoProps), "AR30", 640, 480)
  IN  Frame({Plane(k, Crtc(c0 + k, NoProps), "AR24", 640, 480, NoProps) : k \in {0, 1}},
            {IF k \in off THEN Disabled(conn(k)) ELSE conn(k) : k \in {0, 1}})
FirstOf(c0) ==
  Frame({p \in Pair(c0, {}).planes : p.id = 0}, {c \in Pair(c0, {}).connectors : c.id = 0})
label01(c0) == "crtc" \o S(c0) \o S(c0 + 1)

multiCrtcOffOnSwitch ==
  {Frames("multiFrame." \o label01(c0) \o ".multiCrtcOffOnSwitch",
          <<FirstOf(c0), Pair(c0, {}), Pair(c0, {0}), Pair(c0, {1}), Pair(c0, {0, 1})>>) : c0 \in {0, 2}}
-----------------------------------------------------------------------------
(* multiCrtc: two CRTCs, on one panel when spliced, or synchronised.       *)

twoCrtc ==
  {Frames("multiCrtc." \o label01(c0) \o ".on",
          <<FirstOf(c0), Pair(c0, {}), Pair(c0, {}), Pair(c0, {0, 1})>>) : c0 \in {0, 2}}

splice ==
  LET get_case(crtc0, crtc1) ==
        LET crtc(k) == IF k = 0 THEN crtc0 ELSE crtc1
        IN  Case("multiCrtc.splice." \o label01(crtc0.id),
                 {Plane(k, crtc(k), "AR24", 320, 480, NoProps) : k \in {0, 1}},
                 {WithWb(WithProps(Connector(k, crtc(k), "AR30", 640, 480), Props({"WB_POINT"})), 320, 480) : k \in {0, 1}})
  IN  {get_case(Crtc(c0, Props({"SPLICE_MODE"})), Crtc(c0 + 1, NoProps)) : c0 \in {0, 2}}

dp_sync ==
  LET synced(c0) ==
        LET crtc(k) == Crtc(c0 + k, Props(IF k = 0 THEN {"DP_SYNC"} ELSE {}))
        IN  Frame({Plane(k, crtc(k), "AR24", 640, 480, NoProps) : k \in {0, 1}},
                  {Connector(k, crtc(k), "AR30", 640, 480) : k \in {0, 1}})
  IN  {Frames("multiCrtc.dp_sync." \o label01(c0), <<FirstOf(c0), synced(c0), synced(c0)>>) : c0 \in {0, 2}}
-----------------------------------------------------------------------------
(* cursor: case k is shown on plane, CRTC and cursor (k - 1) mod 4.        *)

cursor ==
  LET cursor_size == <<8, 64, 128, 256>>
      cursor_pos_list == <<<<0, 0>>, <<383, 221>>, <<1024, 464>>>>
      get_case(i, size, pos) ==
        LET crtc == Crtc(i, NoProps)
            name == "cursor" \o S(i) \o ".feature.cursor." \o S(size) \o "x" \o S(size) \o "_PX" \o S(pos[1])
                      \o "_PY" \o S(pos[2]) \o "_p" \o S(i)
        IN  DTestFrameUnit(name, {DTestUnit(name, 0, {Plane(i, crtc, "AR24", 1280, 720, NoProps)},
                                            {Cursor(i, crtc, Rect(pos[1], pos[2], size, size))},
                                            {Connector(0, crtc, "AR30", 1280, 720)})})
  IN  {get_case(count % 4, cursor_size[(count \div 3) + 1], cursor_pos_list[(count % 3) + 1]) : count \in 0 .. 11}
=============================================================================
