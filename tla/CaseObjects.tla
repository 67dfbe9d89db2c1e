---------------------------- MODULE CaseObjects ----------------------------
(***************************************************************************)
(* script/dtest/helper.py: the objects a test case is made of, and what    *)
(* obj_gen writes of them.  A generator (one for each file below           *)
(* script/dtest/dc9400) is a set of cases; a case has a name and frames.   *)
(* Properties keep their names; of their values the model keeps the parts  *)
(* of a source picture (src) and of the display (dst) they name.           *)
(***************************************************************************)
EXTENDS Integers, Sequences, FiniteSets, TLC

S(n) == ToString(n)

\* dc9400_info = ChipInfo('dc9400', 12, 5, 3), and cursor_plane_ids
plane_num == 12
crtc_num == 5
connector_num == 3
PlaneIds == 0 .. plane_num - 1
cursor_plane_ids == {4, 5, 10, 11}

Rect(x, y, w, h) == [x |-> x, y |-> y, w |-> w, h |-> h]
Full(w, h) == <<Rect(0, 0, w, h)>>
Parts(src, dst) == [src |-> src, dst |-> dst]
Props(names) == [name \in names |-> Parts(<<>>, <<>>)]
NoProps == Props({})
Also(properties, names) ==
  [name \in DOMAIN properties \cup names |->
     IF name \in DOMAIN properties THEN properties[name] ELSE Parts(<<>>, <<>>)]
Prop(name, src, dst) == [n \in {name} |-> Parts(src, dst)]
On(name, dst) == Prop(name, <<>>, dst)

Crtc(id, properties) == [id |-> id, props |-> properties]
Crtc0 == Crtc(0, NoProps)

\* A plane without a place of its own covers its size from the corner; obj_gen
\* writes x = y = 0 too when only the size is given.  Of ori_properties the model
\* keeps the order of the planes and whether the picture is turned by 90 or 270.
NoZpos == -1
Plane(id, crtc, format, width, height, properties) ==
  [id |-> id, crtc |-> crtc, format |-> format, w |-> width, h |-> height, hz |-> 60,
   at |-> Rect(0, 0, width, height), zpos |-> NoZpos, turned |-> FALSE, props |-> properties]
WithZpos(plane, zpos) == [plane EXCEPT !.zpos = zpos]
PlaneAt(plane, x, y, w, h) == [plane EXCEPT !.at = Rect(x, y, w, h)]

Connector(id, crtc, format, width, height) ==
  [id |-> id, crtc |-> crtc, format |-> format, w |-> width, h |-> height, hz |-> 60,
   props |-> NoProps, wb |-> <<0, 0>>, other |-> {}]
WithProps(conn, properties) == [conn EXCEPT !.props = properties]
WithRate(object, refresh) == [object EXCEPT !.hz = refresh]
\* other_prop: the size of the picture written back, and names.
WithWb(conn, width, height) == [conn EXCEPT !.wb = <<width, height>>]
WithOther(conn, other_prop) == [conn EXCEPT !.other = other_prop]

Cursor(id, crtc, at) == [id |-> id, crtc |-> crtc, at |-> at]

\* A unit is one frame.
DTestUnit(name, id, planes, cursors, connectors) ==
  [name |-> name, id |-> id, planes |-> planes, cursors |-> cursors, connectors |-> connectors]

DTestFrameUnit(name, frames) == [name |-> name, frames |-> frames]

\* A case that is a single unit.
Case(name, planes, connectors) ==
  DTestFrameUnit(name, {DTestUnit(name, 0, planes, {}, connectors)})
Simple(name, plane, connector) == Case(name, {plane}, {connector})

\* Cases of several frames, numbered from 0, all of the name of the case.
Frame(planes, connectors) == [planes |-> planes, connectors |-> connectors]
Frames(name, frames) ==
  DTestFrameUnit(name, {DTestUnit(name, k - 1, frames[k].planes, {}, frames[k].connectors) : k \in DOMAIN frames})

\* Mutant: the height is not looked at.
FirstFit_Width(modes, w, h) ==
  LET large == {x \in DOMAIN modes : modes[x][1] >= w}
  IN  IF large = {} THEN <<w, h>>
      ELSE modes[CHOOSE x \in large : \A y \in large : x <= y]

\* The first mode of the list that is large enough, else the size itself.
\* (Modes are written "640x480x60" and split by a regular expression.)
FirstFit(modes, w, h) ==
  LET large == {x \in DOMAIN modes : modes[x][1] >= w /\ modes[x][2] >= h}
  IN  IF large = {} THEN <<w, h>>
      ELSE modes[CHOOSE x \in large : \A y \in large : x <= y]

\* round(dst / src, 1) in tenths; Python rounds a half to the even neighbour.  Of the
\* halves that occur (0.45, 0.75, 2.25) only 1440 / 3200 is no exact float, but a
\* little more than 0.45.
Tenths(dst, src) ==
  LET low == (10 * dst) \div src
      rest == 2 * ((10 * dst) % src)
  IN  IF rest > src \/ (rest = src /\ (low % 2 = 1 \/ low = 4)) THEN low + 1 ELSE low

\* How Python prints a number of tenths.
Decimal(tenths) == S(tenths \div 10) \o "." \o S(tenths % 10)
-----------------------------------------------------------------------------
(* Shared by the scalers of planes and CRTCs.                              *)

Scaler(sw, sh, dw, dh) == Prop("SCALER", Full(sw, sh), Full(dw, dh))
Size(w, h) == S(w) \o "x" \o S(h)
in_out(s, d) == ".input_" \o Size(s[1], s[2]) \o "_output_" \o Size(d[1], d[2])

\* size can not exceed 4k(4096x2160)
TooLarge(mode) == mode[1] > 4096 /\ mode[2] > 2160

\* The scales are between 0.25 and 8, and not both 1.
ScalePairs(modes) ==
  {p \in {m \in modes : ~TooLarge(m)} \X {m \in modes : ~TooLarge(m)} :
     LET scale_w == Tenths(p[2][1], p[1][1])
         scale_h == Tenths(p[2][2], p[1][2])
     IN  scale_w \in 3 .. 80 /\ scale_h \in 3 .. 80 /\ ~(scale_w = 10 /\ scale_h = 10)}
scales(s, d) == "_" \o Decimal(Tenths(d[1], s[1])) \o "x" \o Decimal(Tenths(d[2], s[2]))

display_mode_list == <<<<640, 480>>, <<1280, 720>>, <<1920, 1080>>, <<1440, 3520>>, <<2700, 2600>>,
                       <<2500, 2820>>, <<2340, 3404>>, <<3200, 1920>>, <<3840, 2160>>>>
display_modes == {display_mode_list[x] : x \in DOMAIN display_mode_list}

\* What remains of the panel after the crop is what is written back.
Crop(name, x, y, w, h, sw, sh) == Prop(name, Full(sw, sh), <<Rect(x, y, w, h)>>)
-----------------------------------------------------------------------------
(* What is written.                                                        *)

crtcsOf(objects) == {o.crtc : o \in objects}

\* Mutant: those of the connectors only.
crtcs_OfConnectors(unit) == crtcsOf(unit.connectors)

\* DTestUnit.crtcs: those of the connectors if they have one more, else those of
\* the planes.
crtcs(unit) ==
  LET plane_crtcs == crtcsOf(unit.planes)
      conn_crtcs == crtcsOf(unit.connectors)
  IN  IF conn_crtcs \ plane_crtcs # {} THEN conn_crtcs ELSE plane_crtcs

\* Mutant: the connector is not named.
dump_name_NoConnector(unit, conn) == unit.name \o (IF unit.id = 0 THEN "" ELSE "_frame" \o S(unit.id))

\* The name of the file drmtest dumps a connector of a frame to.
dump_name(unit, conn) ==
  unit.name \o "_" \o S(conn.id) \o (IF unit.id = 0 THEN "" ELSE "_frame" \o S(unit.id))
=============================================================================
