---------------------------- MODULE GenScenario -----------------------------
(***************************************************************************)
(* The case generators of script/dtest/dc9400/scenario: planes, CRTCs and  *)
(* cursors used together.  The larger ones show a small picture first.     *)
(***************************************************************************)
EXTENDS CaseObjects

\* Of the two planes of a CRTC the second lies over the first.
At(plane, zpos, refresh) == WithZpos(WithRate(plane, refresh), zpos)
Small(plane_id, c) ==
  LET crtc == Crtc(c, NoProps)
  IN  Frame({Plane(plane_id, crtc, "AR24", 640, 480, NoProps)}, {Connector(0, crtc, "AR30", 640, 480)})
Cursored(name, id, frame, cursors) == DTestUnit(name, id, frame.planes, cursors, frame.connectors)
One(name, planes, cursor, conn) ==
  DTestFrameUnit(name, {DTestUnit(name, 0, planes, {cursor}, {conn})})
AfterSmall(name, small, frame, cursors) ==
  DTestFrameUnit(name, {Cursored(name, 0, small, {}), Cursored(name, 1, frame, cursors)})
OfifoIn(conn) == WithProps(conn, Props({"WB_POINT"}))

scenario1 ==
  {One("scenario_case1_1x1024x768_60hz_2surfaces_no_rotate",
       {At(PlaneAt(Plane(0, Crtc0, "AR24", 1024, 768, Scaler(1024, 768, 1920, 1080)), 0, 0, 1920, 1080), 0, 60)},
       Cursor(0, Crtc0, Rect(0, 0, 8, 8)), Connector(0, Crtc0, "AR30", 1920, 1080))}

scenario2 ==
  LET crtc == Crtc(0, Props({"R2Y"}))
  IN  {One("scenario_case2_1x1920x1080_120hz_2surfaces_no_rotate",
           {At(Plane(0, crtc, "AR24", 1920, 1080, NoProps), 0, 120),
            At(Plane(2, crtc, "NV12", 1920, 1080, Props({"UP_SAMPLE"})), 1, 120)},
           Cursor(0, crtc, Rect(0, 0, 8, 8)), WithRate(Connector(0, crtc, "YUV444_10BIT", 1920, 1080), 120))}

\* The second display shows the same, turned by 180.
scenario3 ==
  LET planes(crtc, below, above) ==
        {At(PlaneAt(Plane(below, crtc, "AR30", 2560, 1080, Scaler(2560, 1080, 3840, 2160)), 0, 0, 3840, 2160), 0, 120),
         At(PlaneAt(Plane(above, crtc, "NV12", 1920, 1080, Also(Scaler(1920, 1080, 2560, 1080), {"UP_SAMPLE"})),
                    0, 0, 2560, 1080), 1, 120)}
      conn(id, crtc) == OfifoIn(WithRate(Connector(id, crtc, "AR30", 3840, 2160), 120))
      crtc2 == Crtc(2, NoProps)
  IN  {AfterSmall("scenario_case3_2x2560x1080_120hz_4surfaces_rotate180", Small(0, 0),
                  Frame(planes(Crtc0, 0, 2) \cup planes(crtc2, 6, 8), {conn(0, Crtc0), conn(1, crtc2)}),
                  {Cursor(c.id, c, Rect(0, 0, 16, 16)) : c \in {Crtc0, crtc2}})}

scenario4 ==
  LET crtc == Crtc(0, Props({"R2Y"}))
  IN  {One("scenario_case4_1x3440x1440_160hz_2surfaces_no_rotate",
           {At(Plane(0, crtc, "RA30", 3440, 1440, NoProps), 0, 160),
            At(PlaneAt(Plane(2, crtc, "P210_UV", 2560, 1440, Props({"UP_SAMPLE"})), 100, 0, 2560, 1440), 1, 160)},
           Cursor(0, crtc, Rect(1088, 721, 32, 32)),
           WithRate(Connector(0, crtc, "YUV444_10BIT", 3440, 1440), 160))}

\* Four CRTCs show planes, two of them have a connector.
Surfaces8(name, plane_id, written) ==
  LET crtc(c) == Crtc(c, NoProps)
      turned(id, c, format, zpos) ==
        [At(PlaneAt(Plane(id, crtc(c), format, 2160, 3840, NoProps), 0, 0, 3840, 2160), zpos, 60) EXCEPT !.turned = TRUE]
      straight(id, c, format, names, zpos) == At(Plane(id, crtc(c), format, 3840, 2160, Props(names)), zpos, 60)
      four(id, c) == {turned(id, c, "AR4H", 0), turned(id + 2, c, "AR24", 1),
                      straight(id + 1, c + 1, "AR4H", {}, 0), straight(id + 3, c + 1, "P210_UV", {"UP_SAMPLE"}, 1)}
  IN  AfterSmall(name, Small(plane_id, written),
                 Frame(four(0, 0) \cup four(6, 2),
                       {OfifoIn(Connector(k, crtc(written + k), "AR30", 3840, 2160)) : k \in {0, 1}}),
                 {Cursor(c, crtc(c), Rect(0, 0, 64, 64)) : c \in 0 .. 3})
scenario5_crtc01 == {Surfaces8("scenario_case5_4x3840x2160_120hz_8surfaces_rotate90_crtc01", 0, 0)}
scenario5_crtc23 == {Surfaces8("scenario_case5_4x3840x2160_120hz_8surfaces_rotate90_crtc23", 6, 2)}

\* A smaller picture over one of the size of the display.
Over(name, crtc, w, h, small_w, small_h, conn) ==
  One(name, {At(Plane(0, crtc, "AR30", w, h, NoProps), 0, 120),
             At(Plane(2, crtc, "P210_UV", small_w, small_h, Props({"UP_SAMPLE"})), 1, 120)},
      Cursor(0, crtc, Rect(383, 221, 64, 64)), WithRate(conn, 120))
scenario6 ==
  {Over("scenario_case6_1x4096x2160_120hz_2surfaces_flipx", Crtc0, 4096, 2160, 3840, 2160,
        Connector(0, Crtc0, "AR30", 4096, 2160))}
scenario7 ==
  LET crtc == Crtc(0, On("DSC", Full(5120, 2880)))
  IN  {Over("scenario_case7_1x5120x2880_120hz_2surfaces_flipy", crtc, 5120, 2880, 1920, 1080,
            OfifoIn(Connector(0, crtc, "AR30", 5120, 2880)))}

\* A display of two CRTCs: planes id and id + 2 show the left half of their
\* pictures, id + 1 and id + 3 the right half.
Halves(name, id, c, up_sampled) ==
  LET crtc(k) == Crtc(c + k, Props(IF k = 0 THEN {"SPLICE_MODE"} ELSE {}))
      half(k, format, i, zpos) ==
        At(Plane(i, crtc(k), format, 7680, 4320,
                 Also(Prop("DMA_CONFIG", <<Rect(3840 * k, 0, 3840, 4320)>>, Full(3840, 4320)),
                      IF i \in up_sampled THEN {"UP_SAMPLE"} ELSE {})), zpos, 30)
      planes(k) == {half(k, "AR30", id + k, 0), half(k, "P010_UV", id + k + 2, 1),
                    At(Plane(id + k + 4, crtc(k), "AR24", 256, 256, NoProps), 2, 30)}
  IN  AfterSmall(name, Small(id, c),
                 Frame(planes(0) \cup planes(1),
                       {WithWb(WithRate(Connector(k, crtc(k), "AR30", 7680, 4320), 30), 3840, 4320) : k \in {0, 1}}), {})
scenario8_crtc01 == {Halves("scenario_case8_1x7680x4320_30hz_4surfaces_no_rotate_crtc01", 0, 0, {3})}
scenario8_crtc23 == {Halves("scenario_case8_1x7680x4320_30hz_4surfaces_no_rotate_crtc23", 6, 2, {8, 9})}
=============================================================================
