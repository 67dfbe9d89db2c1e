------------------------------ MODULE GenCrtc -------------------------------
(***************************************************************************)
(* The case generators of script/dtest/dc9400/crtc, except postpq.         *)
(***************************************************************************)
EXTENDS CaseObjects

crtc_feature(i, what) == "crtc" \o S(i) \o ".feature." \o what
Bare(id) == Crtc(id, NoProps)

\* Plane 0 covers the display, which one connector writes back.
OneCrtc(name, crtc, conn, format, w, h) ==
  Simple(name, Plane(0, crtc, "AR24", w, h, NoProps), Connector(conn, crtc, format, w, h))

\* CRTC 4 has a connector of its own.
ConnOf(crtc) == IF crtc = 4 THEN 2 ELSE 0

lbox ==
  LET roi_name(r) == "lbox.roi_" \o S(r.x) \o "_" \o S(r.y) \o "_" \o S(r.w) \o "x" \o S(r.h)
  IN  {OneCrtc(crtc_feature(c, roi_name(r)), Crtc(c, On("LBOX", <<r>>)), 0, "AR30", 1280, 720)
         : c \in 0 .. 2, r \in {Rect(x, 0, 420, 720) : x \in {0, 420, 860}}}
-----------------------------------------------------------------------------
(* r2y.  The last two cases are told from the first by the connector.      *)

R2YCases(name, names, routes) ==
  LET get_case(c, conn, label, format) ==
        OneCrtc(crtc_feature(c, label), Crtc(c, Props(names)), conn, format, 640, 480)
  IN  {get_case(r[1], r[2], name, "YUV444_10BIT") : r \in routes}
      \cup {get_case(4, 2, name, "NV12")}
      \cup {get_case(c, c, name \o ".connecor" \o S(c), "NV12") : c \in {0, 1}}

r2y == R2YCases("r2y", {"R2Y"}, {<<0, 1>>, <<1, 0>>, <<2, 0>>, <<3, 0>>})
r2y_uv_downsample ==
  R2YCases("r2y_uv_downsample", {"R2Y", "DOWN_SAMPLE"}, {<<0, 0>>, <<1, 1>>, <<2, 0>>, <<3, 0>>})
-----------------------------------------------------------------------------
(* ops, blender, timing, format.                                           *)

\* Set, kept, and disabled in the third frame.
ops ==
  LET crtc == Crtc(0, Props({"OPS"}))
      frame == Frame({Plane(0, crtc, "AR24", 640, 480, NoProps)}, {Connector(0, crtc, "AR30", 640, 480)})
  IN  {Frames(crtc_feature(0, "ops"), <<frame, frame, frame>>)}

Blender(c, what, name, w, h) ==
  OneCrtc(crtc_feature(c, "blender." \o what), Crtc(c, Props({name})), ConnOf(c), "AR30", w, h)
blender_dither == {Blender(c, "dither", "BLD_DITHER", 640, 480) : c \in 0 .. 4}
blender_eotf == {Blender(c, "eotf", "BLD_EOTF", 1280, 720) : c \in {2, 3}}
blender_oetf == {Blender(c, "oetf", "BLD_OETF", 1280, 720) : c \in 0 .. 4}
blender_matrix ==
  LET gamut_mode_list == {"709TO2020", "2020TO709", "2020TOP3", "P3TO2020", "P3TOSRGB", "SRGBTOP3"}
  IN  {Blender(c, "matrix_" \o gamut, "BLD_GAMUT_MAP", 1280, 720) : c \in {2, 3}, gamut \in gamut_mode_list}
      \cup {Blender(2, "nonlinear_matrix_" \o gamut, "BLD_NONLINEAR_GAMUT_MAP", 1280, 720)
              : gamut \in gamut_mode_list}

timing_wb ==
  LET get_case(w, h, refresh, format) ==
        LET crtc == Bare(4)
        IN  Simple(crtc_feature(4, "timing." \o S(w) \o "x" \o S(h) \o "@" \o S(refresh)),
                   WithRate(Plane(0, crtc, "AR24", w, h, NoProps), refresh),
                   WithRate(Connector(2, crtc, format, w, h), refresh))
  IN  {get_case(320, 480, 60, "AR24"), get_case(7680, 4320, 30, "AR30")}
      \cup {get_case(m[1], m[2], 120, "AR30") : m \in {<<1280, 720>>, <<1920, 1080>>, <<3840, 2160>>}}
      \cup {get_case(m[1], m[2], 60, "AR30") : m \in
              {<<720, 480>>, <<720, 1612>>, <<800, 600>>, <<1080, 2400>>, <<1024, 768>>, <<1280, 1024>>,
               <<1400, 1050>>, <<1440, 3520>>, <<1440, 3216>>, <<1440, 3360>>, <<1680, 1050>>, <<1600, 1200>>,
               <<1920, 1200>>, <<2340, 3404>>, <<2500, 2820>>, <<2700, 2600>>, <<3200, 1920>>, <<3840, 2160>>,
               <<4096, 2160>>, <<1080, 2340>>}}

SameFormat(crtc, format, w, h) ==
  Simple(crtc_feature(crtc.id, "format." \o format), Plane(0, crtc, format, w, h, NoProps),
         Connector(2, crtc, format, w, h))

\* The dictionary of the connector gets one key more than the copy the plane made of it.
format_yuv ==
  LET crtc == Crtc(4, Props({"R2Y"}))
      custom == SameFormat(crtc, "P030_UV", 1920, 1080)
  IN  {SameFormat(crtc, f, 640, 480) : f \in {"YV12", "YU12", "NV12", "NV21", "NV16", "P010_UV"}}
      \cup {SameFormat(crtc, "NV61", 1280, 720), SameFormat(crtc, "P210_UV", 1920, 1080)}
      \cup {Simple(custom.name, Plane(0, crtc, "P030_UV", 1920, 1080, NoProps),
                   WithOther(Connector(2, crtc, "P030_UV", 1920, 1080), {"customFormat", "decType"}))}
format_rgb == {SameFormat(Bare(4), "AR24", 640, 480), SameFormat(Bare(4), "AR30", 1080, 2340)}
-----------------------------------------------------------------------------
(* histogram.                                                              *)

Histogram(c, label, properties) ==
  LET crtc == Crtc(c, properties)
  IN  Simple(crtc_feature(c, label), Plane(0, crtc, "AR24", 640, 480, Props({"CLEAR"})),
             Connector(0, crtc, "AR30", 640, 480))
histogram ==
  LET old == Also(On("HIST_ROI", Full(640, 480)), {"HIST", "HIST_BLOCK", "HIST_PROT"})
      new == [k \in {"HISTOGRAM_0", "HISTOGRAM_1", "HISTOGRAM_2", "HISTOGRAM_3"} |-> Parts(<<>>, Full(640, 480))]
  IN  UNION {{Histogram(c, "histogramhistogram", old), Histogram(c, "histogram.4histogram", new)} : c \in {0, 1}}
rgbhistogram ==
  {Histogram(0, "rgbhistogramrgbhistogram", Props({"HIST", "HIST_PROT"})),
   Histogram(0, "rgbhistogram.histogram_rgb", Props({"HISTOGRAM_RGB"}))}
-----------------------------------------------------------------------------
(* display_compression, ramless: what is written back is compressed, or    *)
(* half of a display two CRTCs share.                                      *)

WbPoint(conn) == WithProps(conn, Props({"WB_POINT"}))

Compression(crtc, format, label, w, h, refresh) ==
  Simple(crtc_feature(crtc.id, "display_compression." \o label),
         WithRate(Plane(0, crtc, format, w, h, NoProps), refresh),
         WbPoint(WithRate(Connector(0, crtc, "AR30", w, h), refresh)))
dsc ==
  LET get_case(c, w, h, refresh) ==
        Compression(Crtc(c, On("DSC", Full(w, h))), "AR24",
                    "dsc." \o S(w) \o "x" \o S(h) \o "_4slices", w, h, refresh)
  IN  {get_case(c, 640, 480, 60) : c \in 0 .. 2}
      \cup {get_case(0, 1024, 768, 60), get_case(0, 3840, 2160, 60), get_case(3, 5120, 2880, 120)}
vdcm == {Compression(Crtc(0, Props({"VDCM"})), "XR24", "vdcm", 640, 480, 60)}

dsc_splice ==
  LET get_case(w, h, refresh) ==
        LET crtcs01 == {Crtc(0, Also(On("DSC", Full(w, h)), {"SPLICE_MODE"})), Crtc(1, On("DSC", Full(w, h)))}
        IN  Case("crtc01.feature.display_compression.dsc_splice." \o S(2 * w) \o "x" \o S(h),
                 {WithRate(Plane(c.id, c, "AR24", w, h, NoProps), refresh) : c \in crtcs01},
                 {WbPoint(WithWb(WithRate(Connector(c.id, c, "AR30", 2 * w, h), refresh), w, h)) : c \in crtcs01})
  IN  {get_case(3072, 3456, 60), get_case(3840, 4320, 30)}

\* The picture a frame left behind is read again while ramless is enabled.
Ramless(enabled, name) == IF enabled THEN Props({name}) ELSE NoProps
ramless ==
  LET crtc(k) == Crtc(0, Ramless(k > 0, "RAMLESS_FB"))
      frame(k, conn) == Frame({Plane(0, crtc(k), "AR24", 640, 480, NoProps)}, {WbPoint(conn)})
  IN  {Frames(crtc_feature(0, "ramless"),
              <<frame(0, WithOther(Connector(0, crtc(0), "AR30", 640, 480), {"WBForRamLess"})),
                frame(1, Connector(0, crtc(1), "XR4H", 640, 480)),
                frame(2, Connector(0, crtc(2), "XR4H", 640, 480))>>)}
ramless_spliter ==
  LET half(crtc) == WbPoint(WithWb(Connector(crtc.id, crtc, "XR4H", 1080, 2400), 600, 2400))
      frame(crtc0, conn0) ==
        Frame({Plane(c.id, c, "AR24", 1080, 2400, NoProps) : c \in {crtc0, Bare(1)}},
              {WbPoint(conn0), half(Bare(1))})

      split == Crtc(0, Props({"SPLITER"}))
      again == Crtc(0, Props({"RAMLESS_FB"}))
  IN  {Frames("crtc01.feature.ramless.spliter",
              <<frame(split, WithOther(Connector(0, split, "AR30", 1080, 2400), {"WBForRamLess"})),
                frame(again, half(again)), frame(again, half(again))>>)}
=============================================================================
