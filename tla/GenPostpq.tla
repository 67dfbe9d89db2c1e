----------------------------- MODULE GenPostpq ------------------------------
(***************************************************************************)
(* The case generators of script/dtest/dc9400/crtc/feature/postpq: what a  *)
(* CRTC does to the blended picture, written back by its connector.        *)
(***************************************************************************)
EXTENDS GenCrtc

postpq(i, what) == crtc_feature(i, "postpq." \o what)

\* Properties of the CRTC alone, on plane 0 of the size of the display.
Pq(c, conn, what, properties, size) ==
  OneCrtc(postpq(c, what), Crtc(c, properties), conn, "AR30", size[1], size[2])
PqVga(c, conn, what, properties) == Pq(c, conn, what, properties, <<640, 480>>)
Hd == <<1280, 720>>
FullHd == <<1920, 1080>>
-----------------------------------------------------------------------------
(* data_extend, data_trunc, scaler.                                        *)

data_extend ==
  LET get_case(c, format, names, mode) ==
        LET crtc == Crtc(c, Props(names \cup {"DATA_EXTEND"}))
        IN  Simple(postpq(c, "data_extend." \o mode), Plane(0, crtc, "AR30", 640, 480, NoProps),
                   Connector(ConnOf(c), crtc, format, 640, 480))
  IN  UNION {{get_case(c, "AR30", {}, mode) : c \in {0, 1}}
             \cup {get_case(c, "YUV444_10BIT", {"R2Y"}, mode) : c \in {2, 3, 4}} : mode \in {"STD", "MSB"}}

data_trunc ==
  LET get_case(c, what, names, w, h, plane_names) ==
        LET crtc == Crtc(c, Props(names))
        IN  Simple(postpq(c, "data_trunc." \o what), Plane(0, crtc, "AR24", w, h, Props(plane_names)),
                   Connector(ConnOf(c), crtc, "AR30", w, h))
  IN  {get_case(c, "blend", {"DATA_TRUNC"}, 640, 480, {"DATA_EXTEND"}) : c \in 0 .. 4}
      \cup {get_case(c, "gamma", {"DATA_TRUNC", "DEGAMMA"}, 1280, 720, {}) : c \in {0, 1}}

CrtcScaled(c, label, s, d) ==
  LET crtc == Crtc(c, Scaler(s[1], s[2], d[1], d[2]))
  IN  Simple(crtc_feature(c, "scaler" \o label \o in_out(s, d)),
             Plane(0, crtc, "AR24", s[1], s[2], NoProps), Connector(0, crtc, "AR30", d[1], d[2]))
postpq_scaler ==
  {CrtcScaled(0, scales(p[1], p[2]), p[1], p[2]) : p \in ScalePairs(display_modes)}
  \cup {CrtcScaled(1, "_2x1.5", <<640, 480>>, <<1280, 720>>), CrtcScaled(1, "_0.5x0.7", <<1280, 720>>, <<640, 480>>)}
-----------------------------------------------------------------------------
(* Tone and colour: ltm, gtm, ccm, look-up tables, gamma, dither.          *)

ltm ==
  LET crtc(names) == Crtc(0, Also(On("LTM", Full(1920, 1280)), names))
      frame(names) == Frame({Plane(0, crtc(names), "AR24", 1920, 1280, NoProps)},
                            {Connector(0, crtc(names), "AR30", 1920, 1280)})
      get_case(what, second) ==
        Frames(postpq(0, "ltm.LTM_mode_1_strength_4_gd_12_" \o what), <<frame({}), frame(second)>>)
  IN  {get_case("normal_1", {}), get_case("normal_2", {}), get_case("af_filter", {"LTM_AF_FILTER"})}
gtm ==
  {Pq(1, 0, "gtm.GTM_mode_1_strength_4_gd_12_normal_" \o S(k), On("GTM", Full(1920, 1280)), <<1920, 1280>>) : k \in {1, 2}}

ccm_linear == {PqVga(c, 0, "ccm_linear", Props({"CCM_LNR"})) : c \in {0, 1}}
ccm_nonlinear == {PqVga(c, 0, "ccm_nonlinear", Props({"CCM_NON_LNR"})) : c \in {0, 1}}
ccm_linear_ex == {PqVga(0, 0, "ccm_linear_ex", Props({"CCM_LNR_EX"}))}

Roi3dLut == On("ROI0_3DLUT", Full(320, 240))
color_calibration_path ==
  {PqVga(0, 0, "color_calibration_path" \o S(path),
         Also(Roi3dLut, {"PRIOR_3DLUT", "COLOR_CALIBRATION_PATH_MODE"})) : path \in {0, 1}}
prior_3dlut == {PqVga(c, 0, "prior_3dlut", Props({"PRIOR_3DLUT"})) : c \in {0, 1}}
roi0_3dlut == {PqVga(0, 0, "roi0_3dlut", Roi3dLut)}

\* Two connectors of CRTC 1, the second told from the first in the name.
degamma == {PqVga(c, 0, "degamma", Props({"DEGAMMA"})) : c \in {0, 1}}
prior_gamma ==
  {PqVga(c, 0, "prior_gamma", Props({"PRIOR_GAMMA"})) : c \in {0, 1}}
  \cup {PqVga(1, 1, "prior_gamma.connector1", Props({"PRIOR_GAMMA"}))}
roi0_gamma == {PqVga(0, 0, "roi0_gamma", On("ROI0_GAMMA", <<Rect(200, 200, 200, 200)>>) @@ Roi3dLut)}
gamma_dither ==
  {PqVga(c, 0, "gamma_dither", Props({"GAMMA_DITHER"})) : c \in {0, 1}}
  \cup {PqVga(1, 1, "gamma_dither_connector1", Props({"GAMMA_DITHER"}))}
panel_dither ==
  LET modes == {"none", "hw"} \cup {"sw_" \o S(k) : k \in 0 .. 3}
  IN  UNION {{Pq(c, ConnOf(c), "panel_dither_" \o mode, Props({"PANEL_DITHER"}), Hd) : c \in 0 .. 4}
             \cup {Pq(1, 1, "panel_dither_" \o mode \o "_connector1", Props({"PANEL_DITHER"}), Hd)} : mode \in modes}
llv_dither == {PqVga(c, 0, "llv_dither", Props({"LLV_DITHER"})) : c \in {0, 1}}
-----------------------------------------------------------------------------
(* Parts of the picture: brightness, sharpness, rcd, blur, background,     *)
(* crop, demura.                                                           *)

\* One part of its own, or two where both are asked for.
brightness ==
  LET rois(a, b) == IF a = 1 /\ b = 1 THEN <<Rect(400, 400, 256, 256), Rect(100, 100, 256, 256)>>
                    ELSE <<Rect(640, 360, 640, 480)>>
      get_case(c, kind, a, b, mode, threshold) ==
        Pq(c, 0, "brightness_" \o kind \o "Roi0" \o S(a) \o "_Roi1" \o S(b) \o "_" \o mode \o "_" \o S(threshold),
           Prop("BRIGHTNESS", Full(1920, 1080), rois(a, b)), FullHd)
      pairs == {<<0, 1>>, <<1, 0>>, <<1, 1>>}
  IN  {get_case(c, "", p[1], p[2], mode, t) : c \in {0, 1}, p \in pairs, mode \in {"MAX", "WEIGHT"},
                                              t \in {512, 1024, 16382}}
      \cup {get_case(c, "dec_", p[1], p[2], mode, 1024) : c \in {0, 1}, p \in pairs \ {<<1, 1>>},
                                                        mode \in {"MAX", "WEIGHT"}}

sharpness ==
  LET parts == {"COLOR_ADAPTIVE", "COLOR_BOOST", "CSC", "DITHER", "LPF", "LPF_CURVE", "LPF_NOISE", "LUMA_GAIN", "SOFT_CLIP"}
      get_case(ink, label) ==
        Pq(0, 0, "sharpness" \o ink \o label, Props({"SHARPNESS"} \cup {"SHARPNESS_" \o part : part \in parts}), Hd)
      tuned(ink, gain, a, b, c) ==
        get_case(ink, ".mstGain" \o S(gain) \o ".ca0Enable" \o S(a) \o ".ca1Enable" \o S(b) \o ".ca2Enable" \o S(c))
  IN  {tuned("DEFAULT", gain, 1, 1, 1) : gain \in {128, 256, 511}}
      \cup {tuned("ADAPT", 511, p[1], p[2], p[3]) : p \in ((0 .. 1) \X (0 .. 1) \X (0 .. 1)) \ {<<0, 0, 0>>}}
      \cup {get_case(plane \o S(k), "") : plane \in {"G", "L", "V"}, k \in 0 .. 2}
      \cup {get_case("LUMA", "")}

\* The round corners of a display: those of its top, of its bottom, or all.
rcd ==
  LET top == Rect(0, 0, 1280, 256)
      btm == Rect(0, 464, 1280, 256)
      get_case(c, label, parts) == Pq(c, 0, label, On("RCD", parts), Hd)
  IN  UNION {{get_case(c, "rcd_cfg1", <<top>>), get_case(c, "rcd_cfg2", <<btm>>),
              get_case(c, "rcd_cfg3", <<top, btm>>), get_case(c, "rcd_cfg4", <<top, btm>>),
              get_case(c, "rcd_dec_cfg1", <<top>>)} : c \in {0, 1}}

blur ==
  LET get_case(kind, r) ==
        Pq(0, 0, "blur_" \o kind \o "Rx" \o S(r.x) \o "_Ry" \o S(r.y) \o "_Rw" \o S(r.w) \o "_Rh" \o S(r.h),
           Prop("BLUR", Full(1280, 720), <<r>>), Hd)
  IN  {get_case("", r) : r \in {Rect(0, 0, 1280, 720), Rect(590, 310, 100, 100), Rect(1160, 0, 100, 100),
                                Rect(1160, 600, 100, 100), Rect(20, 0, 100, 100), Rect(20, 600, 100, 100)}
                         \cup {Rect(p[1], p[2], 600, 600) : p \in {<<0, 0>>, <<0, 120>>, <<340, 60>>, <<680, 0>>,
                                                                <<680, 120>>}}}
      \cup {get_case("dec_", Rect(1160, 0, 100, 100)), get_case("dec_", Rect(20, 0, 640, 480))}

bg_color ==
  LET get_case(c, color) ==
        LET crtc == Crtc(c, Props({"BG_COLOR"}))
        IN  Simple(postpq(c, "bg_color." \o color), Plane(0, crtc, "AR24", 1280, 720, NoProps),
                   Connector(ConnOf(c), crtc, "AR30", 1920, 1080))
  IN  {get_case(c, color) : c \in 0 .. 4, color \in {"red", "green", "blue"}}

crop ==
  LET get_case(c, label, conn(_)) ==
        LET crtc == Crtc(c, Crop("PANEL_CROP", 0, 0, 640, 480, 1920, 1080))
        IN  Simple(postpq(c, "crop" \o label), Plane(0, crtc, "AR24", 1920, 1080, NoProps), conn(crtc))
      cropped(crtc) == WbPoint(Connector(0, crtc, "AR30", 640, 480))
      out(crtc) == WithWb(Connector(0, crtc, "AR30", 1920, 1080), 640, 480)
      out1(crtc) == WithWb(Connector(1, crtc, "AR30", 1920, 1080), 640, 480)
  IN  {get_case(c, "", cropped) : c \in 0 .. 3} \cup {get_case(c, ".displayout", out) : c \in {0, 1}}
      \cup {get_case(1, ".displayout.connector1", out1)}

dbi ==
  LET get_case(label, w, h, rois) ==
        LET crtc == Crtc(0, Also(On("DBI", Full(w, h) \o rois), {"DBI_CORRECTION_COEF"}))
        IN  Simple(postpq(0, label \o ".connector0"), Plane(0, crtc, "AR30", w, h, NoProps),
                   Connector(0, crtc, "AR30", w, h))
  IN  {get_case("dbi0", 1080, 2992, Full(1080, 2992)),
       get_case("dbi1", 1078, 2990, <<Rect(2, 300, 770, 2200), Rect(0, 2601, 1078, 389)>>)}
-----------------------------------------------------------------------------
(* Several frames: vrr, free_sync, mode_switch.                            *)

Shown(crtc, w, h, refresh) ==
  Frame({WithRate(Plane(0, crtc, "AR24", w, h, NoProps), refresh)},
        {WithRate(Connector(0, crtc, "AR30", w, h), refresh)})
\* The second and the third frame change the refresh rate.
vrr ==
  LET crtc == Bare(0)
      first == Shown(crtc, 1920, 1080, 120)
      variable == [first EXCEPT !.connectors = {WithOther(c, {"vrrEnable", "vrrRefresh"}) : c \in first.connectors}]
  IN  {Frames(postpq(0, "vrr"), <<first, variable, variable>>)}
free_sync ==
  LET frame(c) == Shown(Crtc(c, Props({"FREE_SYNC"})), 640, 480, 60)
  IN  {Frames(postpq(c, "free_sync"), <<frame(c), frame(c)>>) : c \in 0 .. 3}
mode_switch ==
  LET small(c) == Shown(Bare(c), 640, 480, 60)
  IN  {Frames(postpq(c, "mode_switch"), <<small(c), Shown(Bare(c), 1920, 1080, 60), small(c)>>) : c \in 0 .. 3}
=============================================================================
