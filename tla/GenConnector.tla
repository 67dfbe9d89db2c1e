---------------------------- MODULE GenConnector ----------------------------
(***************************************************************************)
(* The case generators of script/dtest/dc9400/connector: what a connector  *)
(* does to the picture before it is written back.                          *)
(***************************************************************************)
EXTENDS CaseObjects

connector_feature(i, what) == "connector" \o S(i) \o ".feature." \o what

\* Connector i of CRTC i, which plane 0 covers.
OneConn(name, i, plane_format, format, w, h, properties, other_prop) ==
  LET crtc == Crtc(i, NoProps)
  IN  Simple(name, Plane(0, crtc, plane_format, w, h, NoProps),
             WithOther(WithProps(Connector(i, crtc, format, w, h), properties), other_prop))
PostWb(i, label, format, w, h, names) ==
  OneConn(connector_feature(i, "postwb." \o label), i, "AR24", format, w, h, Props(names), {})

\* Mutant: extended to both connectors, the name left as it is.
wb_data_extend_Both ==
  {OneConn(connector_feature(0, "postwb.data_extend." \o mode), i, "AR30", "NV12", 640, 480,
           Props({"DATA_EXTEND", "R2Y"}), {}) : i \in {0, 1}, mode \in {"STD", "MSB"}}

wb_data_extend ==
  {OneConn(connector_feature(0, "postwb.data_extend." \o mode), 0, "AR30", "NV12", 640, 480,
           Props({"DATA_EXTEND", "R2Y"}), {}) : mode \in {"STD", "MSB"}}
wb_data_trunc ==
  {PostWb(0, "data_trunc." \o mode, "AR30", 1280, 720, {"DATA_TRUNC"}) : mode \in {"ROUNDING", "TRUNCATE"}}
wb_dither ==
  {PostWb(i, "wb_dither_" \o index_type, "AR24", 1280, 720, {"WB_DITHER"})
     : i \in {0, 1}, index_type \in {"none", "hw", "sw_0", "sw_1", "sw_2", "sw_3"}}
wb_uv_downsample ==
  {PostWb(0, "uv_downsample." \o mode, "NV12", 640, 480, {"R2Y", "DOWN_SAMPLE"}) : mode \in {"FILTER", "AVERAGE", "DROP"}}
wb_gamma == {PostWb(i, "wb_gamma", "AR30", 640, 480, {"WB_GAMMA", "WB_POINT"}) : i \in {0, 1}}
wb_gamma_dither ==
  {OneConn(connector_feature(i, "wb_gamma_dither"), i, "AR24", "AR30", 640, 480,
           Props({"WB_GAMMA_DITHER", "WB_POINT"}), {}) : i \in {0, 1}}
wb_r2y ==
  LET get_case(i, format) == PostWb(i, "r2y." \o format, format, 640, 480, {"R2Y"})
      get_other_case(i, format, w, h) ==
        OneConn(connector_feature(i, "postwb.r2y." \o format), i, "AR24", format, w, h, Props({"R2Y"}),
                {"decType", "customFormat"})
  IN  UNION {{get_case(i, f) : f \in {"YV12", "YU12", "NV12", "NV21", "NV16", "NV61", "P010_UV", "P210_UV"}}
             \cup {get_other_case(i, f, 640, 480) : f \in {"P010_VU", "P210_VU", "I010_UV", "I010_VU"}}
             \cup {get_other_case(i, "P030_UV", 1920, 1080)} : i \in {0, 1}}

\* The format of the plane, which the case is named after, is that of the connector
\* too, except for AB24; the planar formats have names of their own.
format_wb ==
  LET get_case(format, label, w, h, properties, other_prop) ==
        OneConn(connector_feature(0, "format." \o label), 0, format, IF format = "AB24" THEN "AB30" ELSE format,
                w, h, properties, other_prop)
      plain(format, w, h) == get_case(format, format, w, h, NoProps, {})
      displayin(format, label, w, h, other_prop) ==
        get_case(format, label \o ".displayin", w, h, Props({"WB_POINT"}), other_prop)
  IN  {plain(f, 640, 480) : f \in {"AR24", "AB24", "RA24", "BA24", "AB30", "RA30", "BA30", "RG24", "BG24"}}
      \cup {plain("AR30", 1080, 2340)}
      \cup {get_case(f, f \o "_planar", 640, 480, NoProps, {"customFormat"}) : f \in {"RG24", "BG24"}}
      \cup {displayin(f, f, 640, 480, {}) : f \in {"AR24", "RG24"}} \cup {displayin("AR30", "AR30", 1080, 2340, {})}
      \cup {displayin("RG24", "RG24_planar", 640, 480, {"customFormat"})}

compress ==
  LET get_case(format, tile, names) ==
        LET crtc == Crtc(4, Props(names))
        IN  Simple(connector_feature(2, "compress." \o format \o "_" \o tile \o "_PVRIC_lossless"),
                   Plane(0, crtc, "AR24", 640, 480, NoProps),
                   WithOther(Connector(2, crtc, format, 640, 480), {"decType", "tileMode", "lossy"}))
  IN  {get_case(f, "TILE16X4", {}) : f \in {"BA24", "BX24", "RG16", "AR30"}}
      \cup {get_case(f, "TILE8X8", {"R2Y"}) : f \in {"NV12", "P010_UV"}}

\* Where the stripes of four frames lie: side by side, or two by two.
columns(w, h) == [k \in 1 .. 4 |-> Rect(w * (k - 1), 0, w, h)]
\* Mutant: the third part is the fourth.
quarters_Repeated(w, h) == <<Rect(0, 0, w, h), Rect(w, 0, w, h), Rect(w, h, w, h), Rect(w, h, w, h)>>
quarters(w, h) == <<Rect(0, 0, w, h), Rect(w, 0, w, h), Rect(0, h, w, h), Rect(w, h, w, h)>>

\* A frame shows one quarter of a picture and writes it to its place in a picture
\* of the whole size, which the frames share; the last frame disables both.
compressed == {"decType", "tileMode", "lossy"}
stripe_frame(roi, w, h) ==
  LET crtc == Crtc(4, NoProps)
  IN  Frame({Plane(0, crtc, "AR30", w, h, Prop("DMA_CONFIG", <<roi>>, Full(roi.w, roi.h)))},
            {WithWb(WithOther(WithProps(Connector(2, crtc, "AR30", roi.w, roi.h), On("WB_STRIPE_POS", <<roi>>)),
                              compressed \cup {"WBWithStripe"}), w, h)})
stripe_last(w, h) ==
  LET crtc == Crtc(4, NoProps)
  IN  Frame({Plane(0, crtc, "AR30", w, h, Props({"DMA_CONFIG"}))},
            {WithOther(WithProps(Connector(2, crtc, "AR30", w, h), Props({"WB_STRIPE_POS"})), compressed)})
stripe_case(w, h, rois) ==
  Frames("multiFrame.stripe_" \o S(w) \o "x" \o S(h),
         [k \in 1 .. 5 |-> IF k = 5 THEN stripe_last(w, h) ELSE stripe_frame(rois[k], w, h)])
stripe == {stripe_case(2048, 1080, columns(512, 1080)), stripe_case(4096, 2160, quarters(2048, 1080))}

wb_crop ==
  LET get_case(c, conn) ==
        LET crtc == Crtc(c, NoProps)
        IN  Simple("crtc" \o S(c) \o ".feature.wbcrop.connector" \o S(conn),
                   Plane(0, crtc, "AR24", 1920, 1080, NoProps),
                   WithWb(WithProps(Connector(conn, crtc, "AR30", 1920, 1080),
                                    Crop("WB_CROP", 0, 0, 640, 480, 1920, 1080)), 640, 480))
  IN  {get_case(0, 0), get_case(1, 0), get_case(4, 2), get_case(1, 1)}
=============================================================================
