------------------------------ MODULE GenPlane ------------------------------
(***************************************************************************)
(* The case generators of script/dtest/dc9400/plane and simple.py.  Each   *)
(* definition is the list one generator returns, as a set.                 *)
(***************************************************************************)
EXTENDS CaseObjects

feature(i, what) == "plane" \o S(i) \o ".feature." \o what

\* The display everything simple is shown on.
Vga(crtc) == Connector(0, crtc, "AR30", 640, 480)
OnVga(name, plane) == Simple(name, plane, Vga(plane.crtc))
OnAr30(name, plane, size) == Simple(name, plane, Connector(0, plane.crtc, "AR30", size[1], size[2]))

simple ==
  LET get_case(p, c, conn) ==
        LET crtc == Crtc(c, NoProps)
            size == IF p \in cursor_plane_ids THEN <<256, 256>> ELSE <<640, 480>>
        IN  Simple("simple.plane" \o S(p) \o ".crtc" \o S(c) \o ".connector" \o S(conn),
                   Plane(p, crtc, "AR24", size[1], size[2], NoProps),
                   Connector(conn, crtc, "AR30", 640, 480))
  IN  {get_case(p, c, 0) : p \in PlaneIds, c \in 0 .. 3} \cup {get_case(0, 0, 1), get_case(0, 4, 2)}
-----------------------------------------------------------------------------
(* hdr, clear: one property on every plane.                                *)

OnePlane(i, what, names) ==
  OnVga(feature(i, what), Plane(i, Crtc0, "AR24", 640, 480, Props(names)))

hdr_demultiply == {OnePlane(i, "hdr.demultiply", {"HDR", "DE_MULTIPLY"}) : i \in PlaneIds}
hdr_eotf == {OnePlane(i, "hdr.eotf", {"HDR", "EOTF"}) : i \in PlaneIds}
hdr_gamut_map == {OnePlane(i, "hdr.gamut_map", {"HDR", "GAMUT_MAP"}) : i \in PlaneIds}
hdr_tone_map == {OnePlane(i, "hdr.tone_map", {"HDR", "TONE_MAP"}) : i \in PlaneIds}
hdr_oetf == {OnePlane(i, "hdr.oetf", {"HDR", "OETF"}) : i \in PlaneIds}
clear_red == {OnePlane(i, "clear.red", {"CLEAR"}) : i \in PlaneIds}
clear_green == {OnePlane(i, "clear.green", {"CLEAR"}) : i \in PlaneIds}
clear_blue == {OnePlane(i, "clear.blue", {"CLEAR"}) : i \in PlaneIds}
-----------------------------------------------------------------------------
(* dma: parts of the picture, roi, are shown at the places out.  With an   *)
(* extended layer the second part comes from a second buffer, EXT_LAYER_FB.*)

Dma(roi, out) == Prop("DMA_CONFIG", roi, out)
ExtFb(w, h) == Prop("EXT_LAYER_FB", Full(w, h), <<>>)
Tiled == {0, 1, 6, 7}

dma_oneROI ==
  LET part(x) == Dma(<<Rect(x, x, 320, 320)>>, <<Rect(x, x, 320, 320)>>)
  IN  {OnVga(feature(i, "dma.dmaOneROI_LINEAR"), Plane(i, Crtc0, "AR24", 640, 480, part(50)))
         : i \in PlaneIds}
      \cup {OnVga(feature(i, "dma.dmaOneROI_TILE16X4"), Plane(i, Crtc0, "AR30", 640, 480, part(80)))
              : i \in Tiled}

dma_twoROI ==
  LET linear == Dma(<<Rect(0, 0, 240, 200), Rect(240, 240, 240, 240)>>,
                    <<Rect(10, 10, 240, 200), Rect(320, 240, 240, 240)>>)
      tiled == Dma(<<Rect(0, 0, 240, 160), Rect(320, 240, 240, 160)>>,
                   <<Rect(10, 10, 240, 160), Rect(320, 240, 240, 160)>>)
  IN  {OnVga(feature(i, "dma.dmaTwoROI_LINEAR"), Plane(i, Crtc0, "AR24", 640, 480, linear))
         : i \in PlaneIds}
      \cup {OnVga(feature(i, "dma.dmaTwoROI_TILE16X4"), Plane(i, Crtc0, "AR30", 640, 480, tiled))
              : i \in Tiled}

dma_extendLayer ==
  LET linear == Dma(<<>>, <<Rect(0, 0, 320, 240), Rect(0, 300, 400, 400)>>) @@ ExtFb(400, 400)
      tiled == Dma(<<>>, <<Rect(0, 0, 640, 480), Rect(0, 560, 640, 480)>>) @@ ExtFb(640, 480)
  IN  {OnAr30(feature(i, "dma.extendLayer_LINEAR"), Plane(i, Crtc0, "AR24", 320, 240, linear), <<1280, 720>>)
         : i \in PlaneIds}
      \cup {OnAr30(feature(i, "dma.extendLayer_TILE16X4"), Plane(i, Crtc0, "AR30", 640, 480, tiled),
                   <<1920, 1080>>) : i \in Tiled}

dma_extendLayerEx ==
  LET parts == Dma(<<Rect(0, 0, 240, 200), Rect(240, 240, 240, 240)>>,
                   <<Rect(10, 10, 240, 200), Rect(320, 240, 240, 240)>>) @@ ExtFb(640, 480)
  IN  {OnVga(feature(i, "dma.extendLayerEx_LINEAR"), Plane(i, Crtc0, "RG16", 640, 480, parts))
         : i \in PlaneIds}
-----------------------------------------------------------------------------
(* scaler: the picture is scaled from its size to the size of the display. *)

\* Mutant: the plane keeps the place of its own size.
Scaled_Unplaced(i, label, s, d) ==
  OnAr30(feature(i, "scaler" \o label \o in_out(s, d)),
         Plane(i, Crtc0, "AR24", s[1], s[2], Scaler(s[1], s[2], d[1], d[2])), d)
Scaled(i, label, s, d) ==
  OnAr30(feature(i, "scaler" \o label \o in_out(s, d)),
         PlaneAt(Plane(i, Crtc0, "AR24", s[1], s[2], Scaler(s[1], s[2], d[1], d[2])), 0, 0, d[1], d[2]), d)

scaler_baseScaler ==
  {Scaled(0, scales(p[1], p[2]), p[1], p[2]) : p \in ScalePairs(display_modes)}
  \cup UNION {{Scaled(i, "_2x1.5", <<640, 480>>, <<1280, 720>>),
               Scaled(i, "_0.5x0.7", <<1280, 720>>, <<640, 480>>)} : i \in {1, 2, 3, 6, 7, 8, 9}}

scaler_filter84 ==
  {Scaled(0, mode \o scales(p[1], p[2]), p[1], p[2])
     : p \in ScalePairs({<<640, 480>>, <<3840, 2160>>}), mode \in {"LINEAR", "CUBIC", "LANCZOS"}}

\* With 1080x2340; each list of modes keeps its order.
scaler_scaler ==
  LET modes == SubSeq(display_mode_list, 1, 2) \o <<<<1080, 2340>>>> \o SubSeq(display_mode_list, 3, 9)
      get_case(i, s, d) ==
        OnAr30(feature(i, "scaler" \o scales(s, d) \o in_out(s, d)),
               PlaneAt(Plane(i, Crtc0, "AR24", s[1], s[2], Scaler(s[1], s[2], d[1], d[2])),
                       0, 0, d[1], d[2]),
               FirstFit(modes, d[1], d[2]))
  IN  {get_case(0, <<640, 480>>, <<960, 240>>), get_case(1, <<2032, 1356>>, <<1344, 2992>>)}
-----------------------------------------------------------------------------
(* format: every format, on the first display that is large enough.        *)

format_rgb_yuv ==
  LET modes == <<<<640, 480>>, <<1080, 2340>>>> \o SubSeq(display_mode_list, 2, 9)
      get_case(i, format, w, h, label, connector_format) ==
        LET size == IF i \in cursor_plane_ids THEN <<256, 256>> ELSE <<w, h>>
            fit == FirstFit(modes, w, h)
        IN  Simple(feature(i, "format." \o label), Plane(i, Crtc0, format, size[1], size[2], NoProps),
                   Connector(0, Crtc0, connector_format, fit[1], fit[2]))
      plain(i, format, w, h) == get_case(i, format, w, h, format, "AR30")
  IN  {plain(0, f, 640, 480) : f \in
         {"RG16", "BG16", "AR24", "AB24", "RA24", "BA24", "XB24", "XR24", "BX24", "RX24", "AR15",
          "AB15", "RA15", "BA15", "AR12", "AB12", "RA12", "BA12", "AR30", "AB30", "RA30", "BA30",
          "YV12", "YU12", "NV12", "NV21", "P010_UV", "NV16", "XR15", "XB15", "RX15", "BX15", "XR30",
          "XB30", "RX30", "BX30", "YUYV", "RG24", "BG24", "AR4H"}}
      \cup {plain(i, "AR24", 640, 480) : i \in 1 .. plane_num - 1}
      \cup {plain(i, "YV12", 640, 480) : i \in {1, 6, 7}}
      \cup {plain(0, f, 1920, 1080) : f \in {"P030_UV", "P210_UV", "P010_VU", "P210_VU"}}
      \cup {plain(0, f, 1280, 720) : f \in {"NV61", "I010_UV", "I010_VU"}}
      \cup {plain(1, "AR30", 1080, 2340)}
      \cup {get_case(0, f, 640, 480, f \o "_planar", "AR30") : f \in {"RG24", "BG24"}}
      \cup {get_case(0, "LUMA_8", 640, 480, "LUMA_8", "NV16"),
            get_case(0, "LUMA_10", 640, 480, "LUMA_10", "P010_UV")}

format_rgb_yuv_tile ==
  LET get_case(i, format, w, h, label) ==
        OnAr30(feature(i, "format." \o format \o "_" \o label),
               Plane(i, Crtc0, format, w, h, NoProps), FirstFit(display_mode_list, w, h))
      all(formats, w, h, label) == {get_case(0, f, w, h, label) : f \in formats}
  IN  {get_case(i, "BA24", 640, 480, "TILE16X4") : i \in PlaneIds}
      \cup all({"BX24", "RG16", "BG16", "AR30", "AB30", "RA30", "BA30"}, 640, 480, "TILE16X4")
      \cup all({"AR4H"}, 640, 480, "TILE32X2")
      \cup {get_case(i, f, 640, 480, "TILE8X8") : i \in Tiled, f \in {"NV12", "P010_UV"}}
      \cup UNION {all({"AR30"}, 640, 480, "TILE_8X8_UNIT2X2_" \o dec)
                  \cup all({"AR24"}, 512, 512, "TILE_8X8_UNIT2X2_" \o dec)
                  \cup all({"AR4H"}, 640, 480, "TILE_8X4_UNIT2X2_" \o dec) : dec \in {"NONE", "DEC"}}
      \cup all({"NV12"}, 1088, 1920, "TILE16X16_NONE") \cup all({"P010_UV"}, 2560, 1440, "TILE16X16_NONE")
      \cup all({"NV12", "NV21"}, 1280, 720, "TILE32X8_A_NONE")
      \cup all({"AR24", "AB24", "RA24", "BA24", "AR30", "AB30", "RA30", "BA30"}, 1280, 720, "TILE16X4_NONE")
      \cup all({"XR24", "XB24", "RX24", "BX24", "AR24", "AB24", "RA24", "BA24", "XR30", "XB30", "RX30",
                "BX30", "AR30", "AB30", "RA30", "BA30"}, 2560, 1600, "TILE_8X8_SUPERTILE_X_NONE")
      \cup all({"NV12", "NV21"}, 1280, 720, "TILE_32X8_YUVSP8X8_NONE")
      \cup all({"P010_UV", "P010_VU"}, 1280, 720, "TILE_16X8_YUVSP8X8_NONE")

y2r ==
  {OnAr30(feature(i, "y2r." \o enc \o "_" \o range \o "_H" \o S(hp) \o "V" \o S(vp) \o "_YV12"),
          Plane(i, Crtc0, "YV12", 640, 480, Props({"UP_SAMPLE"})), FirstFit(display_mode_list, 640, 480))
     : i \in {0, 1, 2, 3, 6, 7, 8, 9}, enc \in {"BT601", "BT709", "BT2020"},
       range \in {"Limited", "Full"}, hp \in {4, 8, 12, 16}, vp \in {4, 8, 12, 16}}
-----------------------------------------------------------------------------
(* rotation: turned by 90 or 270 the picture's sides are exchanged.        *)

Turned(plane, rotation) ==
  IF rotation \in {"90", "270"}
  THEN [PlaneAt(plane, 0, 0, plane.h, plane.w) EXCEPT !.turned = TRUE] ELSE plane

rotation_name(i, rotation, w, h, label) ==
  feature(i, "rotation" \o rotation \o ".input" \o Size(w, h) \o "_" \o label)

rotation_rotation ==
  {OnAr30(rotation_name(i, rotation, 640, 480, res[1] \o "_" \o res[2]),
          Turned(Plane(i, Crtc0, res[1], 640, 480, NoProps), rotation), <<1920, 1200>>)
     : i \in Tiled, rotation \in {"90", "180", "270", "FLIPX", "FLIPY"},
       res \in ({"YV12", "NV12", "P010_UV", "NV16"} \X {"LINEAR"}) \cup ({"NV12", "P010_UV"} \X {"TILE8X8"})}

rotation_plus ==
  LET get_case(f, label, tile, w, h, rotation, small_format) ==
        LET plane == Turned(Plane(0, Crtc0, f, w, h, NoProps), rotation)
            small == plane.at.w <= 1280 /\ plane.at.h <= 720
        IN  Simple(rotation_name(0, rotation, w, h, label \o "_" \o tile), plane,
                   IF small THEN Connector(0, Crtc0, small_format, plane.at.w, plane.at.h)
                            ELSE Connector(0, Crtc0, "AR30", 2700, 2600))
      all(formats, tile, w, h, rotations) ==
        {get_case(f, f, tile, w, h, r, CASE f = "LUMA_8" -> "NV16" [] f = "LUMA_10" -> "P010_UV"
                                         [] OTHER -> "AR30") : f \in formats, r \in rotations}
      flips == {"FLIPX", "FLIPY"}
      half == flips \cup {"180"}
      every == half \cup {"90", "270"}
  IN  all({"NV12"}, "TILE16X16", 1088, 1920, every) \cup all({"P010_UV"}, "TILE16X16", 2560, 1440, every)
      \cup all({"NV21", "YU12", "AR24", "AB24", "AR30", "AB30", "RG24", "LUMA_8", "P010_VU", "LUMA_10"},
              "LINEAR", 640, 480, half)
      \cup all({"NV61", "I010_UV"}, "LINEAR", 1280, 720, half)
      \cup all({"P210_UV", "P210_VU", "P030_UV"}, "LINEAR", 1920, 1080, half)
      \cup all({"NV12"}, "TILE32X8_A", 1280, 720, half) \cup all({"AR24", "AB24"}, "TILE16X4", 1280, 720, half)
      \* The planar variant of RG24 has a name of its own.
      \cup {get_case("RG24", "RG24_planar", "LINEAR", 640, 480, r, "AR30") : r \in half}
      \cup all({"XR24", "XR30", "AR24", "AR30"}, "TILE_8X8_SUPERTILE_X", 2560, 1600, every)
      \cup all({"NV12"}, "TILE_32X8_YUVSP8X8", 1280, 720, every)
      \cup all({"P010_UV"}, "TILE_16X8_YUVSP8X8", 1280, 720, every)
-----------------------------------------------------------------------------
(* decompress: compressed pictures.                                        *)

decompress ==
  LET get_case(name, format, names) ==
        Simple(feature(0, "decompress_" \o name), Plane(0, Crtc0, format, 640, 480, Props(names)),
               WithProps(Vga(Crtc0), Props({"WB_POINT"})))
  IN  {get_case("lossless_" \o f, f, {}) : f \in {"AR24", "AR4H", "AR30", "RG16", "NV12", "P010_UV"}}
      \cup {get_case("lossy_" \o f, f, {}) : f \in {"NV12", "P010_UV"}}
      \cup {get_case("clear", "AR24", {"PVRIC_CLEAR"}), get_case("const", "RG16", {"PVRIC_CONST"})}

dec400a ==
  LET get_case(format, yuvTransform, w, h) ==
        LET large == w > 1280 /\ h > 720
        IN  Simple(feature(0, "dec400a_" \o format \o "_TILE_32X8_A_" \o Size(w, h) \o "_yuvTransform"
                                \o S(yuvTransform)),
                   Plane(0, Crtc0, format, w, h, NoProps),
                   Connector(0, Crtc0, "AR24", IF large THEN w ELSE 1280, IF large THEN h ELSE 720))
      resources == ({"AR24", "AR30"} \X {0, 1}) \cup ({"NV12_DEC", "P010_DEC"} \X {0})
  IN  {get_case(res[1], res[2], size[1], size[2])
         : res \in resources, size \in {<<512, 512>>, <<3840, 2160>>, <<4096, 2160>>}}

dec400 ==
  LET get_case(format, tile, w, h, suffix, names) ==
        OnAr30(feature(0, "decompress." \o format \o "_" \o tile \o "_" \o Size(w, h) \o "_ALIGN_32" \o suffix),
               Plane(0, Crtc0, format, w, h, Props(names)),
               IF w >= 2560 /\ h >= 1600 THEN <<3840, 2160>> ELSE <<w, h>>)
      all(formats, tile, w, h) == {get_case(f, tile, w, h, "", {}) : f \in formats}
  IN  all({"NV12", "NV21"}, "TILE_32X8_YUVSP8X8", 1280, 720)
      \cup all({"P010_VU", "P010_UV"}, "TILE_16X8_YUVSP8X8", 1280, 720)
      \cup all({"XR24", "XR30", "AR30", "AR24"}, "TILE_8X8_SUPERTILE_X", 2560, 1600)
      \cup all({"AR24", "AR30"}, "RASTER_64X1", 1920, 1080)
      \cup all({"NV12", "NV21", "NV16", "NV61"}, "RASTER_256X1", 1280, 720)
      \cup all({"P010_UV", "P210_UV"}, "RASTER_128X1", 1920, 1080)
      \cup all({"P010_VU", "P210_VU"}, "RASTER_128X1", 1280, 720)
      \cup {get_case("AR24", "TILE_8X8_SUPERTILE_X", 640, 480, ".fastclear_" \o fc, {"DEC_DECODER_FC"})
              : fc \in {"vulkan", "normal"}}
-----------------------------------------------------------------------------
(* line_padding, cursor, data_extend, multi_extendlayer, ccm, degamma, crop *)

\* Padding m to n stretches the height to 480 * m / n and more.
line_padding ==
  LET modes == <<<<640, 480>>, <<720, 480>>, <<800, 600>>, <<1280, 720>>, <<1024, 768>>, <<1280, 1024>>,
                 <<720, 1612>>, <<1080, 2400>>>>
      get_case(i, source, mode, height) ==
        OnAr30(feature(i, "line_padding." \o source[1] \o "_" \o source[2] \o "." \o mode),
               PlaneAt(Plane(i, Crtc0, source[1], 640, 480, Props({"LINE_PADDING"})), 0, 0, 640, height),
               FirstFit(modes, 640, height))
      row(i, padding) ==
        LET sources == <<<<"RG16", "LINEAR">>, <<"YV12", "LINEAR">>, <<"AR24", "TILE32X8">>, <<"NV12", "TILE32X8">>>>
        IN  {get_case(i, sources[k], padding[k][1], padding[k][2]) : k \in 1 .. 4}
  IN  row(0, <<<<"2TO1", 960>>, <<"4TO3", 640>>, <<"1TO1", 500>>, <<"8TO5", 800>>>>)
      \cup row(1, <<<<"3TO1", 1440>>, <<"5TO2", 1200>>, <<"3TO2", 800>>, <<"5TO3", 900>>>>)
      \cup row(6, <<<<"3TO2", 720>>, <<"5TO3", 800>>, <<"3TO1", 1500>>, <<"5TO2", 1300>>>>)
      \cup row(7, <<<<"4TO1", 1920>>, <<"8TO5", 768>>, <<"2TO1", 1000>>, <<"4TO3", 700>>>>)

\* Case k is shown on the k-th plane of the list; the first would be on plane 0,
\* which is no cursor plane, and is left out.
plane_cursor ==
  LET cursors == <<8, 64, 128, 256>>
      positions == <<<<0, 0>>, <<61, 53>>, <<384, 224>>>>
      plane_list == <<4, 5, 10, 11>>
      get_case(i, size, pos) ==
        OnVga(feature(i, Size(size, size) \o "_PX" \o S(pos[1]) \o "_PY" \o S(pos[2]) \o "_p" \o S(i)),
              PlaneAt(Plane(i, Crtc0, "AR24", size, size, NoProps), pos[1], pos[2], size, size))
  IN  {get_case(plane_list[(count % 4) + 1], cursors[(count \div 3) + 1], positions[(count % 3) + 1]) : count \in 1 .. 11}

Extend(i, crtc, conn, mode) ==
  Simple(feature(i, "data_extend." \o mode), Plane(i, crtc, "AR30", 640, 480, Props({"DATA_EXTEND"})),
         Connector(conn, crtc, "AR30", 640, 480))
extend_only ==
  UNION {{Extend(0, Crtc0, 0, mode), Extend(5, Crtc(1, NoProps), 1, mode)} : mode \in {"STD", "MSB"}}
extend_alpha ==
  {Extend(i, Crtc(4, NoProps), 2, mode \o "_alpha" \o alpha)
     : i \in {0, 3}, mode \in {"STD", "MSB"}, alpha \in {"0", "4294967295"}}

\* n more pictures of the plane's size, at the given places.
ExtLayers(w, h, places) ==
  Prop("MULTI_EXT_LAYER", [k \in DOMAIN places |-> Rect(0, 0, w, h)],
       [k \in DOMAIN places |-> Rect(places[k][1], places[k][2], w, h)])
multi_extendlayer ==
  LET places == <<<<300, 280>>, <<600, 560>>, <<900, 840>>>>
      get_case(i, name, n) ==
        OnAr30(feature(i, "multi_extendlayer." \o name \o "_ext_LINEAR"),
               Plane(i, Crtc0, "AR24", 320, 240, ExtLayers(320, 240, SubSeq(places, 1, n))), <<1920, 1080>>)
      get_case_dec(i) ==
        OnAr30(feature(i, "multi_extendlayer.DEC_LINEAR"),
               Plane(i, Crtc0, "NV12", 640, 480,
                     ExtLayers(640, 480, <<<<640, 520>>, <<1280, 1040>>, <<1920, 1560>>>>)), <<3840, 2160>>)
  IN  {get_case(i, "one", 1) : i \in {0, 3}} \cup {get_case(i, "two", 2) : i \in {1, 4}}
      \cup {get_case(i, "three", 3) : i \in {2, 5}} \cup {get_case_dec(i) : i \in {0, 1, 2}}

layer_ccm ==
  {OnVga("layer" \o S(i) \o ".feature.ccm", Plane(i, Crtc0, "AR24", 640, 480, Props({"LAYER_CCM"}))) : i \in 0 .. 5}
layer_degamma == {OnePlane(i, "degamma", {"LAYER_DEGAMMA"}) : i \in PlaneIds}

layer_crop ==
  {Simple(feature(i, "crop"), Plane(i, Crtc0, "AR24", 1920, 1080, Crop("LAYER_CROP", 30, 4, 1860, 1072, 1920, 1080)),
          WithWb(Connector(0, Crtc0, "AR30", 1920, 1080), 1860, 1072)) : i \in 0 .. 5}
=============================================================================
