----------------------------- MODULE CaseServer -----------------------------
(***************************************************************************)
(* helper.py, DTestCasesServer: the generators that the packages of        *)
(* script/dtest/dc9400 register when they are imported, in this order, and *)
(* the cases they generate.                                                *)
(***************************************************************************)
EXTENDS GenPlane, GenPostpq, GenMulti, GenConnector, GenScenario, FiniteSetsExt, SequencesExt

\* Each generator is the call of dtest_unit or dtest_unit_group in one file.
plane_generators ==
  <<hdr_demultiply, hdr_eotf, hdr_gamut_map, hdr_tone_map, hdr_oetf, clear_red, clear_green, clear_blue,
    dma_oneROI, dma_twoROI, dma_extendLayer, dma_extendLayerEx, scaler_baseScaler, scaler_scaler,
    scaler_filter84, format_rgb_yuv, format_rgb_yuv_tile, y2r, rotation_rotation, rotation_plus, decompress,
    dec400a, dec400, line_padding, plane_cursor, extend_only, extend_alpha, multi_extendlayer, layer_ccm,
    layer_degamma, layer_crop>>
crtc_generators ==
  <<lbox, r2y, r2y_uv_downsample, ops, blender_dither, blender_eotf, blender_oetf, blender_matrix>>
postpq_generators ==
  <<data_extend, data_trunc, postpq_scaler, ltm, gtm, ccm_linear, ccm_nonlinear, ccm_linear_ex,
    color_calibration_path, brightness, prior_3dlut, roi0_3dlut, degamma, prior_gamma, roi0_gamma, gamma_dither,
    panel_dither, llv_dither, sharpness, rcd, blur, vrr, bg_color, crop, free_sync, mode_switch, dbi>>
output_generators ==
  <<timing_wb, format_yuv, format_rgb, histogram, rgbhistogram, dsc, vdcm, dsc_splice, ramless, ramless_spliter>>
multi_generators ==
  <<stdBld, fastBld, planes, planes_with_multi_extendlayers, pqGammaOffOnSwitch, multiPlaneOffOnSwitch,
    multiCrtcOffOnSwitch, twoCrtc, splice, dp_sync, cursor>>
scenario_generators ==
  <<scenario1, scenario2, scenario3, scenario4, scenario5_crtc01, scenario5_crtc23, scenario6, scenario7,
    scenario8_crtc01, scenario8_crtc23>>
connector_generators ==
  <<wb_data_extend, wb_data_trunc, wb_dither, wb_uv_downsample, wb_r2y, wb_gamma_dither, wb_gamma, wb_crop,
    format_wb, compress, stripe>>

dc9400_cases_generator ==
  <<<<simple>>, plane_generators, crtc_generators, postpq_generators, output_generators, multi_generators,
    scenario_generators, connector_generators>>

\* The order of the cases of a generator is any.  They are sorted by the length of their
\* names and by their planes first, since TLC nests a fold as deep as its set is large.
byKey(set, key(_), order(_)) ==
  FoldSet(LAMBDA k, seq : seq \o order({case \in set : key(case) = k}), <<>>, {key(case) : case \in set})
inAnyOrder(set) ==
  byKey(set, LAMBDA case : Len(case.name),
        LAMBDA same : byKey(same, LAMBDA case : {p.id : p \in UNION {f.planes : f \in case.frames}},
                            LAMBDA few : FoldSet(LAMBDA case, seq : Append(seq, case), <<>>, few)))

casesOf(generators) == FlattenSeq([g \in DOMAIN generators |-> inAnyOrder(generators[g])])
dc9400_case_gen == FlattenSeq([p \in DOMAIN dc9400_cases_generator |-> casesOf(dc9400_cases_generator[p])])
=============================================================================
