---------------------------- MODULE ProfileSchema ----------------------------
(***************************************************************************)
(* The members of the structures that are written as JSON                  *)
(* (processing_config_io.cpp, job_serialization.cpp): for each structure   *)
(* what its writer puts out, in order, and what its reader looks for, and  *)
(* the texts of the enumerations (processing_config.cpp, job.cpp).  A kind *)
(* is a structure, an enumeration, a pair of structures or the type of a   *)
(* leaf.                                                                   *)
(***************************************************************************)
EXTENDS Sequences, TLC

\* members of one kind, of a writer and of a reader
Put(keys, kind) == [i \in DOMAIN keys |-> <<keys[i], kind>>]
Take(keys, kind) == [k \in keys |-> kind]

---------------------------------------------------------------------------
(* Writers *)

Sides == <<"top", "left", "right", "bottom">>
WriteMeasurement == <<<<"value", "double">>, <<"unit", "measurement_unit">>>>
WriteEdgeValues == Put(Sides, "measurement")
WriteMarginEdge == <<<<"distance", "measurement">>, <<"mode", "margin_mode">>>>
WriteMarginConfig ==
    Put(Sides, "margin_edge")
    \o Put(<<"center_horizontal", "center_vertical", "keep_horizontal", "keep_vertical">>, "bool")
    \o Put(<<"keep_x", "keep_y">>, "measurement")
    \o Put(<<"keep_h_center", "keep_v_center">>, "bool")
WriteCanvasConfig ==
    <<<<"preset", "canvas_preset">>>> \o Put(<<"width", "height">>, "measurement")
    \o <<<<"orientation", "orientation">>>>
WriteOffsetConfig == Put(<<"x", "y">>, "measurement")
WriteDeskewConfig ==
    <<<<"enabled", "bool">>, <<"detect_mode", "int">>>>
    \o Put(<<"min_angle", "max_angle">>, "double")
    \o Put(<<"fast", "border_protect", "interpolate", "character_protect">>, "bool")
    \o <<<<"char_protect_below", "double">>, <<"algorithm", "int">>, <<"report_no_skew", "bool">>>>
WriteDespeckleConfig ==
    <<<<"mode", "despeckle_mode">>>> \o Put(<<"object_min", "object_max">>, "int")
WriteEdgeCleanupConfig ==
    <<<<"enabled", "bool">>, <<"order", "edge_cleanup_order">>>>
    \o Put(<<"set1", "set2">>, "edge_values")
WriteHoleCleanupConfig == <<<<"enabled", "bool">>>> \o Put(<<"set1", "set2">>, "edge_values")
WriteSubimageConfig ==
    Put(<<"max_width", "max_height">>, "measurement") \o <<<<"report_small", "bool">>>>
    \o Put(<<"min_width_px", "min_height_px">>, "int")
WriteBlankPageConfig ==
    <<<<"enabled", "bool">>, <<"threshold_percent", "double">>, <<"min_components", "int">>,
      <<"edge_margin", "measurement">>>>
WriteColorDropoutConfig ==
    <<<<"enabled", "bool">>, <<"color", "dropout_color">>, <<"threshold", "byte">>>>
WriteMovementLimitConfig ==
    <<<<"enabled", "bool">>>> \o Put(<<"max_vertical", "max_horizontal">>, "measurement")
WriteResizeConfig ==
    <<<<"enabled", "bool">>>> \o Put(<<"margins_set1", "margins_set2">>, "edge_values")
    \o <<<<"source", "resize_from">>>> \o Put(<<"source_set1", "source_set2">>, "edge_values")
    \o Put(<<"anti_alias", "keep_size">>, "bool") \o <<<<"canvas", "canvas_config">>>>
    \o <<<<"v_alignment", "v_alignment">>, <<"h_alignment", "h_alignment">>>>
    \o Put(<<"allow_shrink", "allow_enlarge">>, "bool") \o <<<<"output_path", "string">>>>
    \o Put(<<"merge_tiff", "merge_pdf">>, "bool")
    \o Put(<<"merge_tiff_name", "merge_pdf_name">>, "string")
WriteOutputConfig ==
    Put(<<"tiff_output", "pdf_output">>, "bool") \o <<<<"raster_format", "raster_format">>>>
    \o <<<<"jpeg_quality", "int">>, <<"new_extension", "string">>>>
    \o <<<<"save_to_different_dir", "bool">>, <<"output_directory", "string">>>>
    \o <<<<"conflict_policy", "conflict_policy">>, <<"path_mode", "path_mode">>>>
WriteScanConfig ==
    <<<<"prefix", "string">>>> \o Put(<<"start_at", "increment">>, "int")
    \o <<<<"extension", "string">>>> \o Put(<<"crop", "verso_recto", "invert">>, "bool")
    \o Put(<<"transfer_mode", "compression", "force_resolution">>, "int")
    \o Put(<<"crop_verso", "crop_recto">>, "edge_values")
WritePrintConfig ==
    Put(<<"page_use_mode", "scale_mode">>, "int") \o Put(<<"scale_x", "scale_y">>, "double")
WriteProfile ==
    <<<<"name", "string">>, <<"working_unit", "measurement_unit">>>>
    \o Put(<<"detected_dpi", "detected_width", "detected_height">>, "int")
    \o Put(<<"position_image", "keep_outside_subimage", "keep_original_size",
             "odd_even_mode">>, "bool")
    \o <<<<"rotation", "rotation">>, <<"canvas", "canvas_config">>, <<"margins", "margins">>,
         <<"offsets", "offsets">>, <<"deskew", "deskew_config">>,
         <<"despeckle", "despeckle_config">>, <<"edge_cleanup", "edge_cleanup_config">>,
         <<"hole_cleanup", "hole_cleanup_config">>, <<"subimage", "subimage_config">>,
         <<"blank_page", "blank_page_config">>, <<"color_dropout", "color_dropout_config">>,
         <<"movement_limit", "movement_limit_config">>, <<"resize", "resize_config">>,
         <<"output", "output_config">>, <<"scan", "scan_config">>, <<"print", "print_config">>,
         <<"page_detection_style_sheet", "string">>>>
WriteJobPayload ==
    <<<<"source_path", "string">>, <<"profile_name", "optional_string">>,
      <<"attachments", "strings">>, <<"tags", "strings">>>>
WriteJobRecord ==
    <<<<"id", "string">>, <<"state", "job_state">>, <<"created_at", "time">>,
      <<"updated_at", "optional_time">>, <<"correlation_id", "optional_string">>,
      <<"error_message", "optional_string">>, <<"priority", "int">>,
      <<"attempt_count", "count">>, <<"last_attempt_at", "optional_time">>,
      <<"due_at", "optional_time">>, <<"payload", "job_payload">>>>

Writers ==
    [measurement |-> WriteMeasurement, edge_values |-> WriteEdgeValues,
     margin_edge |-> WriteMarginEdge, margin_config |-> WriteMarginConfig,
     canvas_config |-> WriteCanvasConfig, offset_config |-> WriteOffsetConfig,
     deskew_config |-> WriteDeskewConfig, despeckle_config |-> WriteDespeckleConfig,
     edge_cleanup_config |-> WriteEdgeCleanupConfig,
     hole_cleanup_config |-> WriteHoleCleanupConfig, subimage_config |-> WriteSubimageConfig,
     blank_page_config |-> WriteBlankPageConfig,
     color_dropout_config |-> WriteColorDropoutConfig,
     movement_limit_config |-> WriteMovementLimitConfig, resize_config |-> WriteResizeConfig,
     output_config |-> WriteOutputConfig, scan_config |-> WriteScanConfig,
     print_config |-> WritePrintConfig, profile |-> WriteProfile,
     job_payload |-> WriteJobPayload, job_record |-> WriteJobRecord]

---------------------------------------------------------------------------
(* Readers *)

ParseMeasurement == [value |-> "double", unit |-> "measurement_unit"]
ParseEdgeValues == Take({"top", "left", "right", "bottom"}, "measurement")
ParseMarginEdge == [distance |-> "measurement", mode |-> "margin_mode"]
ParseMarginConfig ==
    Take({"top", "left", "right", "bottom"}, "margin_edge")
    @@ Take({"center_horizontal", "center_vertical", "keep_horizontal", "keep_vertical",
             "keep_h_center", "keep_v_center"}, "bool")
    @@ Take({"keep_x", "keep_y"}, "measurement")
ParseCanvasConfig ==
    [preset |-> "canvas_preset", orientation |-> "orientation",
     width |-> "measurement", height |-> "measurement"]
ParseOffsetConfig == Take({"x", "y"}, "measurement")
ParseDeskewConfig ==
    Take({"enabled", "fast", "border_protect", "interpolate", "character_protect",
          "report_no_skew"}, "bool")
    @@ Take({"detect_mode", "algorithm"}, "int")
    @@ Take({"min_angle", "max_angle", "char_protect_below"}, "double")
ParseDespeckleConfig ==
    [mode |-> "despeckle_mode", object_min |-> "int", object_max |-> "int"]
ParseEdgeCleanupConfig ==
    [enabled |-> "bool", order |-> "edge_cleanup_order",
     set1 |-> "edge_values", set2 |-> "edge_values"]
ParseHoleCleanupConfig == [enabled |-> "bool", set1 |-> "edge_values", set2 |-> "edge_values"]
ParseSubimageConfig ==
    [max_width |-> "measurement", max_height |-> "measurement", report_small |-> "bool",
     min_width_px |-> "int", min_height_px |-> "int"]
ParseBlankPageConfig ==
    [enabled |-> "bool", threshold_percent |-> "double", min_components |-> "int",
     edge_margin |-> "measurement"]
ParseColorDropoutConfig == [enabled |-> "bool", color |-> "dropout_color", threshold |-> "byte"]
ParseMovementLimitConfig ==
    [enabled |-> "bool", max_vertical |-> "measurement", max_horizontal |-> "measurement"]
ParseResizeConfig ==
    Take({"enabled", "anti_alias", "keep_size", "allow_shrink", "allow_enlarge", "merge_tiff",
          "merge_pdf"}, "bool")
    @@ Take({"margins_set1", "margins_set2", "source_set1", "source_set2"}, "edge_values")
    @@ Take({"output_path", "merge_tiff_name", "merge_pdf_name"}, "string")
    @@ [source |-> "resize_from", canvas |-> "canvas_config",
        v_alignment |-> "v_alignment", h_alignment |-> "h_alignment"]
ParseOutputConfig ==
    Take({"tiff_output", "pdf_output", "save_to_different_dir"}, "bool")
    @@ Take({"new_extension", "output_directory"}, "string")
    @@ [raster_format |-> "raster_format", jpeg_quality |-> "int",
        conflict_policy |-> "conflict_policy", path_mode |-> "path_mode"]
ParseScanConfig ==
    Take({"prefix", "extension"}, "string")
    @@ Take({"start_at", "increment", "transfer_mode", "compression", "force_resolution"}, "int")
    @@ Take({"crop", "verso_recto", "invert"}, "bool")
    @@ Take({"crop_verso", "crop_recto"}, "edge_values")
ParsePrintConfig ==
    Take({"page_use_mode", "scale_mode"}, "int") @@ Take({"scale_x", "scale_y"}, "double")
ParseProfile ==
    Take({"name", "page_detection_style_sheet"}, "string")
    @@ Take({"detected_dpi", "detected_width", "detected_height"}, "int")
    @@ Take({"position_image", "keep_outside_subimage", "keep_original_size",
             "odd_even_mode"}, "bool")
    @@ [working_unit |-> "measurement_unit", rotation |-> "rotation",
        canvas |-> "canvas_config", margins |-> "margins", offsets |-> "offsets",
        deskew |-> "deskew_config", despeckle |-> "despeckle_config",
        edge_cleanup |-> "edge_cleanup_config", hole_cleanup |-> "hole_cleanup_config",
        subimage |-> "subimage_config", blank_page |-> "blank_page_config",
        color_dropout |-> "color_dropout_config", movement_limit |-> "movement_limit_config",
        resize |-> "resize_config", output |-> "output_config", scan |-> "scan_config",
        print |-> "print_config"]
ParseJobPayload ==
    [source_path |-> "string", profile_name |-> "optional_string",
     attachments |-> "strings", tags |-> "strings"]
ParseJobRecord ==
    [id |-> "string", state |-> "job_state", created_at |-> "time",
     priority |-> "int", attempt_count |-> "count", payload |-> "job_payload"]
    @@ Take({"updated_at", "last_attempt_at", "due_at"}, "optional_time")
    @@ Take({"correlation_id", "error_message"}, "optional_string")

Readers ==
    [measurement |-> ParseMeasurement, edge_values |-> ParseEdgeValues,
     margin_edge |-> ParseMarginEdge, margin_config |-> ParseMarginConfig,
     canvas_config |-> ParseCanvasConfig, offset_config |-> ParseOffsetConfig,
     deskew_config |-> ParseDeskewConfig, despeckle_config |-> ParseDespeckleConfig,
     edge_cleanup_config |-> ParseEdgeCleanupConfig,
     hole_cleanup_config |-> ParseHoleCleanupConfig, subimage_config |-> ParseSubimageConfig,
     blank_page_config |-> ParseBlankPageConfig,
     color_dropout_config |-> ParseColorDropoutConfig,
     movement_limit_config |-> ParseMovementLimitConfig, resize_config |-> ParseResizeConfig,
     output_config |-> ParseOutputConfig, scan_config |-> ParseScanConfig,
     print_config |-> ParsePrintConfig, profile |-> ParseProfile,
     job_payload |-> ParseJobPayload, job_record |-> ParseJobRecord]

\* arrays of two structures
Pairs == [margins |-> "margin_config", offsets |-> "offset_config"]

---------------------------------------------------------------------------
(* Enumerations *)

EnumText ==
    [measurement_unit |-> [Inches |-> "inches", Pixels |-> "pixels",
                           Millimeters |-> "millimeters"],
     margin_mode |-> [Set |-> "set", Check |-> "check"],
     despeckle_mode |-> [None |-> "none", SinglePixel |-> "single_pixel", Object |-> "object"],
     rotation |-> [None |-> "none", CW90 |-> "cw90", CCW90 |-> "ccw90", R180 |-> "r180"],
     canvas_preset |-> [Autodetect |-> "autodetect", Letter |-> "letter", Legal |-> "legal",
                        Tabloid |-> "tabloid", A4 |-> "a4", A3 |-> "a3", Custom |-> "custom"],
     orientation |-> [Portrait |-> "portrait", Landscape |-> "landscape"],
     raster_format |-> [Raw |-> "raw", Group4 |-> "group4", LZW |-> "lzw", JPEG |-> "jpeg"],
     resize_from |-> [Subimage |-> "subimage", FullPage |-> "full_page",
                      Custom |-> "custom", Smart |-> "smart"],
     v_alignment |-> [Top |-> "top", Center |-> "center", Bottom |-> "bottom",
                      Proportional |-> "proportional"],
     h_alignment |-> [Center |-> "center", Proportional |-> "proportional"],
     dropout_color |-> [None |-> "none", Red |-> "red", Green |-> "green", Blue |-> "blue"],
     edge_cleanup_order |-> [BeforeDeskew |-> "before_deskew", AfterDeskew |-> "after_deskew"],
     conflict_policy |-> [Report |-> "report", Overwrite |-> "overwrite"],
     path_mode |-> [Absolute |-> "absolute", Portable |-> "portable"],
     job_state |-> [Submitted |-> "submitted", Validating |-> "validating",
                    Rendering |-> "rendering", Exception |-> "exception",
                    Completed |-> "completed", Cancelled |-> "cancelled"]]

\* the texts are compared in lower case; some have short forms
EnumValue ==
    [measurement_unit |-> [inches |-> "Inches", in |-> "Inches", pixels |-> "Pixels",
                           px |-> "Pixels", millimeters |-> "Millimeters", mm |-> "Millimeters"],
     margin_mode |-> [set |-> "Set", check |-> "Check"],
     despeckle_mode |-> [none |-> "None", single_pixel |-> "SinglePixel", object |-> "Object"],
     rotation |-> [none |-> "None", cw90 |-> "CW90", ccw90 |-> "CCW90", r180 |-> "R180"],
     canvas_preset |-> [autodetect |-> "Autodetect", auto |-> "Autodetect",
                        letter |-> "Letter", legal |-> "Legal", tabloid |-> "Tabloid",
                        a4 |-> "A4", a3 |-> "A3", custom |-> "Custom"],
     orientation |-> [portrait |-> "Portrait", landscape |-> "Landscape"],
     raster_format |-> [raw |-> "Raw", group4 |-> "Group4", g4 |-> "Group4", lzw |-> "LZW",
                        jpeg |-> "JPEG", jpg |-> "JPEG"],
     resize_from |-> [subimage |-> "Subimage", full_page |-> "FullPage",
                      custom |-> "Custom", smart |-> "Smart"],
     v_alignment |-> [top |-> "Top", center |-> "Center", bottom |-> "Bottom",
                      proportional |-> "Proportional"],
     h_alignment |-> [center |-> "Center", proportional |-> "Proportional"],
     dropout_color |-> [none |-> "None", red |-> "Red", r |-> "Red", green |-> "Green",
                        g |-> "Green", blue |-> "Blue", b |-> "Blue"],
     edge_cleanup_order |-> [before_deskew |-> "BeforeDeskew", after_deskew |-> "AfterDeskew"],
     conflict_policy |-> [report |-> "Report", overwrite |-> "Overwrite"],
     path_mode |-> [absolute |-> "Absolute", portable |-> "Portable"],
     job_state |-> [submitted |-> "Submitted", validating |-> "Validating",
                    rendering |-> "Rendering", exception |-> "Exception",
                    completed |-> "Completed", cancelled |-> "Cancelled"]]
==============================================================================
