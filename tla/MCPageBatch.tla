---------------------------- MODULE MCPageBatch -----------------------------
(***************************************************************************)
(* Instances of PageBatch: every 3 by 3 bitmap under a few profiles, and   *)
(* batches of a few images under profiles that use every step.             *)
(***************************************************************************)
EXTENDS PageBatch

\* the angle whose sine is 3/5, its double, and their opposites
Angle(c, s, d, deg) == [c |-> c, s |-> s, d |-> d, deg |-> deg]
MCNoSkew == Angle(1, 0, 1, 0)
MCAngles == << Angle(7, -24, 25, -74), Angle(4, -3, 5, -37), MCNoSkew,
               Angle(4, 3, 5, 37), Angle(7, 24, 25, 74) >>
MCPresets == [letter |-> <<3, 4>>]

Px(n) == [value |-> n, unit |-> "pixels"]
Mm(n) == [value |-> n, unit |-> "millimeters"]
Edges(t, b, l, r) == [top |-> Px(t), bottom |-> Px(b), left |-> Px(l), right |-> Px(r)]
NoEdges == Edges(0, 0, 0, 0)
Margins(e, h, v) ==
    [top |-> e.top, bottom |-> e.bottom, left |-> e.left, right |-> e.right,
     center_horizontal |-> h, center_vertical |-> v]
Canvas(preset, w, h) ==
    [preset |-> preset, width |-> Px(w), height |-> Px(h), orientation |-> "portrait"]

\* a profile that positions the page on its own canvas and does nothing else
Plain ==
    [detected_dpi |-> 0, rotation |-> "none", odd_even_mode |-> FALSE,
     position_image |-> TRUE, keep_outside_subimage |-> FALSE,
     canvas |-> Canvas("autodetect", 0, 0),
     margins |-> << Margins(NoEdges, FALSE, FALSE), Margins(NoEdges, FALSE, FALSE) >>,
     color_dropout |-> [enabled |-> FALSE, color |-> "none"],
     edge_cleanup |-> [enabled |-> FALSE, order |-> "before_deskew", sets |-> <<NoEdges, NoEdges>>],
     hole_cleanup |-> [enabled |-> FALSE, sets |-> <<NoEdges, NoEdges>>],
     deskew |-> [enabled |-> FALSE, min_angle |-> 1, max_angle |-> 45],
     despeckle |-> [mode |-> "none", object_min |-> 1, object_max |-> 1],
     subimage |-> [max_width |-> Px(0), max_height |-> Px(0), min_width_px |-> 1, min_height_px |-> 1],
     blank_page |-> [enabled |-> FALSE, threshold |-> 1, min_components |-> 0, edge_margin |-> Px(0)],
     movement_limit |-> [enabled |-> FALSE, max_horizontal |-> Px(1), max_vertical |-> Px(1)],
     resize |-> [enabled |-> FALSE, source |-> "subimage", source_edges |-> <<NoEdges, NoEdges>>,
                 margins |-> <<NoEdges, NoEdges>>, canvas |-> Canvas("autodetect", 0, 0),
                 anti_alias |-> FALSE, allow_shrink |-> TRUE, allow_enlarge |-> TRUE,
                 h_alignment |-> "center", v_alignment |-> "center"]]

Cleaning ==
    [Plain EXCEPT
        !.rotation = "cw90",
        !.edge_cleanup = [enabled |-> TRUE, order |-> "before_deskew",
                          sets |-> << Edges(1, 0, 0, 0), Edges(0, 0, 0, 1) >>],
        !.hole_cleanup = [enabled |-> TRUE, sets |-> << Edges(0, 2, 0, 0), Edges(0, 0, 2, 0) >>],
        !.despeckle.mode = "single_pixel", !.odd_even_mode = TRUE,
        !.blank_page.enabled = TRUE, !.blank_page.min_components = 1, !.blank_page.edge_margin = Mm(1),
        !.canvas = Canvas("custom", 5, 4),
        !.margins = << Margins(Edges(1, 0, 1, 0), FALSE, TRUE), Margins(NoEdges, TRUE, FALSE) >>,
        !.movement_limit.enabled = TRUE]
Moving ==
    [Plain EXCEPT
        !.rotation = "180", !.keep_outside_subimage = TRUE,
        !.canvas = Canvas("custom", 6, 5), !.margins[1] = Margins(Edges(2, 0, 3, 0), FALSE, FALSE),
        !.movement_limit.enabled = TRUE, !.subimage.max_width = Mm(2),
        !.despeckle = [mode |-> "object", object_min |-> 2, object_max |-> 2],
        !.edge_cleanup = [enabled |-> TRUE, order |-> "after_deskew",
                          sets |-> << Edges(0, 1, 0, 0), NoEdges >>]]
Resized ==
    [Moving EXCEPT
        !.rotation = "ccw90", !.deskew.enabled = TRUE, !.position_image = FALSE,
        !.color_dropout = [enabled |-> TRUE, color |-> "red"],
        !.resize.enabled = TRUE, !.resize.canvas = Canvas("letter", 0, 0),
        !.resize.anti_alias = TRUE, !.resize.source = "smart",
        !.resize.h_alignment = "proportional", !.resize.v_alignment = "bottom"]
NoCanvas == [Plain EXCEPT !.canvas = Canvas("custom", 0, 4)]

Dpi(n) == [x |-> n, y |-> n]
Bitmap(w, h, ink) == [Image(w, h, "BW1", Dpi(20)) EXCEPT !.ink = ink]
Small == { Bitmap(3, 3, ink) : ink \in SUBSET ((0 .. 2) \X (0 .. 2)) }
Batch(images, p, overwrite, exists) ==
    [images |-> images, profile |-> p, overwrite |-> overwrite, exists |-> exists]

Stroke == Bitmap(5, 4, {<<1, 1>>, <<2, 1>>, <<2, 2>>, <<4, 3>>})
Colored == [Image(4, 3, "RGB24", Dpi(0)) EXCEPT !.ink = {<<1, 1>>, <<2, 1>>, <<3, 2>>},
                                                !.tint = {<<3, 2>>}]
White == Bitmap(3, 3, {})

MCJobs ==
    { Batch(<<img>>, p, TRUE, {}) : img \in Small, p \in {Cleaning, Moving} }
    \cup { Batch(images, p, o, e) :
             images \in { <<Stroke, Colored, NoImage>>, <<NoImage, White, NoImage>> },
             p \in {Plain, Cleaning, Moving, Resized, NoCanvas},
             o \in BOOLEAN, e \in {{}, {2, 3}} }

\* a page skewed by the angle whose sine is 3/5
Slanted ==
    Bitmap(13, 10, { p \in (0 .. 12) \X (0 .. 9) : 4 * p[2] - 3 * p[1] \in -2 .. 2 })
MCSkewedJobs == { Batch(<<Slanted>>, [Plain EXCEPT !.deskew.enabled = TRUE], TRUE, {}) }
=============================================================================
