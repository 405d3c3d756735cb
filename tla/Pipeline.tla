------------------------------ MODULE Pipeline ------------------------------
(***************************************************************************)
(* The page pipeline (processing_pipeline.cpp): one page goes through the  *)
(* steps of a processing profile, each an action here, and leaves an image *)
(* and a log.  Begin is the entry of run_pipeline, run_step a function of  *)
(* the same steps; who calls them and what becomes of the result is the    *)
(* matter of PageBatch.                                                    *)
(***************************************************************************)
EXTENDS ImageOps

CONSTANTS
    Presets,     \* canvas preset -> its size <<width, height>> in inches
    Angles,      \* the candidate angles of the skew search, in order
    NoSkew,      \* the angle zero
    DefaultDpi   \* the resolution of a page that has none

ASSUME SettingsAssumption ==
    /\ \A k \in DOMAIN Presets : Presets[k] \in Nat \X Nat
    /\ \A k \in DOMAIN Angles : Angles[k] \in Direction
    /\ NoSkew \in Direction
    /\ DefaultDpi \in Nat \ {0}

\* the settings of a page
ProcessingProfile ==
    [detected_dpi : Int, rotation : {"none", "cw90", "ccw90", "180"},
     odd_even_mode : BOOLEAN, position_image : BOOLEAN, keep_outside_subimage : BOOLEAN,
     canvas : CanvasConfig(Presets), margins : MarginConfig \X MarginConfig,
     color_dropout : ColorDropoutConfig, edge_cleanup : EdgeCleanupConfig,
     hole_cleanup : HoleCleanupConfig, deskew : DeskewConfig, despeckle : DespeckleConfig,
     subimage : SubimageConfig, blank_page : BlankPageConfig,
     movement_limit : MovementLimitConfig, resize : ResizeConfig(Presets)]

VARIABLES
    profile,     \* the ProcessingProfile of the page
    page,        \* its index, counted from zero
    pc,          \* the next step, "idle" or "done"
    work         \* the page in work: image, log and what detection found

pageVars == <<profile, page, pc, work>>

\* cut is the content as detected and placed where the margins put it, kept
\* for the properties only
NoWork ==
    [img |-> NoImage, steps |-> <<>>, bounds |-> NoRect, blank |-> FALSE,
     canvas |-> <<0, 0>>, content |-> NoRect, success |-> TRUE,
     cut |-> NoImage, placed |-> <<0, 0>>]

Logged(st, name, applied) ==
    [st EXCEPT !.steps = Append(@, [name |-> name, applied |-> applied])]

\* a page without a resolution gets the detected or the default one
WithDpi(image, p) ==
    LET dpi == IF p.detected_dpi > 0 THEN p.detected_dpi ELSE DefaultDpi
    IN  IF image.dpi.x > 0 /\ image.dpi.y > 0 THEN image
        ELSE [image EXCEPT !.dpi = [x |-> dpi, y |-> dpi]]

---------------------------------------------------------------------------
(* The steps, as functions of the page in work. *)

RotateStep(st, p) ==
    LET turned == CASE p.rotation = "none" -> st.img
                    [] p.rotation = "cw90" -> RotateCW90(st.img)
                    [] p.rotation = "ccw90" -> RotateCCW90(st.img)
                    [] p.rotation = "180" -> Rotate180(st.img)
    IN  Logged([st EXCEPT !.img = turned], "rotate", p.rotation # "none")

\* not logged when it does nothing
DropoutStep(st, p) ==
    IF p.color_dropout.enabled /\ p.color_dropout.color # "none"
    THEN Logged([st EXCEPT !.img = ColorDropout(@, p.color_dropout)], "color_dropout", TRUE)
    ELSE st

EdgeStep(st, p, n) ==
    LET edges == p.edge_cleanup.sets[PageSet(n, p.odd_even_mode)]
    IN  Logged([st EXCEPT !.img = IF p.edge_cleanup.enabled THEN EdgeCleanup(@, edges) ELSE @],
               "edge_cleanup", p.edge_cleanup.enabled)

DeskewStep(st, p) ==
    LET d == ApplyDeskew(st.img, p.deskew, Angles, NoSkew)
    IN  IF p.deskew.enabled
        THEN Logged([st EXCEPT !.img = d.image], "deskew", d.corrected)
        ELSE Logged(st, "deskew", FALSE)

HoleStep(st, p, n) ==
    LET edges == p.hole_cleanup.sets[PageSet(n, p.odd_even_mode)]
        runs == p.hole_cleanup.enabled /\ st.img.format = "BW1"
    IN  Logged([st EXCEPT !.img = IF runs THEN HoleCleanup(@, edges) ELSE @],
               "hole_cleanup", runs)

DespeckleStep(st, p) ==
    LET runs == p.despeckle.mode # "none" /\ st.img.format = "BW1"
    IN  Logged([st EXCEPT !.img = IF runs THEN Despeckle(@, p.despeckle) ELSE @],
               "despeckle", runs)

\* always logged as applied, although it changes nothing
DetectStep(st, p) ==
    Logged([st EXCEPT !.bounds = DetectSubimage(st.img, p.subimage).bounds],
           "detect_subimage", TRUE)

\* without content the whole page is the subimage
WholeIfEmpty(st) ==
    LET Cut(r) == [st EXCEPT !.bounds = r,
                             !.cut = Crop(st.img, r.left, r.top, Width(r), Height(r))]
    IN  Cut(IF IsEmptyRect(st.bounds) THEN FullRect(st.img) ELSE st.bounds)

BlankStep(st, p) ==
    LET runs == p.blank_page.enabled
    IN  Logged([st EXCEPT !.blank = runs /\ DetectBlankPage(st.img, p.blank_page)],
               "blank_page", runs)

CanvasStep(st, p) == [st EXCEPT !.canvas = ResolveCanvas(p.canvas, Presets, st.img)]

MarginStep(st, p, n) ==
    LET Placed(at) ==
            Logged([st EXCEPT !.img = at.image, !.content = at.content,
                              !.placed = <<at.content.left, at.content.top>>],
                   "margins", TRUE)
    IN  IF p.position_image
        THEN Placed(ApplyMargins(st.img, st.bounds, p.margins[PageSet(n, p.odd_even_mode)],
                                 st.canvas, p.keep_outside_subimage))
        ELSE Logged(st, "margins", FALSE)

\* mutant: the page is moved back and the reported rectangle is not
LimitStepPageOnly(st, p) ==
    LET ml == CheckMovementLimit(<<st.bounds.left, st.bounds.top>>,
                                 <<st.content.left, st.content.top>>,
                                 p.movement_limit, st.img.dpi)
        blankPage == Image(st.img.w, st.img.h, st.img.format, st.img.dpi)
    IN  IF p.movement_limit.enabled /\ ~IsEmptyRect(st.content)
        THEN Logged([st EXCEPT !.img = Blit(blankPage, @, ml.shift[1], ml.shift[2])],
                    "movement_limit", ml.clamped)
        ELSE st

\* a content moved too far is moved back on the positioned page; what the
\* margins cut off does not come back
LimitStep(st, p) ==
    LET ml == CheckMovementLimit(<<st.bounds.left, st.bounds.top>>,
                                 <<st.content.left, st.content.top>>,
                                 p.movement_limit, st.img.dpi)
        blankPage == Image(st.img.w, st.img.h, st.img.format, st.img.dpi)
        moved == [st EXCEPT !.img = Blit(blankPage, @, ml.shift[1], ml.shift[2]),
                            !.content = Offset(@, ml.shift[1], ml.shift[2])]
    IN  IF p.movement_limit.enabled /\ ~IsEmptyRect(st.content)
        THEN Logged(IF ml.clamped THEN moved ELSE st, "movement_limit", ml.clamped)
        ELSE st

\* the content, where bounds say it is, scaled to the canvas of the resize
RefitPage(st, p, n) ==
    LET Done(resized) ==
            IF IsEmptyImage(resized) THEN Logged(st, "resize", FALSE)
            ELSE Logged([st EXCEPT !.img = resized], "resize", TRUE)
    IN  Done(ApplyResize(st.img, st.bounds, p.resize, Presets, n, p.odd_even_mode))

\* bounds are where the content was before the margins moved it
ResizeStep(st, p, n) == IF p.resize.enabled THEN RefitPage(st, p, n) ELSE st

---------------------------------------------------------------------------
(* run_step: one step of a page; margins and resize detect the content of
   the image they are given, and an unknown name fails. *)

Started(image, p) == [NoWork EXCEPT !.img = WithDpi(image, p)]

RunStep(image, p, name, n) ==
    LET st == Started(image, p)
        found == WholeIfEmpty([st EXCEPT !.bounds = DetectSubimage(st.img, p.subimage).bounds])
        dropped == DropoutStep(st, p)
    IN  IF IsEmptyImage(image) THEN [NoWork EXCEPT !.success = FALSE]
        ELSE CASE name = "rotate" -> RotateStep(st, p)
               [] name = "color_dropout" ->
                      IF dropped = st THEN Logged(st, "color_dropout", FALSE) ELSE dropped
               [] name = "edge_cleanup" -> EdgeStep(st, p, n)
               [] name = "hole_cleanup" -> HoleStep(st, p, n)
               [] name = "despeckle" -> DespeckleStep(st, p)
               [] name = "deskew" -> DeskewStep(st, p)
               [] name = "blank_page" -> BlankStep(st, p)
               [] name = "detect_subimage" -> DetectStep(st, p)
               [] name = "margins" -> MarginStep(CanvasStep(found, p), p, n)
               [] name = "resize" -> RefitPage(found, p, n)
               [] OTHER -> [NoWork EXCEPT !.success = FALSE]

---------------------------------------------------------------------------
(* run_pipeline *)

\* an empty image fails before the first step
Begin(image, p, n) ==
    /\ profile' = p
    /\ page' = n
    /\ IF IsEmptyImage(image)
       THEN pc' = "done" /\ work' = [NoWork EXCEPT !.success = FALSE]
       ELSE pc' = "rotate" /\ work' = Started(image, p)

Step(from, to, st) ==
    /\ pc = from
    /\ pc' = to
    /\ work' = st
    /\ UNCHANGED <<profile, page>>

EdgesAt(order) == profile.edge_cleanup.order = order

\* mutant: the margins are those of the odd pages whatever the page
PositioningOdd ==
    Step("margins", "movement_limit", MarginStep(CanvasStep(work, profile), profile, 0))

Rotating == Step("rotate", "color_dropout", RotateStep(work, profile))
Dropping == Step("color_dropout", "edges_before", DropoutStep(work, profile))
CleaningEdgesFirst ==
    Step("edges_before", "deskew",
         IF EdgesAt("before_deskew") THEN EdgeStep(work, profile, page) ELSE work)
Deskewing == Step("deskew", "hole_cleanup", DeskewStep(work, profile))
CleaningHoles == Step("hole_cleanup", "despeckle", HoleStep(work, profile, page))
Despeckling == Step("despeckle", "edges_after", DespeckleStep(work, profile))
CleaningEdgesLast ==
    Step("edges_after", "detect_subimage",
         IF EdgesAt("after_deskew") THEN EdgeStep(work, profile, page) ELSE work)
Detecting ==
    Step("detect_subimage", "blank_page", WholeIfEmpty(DetectStep(work, profile)))
LookingBlank == Step("blank_page", "margins", BlankStep(work, profile))
Positioning ==
    Step("margins", "movement_limit", MarginStep(CanvasStep(work, profile), profile, page))
Limiting == Step("movement_limit", "resize", LimitStep(work, profile))
Resizing == Step("resize", "done", ResizeStep(work, profile, page))

RunPipeline ==
    \/ Rotating \/ Dropping \/ CleaningEdgesFirst \/ Deskewing \/ CleaningHoles
    \/ Despeckling \/ CleaningEdgesLast \/ Detecting \/ LookingBlank
    \/ Positioning \/ Limiting \/ Resizing
=============================================================================
