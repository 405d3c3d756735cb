------------------------------ MODULE ImageOps ------------------------------
(***************************************************************************)
(* The operations of the page pipeline on images (image_ops.h,             *)
(* image_ops.cpp).  Real arithmetic is done in integers: a measurement     *)
(* converts to whole pixels, a ratio is a numerator and a denominator, and *)
(* an angle is a record [c, s, d, deg] with cosine c/d and sine s/d.       *)
(***************************************************************************)
EXTENDS Images

Abs(n) == IF n < 0 THEN -n ELSE n
\* std::round of n/d, half away from zero, d > 0
RoundDiv(n, d) == IF n < 0 THEN -((-2 * n + d) \div (2 * d)) ELSE (2 * n + d) \div (2 * d)
CeilDiv(n, d) == -((-n) \div d)

---------------------------------------------------------------------------
(* The settings of a profile that the operations read.  A pair of sets is   *)
(* that of the odd pages and that of the even ones.                         *)

Measurement == [value : Int, unit : {"inches", "pixels", "millimeters"}]
EdgeValues ==
    [top : Measurement, bottom : Measurement, left : Measurement, right : Measurement]
EdgeSets == EdgeValues \X EdgeValues
MarginConfig ==
    [top : Measurement, bottom : Measurement, left : Measurement, right : Measurement,
     center_horizontal : BOOLEAN, center_vertical : BOOLEAN]
CanvasConfig(presets) ==
    [preset : DOMAIN presets \cup {"autodetect", "custom"},
     width : Measurement, height : Measurement, orientation : {"portrait", "landscape"}]
DeskewConfig == [enabled : BOOLEAN, min_angle : Int, max_angle : Int]
DespeckleConfig ==
    [mode : {"none", "single_pixel", "object"}, object_min : Int, object_max : Int]
EdgeCleanupConfig ==
    [enabled : BOOLEAN, order : {"before_deskew", "after_deskew"}, sets : EdgeSets]
HoleCleanupConfig == [enabled : BOOLEAN, sets : EdgeSets]
SubimageConfig ==
    [max_width : Measurement, max_height : Measurement, min_width_px : Int, min_height_px : Int]
BlankPageConfig ==
    [enabled : BOOLEAN, threshold : Int, min_components : Int, edge_margin : Measurement]
ColorDropoutConfig == [enabled : BOOLEAN, color : {"none", "red", "green", "blue"}]
MovementLimitConfig ==
    [enabled : BOOLEAN, max_vertical : Measurement, max_horizontal : Measurement]
\* a canvas of negative size cannot be allocated, and the program ends there
ResizeCanvas(presets) ==
    { c \in CanvasConfig(presets) : c.width.value >= 0 /\ c.height.value >= 0 }
ResizeConfig(presets) ==
    [enabled : BOOLEAN, source : {"subimage", "full_page", "custom", "smart"},
     source_edges : EdgeSets, margins : EdgeSets, canvas : ResizeCanvas(presets),
     anti_alias : BOOLEAN, allow_shrink : BOOLEAN, allow_enlarge : BOOLEAN,
     h_alignment : {"center", "proportional"},
     v_alignment : {"top", "center", "bottom", "proportional"}]

\* a direction within a quarter turn of the horizontal
Direction == [c : Nat \ {0}, s : Int, d : Nat \ {0}, deg : Int]

\* millimetres at 25.4 to the inch; rounded where a length is placed, cut off
\* where one is compared
ToPixels(m, dpi) ==
    CASE m.unit = "inches" -> m.value * dpi
      [] m.unit = "pixels" -> m.value
      [] m.unit = "millimeters" -> RoundDiv(m.value * dpi * 10, 254)
WholePixels(m, dpi) ==
    IF m.unit = "millimeters" /\ m.value > 0 THEN (m.value * dpi * 10) \div 254
    ELSE IF m.unit = "millimeters" THEN -((-m.value * dpi * 10) \div 254)
    ELSE ToPixels(m, dpi)
IsLength(m, dpi) == m.value > 0 /\ (m.unit # "pixels" => dpi > 0)

\* the four edges, in pixels
EdgePixels(edges, dpi) ==
    [top |-> ToPixels(edges.top, dpi.y), bottom |-> ToPixels(edges.bottom, dpi.y),
     left |-> ToPixels(edges.left, dpi.x), right |-> ToPixels(edges.right, dpi.x)]

ComponentsIn(ink, roi) == FindComponents(SpansFromBitmap(ink), roi, 4)

\* the boxes of those components of the regions that Wanted selects
Boxes(ink, regions, Wanted(_)) ==
    UNION { { c.bounds : c \in { d \in ToSet(ComponentsIn(ink, roi)) : Wanted(d) } } :
            roi \in regions }

Cleared(img, rects) ==
    LET area == UNION { RectPixels(r) : r \in rects }
    IN  [img EXCEPT !.ink = @ \ area, !.tint = @ \ area]

---------------------------------------------------------------------------
(* Content detection and cleanup *)

\* the components of a plausible size and the box around them
DetectSubimage(img, config) ==
    LET dpi == img.dpi
        Qualifies(c) ==
            LET w == Width(c.bounds)
                h == Height(c.bounds)
            IN  /\ w >= config.min_width_px /\ h >= config.min_height_px
                /\ IsLength(config.max_width, dpi.x) => w <= WholePixels(config.max_width, dpi.x)
                /\ IsLength(config.max_height, dpi.y) => h <= WholePixels(config.max_height, dpi.y)
        found == ComponentsIn(img.ink, FullRect(img))
        kept == { k \in DOMAIN found : Qualifies(found[k]) }
    IN  [bounds |-> Hull({ found[k].bounds : k \in kept }), components |-> Cardinality(kept)]

Strips(img, e) ==
    { Rect(0, 0, img.w, Min({e.top, img.h})),
      Rect(0, Max({0, img.h - e.bottom}), img.w, img.h),
      Rect(0, 0, Min({e.left, img.w}), img.h),
      Rect(Max({0, img.w - e.right}), 0, img.w, img.h) }

EdgeCleanup(img, edges) == Cleared(img, Strips(img, EdgePixels(edges, img.dpi)))

\* mutant: the components are those of the page, not of the strip
HoleCleanupAnywhere(img, edges) ==
    IF img.format # "BW1" THEN img
    ELSE Cleared(img, Boxes(img.ink, {FullRect(img)},
                            LAMBDA c : Width(c.bounds) <= 2 * Height(c.bounds)))

\* holes of 15 to 60 pixels at 300 dpi; the spans are those of the image
\* before any strip is cleaned
HoleCleanup(img, edges) ==
    LET lowDpi == Min({img.dpi.x, img.dpi.y})
        Plausible(c) ==
            LET low == Min({Width(c.bounds), Height(c.bounds)})
                high == Max({Width(c.bounds), Height(c.bounds)})
            IN  /\ low >= RoundDiv(15 * lowDpi, 300)
                /\ high <= RoundDiv(60 * lowDpi, 300)
                /\ high <= 2 * low
    IN  IF img.format # "BW1" THEN img
        ELSE Cleared(img, Boxes(img.ink, Strips(img, EdgePixels(edges, img.dpi)), Plausible))

\* mutant: a run of one row counts as a single pixel
DespeckleThin(img, config) ==
    IF config.mode = "none" \/ img.format # "BW1" THEN img
    ELSE Cleared(img, Boxes(img.ink, {FullRect(img)}, LAMBDA c : Height(c.bounds) = 1))

Despeckle(img, config) ==
    LET Speck(c) ==
            LET size == Max({Width(c.bounds), Height(c.bounds)})
            IN  CASE config.mode = "single_pixel" -> c.count = 1
                  [] config.mode = "object" ->
                         size \in config.object_min .. config.object_max
    IN  IF config.mode = "none" \/ img.format # "BW1" THEN img
        ELSE Cleared(img, Boxes(img.ink, {FullRect(img)}, Speck))

\* threshold is the percentage of dark pixels below which a page is blank
DetectBlankPage(img, config) ==
    LET mx == WholePixels(config.edge_margin, img.dpi.x)
        my == WholePixels(config.edge_margin, img.dpi.y)
        x0 == Min({mx, img.w \div 2})
        y0 == Min({my, img.h \div 2})
        region == Rect(x0, y0, Max({img.w - mx, x0}), Max({img.h - my, y0}))
        total == Area(region)
        dark == Cardinality(img.ink \cap RectPixels(region))
        components == Len(ComponentsIn(img.ink, region))
        sparse == IF total > 0 THEN dark * 100 < config.threshold * total
                  ELSE config.threshold > 0
    IN  \/ sparse
        \/ config.min_components > 0 /\ components < config.min_components

\* a pixel of the dropped colour becomes white in a colour image
ColorDropout(img, config) ==
    IF config.enabled /\ config.color # "none" /\ img.format \in ColorFormats
    THEN [img EXCEPT !.ink = @ \ img.tint, !.tint = {}]
    ELSE img

---------------------------------------------------------------------------
(* Canvas, margins, movement limit, scaling *)

\* presets are sizes in pixels at the image's resolution
ResolveCanvas(config, presets, img) ==
    LET size == IF config.preset = "custom"
                THEN << ToPixels(config.width, img.dpi.x), ToPixels(config.height, img.dpi.y) >>
                ELSE << presets[config.preset][1] * img.dpi.x,
                        presets[config.preset][2] * img.dpi.y >>
        turned == \/ config.orientation = "landscape" /\ size[2] > size[1]
                  \/ config.orientation = "portrait" /\ size[1] > size[2]
    IN  IF config.preset = "autodetect" THEN <<img.w, img.h>>
        ELSE IF turned THEN <<size[2], size[1]>> ELSE size

\* C++ division truncates towards zero
Halve(n) == IF n < 0 THEN -((-n) \div 2) ELSE n \div 2

\* where the margins put content of a given size, and the page with it there
ApplyMargins(img, bounds, margins, canvas, keepOutside) ==
    LET m == EdgePixels(margins, img.dpi)
        page == Image(canvas[1], canvas[2], img.format, img.dpi)
        x == IF margins.center_horizontal
             THEN m.left + Halve(canvas[1] - m.left - m.right - Width(bounds)) ELSE m.left
        y == IF margins.center_vertical
             THEN m.top + Halve(canvas[2] - m.top - m.bottom - Height(bounds)) ELSE m.top
        content == Crop(img, bounds.left, bounds.top, Width(bounds), Height(bounds))
    IN  IF IsEmptyImage(img) \/ canvas[1] <= 0 \/ canvas[2] <= 0
        THEN [image |-> NoImage, content |-> NoRect]
        ELSE [image |-> IF keepOutside THEN Blit(page, img, x - bounds.left, y - bounds.top)
                        ELSE Blit(page, content, x, y),
              content |-> Rect(x, y, x + Width(bounds), y + Height(bounds))]

\* the displacement from the original position, clamped on each axis
CheckMovementLimit(from, to, config, dpi) ==
    LET maxX == ToPixels(config.max_horizontal, dpi.x)
        maxY == ToPixels(config.max_vertical, dpi.y)
        Clamp(d, limit) == IF d > limit THEN limit ELSE IF d < -limit THEN -limit ELSE d
        moved == << to[1] - from[1], to[2] - from[2] >>
        allowed == << Clamp(moved[1], maxX), Clamp(moved[2], maxY) >>
    IN  [clamped |-> allowed # moved,
         shift |-> << allowed[1] - moved[1], allowed[2] - moved[2] >>]

ScaleNearest(img, w, h) ==
    LET From(p) == << (p[1] * img.w) \div w, (p[2] * img.h) \div h >>
        Sample(S) == { p \in (0 .. w - 1) \X (0 .. h - 1) : From(p) \in S }
    IN  IF IsEmptyImage(img) \/ w <= 0 \/ h <= 0 THEN NoImage
        ELSE [img EXCEPT !.w = w, !.h = h,
                         !.dpi = [x |-> RoundDiv(@.x * w, img.w), y |-> RoundDiv(@.y * h, img.h)],
                         !.ink = Sample(@), !.tint = Sample(@)]

\* the pixel at (xn/xd, yn/yd) is dark when more than half of the weight of
\* its four neighbours is
BilinearDark(S, img, xn, xd, yn, yd) ==
    LET x0 == xn \div xd
        y0 == yn \div yd
        x1 == Min({x0 + 1, img.w - 1})
        y1 == Min({y0 + 1, img.h - 1})
        fx == xn % xd
        fy == yn % yd
        W(x, y, weight) == IF <<x, y>> \in S THEN weight ELSE 0
    IN  2 * (W(x0, y0, (xd - fx) * (yd - fy)) + W(x1, y0, fx * (yd - fy))
             + W(x0, y1, (xd - fx) * fy) + W(x1, y1, fx * fy)) > xd * yd

ScaleBilinear(img, w, h) ==
    LET xd == Max({w - 1, 1})
        yd == Max({h - 1, 1})
        Sample(S) == { p \in (0 .. w - 1) \X (0 .. h - 1) :
                         BilinearDark(S, img, p[1] * (img.w - 1), xd, p[2] * (img.h - 1), yd) }
    IN  IF IsEmptyImage(img) \/ w <= 0 \/ h <= 0 \/ img.format = "BW1"
        THEN ScaleNearest(img, w, h)
        ELSE [ScaleNearest(img, w, h) EXCEPT !.ink = Sample(img.ink), !.tint = Sample(img.tint)]

\* the odd or the even set of a page counted from zero
PageSet(page, oddEven) == IF oddEven /\ page % 2 = 1 THEN 2 ELSE 1

\* the region to enlarge or shrink: configured edges may leave nothing, and
\* then it is the whole page
ResizeSource(img, bounds, config, set) ==
    LET e == EdgePixels(config.source_edges[set], img.dpi)
        r == CASE config.source = "subimage" -> bounds
               [] config.source = "full_page" -> FullRect(img)
               [] config.source = "custom" ->
                      Rect(e.left, e.top, img.w - e.right, img.h - e.bottom)
               [] config.source = "smart" ->
                      IF IsEmptyRect(bounds) THEN FullRect(img) ELSE bounds
    IN  IF IsEmptyRect(r) THEN FullRect(img) ELSE r

\* the ratio that fits a size into the room, the same on both axes
FitRatio(size, room, config) ==
    LET narrow == room[1] * size[2] <= room[2] * size[1]
        fit == IF narrow THEN <<room[1], size[1]>> ELSE <<room[2], size[2]>>
    IN  IF \/ fit[1] < fit[2] /\ ~config.allow_shrink
           \/ fit[1] > fit[2] /\ ~config.allow_enlarge
        THEN <<1, 1>> ELSE fit

Scaled(content, ratio, antiAlias) ==
    LET Size(n) == Max({RoundDiv(n * ratio[1], ratio[2]), 1})
        w == Size(content.w)
        h == Size(content.h)
    IN  IF w = content.w /\ h = content.h THEN content
        ELSE IF antiAlias THEN ScaleBilinear(content, w, h)
        ELSE ScaleNearest(content, w, h)

\* where something of a size goes in the room
Aligned(alignment, room, size, part, whole) ==
    LET n == part * (room - size)
    IN  CASE alignment = "top" -> 0
          [] alignment = "center" -> Halve(room - size)
          [] alignment = "bottom" -> room - size
          [] alignment = "proportional" -> IF n < 0 THEN -((-n) \div whole) ELSE n \div whole

\* The region is scaled to the space the margins leave, the same way on both
\* axes, and aligned in it.  A region beside the image has no content: the
\* scale is then a division by zero and the canvas stays white.
Refitted(img, src, canvas, m, config) ==
    LET room == << canvas[1] - m.left - m.right, canvas[2] - m.top - m.bottom >>
        blank == Image(canvas[1], canvas[2], img.format, img.dpi)
        content == Crop(img, src.left, src.top, Width(src), Height(src))
        Place(scaled) ==
            Blit(blank, scaled,
                 m.left + Aligned(config.h_alignment, room[1], scaled.w, src.left, img.w),
                 m.top + Aligned(config.v_alignment, room[2], scaled.h, src.top, img.h))
    IN  IF IsEmptyImage(img) \/ ~config.enabled \/ room[1] <= 0 \/ room[2] <= 0
        THEN NoImage
        ELSE IF IsEmptyImage(content) THEN blank
        ELSE Place(Scaled(content, FitRatio(<<content.w, content.h>>, room, config),
                          config.anti_alias))

ApplyResize(img, bounds, config, presets, page, oddEven) ==
    LET set == PageSet(page, oddEven)
    IN  Refitted(img, ResizeSource(img, bounds, config, set),
                ResolveCanvas(config.canvas, presets, img),
                EdgePixels(config.margins[set], img.dpi), config)

---------------------------------------------------------------------------
(* Deskew *)

\* the variance of the projection at an angle, as a fraction: the bins count
\* the dark pixels by -x sin + y cos
ProjectionVariance(img, a) ==
    LET corners == {0, -(img.w * a.s), img.h * a.c, img.h * a.c - img.w * a.s}
        size == (Max(corners) - Min(corners)) \div a.d + 2
        Bin(p) == (p[2] * a.c - p[1] * a.s - Min(corners)) \div a.d
        binned == { p \in img.ink : Bin(p) \in 0 .. size - 1 }
        total == Cardinality(binned)
        Squares(b, sum) ==
            LET n == Cardinality({ p \in binned : Bin(p) = b }) IN sum + n * n
    IN  IF total = 0 THEN <<0, 1>>
        ELSE << size * FoldSet(Squares, 0, { Bin(p) : p \in binned }) - total * total,
                size * size >>

\* the first angle of the search, up to a bound, with the largest variance;
\* or NoSkew
DetectSkewAngle(img, angles, maxAngle, NoSkew) ==
    LET searched == { k \in DOMAIN angles : Abs(angles[k].deg) <= maxAngle }
        variance == [k \in searched |-> ProjectionVariance(img, angles[k])]
        Below(v, u) == v[1] * u[2] < u[1] * v[2]
        Best(k) == /\ Below(<<0, 1>>, variance[k])
                   /\ \A j \in searched : IF j < k THEN Below(variance[j], variance[k])
                                          ELSE ~Below(variance[k], variance[j])
    IN  IF \E k \in searched : Best(k)
        THEN angles[CHOOSE k \in searched : Best(k)] ELSE NoSkew

\* every pixel of the larger page takes the pixel its inverse rotation falls
\* on, or stays white
RotateArbitrary(img, a) ==
    LET w == CeilDiv(img.w * a.c + img.h * Abs(a.s), a.d)
        h == CeilDiv(img.w * Abs(a.s) + img.h * a.c, a.d)
        SrcX(p) == (2 * p[1] - w) * a.c + (2 * p[2] - h) * a.s + img.w * a.d
        SrcY(p) == (2 * p[2] - h) * a.c - (2 * p[1] - w) * a.s + img.h * a.d
        den == 2 * a.d
        Nearest(S) == { p \in (0 .. w - 1) \X (0 .. h - 1) :
                          << RoundDiv(SrcX(p), den), RoundDiv(SrcY(p), den) >> \in S }
        Blended(S) == { p \in (0 .. w - 1) \X (0 .. h - 1) :
                          /\ SrcX(p) \in 0 .. den * (img.w - 1) - 1
                          /\ SrcY(p) \in 0 .. den * (img.h - 1) - 1
                          /\ BilinearDark(S, img, SrcX(p), den, SrcY(p), den) }
        Turn(S) == IF img.format = "BW1" THEN Nearest(S) ELSE Blended(S)
    IN  IF a.s = 0 THEN img
        ELSE [img EXCEPT !.w = w, !.h = h, !.ink = Turn(@), !.tint = Turn(@)]

\* min_angle and max_angle bound the corrected skew, in degrees
ApplyDeskew(img, config, angles, NoSkew) ==
    LET Turned(angle) ==
            IF ~config.enabled \/ IsEmptyImage(img)
                 \/ Abs(angle.deg) < config.min_angle \/ Abs(angle.deg) > config.max_angle
            THEN [corrected |-> FALSE, angle |-> angle, image |-> img]
            ELSE [corrected |-> TRUE, angle |-> angle, image |-> RotateArbitrary(img, angle)]
    IN  Turned(DetectSkewAngle(img, angles, config.max_angle, NoSkew))

---------------------------------------------------------------------------
(* Morphology, offered by the library *)

Around(element) ==
    IF element = "square" THEN (-1 .. 1) \X (-1 .. 1)
    ELSE { d \in (-1 .. 1) \X (-1 .. 1) : d[1] = 0 \/ d[2] = 0 }

\* mutant: dilation takes the square whatever the element
DilateOnceSquare(img, element) ==
    [img EXCEPT !.ink = { <<p[1] + d[1], p[2] + d[2]>> : p \in @, d \in Around("square") }
                        \cap RectPixels(FullRect(img))]

\* one pass; a pixel outside the image is background
DilateOnce(img, element) ==
    [img EXCEPT !.ink = { <<p[1] + d[1], p[2] + d[2]>> : p \in @, d \in Around(element) }
                        \cap RectPixels(FullRect(img))]
ErodeOnce(img, element) ==
    [img EXCEPT !.ink = { p \in @ : \A d \in Around(element) :
                                       <<p[1] + d[1], p[2] + d[2]>> \in img.ink }]

Repeat(Op(_), img, n) ==
    LET after[k \in 0 .. n] == IF k = 0 THEN img ELSE Op(after[k - 1])
    IN  after[n]

Dilate(img, element, n) ==
    IF img.format # "BW1" THEN img ELSE Repeat(LAMBDA i : DilateOnce(i, element), img, n)
Erode(img, element, n) ==
    IF img.format # "BW1" THEN img ELSE Repeat(LAMBDA i : ErodeOnce(i, element), img, n)
MorphOpen(img, element, n) == Dilate(Erode(img, element, n), element, n)
MorphClose(img, element, n) == Erode(Dilate(img, element, n), element, n)
=============================================================================
