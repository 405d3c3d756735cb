------------------------------- MODULE Images -------------------------------
(***************************************************************************)
(* Images (image.h, image.cpp).  An image is its size, its pixel format,   *)
(* its resolution and the set of its dark pixels: the foreground of a BW1  *)
(* image, the pixels below the black threshold of the others.  tint is the *)
(* subset of the dark pixels whose dominant channel is the colour the      *)
(* profile drops; only colour formats have any.                            *)
(***************************************************************************)
EXTENDS Geometry

Formats == {"BW1", "Gray8", "RGB24", "RGBA32"}
ColorFormats == {"RGB24", "RGBA32"}

Image(w, h, format, dpi) ==
    [w |-> w, h |-> h, format |-> format, dpi |-> dpi, ink |-> {}, tint |-> {}]

\* an empty image has no resolution and no pixel
NoImage == Image(0, 0, "BW1", [x |-> 0, y |-> 0])

IsEmptyImage(img) == img.w <= 0 \/ img.h <= 0
FullRect(img) == Rect(0, 0, img.w, img.h)

IsImage(img) ==
    /\ img \in [w : Nat, h : Nat, format : Formats, dpi : [x : Int, y : Int],
               ink : SUBSET (Int \X Int), tint : SUBSET (Int \X Int)]
    /\ img.ink \subseteq RectPixels(FullRect(img))
    /\ img.tint \subseteq img.ink

\* every pixel of img goes to the pixel To of an image of another shape
Remap(img, w, h, dpi, To(_)) ==
    [img EXCEPT !.w = w, !.h = h, !.dpi = dpi,
                !.ink = { To(p) : p \in img.ink }, !.tint = { To(p) : p \in img.tint }]

Swapped(dpi) == [x |-> dpi.y, y |-> dpi.x]

RotateCW90(img) ==
    Remap(img, img.h, img.w, Swapped(img.dpi), LAMBDA p : <<img.h - 1 - p[2], p[1]>>)
RotateCCW90(img) ==
    Remap(img, img.h, img.w, Swapped(img.dpi), LAMBDA p : <<p[2], img.w - 1 - p[1]>>)
Rotate180(img) ==
    Remap(img, img.w, img.h, img.dpi, LAMBDA p : <<img.w - 1 - p[1], img.h - 1 - p[2]>>)

\* the origin is clamped before the size is: a region that starts left of the
\* image keeps its width
Crop(img, x0, y0, w0, h0) ==
    LET x == Max({x0, 0})
        y == Max({y0, 0})
        w == Min({w0, img.w - x})
        h == Min({h0, img.h - y})
        Cut(S) == { <<p[1] - x, p[2] - y>> : p \in S \cap RectPixels(Rect(x, y, x + w, y + h)) }
    IN  IF w <= 0 \/ h <= 0 THEN NoImage
        ELSE [img EXCEPT !.w = w, !.h = h, !.ink = Cut(@), !.tint = Cut(@)]

\* mutant: pixels are written outside dst
BlitUnclipped(dst, src, dx, dy) ==
    LET Moved(S) == { <<p[1] + dx, p[2] + dy>> : p \in S }
    IN  [dst EXCEPT !.ink = @ \cup Moved(src.ink), !.tint = @ \cup Moved(src.tint)]

\* the part of src that falls on dst replaces what dst has there
Blit(dst, src, dx, dy) ==
    LET target == RectPixels(Intersection(FullRect(dst), Offset(FullRect(src), dx, dy)))
        Moved(S) == { <<p[1] + dx, p[2] + dy>> : p \in S } \cap target
    IN  IF IsEmptyImage(src) \/ IsEmptyImage(dst) THEN dst
        ELSE [dst EXCEPT !.ink = (@ \ target) \cup Moved(src.ink),
                         !.tint = (@ \ target) \cup Moved(src.tint)]

\* padding filled with the background
Pad(img, top, left, right, bottom) ==
    LET w == img.w + left + right
        h == img.h + top + bottom
    IN  IF w <= 0 \/ h <= 0 THEN NoImage
        ELSE Blit(Image(w, h, img.format, img.dpi), img, left, top)

Invert(img) == [img EXCEPT !.ink = RectPixels(FullRect(img)) \ @, !.tint = {}]

\* between any two formats, through gray or RGB where there is no direct way:
\* dark stays dark, and only a colour image keeps colours
Convert(img, target) ==
    IF target = img.format THEN img
    ELSE IF IsEmptyImage(img) THEN NoImage
    ELSE [img EXCEPT !.format = target,
                     !.tint = IF target \in ColorFormats THEN @ ELSE {}]
=============================================================================
