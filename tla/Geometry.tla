------------------------------ MODULE Geometry ------------------------------
(***************************************************************************)
(* Rectangles, runs of foreground pixels and connected components          *)
(* (geometry.h, geometry.cpp).  Coordinates are pixels, x to the right and *)
(* y down; right and bottom are exclusive.  A bitmap is the set of its     *)
(* foreground pixels <<x, y>>.                                             *)
(***************************************************************************)
EXTENDS Integers, Sequences, FiniteSets, SequencesExt, FiniteSetsExt

Rect(l, t, r, b) == [left |-> l, top |-> t, right |-> r, bottom |-> b]
NoRect == Rect(0, 0, 0, 0)

Width(r) == r.right - r.left
Height(r) == r.bottom - r.top
Area(r) == Width(r) * Height(r)
IsEmptyRect(r) == r.left >= r.right \/ r.top >= r.bottom
RectPixels(r) == (r.left .. r.right - 1) \X (r.top .. r.bottom - 1)
Offset(r, dx, dy) == Rect(r.left + dx, r.top + dy, r.right + dx, r.bottom + dy)

\* r is inside outer
Inside(r, outer) ==
    /\ r.left >= outer.left /\ r.right <= outer.right
    /\ r.top >= outer.top /\ r.bottom <= outer.bottom

Intersection(a, b) ==
    LET r == Rect(Max({a.left, b.left}), Max({a.top, b.top}),
                  Min({a.right, b.right}), Min({a.bottom, b.bottom}))
    IN  IF IsEmptyRect(r) THEN NoRect ELSE r

United(a, b) ==
    IF IsEmptyRect(a) THEN b
    ELSE IF IsEmptyRect(b) THEN a
    ELSE Rect(Min({a.left, b.left}), Min({a.top, b.top}),
              Max({a.right, b.right}), Max({a.bottom, b.bottom}))

\* the box around non-empty rectangles
Hull(rects) ==
    IF rects = {} THEN NoRect
    ELSE Rect(Min({r.left : r \in rects}), Min({r.top : r \in rects}),
              Max({r.right : r \in rects}), Max({r.bottom : r \in rects}))

\* the zone-merging heuristic
Combinable(a, b, tolerance) == Area(United(a, b)) <= Area(a) + Area(b) + tolerance

---------------------------------------------------------------------------
\* the members of S in the strict total order Before
InOrder(S, Before(_, _)) ==
    [k \in 1 .. Cardinality(S) |->
        CHOOSE x \in S : Cardinality({ y \in S : Before(y, x) }) = k - 1]

\* std::stable_sort: by key, a pair compared lexicographically, then by position
StableSort(s, Key(_)) ==
    LET Less(a, b) == a[1] < b[1] \/ (a[1] = b[1] /\ a[2] < b[2])
        Before(i, j) == \/ Less(Key(s[i]), Key(s[j]))
                        \/ (Key(s[i]) = Key(s[j]) /\ i < j)
        Order == InOrder(DOMAIN s, Before)
    IN  [k \in DOMAIN s |-> s[Order[k]]]

SortKey(r, axis) ==
    CASE axis = "top_to_bottom" -> <<r.top, r.left>>
      [] axis = "left_to_right" -> <<r.left, r.top>>
      [] axis = "bottom_to_top" -> <<-r.bottom, r.left>>
      [] axis = "right_to_left" -> <<-r.right, r.top>>

SortRects(rects, axis) == StableSort(rects, LAMBDA r : SortKey(r, axis))

\* the extent of a rectangle on the axis the bands are stacked along
Extent(r, direction) ==
    IF direction = "horizontal" THEN <<r.top, r.bottom>> ELSE <<r.left, r.right>>

\* rows (or columns) of rectangles: a rectangle joins the last band when it
\* overlaps what that band covers so far, and starts a new band otherwise
BandRects(rects, direction) ==
    LET From(r) == Extent(r, direction)[1]
        To(r) == Extent(r, direction)[2]
        Cross(r) == IF direction = "horizontal" THEN r.left ELSE r.top
        Overlaps(r, band) == /\ From(r) < Max({To(b) : b \in ToSet(band)})
                             /\ To(r) > Min({From(b) : b \in ToSet(band)})
        Place(bands, r) ==
            IF bands # <<>> /\ Overlaps(r, Last(bands))
            THEN Front(bands) \o << Append(Last(bands), r) >>
            ELSE Append(bands, <<r>>)
        Sorted == StableSort(rects, LAMBDA r : <<From(r), 0>>)
        Bands == FoldLeft(Place, <<>>, Sorted)
    IN  [k \in DOMAIN Bands |-> StableSort(Bands[k], LAMBDA r : <<Cross(r), 0>>)]

---------------------------------------------------------------------------
Span(y, a, b) == [row |-> y, start |-> a, end |-> b]

SpanBefore(s, t) == s.row < t.row \/ (s.row = t.row /\ s.start < t.start)

\* the maximal runs of foreground pixels
SpansFromBitmap(ink) ==
    LET Starts == { p \in ink : <<p[1] - 1, p[2]>> \notin ink }
        RunEnd(p) == Min({ x \in p[1] + 1 .. Max({q[1] : q \in ink}) + 1 :
                              <<x, p[2]>> \notin ink })
    IN  { Span(p[2], p[1], RunEnd(p)) : p \in Starts }

\* the spans inside the region, cut at its left and right edges
ClipSpans(spans, roi) ==
    LET Clip(s) == Span(s.row, Max({s.start, roi.left}), Min({s.end, roi.right}))
        Kept(s) == /\ s.row \in roi.top .. roi.bottom - 1
                   /\ Clip(s).start < Clip(s).end
    IN  { Clip(s) : s \in { t \in spans : Kept(t) } }

\* mutant: touching corners count for both connectivities
AdjacentDiagonally(prev, cur, connectivity) ==
    prev.start <= cur.end /\ prev.end >= cur.start

\* two spans of neighbouring rows touch
Adjacent(prev, cur, connectivity) ==
    LET slack == IF connectivity = 8 THEN 1 ELSE 0
    IN  prev.start < cur.end + slack /\ prev.end > cur.start - slack

\* One pass over the spans.  Each span is compared with the window of the
\* spans of the previous row, up to the first one that starts beyond it, and
\* united with those it touches; label stands for the union-find forest, the
\* label of a set being its lowest index.
Label(spans, connectivity) ==
    LET slack == IF connectivity = 8 THEN 1 ELSE 0
        Unite(label, i, j) ==
            LET roots == {label[i], label[j]}
            IN  [k \in DOMAIN label |-> IF label[k] \in roots THEN Min(roots) ELSE label[k]]
        Window(st, i) ==
            LET row == spans[i].row
            IN  IF row = st.row THEN st
                ELSE [st EXCEPT !.row = row,
                                !.from = IF row = st.row + 1 THEN st.to ELSE i,
                                !.to = i]
        Scan(st0, i) ==
            LET st == Window(st0, i)
                Beyond == { j \in st.from .. st.to - 1 :
                              spans[j].start >= spans[i].end + slack }
                Stop == IF Beyond = {} THEN st.to ELSE Min(Beyond)
                Touching == SelectSeq([k \in 1 .. Stop - st.from |-> st.from + k - 1],
                                      LAMBDA j : Adjacent(spans[j], spans[i], connectivity))
            IN  [st EXCEPT !.label =
                    FoldLeft(LAMBDA l, j : Unite(l, i, j), @, Touching)]
    IN  FoldLeftDomain(Scan,
                       [row |-> -2, from |-> 1, to |-> 1,
                        label |-> [i \in DOMAIN spans |-> i]],
                       spans).label

\* the labelled spans by label, in the order of their first spans
ComponentsOf(spans, label) ==
    LET Members(root) == { i \in DOMAIN spans : label[i] = root }
        Box(i) == Rect(spans[i].start, spans[i].row, spans[i].end, spans[i].row + 1)
        Length(i) == spans[i].end - spans[i].start
        Component(root) == [bounds |-> Hull({ Box(i) : i \in Members(root) }),
                            count |-> MapThenSumSet(Length, Members(root))]
        Roots == InOrder({ i \in DOMAIN spans : label[i] = i }, <)
    IN  [k \in DOMAIN Roots |-> Component(Roots[k])]

\* the components of the region, from its spans by row and then by column
FindComponents(spans, roi, connectivity) ==
    LET inner == InOrder(ClipSpans(spans, roi), SpanBefore)
    IN  ComponentsOf(inner, Label(inner, connectivity))

---------------------------------------------------------------------------
(* What the operators above are meant to compute, defined on pixels and on
   sets of rectangles. *)

\* the partition of S into classes connected by Near
Classes(S, Near(_, _)) ==
    LET Join(x, parts) ==
            LET hit == { c \in parts : \E y \in c : Near(x, y) }
            IN  (parts \ hit) \cup {{x} \cup UNION hit}
    IN  FoldSet(Join, {}, S)

Neighbours(connectivity, p, q) ==
    LET Distance(a, b) == IF a < b THEN b - a ELSE a - b
        dx == Distance(p[1], q[1])
        dy == Distance(p[2], q[2])
    IN  IF connectivity = 8 THEN dx <= 1 /\ dy <= 1 ELSE dx + dy <= 1

PixelParts(ink, connectivity) ==
    Classes(ink, LAMBDA p, q : Neighbours(connectivity, p, q))

BoundsOf(part) ==
    Rect(Min({p[1] : p \in part}), Min({p[2] : p \in part}),
         Max({p[1] : p \in part}) + 1, Max({p[2] : p \in part}) + 1)

AreComponentsOf(components, ink, connectivity) ==
    LET parts == PixelParts(ink, connectivity)
    IN  /\ Len(components) = Cardinality(parts)
        /\ ToSet(components) =
             { [bounds |-> BoundsOf(c), count |-> Cardinality(c)] : c \in parts }

\* the bands are the classes of rectangles that overlap on the band axis
AreBandsOf(bands, rects, direction) ==
    LET Meet(r, q) == /\ Extent(r, direction)[1] < Extent(q, direction)[2]
                      /\ Extent(q, direction)[1] < Extent(r, direction)[2]
    IN  { ToSet(bands[k]) : k \in DOMAIN bands } = Classes(ToSet(rects), Meet)
=============================================================================
