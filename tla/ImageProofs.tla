----------------------------- MODULE ImageProofs ------------------------------
(***************************************************************************)
(* Facts about the images of the page pipeline and its operators, for      *)
(* every image: what a turn, a copy, a scaling, a rotation or a cleanup    *)
(* makes of an image is an image; the components that are found lie where  *)
(* they were looked for; turns compose, an opening only removes, a closing *)
(* loses nothing away from the border.                                     *)
(***************************************************************************)
EXTENDS ImageOps, FiniteSetTheorems, WellFoundedInduction, TLAPS

(* Smallest and largest members.                                           *)

LEMMA MinFound ==
  ASSUME NEW S \in SUBSET Int, S # {}, NEW b \in Int, \A x \in S : b <= x
  PROVE  /\ Min(S) \in S
         /\ \A x \in S : Min(S) <= x
<1> DEFINE T == { x - b : x \in S }
           R == OpToRel(<, Nat)
<1>1. T \subseteq Nat /\ T # {}
  <2>1. \A x \in S : x - b \in Nat
    OBVIOUS
  <2>2. PICK x \in S : TRUE
    OBVIOUS
  <2>3. x - b \in T
    OBVIOUS
  <2>. QED  BY <2>1, <2>3
<1>2. IsWellFoundedOn(R, Nat)
  BY NatLessThanWellFounded
<1>3. PICK t \in T : \A u \in T : ~(<<u, t>> \in R)
  <2> HIDE DEF T, R
  <2>. QED  BY <1>1, <1>2, WFMin
<1>4. \A u \in T : t <= u
  <2>1. SUFFICES ASSUME NEW u \in T  PROVE t <= u
    OBVIOUS
  <2>2. t \in Nat /\ u \in Nat /\ ~(<<u, t>> \in R)
    BY <1>1, <1>3
  <2>3. u < t => <<u, t>> \in R
    <3>1. u < t => <<u, t>> \in Nat \X Nat /\ <<u, t>>[1] < <<u, t>>[2]
      BY <2>2
    <3>. QED  BY <3>1 DEF OpToRel
  <2> HIDE DEF T, R
  <2>. QED  BY <2>2, <2>3
<1>5. PICK m \in S : t = m - b
  OBVIOUS
<1>6. \A x \in S : m <= x
  <2>1. SUFFICES ASSUME NEW x \in S  PROVE m <= x
    OBVIOUS
  <2>2. x - b \in T
    OBVIOUS
  <2> HIDE DEF T, R
  <2>3. m - b <= x - b
    BY <1>4, <1>5, <2>2
  <2>4. m \in Int /\ x \in Int
    OBVIOUS
  <2>. QED  BY <2>3, <2>4
<1> HIDE DEF T, R
<1>. QED  BY <1>6, Zenon DEF Min

LEMMA MaxFound ==
  ASSUME NEW S \in SUBSET Int, S # {}, NEW b \in Int, \A x \in S : x <= b
  PROVE  /\ Max(S) \in S
         /\ \A x \in S : x <= Max(S)
<1> DEFINE T == { b - x : x \in S }
<1>1. T \in SUBSET Int /\ T # {} /\ \A u \in T : 0 <= u
  <2>1. \A x \in S : b - x \in Int /\ 0 <= b - x
    OBVIOUS
  <2>2. PICK x \in S : TRUE
    OBVIOUS
  <2>3. b - x \in T
    OBVIOUS
  <2>. QED  BY <2>1, <2>3
<1>2. Min(T) \in T /\ \A u \in T : Min(T) <= u
  <2> HIDE DEF T
  <2>1. T \in SUBSET Int /\ T # {} /\ 0 \in Int /\ \A u \in T : 0 <= u
    BY <1>1
  <2>. QED  BY <2>1, MinFound, Zenon
<1>3. PICK m \in S : Min(T) = b - m
  BY <1>2
<1>4. \A x \in S : m >= x
  <2>1. SUFFICES ASSUME NEW x \in S  PROVE m >= x
    OBVIOUS
  <2>2. b - x \in T /\ b - m <= b - x
    BY <1>2, <1>3
  <2>. QED  BY <2>2
<1>5. Max(S) \in S /\ \A x \in S : Max(S) >= x
  BY <1>4, Zenon DEF Max
<1>. QED  BY <1>5

LEMMA OfTwo ==
  ASSUME NEW a \in Int, NEW b \in Int
  PROVE  /\ Min({a, b}) = IF a <= b THEN a ELSE b
         /\ Max({a, b}) = IF a <= b THEN b ELSE a
<1>1. {a, b} \in SUBSET Int /\ {a, b} # {}
  OBVIOUS
<1>2. CASE a <= b
  BY <1>1, <1>2, MinFound, MaxFound
<1>3. CASE b <= a
  BY <1>1, <1>3, MinFound, MaxFound
<1>. QED  BY <1>2, <1>3

-----------------------------------------------------------------------------
(* Ordering a finite set: the ranks of its members are 0 up to its size.   *)

LEMMA RanksFilled ==
  ASSUME NEW S, IsFiniteSet(S), NEW R,
         \A x, y \in S : x = y \/ <<x, y>> \in R \/ <<y, x>> \in R,
         \A x \in S : ~(<<x, x>> \in R),
         \A x, y, z \in S : <<x, y>> \in R /\ <<y, z>> \in R => <<x, z>> \in R
  PROVE  /\ Cardinality(S) \in Nat
         /\ \A k \in 1 .. Cardinality(S) :
              \E x \in S : Cardinality({ y \in S : <<y, x>> \in R }) = k - 1
<1> DEFINE n == Cardinality(S)
           Low(x) == { y \in S : <<y, x>> \in R }
           rank == [x \in S |-> Cardinality(Low(x))]
           Ranks == 0 .. n - 1
<1>1. n \in Nat
  BY FS_CardinalityType
<1>2. \A x \in S : IsFiniteSet(Low(x)) /\ Cardinality(Low(x)) \in Nat
  <2>1. SUFFICES ASSUME NEW x \in S  PROVE IsFiniteSet(Low(x)) /\ Cardinality(Low(x)) \in Nat
    OBVIOUS
  <2>2. Low(x) \in SUBSET S
    OBVIOUS
  <2> HIDE DEF Low
  <2>3. IsFiniteSet(Low(x))
    BY <2>2, FS_Subset, Zenon
  <2>. QED  BY <2>3, FS_CardinalityType, Zenon
<1>3. ASSUME NEW x \in S, NEW y \in S, <<x, y>> \in R
      PROVE  rank[x] < rank[y]
  <2>1. Low(x) \subseteq Low(y) /\ x \in Low(y) /\ x \notin Low(x)
    BY <1>3
  <2>2. /\ IsFiniteSet(Low(y)) /\ Low(x) \in SUBSET Low(y) /\ Low(x) # Low(y)
        /\ Cardinality(Low(x)) \in Nat /\ Cardinality(Low(y)) \in Nat
    <3> HIDE DEF Low
    <3>. QED  BY <1>2, <2>1
  <2>3. Cardinality(Low(x)) <= Cardinality(Low(y)) /\ Cardinality(Low(y)) # Cardinality(Low(x))
    <3> HIDE DEF Low
    <3>. QED  BY <2>2, FS_Subset, Zenon
  <2>4. rank[x] = Cardinality(Low(x)) /\ rank[y] = Cardinality(Low(y))
    OBVIOUS
  <2> HIDE DEF Low, rank
  <2>. QED  BY <2>2, <2>3, <2>4
<1>4. \A x \in S : rank[x] \in Ranks
  <2>1. SUFFICES ASSUME NEW x \in S  PROVE rank[x] \in Ranks
    OBVIOUS
  <2>2. Low(x) \in SUBSET (S \ {x})
    OBVIOUS
  <2>3. IsFiniteSet(S \ {x}) /\ Cardinality(S \ {x}) = n - 1
    BY FS_RemoveElement
  <2>4. Cardinality(Low(x)) <= Cardinality(S \ {x})
    <3> HIDE DEF Low
    <3>. QED  BY <2>2, <2>3, FS_Subset, Zenon
  <2>5. rank[x] = Cardinality(Low(x)) /\ Cardinality(Low(x)) \in Nat
    BY <1>2
  <2> HIDE DEF Low, rank, n
  <2>. QED  BY <1>1, <2>3, <2>4, <2>5
<1>5. \A x, y \in S : rank[x] = rank[y] => x = y
  <2>1. SUFFICES ASSUME NEW x \in S, NEW y \in S, rank[x] = rank[y], x # y  PROVE FALSE
    OBVIOUS
  <2>2. rank[x] < rank[y] \/ rank[y] < rank[x]
    BY <1>3, <2>1
  <2>3. rank[x] \in Int /\ rank[y] \in Int
    BY <1>4
  <2> HIDE DEF rank
  <2>. QED  BY <2>1, <2>2, <2>3
<1>6. rank \in Surjection(S, Ranks)
  <2>1. rank \in Injection(S, Ranks)
    <3>1. rank \in [S -> Ranks]
      BY <1>4
    <3> HIDE DEF rank, Ranks
    <3>. QED  BY <1>5, <3>1 DEF Injection, IsInjective
  <2>2. IsFiniteSet(Ranks) /\ Cardinality(Ranks) = n
    <3> HIDE DEF n
    <3>1. /\ IsFiniteSet(0 .. n - 1)
          /\ Cardinality(0 .. n - 1) = IF 0 > n - 1 THEN 0 ELSE (n - 1) - 0 + 1
      <4>1. 0 \in Int /\ n - 1 \in Int
        BY <1>1
      <4>. QED  BY <4>1, FS_Interval, Zenon
    <3>. QED  BY <1>1, <3>1
  <2> HIDE DEF rank, Ranks
  <2>. QED  BY <2>1, <2>2, FS_Injection
<1>7. \A r \in Ranks : \E x \in S : rank[x] = r
  <2> HIDE DEF rank, Ranks
  <2>. QED  BY <1>6 DEF Surjection
<1>8. \A k \in 1 .. n : \E x \in S : rank[x] = k - 1
  <2>1. \A k \in 1 .. n : k - 1 \in Ranks
    BY <1>1
  <2> HIDE DEF rank, Ranks, n
  <2>. QED  BY <1>7, <2>1
<1>9. \A x \in S : rank[x] = Cardinality({ y \in S : <<y, x>> \in R })
  OBVIOUS
<1> HIDE DEF rank
<1>. QED  BY <1>1, <1>8, <1>9

-----------------------------------------------------------------------------
(* Rectangles.                                                             *)

Rects == [left : Int, top : Int, right : Int, bottom : Int]

\* A rectangle that is not empty and lies in another.
Boxed(r, outer) == r \in Rects /\ ~IsEmptyRect(r) /\ Inside(r, outer)

LEMMA RectTyped ==
  ASSUME NEW l \in Int, NEW t \in Int, NEW r \in Int, NEW b \in Int
  PROVE  /\ Rect(l, t, r, b) \in Rects
         /\ Rect(l, t, r, b).left = l /\ Rect(l, t, r, b).top = t
         /\ Rect(l, t, r, b).right = r /\ Rect(l, t, r, b).bottom = b
BY DEF Rect, Rects

LEMMA BoxedRect ==
  ASSUME NEW outer \in Rects, NEW l \in Int, NEW t \in Int, NEW r \in Int, NEW b \in Int,
         outer.left <= l, l < r, r <= outer.right,
         outer.top <= t, t < b, b <= outer.bottom
  PROVE  Boxed(Rect(l, t, r, b), outer)
<1> DEFINE R == Rect(l, t, r, b)
<1>1. R \in Rects /\ R.left = l /\ R.top = t /\ R.right = r /\ R.bottom = b
  BY RectTyped
<1> HIDE DEF R
<1>2. /\ outer.left \in Int /\ outer.top \in Int
      /\ outer.right \in Int /\ outer.bottom \in Int
  BY DEF Rects
<1>3. Boxed(R, outer)
  BY <1>1, <1>2 DEF Boxed, IsEmptyRect, Inside
<1>. QED  BY <1>3 DEF R

LEMMA HullBoxed ==
  ASSUME NEW outer \in Rects, NEW rects, rects # {}, \A r \in rects : Boxed(r, outer)
  PROVE  Boxed(Hull(rects), outer)
<1> DEFINE L == { r.left : r \in rects }
           T == { r.top : r \in rects }
           R == { r.right : r \in rects }
           B == { r.bottom : r \in rects }
<1>1. \A r \in rects :
         /\ r.left \in Int /\ r.top \in Int /\ r.right \in Int /\ r.bottom \in Int
         /\ r.left < r.right /\ r.top < r.bottom
         /\ outer.left <= r.left /\ r.right <= outer.right
         /\ outer.top <= r.top /\ r.bottom <= outer.bottom
  BY DEF Boxed, Rects, IsEmptyRect, Inside
<1>2. /\ outer.left \in Int /\ outer.top \in Int
      /\ outer.right \in Int /\ outer.bottom \in Int
  BY DEF Rects
<1>3. PICK r0 \in rects : TRUE
  OBVIOUS
<1>4. /\ r0.left \in L /\ r0.top \in T /\ r0.right \in R /\ r0.bottom \in B
      /\ L \in SUBSET Int /\ T \in SUBSET Int /\ R \in SUBSET Int /\ B \in SUBSET Int
      /\ \A x \in L : outer.left <= x
      /\ \A x \in T : outer.top <= x
      /\ \A x \in R : x <= outer.right
      /\ \A x \in B : x <= outer.bottom
  BY <1>1
<1>5. /\ Min(L) \in L /\ Min(L) <= r0.left /\ Min(T) \in T /\ Min(T) <= r0.top
      /\ Max(R) \in R /\ r0.right <= Max(R) /\ Max(B) \in B /\ r0.bottom <= Max(B)
  <2> HIDE DEF L, T, R, B
  <2>1. Min(L) \in L /\ Min(L) <= r0.left
    <3>1. Min(L) \in L /\ \A x \in L : Min(L) <= x
      BY <1>2, <1>4, MinFound
    <3>. QED  BY <1>4, <3>1
  <2>2. Min(T) \in T /\ Min(T) <= r0.top
    <3>1. Min(T) \in T /\ \A x \in T : Min(T) <= x
      BY <1>2, <1>4, MinFound
    <3>. QED  BY <1>4, <3>1
  <2>3. Max(R) \in R /\ r0.right <= Max(R)
    <3>1. Max(R) \in R /\ \A x \in R : x <= Max(R)
      BY <1>2, <1>4, MaxFound
    <3>. QED  BY <1>4, <3>1
  <2>4. Max(B) \in B /\ r0.bottom <= Max(B)
    <3>1. Max(B) \in B /\ \A x \in B : x <= Max(B)
      BY <1>2, <1>4, MaxFound
    <3>. QED  BY <1>4, <3>1
  <2>. QED  BY <2>1, <2>2, <2>3, <2>4
<1>6. Hull(rects) = Rect(Min(L), Min(T), Max(R), Max(B))
  BY DEF Hull
<1> HIDE DEF L, T, R, B
<1>7. /\ Min(L) \in Int /\ Min(T) \in Int /\ Max(R) \in Int /\ Max(B) \in Int
      /\ Min(L) < Max(R) /\ Min(T) < Max(B)
      /\ outer.left <= Min(L) /\ outer.top <= Min(T)
      /\ Max(R) <= outer.right /\ Max(B) <= outer.bottom
  <2>1. /\ r0.left \in Int /\ r0.top \in Int /\ r0.right \in Int /\ r0.bottom \in Int
        /\ r0.left < r0.right /\ r0.top < r0.bottom
    BY <1>1
  <2>2. Min(L) \in Int /\ outer.left <= Min(L) /\ Min(L) <= r0.left
    BY <1>4, <1>5
  <2>3. Min(T) \in Int /\ outer.top <= Min(T) /\ Min(T) <= r0.top
    BY <1>4, <1>5
  <2>4. Max(R) \in Int /\ Max(R) <= outer.right /\ r0.right <= Max(R)
    BY <1>4, <1>5
  <2>5. Max(B) \in Int /\ Max(B) <= outer.bottom /\ r0.bottom <= Max(B)
    BY <1>4, <1>5
  <2>6. ASSUME NEW x \in Int, NEW y \in Int, NEW u \in Int, NEW v \in Int,
               x <= u, u < v, v <= y
        PROVE  x < y
    BY <2>6
  <2>. QED  BY <2>1, <2>2, <2>3, <2>4, <2>5, <2>6
<1>. QED  BY <1>6, <1>7, BoxedRect

-----------------------------------------------------------------------------
(* Spans and components lie where they were looked for.                    *)

Spans == [row : Int, start : Int, end : Int]

LEMMA SpansTyped ==
  ASSUME NEW w \in Int, NEW h \in Int, NEW ink \in SUBSET RectPixels(Rect(0, 0, w, h))
  PROVE  LET spans == SpansFromBitmap(ink)
         IN  /\ spans \subseteq Spans
             /\ IsFiniteSet(spans)
             /\ \A s, t \in spans : s.row = t.row /\ s.start < t.start => s.end < t.start
             /\ \A s, t \in spans : s.row = t.row /\ s.start = t.start => s = t
<1> DEFINE Starts == { p \in ink : <<p[1] - 1, p[2]>> \notin ink }
           X == { q[1] : q \in ink }
           Gaps(p) == { x \in p[1] + 1 .. Max(X) + 1 : <<x, p[2]>> \notin ink }
           At(p) == Span(p[2], p[1], Min(Gaps(p)))
<1>1. SpansFromBitmap(ink) = { At(p) : p \in Starts }
  BY DEF SpansFromBitmap
<1>2. \A p \in ink : /\ p[1] \in 0 .. w - 1 /\ p[2] \in 0 .. h - 1 /\ p = <<p[1], p[2]>>
  BY DEF RectPixels, Rect
<1>3. ASSUME NEW p \in ink
      PROVE  /\ Min(Gaps(p)) \in Int
             /\ p[1] < Min(Gaps(p))
             /\ \A x \in Int : p[1] < x /\ x < Min(Gaps(p)) => <<x, p[2]>> \in ink
             /\ \A q \in ink : q[1] <= Max(X)
             /\ Max(X) \in Int
             /\ Min(Gaps(p)) <= Max(X) + 1
  <2>1. X \in SUBSET Int /\ p[1] \in X /\ \A x \in X : x <= w
    BY <1>2
  <2>2. Max(X) \in Int /\ \A x \in X : x <= Max(X)
    <3> HIDE DEF X
    <3>. QED  BY <2>1, MaxFound
  <2>3. \A q \in ink : q[1] <= Max(X)
    BY <2>2
  <2> HIDE DEF X
  <2>4. Max(X) + 1 \in Gaps(p)
    <3>1. <<Max(X) + 1, p[2]>> \notin ink
      <4>1. ASSUME <<Max(X) + 1, p[2]>> \in ink  PROVE FALSE
        <5>1. <<Max(X) + 1, p[2]>>[1] <= Max(X)
          BY <2>3, <4>1
        <5>. QED  BY <2>2, <5>1
      <4>. QED  BY <4>1
    <3>. QED  BY <1>2, <2>2, <2>3, <3>1
  <2>5. Gaps(p) \in SUBSET Int /\ \A x \in Gaps(p) : p[1] <= x
    BY <1>2, <2>2
  <2>6. p[1] \in Int
    BY <1>2
  <2>7. Min(Gaps(p)) \in Gaps(p) /\ \A x \in Gaps(p) : Min(Gaps(p)) <= x
    <3> HIDE DEF Gaps
    <3>. QED  BY <2>4, <2>5, <2>6, MinFound
  <2>8. Min(Gaps(p)) \in p[1] + 1 .. Max(X) + 1
    <3> DEFINE m == Min(Gaps(p))
    <3>1. m \in Gaps(p)
      BY <2>7
    <3> HIDE DEF m
    <3>2. m \in p[1] + 1 .. Max(X) + 1
      BY <3>1
    <3>. QED  BY <3>2 DEF m
  <2>9. \A x \in Int : p[1] < x /\ x < Min(Gaps(p)) => <<x, p[2]>> \in ink
    <3>1. SUFFICES ASSUME NEW x \in Int, p[1] < x, x < Min(Gaps(p)), <<x, p[2]>> \notin ink
                   PROVE  FALSE
      OBVIOUS
    <3> DEFINE m == Min(Gaps(p))
    <3>2. x \in p[1] + 1 .. Max(X) + 1
      <4>1. m \in p[1] + 1 .. Max(X) + 1 /\ x < m
        BY <2>8, <3>1
      <4> HIDE DEF m
      <4>. QED  BY <2>2, <2>6, <3>1, <4>1
    <3>3. x \in Gaps(p)
      BY <3>1, <3>2
    <3>4. m <= x /\ x < m /\ m \in Int
      BY <2>2, <2>6, <2>7, <2>8, <3>1, <3>3
    <3> HIDE DEF m
    <3>. QED  BY <3>1, <3>4
  <2>. QED  BY <2>2, <2>3, <2>6, <2>8, <2>9
<1> HIDE DEF X, Gaps
<1>4. { At(p) : p \in Starts } \subseteq Spans
  <2>1. \A p \in Starts : p[2] \in Int /\ p[1] \in Int /\ Min(Gaps(p)) \in Int
    BY <1>2, <1>3
  <2>2. \A y, a, b \in Int : Span(y, a, b) \in Spans
    BY DEF Spans, Span
  <2>3. \A p \in Starts : At(p) \in Spans
    BY <2>1, <2>2
  <2>. QED  BY <2>3
<1>5. IsFiniteSet({ At(p) : p \in Starts })
  <2>1. IsFiniteSet((0 .. w - 1) \X (0 .. h - 1))
    <3>1. IsFiniteSet(0 .. w - 1) /\ IsFiniteSet(0 .. h - 1)
      BY FS_Interval
    <3>. QED  BY <3>1, FS_Product, Zenon
  <2>2. Starts \in SUBSET ((0 .. w - 1) \X (0 .. h - 1))
    BY <1>2
  <2>3. IsFiniteSet(Starts)
    <3> HIDE DEF Starts
    <3>. QED  BY <2>1, <2>2, FS_Subset
  <2> DEFINE T == { At(p) : p \in Starts }
             f == [p \in Starts |-> At(p)]
  <2>4. f \in Surjection(Starts, T)
    BY DEF Surjection
  <2> HIDE DEF f, T, Starts
  <2>5. IsFiniteSet(T)
    BY <2>3, <2>4, FS_Surjection
  <2>. QED  BY <2>5 DEF T
<1>6. ASSUME NEW p \in Starts, NEW q \in Starts, p[2] = q[2], p[1] < q[1]
      PROVE  Min(Gaps(p)) < q[1]
  <2> DEFINE m == Min(Gaps(p))
  <2>1. /\ m \in Int /\ p[1] \in Int /\ q[1] \in Int /\ p[1] < m
        /\ \A x \in Int : p[1] < x /\ x < m => <<x, p[2]>> \in ink
    BY <1>2, <1>3
  <2>2. <<q[1] - 1, q[2]>> \notin ink
    OBVIOUS
  <2>3. p = <<p[1], p[2]>> /\ p \in ink
    BY <1>2
  <2> HIDE DEF m
  <2>4. q[1] - 1 # p[1]
    BY <1>6, <2>2, <2>3
  <2>5. ~(q[1] - 1 < m)
    BY <1>6, <2>1, <2>2, <2>4
  <2>6. m < q[1]
    BY <2>1, <2>5
  <2>. QED  BY <2>6 DEF m
<1>7. \A p \in Starts : /\ At(p).row = p[2] /\ At(p).start = p[1]
                        /\ At(p).end = Min(Gaps(p)) /\ p = <<p[1], p[2]>>
  BY <1>2 DEF Span
<1> DEFINE S == { At(p) : p \in Starts }
<1>8. ASSUME NEW s \in S, NEW t \in S, s.row = t.row
      PROVE  /\ s.start < t.start => s.end < t.start
             /\ s.start = t.start => s = t
  <2>1. PICK p \in Starts : s = At(p)
    OBVIOUS
  <2>2. PICK q \in Starts : t = At(q)
    OBVIOUS
  <2> HIDE DEF At, Starts
  <2>. QED  BY <1>6, <1>7, <1>8, <2>1, <2>2
<1> HIDE DEF S
<1>9. SpansFromBitmap(ink) = S
  BY <1>1 DEF S
<1>. QED  BY <1>4, <1>5, <1>8, <1>9 DEF S

LEMMA ClipTyped ==
  ASSUME NEW w \in Int, NEW h \in Int, NEW ink \in SUBSET RectPixels(Rect(0, 0, w, h)),
         NEW roi \in Rects
  PROVE  LET clip == ClipSpans(SpansFromBitmap(ink), roi)
         IN  /\ IsFiniteSet(clip)
             /\ \A s \in clip :
                  /\ s \in Spans
                  /\ roi.left <= s.start /\ s.start < s.end /\ s.end <= roi.right
                  /\ roi.top <= s.row /\ s.row < roi.bottom
             /\ \A s, t \in clip : s.row = t.row /\ s.start = t.start => s = t
<1> DEFINE spans == SpansFromBitmap(ink)
           Clip(s) == Span(s.row, Max({s.start, roi.left}), Min({s.end, roi.right}))
           Kept == { s \in spans : /\ s.row \in roi.top .. roi.bottom - 1
                                   /\ Clip(s).start < Clip(s).end }
<1>1. ClipSpans(spans, roi) = { Clip(s) : s \in Kept }
  BY DEF ClipSpans
<1>2. /\ spans \subseteq Spans /\ IsFiniteSet(spans)
      /\ \A s, t \in spans : s.row = t.row /\ s.start < t.start => s.end < t.start
      /\ \A s, t \in spans : s.row = t.row /\ s.start = t.start => s = t
  BY SpansTyped
<1>3. /\ roi.left \in Int /\ roi.top \in Int /\ roi.right \in Int /\ roi.bottom \in Int
  BY DEF Rects
<1> HIDE DEF spans
<1>4. ASSUME NEW s \in Kept
      PROVE  /\ s \in spans /\ s.row \in Int /\ s.start \in Int /\ s.end \in Int
             /\ roi.top <= s.row /\ s.row < roi.bottom
             /\ Clip(s).row = s.row
             /\ Clip(s).start = IF s.start <= roi.left THEN roi.left ELSE s.start
             /\ Clip(s).end = IF s.end <= roi.right THEN s.end ELSE roi.right
             /\ Clip(s).start < Clip(s).end
             /\ Clip(s) \in Spans
  <2>1. s \in spans /\ s.row \in Int /\ s.start \in Int /\ s.end \in Int
    BY <1>2 DEF Spans
  <2>2. /\ Max({s.start, roi.left}) = IF s.start <= roi.left THEN roi.left ELSE s.start
        /\ Min({s.end, roi.right}) = IF s.end <= roi.right THEN s.end ELSE roi.right
    BY <1>3, <2>1, OfTwo
  <2>3. \A y, a, b : Span(y, a, b).row = y /\ Span(y, a, b).start = a /\ Span(y, a, b).end = b
    BY DEF Span
  <2>4. s.row \in roi.top .. roi.bottom - 1 /\ Clip(s).start < Clip(s).end
    OBVIOUS
  <2>5. \A y, a, b \in Int : Span(y, a, b) \in Spans
    BY DEF Spans, Span
  <2> DEFINE a == Max({s.start, roi.left})
             b == Min({s.end, roi.right})
  <2>6. Clip(s) = Span(s.row, a, b)
    OBVIOUS
  <2>7. a \in Int /\ b \in Int
    BY <1>3, <2>1, <2>2
  <2>8. roi.top <= s.row /\ s.row < roi.bottom
    BY <1>3, <2>1, <2>4
  <2> HIDE DEF a, b, Clip, Kept
  <2>9. Clip(s).row = s.row /\ Clip(s).start = a /\ Clip(s).end = b /\ Clip(s) \in Spans
    BY <2>1, <2>3, <2>5, <2>6, <2>7
  <2>. QED  BY <2>1, <2>2, <2>4, <2>8, <2>9 DEF a, b
<1>5. IsFiniteSet({ Clip(s) : s \in Kept })
  <2>1. IsFiniteSet(Kept)
    <3>1. Kept \in SUBSET spans
      OBVIOUS
    <3> HIDE DEF Kept
    <3>. QED  BY <1>2, <3>1, FS_Subset
  <2> DEFINE T == { Clip(s) : s \in Kept }
             f == [s \in Kept |-> Clip(s)]
  <2> HIDE DEF Kept, Clip
  <2>2. f \in Surjection(Kept, T)
    BY DEF Surjection
  <2> HIDE DEF f, T
  <2>3. IsFiniteSet(T)
    BY <2>1, <2>2, FS_Surjection
  <2>. QED  BY <2>3 DEF T
<1> HIDE DEF Kept, Clip
<1>6. ASSUME NEW s \in Kept
      PROVE  /\ roi.left <= Clip(s).start /\ Clip(s).end <= roi.right
             /\ roi.top <= Clip(s).row /\ Clip(s).row < roi.bottom
  BY <1>3, <1>4
<1>7. ASSUME NEW s \in Kept, NEW t \in Kept, Clip(s).row = Clip(t).row,
             Clip(s).start = Clip(t).start
      PROVE  Clip(s) = Clip(t)
  <2>1. s.row = t.row
    BY <1>4, <1>7
  <2>2. s.start = t.start => s = t
    BY <1>2, <1>4, <2>1
  <2>3. ASSUME NEW u \in Kept, NEW v \in Kept, u.row = v.row,
               Clip(u).start = Clip(v).start, u.start < v.start
        PROVE  FALSE
    <3>1. u.end < v.start
      BY <1>2, <1>4, <2>3
    <3>2. v.start <= roi.left
      BY <1>3, <1>4, <2>3
    <3>3. Clip(u).end <= u.end /\ roi.left <= Clip(u).start
      BY <1>3, <1>4
    <3>4. Clip(u).start < Clip(u).end /\ Clip(u).start \in Int /\ Clip(u).end \in Int
      BY <1>3, <1>4
    <3>. QED  BY <1>3, <1>4, <3>1, <3>2, <3>3, <3>4
  <2>4. s.start = t.start \/ s.start < t.start \/ t.start < s.start
    BY <1>4
  <2>. QED  BY <1>7, <2>1, <2>2, <2>3, <2>4
<1> DEFINE S == { Clip(s) : s \in Kept }
<1>8. \A u \in S : \E s \in Kept : u = Clip(s)
  OBVIOUS
<1>9. IsFiniteSet(S) /\ ClipSpans(spans, roi) = S
  BY <1>1, <1>5 DEF Kept, Clip
<1> HIDE DEF S
<1>10. \A u \in S : /\ u \in Spans
                    /\ roi.left <= u.start /\ u.start < u.end /\ u.end <= roi.right
                    /\ roi.top <= u.row /\ u.row < roi.bottom
  BY <1>4, <1>6, <1>8
<1>11. \A u, v \in S : u.row = v.row /\ u.start = v.start => u = v
  BY <1>7, <1>8
<1>. QED  BY <1>9, <1>10, <1>11 DEF spans

\* The components of a region have boxes, and they lie in it.
LEMMA ComponentsInside ==
  ASSUME NEW w \in Int, NEW h \in Int, NEW ink \in SUBSET RectPixels(Rect(0, 0, w, h)),
         NEW roi \in Rects, NEW connectivity
  PROVE  LET found == FindComponents(SpansFromBitmap(ink), roi, connectivity)
         IN  \A k \in DOMAIN found : Boxed(found[k].bounds, roi)
<1> DEFINE clip == ClipSpans(SpansFromBitmap(ink), roi)
           inner == InOrder(clip, SpanBefore)
           label == Label(inner, connectivity)
<1>1. /\ IsFiniteSet(clip)
      /\ \A s \in clip : /\ s \in Spans
                         /\ roi.left <= s.start /\ s.start < s.end /\ s.end <= roi.right
                         /\ roi.top <= s.row /\ s.row < roi.bottom
      /\ \A s, t \in clip : s.row = t.row /\ s.start = t.start => s = t
  BY ClipTyped
<1>2. Cardinality(clip) \in Nat /\ DOMAIN inner = 1 .. Cardinality(clip)
      /\ \A i \in DOMAIN inner : inner[i] \in clip
  <2> HIDE DEF clip
  <2> DEFINE R == { st \in clip \X clip : SpanBefore(st[1], st[2]) }
  <2>1. \A s, t \in clip : <<s, t>> \in R <=> SpanBefore(s, t)
    OBVIOUS
  <2>2. \A s, t \in clip : s = t \/ SpanBefore(s, t) \/ SpanBefore(t, s)
    BY <1>1 DEF SpanBefore, Spans
  <2>3. \A s \in clip : ~SpanBefore(s, s)
    BY <1>1 DEF SpanBefore, Spans
  <2>4. \A s, t, u \in clip : SpanBefore(s, t) /\ SpanBefore(t, u) => SpanBefore(s, u)
    BY <1>1 DEF SpanBefore, Spans
  <2>5. \A x \in clip : { y \in clip : <<y, x>> \in R } = { y \in clip : SpanBefore(y, x) }
    BY <2>1
  <2> HIDE DEF R
  <2>6. /\ \A s, t \in clip : s = t \/ <<s, t>> \in R \/ <<t, s>> \in R
        /\ \A s \in clip : ~(<<s, s>> \in R)
        /\ \A s, t, u \in clip : <<s, t>> \in R /\ <<t, u>> \in R => <<s, u>> \in R
    BY <2>1, <2>2, <2>3, <2>4
  <2>7. /\ Cardinality(clip) \in Nat
        /\ \A k \in 1 .. Cardinality(clip) :
             \E x \in clip : Cardinality({ y \in clip : <<y, x>> \in R }) = k - 1
    BY <1>1, <2>6, RanksFilled, ZenonT(60)
  <2>8. \A k \in 1 .. Cardinality(clip) :
          \E x \in clip : Cardinality({ y \in clip : SpanBefore(y, x) }) = k - 1
    BY <2>5, <2>7
  <2>9. DOMAIN inner = 1 .. Cardinality(clip)
    BY DEF InOrder
  <2>10. ASSUME NEW i \in 1 .. Cardinality(clip)  PROVE inner[i] \in clip
    <3>1. inner[i] = CHOOSE x \in clip : Cardinality({ y \in clip : SpanBefore(y, x) }) = i - 1
      BY DEF InOrder
    <3>2. \E x \in clip : Cardinality({ y \in clip : SpanBefore(y, x) }) = i - 1
      BY <2>8
    <3> HIDE DEF inner
    <3>. QED  BY <3>1, <3>2, Zenon
  <2>. QED  BY <2>7, <2>9, <2>10
<1> DEFINE n == Cardinality(clip)
           firsts == { i \in 1 .. n : label[i] = i }
           Roots == InOrder(firsts, <)
           Box(i) == Rect(inner[i].start, inner[i].row, inner[i].end, inner[i].row + 1)
           Boxes0(root) == { Box(i) : i \in { j \in 1 .. n : label[j] = root } }
<1>3. \A k \in DOMAIN Roots : Roots[k] \in firsts
  <2> HIDE DEF label, inner
  <2> DEFINE R == { st \in firsts \X firsts : st[1] < st[2] }
  <2>1. IsFiniteSet(firsts)
    <3>1. IsFiniteSet(1 .. n) /\ firsts \in SUBSET (1 .. n)
      BY <1>2, FS_Interval
    <3> HIDE DEF n, firsts
    <3>. QED  BY <3>1, FS_Subset
  <2>2. \A s, t \in firsts : <<s, t>> \in R <=> s < t
    <3> HIDE DEF firsts
    <3>. QED  OBVIOUS
  <2>3. \A s \in firsts : s \in Int
    BY <1>2
  <2> HIDE DEF firsts
  <2>4. \A x \in firsts : { y \in firsts : <<y, x>> \in R } = { y \in firsts : y < x }
    BY <2>2
  <2> HIDE DEF R
  <2>5. /\ \A s, t \in firsts : s = t \/ <<s, t>> \in R \/ <<t, s>> \in R
        /\ \A s \in firsts : ~(<<s, s>> \in R)
        /\ \A s, t, u \in firsts : <<s, t>> \in R /\ <<t, u>> \in R => <<s, u>> \in R
    BY <2>2, <2>3
  <2>6. /\ Cardinality(firsts) \in Nat
        /\ \A k \in 1 .. Cardinality(firsts) :
             \E x \in firsts : Cardinality({ y \in firsts : <<y, x>> \in R }) = k - 1
    BY <2>1, <2>5, RanksFilled, ZenonT(60)
  <2>7. \A k \in 1 .. Cardinality(firsts) :
          \E x \in firsts : Cardinality({ y \in firsts : y < x }) = k - 1
    BY <2>4, <2>6
  <2>8. DOMAIN Roots = 1 .. Cardinality(firsts)
    BY DEF InOrder
  <2>9. ASSUME NEW k \in 1 .. Cardinality(firsts)  PROVE Roots[k] \in firsts
    <3>1. Roots[k] = CHOOSE x \in firsts : Cardinality({ y \in firsts : y < x }) = k - 1
      BY DEF InOrder
    <3>2. \E x \in firsts : Cardinality({ y \in firsts : y < x }) = k - 1
      BY <2>7
    <3> HIDE DEF Roots
    <3>. QED  BY <3>1, <3>2, Zenon
  <2>. QED  BY <2>8, <2>9
<1> DEFINE found == FindComponents(SpansFromBitmap(ink), roi, connectivity)
<1>4. /\ DOMAIN found = DOMAIN Roots
      /\ \A k \in DOMAIN Roots : found[k].bounds = Hull(Boxes0(Roots[k]))
  <2>1. found = ComponentsOf(inner, label)
    BY DEF FindComponents
  <2>2. DOMAIN inner = 1 .. n
    BY <1>2
  <2> HIDE DEF found, label, inner, n
  <2>. QED  BY <2>1, <2>2 DEF ComponentsOf
<1>5. ASSUME NEW i \in 1 .. n  PROVE Boxed(Box(i), roi)
  <2>1. inner[i] \in clip
    BY <1>2
  <2>2. /\ roi.left \in Int /\ roi.top \in Int /\ roi.right \in Int /\ roi.bottom \in Int
    BY DEF Rects
  <2> DEFINE s == inner[i]
  <2>3. /\ s.row \in Int /\ s.start \in Int /\ s.end \in Int
        /\ roi.left <= s.start /\ s.start < s.end /\ s.end <= roi.right
        /\ roi.top <= s.row /\ s.row < roi.bottom
    BY <1>1, <2>1 DEF Spans
  <2> HIDE DEF s
  <2>4. Boxed(Rect(s.start, s.row, s.end, s.row + 1), roi)
    <3>1. s.row < s.row + 1 /\ s.row + 1 <= roi.bottom /\ s.row + 1 \in Int
      BY <2>2, <2>3
    <3>. QED  BY <2>2, <2>3, <3>1, BoxedRect
  <2>. QED  BY <2>4 DEF s
<1>6. ASSUME NEW k \in DOMAIN Roots  PROVE Boxed(Hull(Boxes0(Roots[k])), roi)
  <2> DEFINE root == Roots[k]
  <2>1. root \in 1 .. n /\ label[root] = root
    BY <1>3
  <2> HIDE DEF root, label, n, Box
  <2>2. \A r \in Boxes0(root) : Boxed(r, roi)
    BY <1>5
  <2>3. Box(root) \in Boxes0(root)
    BY <2>1
  <2> HIDE DEF Boxes0
  <2>4. Boxes0(root) # {}
    BY <2>3
  <2>5. Boxed(Hull(Boxes0(root)), roi)
    BY <2>2, <2>4, HullBoxed
  <2>. QED  BY <2>5 DEF root
<1>. QED  BY <1>4, <1>6

-----------------------------------------------------------------------------
(* Images.                                                                 *)

Pixels(w, h, format, dpi, ink, tint) ==
  [w |-> w, h |-> h, format |-> format, dpi |-> dpi, ink |-> ink, tint |-> tint]

Reshaped(img, w, h, dpi, ink, tint) ==
  [img EXCEPT !.w = w, !.h = h, !.dpi = dpi, !.ink = ink, !.tint = tint]

LEMMA ImageShape ==
  ASSUME NEW img, IsImage(img)
  PROVE  /\ img = Pixels(img.w, img.h, img.format, img.dpi, img.ink, img.tint)
         /\ DOMAIN img = {"w", "h", "format", "dpi", "ink", "tint"}
         /\ img = [x \in DOMAIN img |-> img[x]]
         /\ img.w \in Nat /\ img.h \in Nat /\ img.format \in Formats
         /\ img.dpi \in [x : Int, y : Int] /\ img.dpi = [x |-> img.dpi.x, y |-> img.dpi.y]
         /\ img.dpi.x \in Int /\ img.dpi.y \in Int
         /\ img.ink \in SUBSET (Int \X Int) /\ img.tint \in SUBSET (Int \X Int)
         /\ img.ink \subseteq RectPixels(FullRect(img)) /\ img.tint \subseteq img.ink
BY DEF IsImage, Pixels

LEMMA SizeTyped ==
  ASSUME NEW img, IsImage(img)
  PROVE  img.w \in Nat /\ img.h \in Nat /\ img.dpi.x \in Int /\ img.dpi.y \in Int
BY ImageShape

LEMMA PixelsTyped ==
  ASSUME NEW w \in Nat, NEW h \in Nat, NEW format \in Formats, NEW dpi \in [x : Int, y : Int],
         NEW ink \in SUBSET RectPixels(Rect(0, 0, w, h)), NEW tint \in SUBSET ink
  PROVE  IsImage(Pixels(w, h, format, dpi, ink, tint))
<1>1. RectPixels(Rect(0, 0, w, h)) \subseteq Int \X Int
  BY DEF RectPixels, Rect
<1>2. FullRect(Pixels(w, h, format, dpi, ink, tint)) = Rect(0, 0, w, h)
  BY DEF FullRect, Pixels
<1>. QED  BY <1>1, <1>2 DEF IsImage, Pixels

\* An image of which every member is replaced, kept or new.
LEMMA Repainted ==
  ASSUME NEW img, IsImage(img), NEW new, DOMAIN new = DOMAIN img,
         new = [x \in DOMAIN new |-> new[x]],
         new.w \in Nat, new.h \in Nat, new.format \in Formats, new.dpi \in [x : Int, y : Int],
         new.ink \subseteq RectPixels(Rect(0, 0, new.w, new.h)), new.tint \subseteq new.ink
  PROVE  IsImage(new)
<1>1. new = Pixels(new.w, new.h, new.format, new.dpi, new.ink, new.tint)
  <2>1. DOMAIN new = {"w", "h", "format", "dpi", "ink", "tint"}
    BY ImageShape
  <2>. QED  BY <2>1 DEF Pixels
<1>2. IsImage(Pixels(new.w, new.h, new.format, new.dpi, new.ink, new.tint))
  BY PixelsTyped
<1>. QED  BY <1>1, <1>2

-----------------------------------------------------------------------------
(* Turns, and a round of opening.                                          *)

\* What a turn does to the coordinates, seen on a set of pixels.
Clockwise(S, h) == { <<h - 1 - p[2], p[1]>> : p \in S }
Counterclockwise(S, w) == { <<p[2], w - 1 - p[1]>> : p \in S }
HalfTurn(S, w, h) == { <<w - 1 - p[1], h - 1 - p[2]>> : p \in S }

LEMMA TurnsOfSets ==
  ASSUME NEW S \in SUBSET (Int \X Int), NEW w \in Int, NEW h \in Int
  PROVE  /\ Counterclockwise(Clockwise(S, h), h) = S
         /\ Clockwise(Clockwise(S, h), w) = HalfTurn(S, w, h)
<1>1. \A p \in S : /\ p[1] \in Int /\ p[2] \in Int
                   /\ p = <<p[1], p[2]>>
                   /\ h - 1 - (h - 1 - p[2]) = p[2]
  OBVIOUS
<1>2. Clockwise(Clockwise(S, h), w) = HalfTurn(S, w, h)
  <2>1. Clockwise(Clockwise(S, h), w)
          = { <<w - 1 - <<h - 1 - p[2], p[1]>>[2], <<h - 1 - p[2], p[1]>>[1]>> : p \in S }
    BY Zenon DEF Clockwise
  <2>2. \A p \in S : <<w - 1 - <<h - 1 - p[2], p[1]>>[2], <<h - 1 - p[2], p[1]>>[1]>>
                       = <<w - 1 - p[1], h - 1 - p[2]>>
    OBVIOUS
  <2>. QED  BY <2>1, <2>2 DEF HalfTurn
<1>3. Counterclockwise(Clockwise(S, h), h) = S
  <2>1. Counterclockwise(Clockwise(S, h), h)
          = { << <<h - 1 - p[2], p[1]>>[2], h - 1 - <<h - 1 - p[2], p[1]>>[1]>> : p \in S }
    BY Zenon DEF Clockwise, Counterclockwise
  <2>2. \A p \in S : << <<h - 1 - p[2], p[1]>>[2], h - 1 - <<h - 1 - p[2], p[1]>>[1]>> = p
    BY <1>1
  <2>. QED  BY <2>1, <2>2
<1>. QED  BY <1>2, <1>3

LEMMA TurnsOfImages ==
  ASSUME NEW w, NEW h, NEW f, NEW d, NEW ink, NEW tint
  PROVE  LET img == Pixels(w, h, f, d, ink, tint)
         IN  /\ RotateCW90(img)
                  = Pixels(h, w, f, Swapped(d), Clockwise(ink, h), Clockwise(tint, h))
             /\ RotateCCW90(img)
                  = Pixels(h, w, f, Swapped(d), Counterclockwise(ink, w), Counterclockwise(tint, w))
             /\ Rotate180(img)
                  = Pixels(w, h, f, d, HalfTurn(ink, w, h), HalfTurn(tint, w, h))
<1> DEFINE img == Pixels(w, h, f, d, ink, tint)
<1>1. /\ img.w = w /\ img.h = h /\ img.format = f /\ img.dpi = d
      /\ img.ink = ink /\ img.tint = tint
  BY DEF Pixels
<1>2. ASSUME NEW w2, NEW h2, NEW d2, NEW k2, NEW t2
      PROVE  Reshaped(img, w2, h2, d2, k2, t2) = Pixels(w2, h2, f, d2, k2, t2)
  <2> DEFINE new == Reshaped(img, w2, h2, d2, k2, t2)
  <2>1. DOMAIN img = {"w", "h", "format", "dpi", "ink", "tint"}
    BY DEF Pixels
  <2> HIDE DEF img
  <2>2. /\ DOMAIN new = {"w", "h", "format", "dpi", "ink", "tint"}
        /\ new = [x \in DOMAIN new |-> new[x]]
    BY <2>1 DEF Reshaped
  <2>3. /\ new.w = w2 /\ new.h = h2 /\ new.format = f /\ new.dpi = d2
        /\ new.ink = k2 /\ new.tint = t2
    BY <1>1, <2>1 DEF Reshaped
  <2> HIDE DEF new
  <2>4. new = Pixels(w2, h2, f, d2, k2, t2)
    BY <2>2, <2>3 DEF Pixels
  <2>. QED  BY <2>4 DEF new
<1> HIDE DEF img
<1>3. RotateCW90(img)
        = Pixels(h, w, f, Swapped(d), Clockwise(ink, h), Clockwise(tint, h))
  <2>1. RotateCW90(img)
          = Reshaped(img, img.h, img.w, Swapped(img.dpi),
                     Clockwise(img.ink, img.h), Clockwise(img.tint, img.h))
    BY DEF RotateCW90, Remap, Clockwise, Reshaped
  <2>. QED  BY <1>1, <1>2, <2>1
<1>4. RotateCCW90(img)
        = Pixels(h, w, f, Swapped(d), Counterclockwise(ink, w), Counterclockwise(tint, w))
  <2>1. RotateCCW90(img)
          = Reshaped(img, img.h, img.w, Swapped(img.dpi),
                     Counterclockwise(img.ink, img.w), Counterclockwise(img.tint, img.w))
    BY DEF RotateCCW90, Remap, Counterclockwise, Reshaped
  <2>. QED  BY <1>1, <1>2, <2>1
<1>5. Rotate180(img)
        = Pixels(w, h, f, d, HalfTurn(ink, w, h), HalfTurn(tint, w, h))
  <2>1. Rotate180(img)
          = Reshaped(img, img.w, img.h, img.dpi,
                     HalfTurn(img.ink, img.w, img.h), HalfTurn(img.tint, img.w, img.h))
    BY DEF Rotate180, Remap, HalfTurn, Reshaped
  <2>. QED  BY <1>1, <1>2, <2>1
<1>. QED  BY <1>3, <1>4, <1>5 DEF img

\* Two quarter turns in opposite directions restore any image, and two in the
\* same direction are the half turn.
THEOREM TurnsCompose ==
  ASSUME NEW img, IsImage(img)
  PROVE  /\ RotateCCW90(RotateCW90(img)) = img
         /\ RotateCW90(RotateCW90(img)) = Rotate180(img)
<1>1. img.ink \in SUBSET (Int \X Int) /\ img.tint \in SUBSET (Int \X Int)
  BY ImageShape
<1> DEFINE turned == Pixels(img.h, img.w, img.format, Swapped(img.dpi),
                            Clockwise(img.ink, img.h), Clockwise(img.tint, img.h))
<1>2. img = Pixels(img.w, img.h, img.format, img.dpi, img.ink, img.tint)
  BY ImageShape
<1>3. Swapped(Swapped(img.dpi)) = img.dpi /\ img.w \in Int /\ img.h \in Int
  BY ImageShape DEF Swapped
<1>4. RotateCW90(img) = turned
  BY <1>2, TurnsOfImages
<1>5. RotateCCW90(turned) = img
  <2>1. RotateCCW90(turned)
          = Pixels(img.w, img.h, img.format, Swapped(Swapped(img.dpi)),
                   Counterclockwise(Clockwise(img.ink, img.h), img.h),
                   Counterclockwise(Clockwise(img.tint, img.h), img.h))
    BY TurnsOfImages
  <2>. QED  BY <1>1, <1>2, <1>3, <2>1, TurnsOfSets
<1>6. RotateCW90(turned) = Rotate180(img)
  <2>1. RotateCW90(turned)
          = Pixels(img.w, img.h, img.format, Swapped(Swapped(img.dpi)),
                   Clockwise(Clockwise(img.ink, img.h), img.w),
                   Clockwise(Clockwise(img.tint, img.h), img.w))
    BY TurnsOfImages
  <2>2. Rotate180(img)
          = Pixels(img.w, img.h, img.format, img.dpi,
                   HalfTurn(img.ink, img.w, img.h), HalfTurn(img.tint, img.w, img.h))
    BY <1>2, TurnsOfImages
  <2>. QED  BY <1>1, <1>3, <2>1, <2>2, TurnsOfSets
<1>. QED  BY <1>4, <1>5, <1>6

\* A round of opening, as MorphOpen runs it with n = 1 on a black and white page.
Opened(img, element) == DilateOnce(ErodeOnce(img, element), element)

Core(S, D) == { p \in S : \A d \in D : <<p[1] + d[1], p[2] + d[2]>> \in S }
Grown(S, D) == { <<p[1] + d[1], p[2] + d[2]>> : p \in S, d \in D }
Round(S, D, canvas) == Grown(Core(S, D), D) \cap canvas

LEMMA RoundRemoves ==
  ASSUME NEW canvas \in SUBSET (Int \X Int), NEW S \in SUBSET canvas,
         NEW D \in SUBSET (Int \X Int), <<0, 0>> \in D
  PROVE  /\ Round(S, D, canvas) \subseteq S
         /\ Round(Round(S, D, canvas), D, canvas) = Round(S, D, canvas)
<1>1. \A T, q : q \in Grown(T, D) <=>
                  \E p \in T, d \in D : q = <<p[1] + d[1], p[2] + d[2]>>
  BY DEF Grown
<1>2. \A T, p : p \in Core(T, D) <=>
                  p \in T /\ \A d \in D : <<p[1] + d[1], p[2] + d[2]>> \in T
  BY DEF Core
<1>3. Round(S, D, canvas) \subseteq S
  BY <1>1, <1>2 DEF Round
<1>4. Core(S, D) \subseteq Core(Round(S, D, canvas), D)
  <2>1. SUFFICES ASSUME NEW p \in Core(S, D)
                 PROVE  p \in Core(Round(S, D, canvas), D)
    OBVIOUS
  <2>2. \A d \in D : <<p[1] + d[1], p[2] + d[2]>> \in Round(S, D, canvas)
    BY <1>1, <1>2 DEF Round
  <2>3. p \in Round(S, D, canvas)
    <3>1. p = <<p[1] + 0, p[2] + 0>>
      BY <1>2
    <3>2. <<p[1] + <<0, 0>>[1], p[2] + <<0, 0>>[2]>> \in Round(S, D, canvas)
      BY <2>2
    <3>. QED  BY <3>1, <3>2
  <2>. QED  BY <1>2, <2>2, <2>3
<1>5. Core(Round(S, D, canvas), D) \subseteq Core(S, D)
  BY <1>2, <1>3
<1>6. Core(Round(S, D, canvas), D) = Core(S, D)
  BY <1>4, <1>5
<1>7. \A T : Round(T, D, canvas) = Grown(Core(T, D), D) \cap canvas
  BY DEF Round
<1>. QED  BY <1>3, <1>6, <1>7

\* Opening with either element removes and never adds, and a second opening
\* finds nothing more to remove.
THEOREM OpeningRemoves ==
  ASSUME NEW img, IsImage(img), NEW element
  PROVE  /\ Opened(img, element).ink \subseteq img.ink
         /\ Opened(Opened(img, element), element) = Opened(img, element)
<1> DEFINE D == Around(element)
           canvas == RectPixels(FullRect(img))
           opened == [img EXCEPT !.ink = Round(img.ink, D, canvas)]
<1>1. ASSUME NEW i, DOMAIN i = DOMAIN img, i = [x \in DOMAIN i |-> i[x]],
             i.w = img.w, i.h = img.h
      PROVE  Opened(i, element) = [i EXCEPT !.ink = Round(i.ink, D, canvas)]
  <2>1. "ink" \in DOMAIN i
    BY <1>1, ImageShape
  <2>2. ErodeOnce(i, element) = [i EXCEPT !.ink = Core(i.ink, D)]
    BY DEF ErodeOnce, Core
  <2>3. RectPixels(FullRect([i EXCEPT !.ink = Core(i.ink, D)])) = canvas
    BY <1>1 DEF RectPixels, FullRect, Rect
  <2>4. [i EXCEPT !.ink = Core(i.ink, D)].ink = Core(i.ink, D)
    BY <2>1
  <2>5. DilateOnce([i EXCEPT !.ink = Core(i.ink, D)], element)
          = [[i EXCEPT !.ink = Core(i.ink, D)] EXCEPT !.ink = Round(i.ink, D, canvas)]
    <3>1. \A j : DilateOnce(j, element)
                   = [j EXCEPT !.ink = Grown(j.ink, D) \cap RectPixels(FullRect(j))]
      BY DEF DilateOnce, Grown
    <3>2. Round(i.ink, D, canvas) = Grown(Core(i.ink, D), D) \cap canvas
      BY DEF Round
    <3>. QED  BY <2>3, <2>4, <3>1, <3>2, Zenon
  <2>6. \A c, r : [[i EXCEPT !.ink = c] EXCEPT !.ink = r] = [i EXCEPT !.ink = r]
    BY <2>1
  <2>. QED  BY <2>2, <2>5, <2>6 DEF Opened
<1>2. /\ DOMAIN img = {"w", "h", "format", "dpi", "ink", "tint"}
      /\ img = [x \in DOMAIN img |-> img[x]]
  BY ImageShape
<1>3. Opened(img, element) = opened
  BY <1>1, <1>2
<1>4. /\ canvas \in SUBSET (Int \X Int) /\ img.ink \in SUBSET canvas
      /\ D \in SUBSET (Int \X Int) /\ <<0, 0>> \in D
  BY DEF IsImage, RectPixels, FullRect, Rect, Around
<1>5. /\ Round(img.ink, D, canvas) \subseteq img.ink
      /\ Round(Round(img.ink, D, canvas), D, canvas) = Round(img.ink, D, canvas)
  BY <1>4, RoundRemoves
<1>6. /\ DOMAIN opened = DOMAIN img /\ opened = [x \in DOMAIN opened |-> opened[x]]
      /\ opened.w = img.w /\ opened.h = img.h /\ opened.ink = Round(img.ink, D, canvas)
  BY <1>2
<1>7. Opened(opened, element) = [opened EXCEPT !.ink = Round(img.ink, D, canvas)]
  BY <1>1, <1>5, <1>6
<1>8. [opened EXCEPT !.ink = Round(img.ink, D, canvas)] = opened
  BY <1>2
<1>. QED  BY <1>3, <1>5, <1>6, <1>7, <1>8

\* A round of closing, which erodes against the border of the image, loses
\* nothing away from the border.
THEOREM ClosingKeeps ==
  ASSUME NEW img, IsImage(img), NEW element
  PROVE  img.ink \cap RectPixels(Rect(1, 1, img.w - 1, img.h - 1))
           \subseteq ErodeOnce(DilateOnce(img, element), element).ink
<1> DEFINE D == Around(element)
           canvas == RectPixels(FullRect(img))
           grown == Grown(img.ink, D) \cap canvas
           dilated == DilateOnce(img, element)
<1>1. dilated = [img EXCEPT !.ink = grown]
  BY DEF DilateOnce, Grown
<1>2. dilated.ink = grown /\ "ink" \in DOMAIN dilated
  <2>1. "ink" \in DOMAIN img
    BY ImageShape
  <2> HIDE DEF grown, dilated
  <2>. QED  BY <1>1, <2>1
<1>3. ErodeOnce(dilated, element).ink = Core(grown, D)
  BY <1>2 DEF ErodeOnce, Core
<1>4. SUFFICES ASSUME NEW p \in img.ink \cap RectPixels(Rect(1, 1, img.w - 1, img.h - 1))
               PROVE  p \in Core(grown, D)
  BY <1>3
<1>5. \A d \in D : <<p[1] + d[1], p[2] + d[2]>> \in canvas
  BY DEF IsImage, Around, RectPixels, FullRect, Rect
<1>6. \A d \in D : <<p[1] + d[1], p[2] + d[2]>> \in grown
  BY <1>5 DEF Grown
<1>7. p \in grown
  <2>1. <<0, 0>> \in D /\ p = <<p[1] + 0, p[2] + 0>>
    BY DEF Around, IsImage, RectPixels, FullRect, Rect
  <2>2. <<p[1] + <<0, 0>>[1], p[2] + <<0, 0>>[2]>> \in grown
    BY <1>6, <2>1
  <2>. QED  BY <2>1, <2>2
<1>. QED  BY <1>6, <1>7 DEF Core

\* Once repeated, dilation and erosion are what they are once.
LEMMA OneRound ==
  ASSUME NEW img, img.format = "BW1", NEW element
  PROVE  /\ Dilate(img, element, 1) = DilateOnce(img, element)
         /\ Erode(img, element, 1) = ErodeOnce(img, element)
<1>1. Dilate(img, element, 1) = DilateOnce(img, element)
  <2> DEFINE Rounds(f) == [k \in 0 .. 1 |-> IF k = 0 THEN img ELSE DilateOnce(f[k - 1], element)]
             after == CHOOSE f : f = Rounds(f)
             first == [k \in 0 .. 1 |-> IF k = 0 THEN img ELSE DilateOnce(img, element)]
  <2>1. Dilate(img, element, 1) = after[1]
    BY DEF Dilate, Repeat
  <2>2. first = Rounds(first)
    <3>1. \A k \in 0 .. 1 : k = 0 \/ (k = 1 /\ k - 1 = 0)
      OBVIOUS
    <3>2. first[0] = img
      OBVIOUS
    <3> DEFINE d == DilateOnce(img, element)
    <3>3. \A k \in 0 .. 1 : Rounds(first)[k] = IF k = 0 THEN img ELSE DilateOnce(first[k - 1], element)
      OBVIOUS
    <3>4. \A k \in 0 .. 1 : Rounds(first)[k] = first[k]
      BY <3>1, <3>2, <3>3
    <3>. QED  BY <3>4
  <2>3. after = Rounds(after)
    BY <2>2, Zenon
  <2> HIDE DEF after
  <2>4. after[0] = img
    BY <2>3
  <2>5. after[1] = DilateOnce(after[0], element)
    BY <2>3
  <2>. QED  BY <2>1, <2>4, <2>5
<1>2. Erode(img, element, 1) = ErodeOnce(img, element)
  <2> DEFINE Rounds(f) == [k \in 0 .. 1 |-> IF k = 0 THEN img ELSE ErodeOnce(f[k - 1], element)]
             after == CHOOSE f : f = Rounds(f)
             first == [k \in 0 .. 1 |-> IF k = 0 THEN img ELSE ErodeOnce(img, element)]
  <2>1. Erode(img, element, 1) = after[1]
    BY DEF Erode, Repeat
  <2>2. first = Rounds(first)
    <3>1. \A k \in 0 .. 1 : k = 0 \/ (k = 1 /\ k - 1 = 0)
      OBVIOUS
    <3>2. first[0] = img
      OBVIOUS
    <3>3. \A k \in 0 .. 1 : Rounds(first)[k] = IF k = 0 THEN img ELSE ErodeOnce(first[k - 1], element)
      OBVIOUS
    <3>4. \A k \in 0 .. 1 : Rounds(first)[k] = first[k]
      BY <3>1, <3>2, <3>3
    <3>. QED  BY <3>4
  <2>3. after = Rounds(after)
    BY <2>2, Zenon
  <2> HIDE DEF after
  <2>4. after[0] = img
    BY <2>3
  <2>5. after[1] = ErodeOnce(after[0], element)
    BY <2>3
  <2>. QED  BY <2>1, <2>4, <2>5
<1>. QED  BY <1>1, <1>2

\* Opening and closing a black and white page once; other pages are left alone.
LEMMA RoundsOfPages ==
  ASSUME NEW img, NEW element
  PROVE  /\ img.format = "BW1" =>
              /\ MorphOpen(img, element, 1) = Opened(img, element)
              /\ MorphOpen(Opened(img, element), element, 1)
                   = Opened(Opened(img, element), element)
              /\ MorphClose(img, element, 1) = ErodeOnce(DilateOnce(img, element), element)
         /\ img.format # "BW1" => MorphOpen(img, element, 1) = img
<1>1. \A i : i.format = "BW1" => DilateOnce(i, element).format = "BW1"
                               /\ ErodeOnce(i, element).format = "BW1"
  BY DEF DilateOnce, ErodeOnce
<1>2. ASSUME NEW i, i.format = "BW1"
      PROVE  /\ MorphOpen(i, element, 1) = Opened(i, element)
             /\ MorphClose(i, element, 1) = ErodeOnce(DilateOnce(i, element), element)
             /\ Opened(i, element).format = "BW1"
  <2>1. /\ Erode(i, element, 1) = ErodeOnce(i, element)
        /\ Dilate(i, element, 1) = DilateOnce(i, element)
    BY <1>2, OneRound
  <2>2. /\ Dilate(ErodeOnce(i, element), element, 1) = DilateOnce(ErodeOnce(i, element), element)
        /\ Erode(DilateOnce(i, element), element, 1) = ErodeOnce(DilateOnce(i, element), element)
    BY <1>1, <1>2, OneRound
  <2>. QED  BY <1>1, <1>2, <2>1, <2>2 DEF MorphOpen, MorphClose, Opened
<1>3. img.format # "BW1" => MorphOpen(img, element, 1) = img
  BY DEF MorphOpen, Dilate, Erode
<1>. QED  BY <1>2, <1>3

-----------------------------------------------------------------------------
(* What the operations make of an image is an image.                       *)

LEMMA NoImageTyped == IsImage(NoImage) /\ IsEmptyImage(NoImage)
BY DEF IsImage, NoImage, Image, Formats, IsEmptyImage

LEMMA BlankTyped ==
  ASSUME NEW w \in Nat, NEW h \in Nat, NEW format \in Formats, NEW dpi \in [x : Int, y : Int]
  PROVE  /\ IsImage(Image(w, h, format, dpi))
         /\ Image(w, h, format, dpi).w = w /\ Image(w, h, format, dpi).h = h
         /\ Image(w, h, format, dpi).format = format /\ Image(w, h, format, dpi).dpi = dpi
         /\ Image(w, h, format, dpi).ink = {}
<1>1. Image(w, h, format, dpi) = Pixels(w, h, format, dpi, {}, {})
  BY DEF Image, Pixels
<1>2. IsImage(Pixels(w, h, format, dpi, {}, {}))
  BY PixelsTyped
<1>. QED  BY <1>1, <1>2 DEF Pixels

LEMMA TurnedInside ==
  ASSUME NEW w \in Nat, NEW h \in Nat, NEW S \in SUBSET RectPixels(Rect(0, 0, w, h))
  PROVE  /\ Clockwise(S, h) \subseteq RectPixels(Rect(0, 0, h, w))
         /\ Counterclockwise(S, w) \subseteq RectPixels(Rect(0, 0, h, w))
         /\ HalfTurn(S, w, h) \subseteq RectPixels(Rect(0, 0, w, h))
<1>1. \A a, b : RectPixels(Rect(0, 0, a, b)) = (0 .. a - 1) \X (0 .. b - 1)
  BY DEF RectPixels, Rect
<1>2. \A p \in S : p[1] \in 0 .. w - 1 /\ p[2] \in 0 .. h - 1
  BY <1>1
<1>3. \A p \in S : /\ <<h - 1 - p[2], p[1]>> \in (0 .. h - 1) \X (0 .. w - 1)
                   /\ <<p[2], w - 1 - p[1]>> \in (0 .. h - 1) \X (0 .. w - 1)
                   /\ <<w - 1 - p[1], h - 1 - p[2]>> \in (0 .. w - 1) \X (0 .. h - 1)
  BY <1>2
<1>4. Clockwise(S, h) \subseteq (0 .. h - 1) \X (0 .. w - 1)
  BY <1>3 DEF Clockwise
<1>5. Counterclockwise(S, w) \subseteq (0 .. h - 1) \X (0 .. w - 1)
  BY <1>3 DEF Counterclockwise
<1>6. HalfTurn(S, w, h) \subseteq (0 .. w - 1) \X (0 .. h - 1)
  BY <1>3 DEF HalfTurn
<1>. QED  BY <1>1, <1>4, <1>5, <1>6

LEMMA TurnsTyped ==
  ASSUME NEW img, IsImage(img)
  PROVE  /\ IsImage(RotateCW90(img)) /\ IsImage(RotateCCW90(img)) /\ IsImage(Rotate180(img))
         /\ RotateCW90(img).w = img.h /\ RotateCW90(img).h = img.w
         /\ RotateCW90(img).dpi = Swapped(img.dpi)
         /\ RotateCCW90(img).w = img.h /\ RotateCCW90(img).h = img.w
         /\ RotateCCW90(img).dpi = Swapped(img.dpi)
         /\ Rotate180(img).w = img.w /\ Rotate180(img).h = img.h
         /\ Rotate180(img).dpi = img.dpi
<1> DEFINE w == img.w
           h == img.h
<1>1. /\ img = Pixels(w, h, img.format, img.dpi, img.ink, img.tint)
      /\ w \in Nat /\ h \in Nat /\ img.format \in Formats /\ img.dpi \in [x : Int, y : Int]
      /\ img.ink \in SUBSET RectPixels(Rect(0, 0, w, h)) /\ img.tint \in SUBSET img.ink
      /\ img.tint \in SUBSET RectPixels(Rect(0, 0, w, h))
  BY ImageShape DEF FullRect
<1>2. Swapped(img.dpi) \in [x : Int, y : Int]
  BY <1>1 DEF Swapped
<1> HIDE DEF w, h
<1>3. /\ Clockwise(img.ink, h) \in SUBSET RectPixels(Rect(0, 0, h, w))
      /\ Clockwise(img.tint, h) \in SUBSET Clockwise(img.ink, h)
  BY <1>1, TurnedInside DEF Clockwise
<1>4. /\ Counterclockwise(img.ink, w) \in SUBSET RectPixels(Rect(0, 0, h, w))
      /\ Counterclockwise(img.tint, w) \in SUBSET Counterclockwise(img.ink, w)
  BY <1>1, TurnedInside DEF Counterclockwise
<1>5. /\ HalfTurn(img.ink, w, h) \in SUBSET RectPixels(Rect(0, 0, w, h))
      /\ HalfTurn(img.tint, w, h) \in SUBSET HalfTurn(img.ink, w, h)
  BY <1>1, TurnedInside DEF HalfTurn
<1>6. /\ RotateCW90(img) = Pixels(h, w, img.format, Swapped(img.dpi),
                                  Clockwise(img.ink, h), Clockwise(img.tint, h))
      /\ RotateCCW90(img) = Pixels(h, w, img.format, Swapped(img.dpi),
                                   Counterclockwise(img.ink, w), Counterclockwise(img.tint, w))
      /\ Rotate180(img) = Pixels(w, h, img.format, img.dpi,
                                 HalfTurn(img.ink, w, h), HalfTurn(img.tint, w, h))
  BY <1>1, TurnsOfImages
<1>7. IsImage(RotateCW90(img))
  BY <1>1, <1>2, <1>3, <1>6, PixelsTyped
<1>8. IsImage(RotateCCW90(img))
  BY <1>1, <1>2, <1>4, <1>6, PixelsTyped
<1>9. IsImage(Rotate180(img))
  BY <1>1, <1>5, <1>6, PixelsTyped
<1>10. \A a, b, f, d, k, t : /\ Pixels(a, b, f, d, k, t).w = a /\ Pixels(a, b, f, d, k, t).h = b
                            /\ Pixels(a, b, f, d, k, t).dpi = d
  BY DEF Pixels
<1>. QED  BY <1>6, <1>7, <1>8, <1>9, <1>10 DEF w, h

LEMMA ClearedTyped ==
  ASSUME NEW img, IsImage(img), NEW rects
  PROVE  LET new == Cleared(img, rects)
         IN  /\ IsImage(new)
             /\ new.w = img.w /\ new.h = img.h /\ new.format = img.format /\ new.dpi = img.dpi
             /\ new.ink = img.ink \ UNION { RectPixels(r) : r \in rects }
<1> DEFINE area == UNION { RectPixels(r) : r \in rects }
           new == Cleared(img, rects)
<1>1. new = [img EXCEPT !.ink = img.ink \ area, !.tint = img.tint \ area]
  BY DEF Cleared
<1>2. /\ DOMAIN img = {"w", "h", "format", "dpi", "ink", "tint"}
      /\ img = [x \in DOMAIN img |-> img[x]]
      /\ img.w \in Nat /\ img.h \in Nat /\ img.format \in Formats
      /\ img.dpi \in [x : Int, y : Int]
      /\ img.ink \subseteq RectPixels(Rect(0, 0, img.w, img.h)) /\ img.tint \subseteq img.ink
  BY ImageShape DEF FullRect
<1> HIDE DEF area, new
<1>3. /\ DOMAIN new = DOMAIN img /\ new = [x \in DOMAIN new |-> new[x]]
      /\ new.w = img.w /\ new.h = img.h /\ new.format = img.format /\ new.dpi = img.dpi
      /\ new.ink = img.ink \ area /\ new.tint = img.tint \ area
  BY <1>1, <1>2
<1>4. new.ink \subseteq RectPixels(Rect(0, 0, new.w, new.h)) /\ new.tint \subseteq new.ink
  BY <1>2, <1>3
<1>5. IsImage(new)
  BY <1>2, <1>3, <1>4, Repainted
<1>. QED  BY <1>3, <1>5 DEF area, new

LEMMA DropoutTyped ==
  ASSUME NEW img, IsImage(img), NEW config
  PROVE  LET new == ColorDropout(img, config)
         IN  IsImage(new) /\ new.w = img.w /\ new.h = img.h /\ new.dpi = img.dpi
<1> DEFINE new == [img EXCEPT !.ink = img.ink \ img.tint, !.tint = {}]
<1>1. /\ DOMAIN img = {"w", "h", "format", "dpi", "ink", "tint"}
      /\ img = [x \in DOMAIN img |-> img[x]]
      /\ img.w \in Nat /\ img.h \in Nat /\ img.format \in Formats
      /\ img.dpi \in [x : Int, y : Int]
      /\ img.ink \subseteq RectPixels(Rect(0, 0, img.w, img.h)) /\ img.tint \subseteq img.ink
  BY ImageShape DEF FullRect
<1>2. ColorDropout(img, config) = img \/ ColorDropout(img, config) = new
  BY DEF ColorDropout
<1>3. /\ DOMAIN new = DOMAIN img /\ new = [x \in DOMAIN new |-> new[x]]
      /\ new.w = img.w /\ new.h = img.h /\ new.format = img.format /\ new.dpi = img.dpi
      /\ new.ink = img.ink \ img.tint /\ new.tint = {}
  BY <1>1
<1> HIDE DEF new
<1>4. new.ink \subseteq RectPixels(Rect(0, 0, new.w, new.h)) /\ new.tint \subseteq new.ink
  BY <1>1, <1>3
<1>5. IsImage(new)
  BY <1>1, <1>3, <1>4, Repainted
<1>. QED  BY <1>2, <1>3, <1>5

LEMMA FullTyped ==
  ASSUME NEW img, IsImage(img)
  PROVE  /\ FullRect(img) \in Rects
         /\ FullRect(img).left = 0 /\ FullRect(img).top = 0
         /\ FullRect(img).right = img.w /\ FullRect(img).bottom = img.h
         /\ ~IsEmptyImage(img) => Boxed(FullRect(img), FullRect(img))
         /\ IsEmptyImage(img) \/ (img.w > 0 /\ img.h > 0)
<1> DEFINE full == FullRect(img)
<1>1. img.w \in Nat /\ img.h \in Nat
  BY ImageShape
<1>2. full \in Rects /\ full.left = 0 /\ full.top = 0 /\ full.right = img.w /\ full.bottom = img.h
  BY <1>1, RectTyped DEF FullRect
<1> HIDE DEF full
<1>3. IsEmptyImage(img) \/ (img.w > 0 /\ img.h > 0)
  BY <1>1 DEF IsEmptyImage
<1>4. ~IsEmptyImage(img) => Boxed(full, full)
  BY <1>1, <1>2, <1>3 DEF Boxed, IsEmptyRect, Inside
<1>. QED  BY <1>2, <1>3, <1>4 DEF full

LEMMA BoxedShape ==
  ASSUME NEW outer \in Rects, NEW r, Boxed(r, outer)
  PROVE  /\ r = Rect(r.left, r.top, r.right, r.bottom)
         /\ r.left \in Int /\ r.top \in Int /\ r.right \in Int /\ r.bottom \in Int
         /\ outer.left <= r.left /\ r.left < r.right /\ r.right <= outer.right
         /\ outer.top <= r.top /\ r.top < r.bottom /\ r.bottom <= outer.bottom
         /\ Width(r) = r.right - r.left /\ Height(r) = r.bottom - r.top
<1>1. /\ r.left \in Int /\ r.top \in Int /\ r.right \in Int /\ r.bottom \in Int
      /\ outer.left \in Int /\ outer.top \in Int /\ outer.right \in Int /\ outer.bottom \in Int
      /\ r = Rect(r.left, r.top, r.right, r.bottom)
  BY DEF Boxed, Rects, Rect
<1>. QED  BY <1>1 DEF Boxed, IsEmptyRect, Inside, Width, Height

\* A region of an image that lies in it.
LEMMA CropInside ==
  ASSUME NEW img, IsImage(img), NEW r, Boxed(r, FullRect(img))
  PROVE  LET new == Crop(img, r.left, r.top, Width(r), Height(r))
         IN  /\ new.w = Width(r) /\ new.h = Height(r)
             /\ \A p \in Int \X Int :
                   p \in new.ink <=> /\ p \in RectPixels(Rect(0, 0, Width(r), Height(r)))
                                    /\ <<p[1] + r.left, p[2] + r.top>> \in img.ink
<1> DEFINE Cut(S) == { <<p[1] - r.left, p[2] - r.top>> : p \in S \cap RectPixels(r) }
           new == [img EXCEPT !.w = Width(r), !.h = Height(r),
                              !.ink = Cut(img.ink), !.tint = Cut(img.tint)]
<1>1. /\ r.left \in Int /\ r.top \in Int /\ r.right \in Int /\ r.bottom \in Int
      /\ 0 <= r.left /\ r.left < r.right /\ r.right <= img.w
      /\ 0 <= r.top /\ r.top < r.bottom /\ r.bottom <= img.h
      /\ img.w \in Nat /\ img.h \in Nat
      /\ r = Rect(r.left, r.top, r.right, r.bottom)
  <2>1. r = Rect(r.left, r.top, r.right, r.bottom)
    BY FullTyped, BoxedShape
  <2>2. /\ r.left \in Int /\ r.top \in Int /\ r.right \in Int /\ r.bottom \in Int
        /\ 0 <= r.left /\ r.left < r.right /\ r.right <= img.w
        /\ 0 <= r.top /\ r.top < r.bottom /\ r.bottom <= img.h
    BY FullTyped, BoxedShape
  <2>. QED  BY <2>1, <2>2, ImageShape
<1>2. /\ Max({r.left, 0}) = r.left /\ Max({r.top, 0}) = r.top
      /\ Min({r.right - r.left, img.w - r.left}) = r.right - r.left
      /\ Min({r.bottom - r.top, img.h - r.top}) = r.bottom - r.top
  <2>1. \A a, b \in Int : b <= a => Max({a, b}) = a
    BY OfTwo
  <2>2. Max({r.left, 0}) = r.left /\ Max({r.top, 0}) = r.top
    BY <1>1, <2>1
  <2>3. \A a, b \in Int : a <= b => Min({a, b}) = a
    BY OfTwo
  <2>4. /\ r.right - r.left \in Int /\ img.w - r.left \in Int
        /\ r.right - r.left <= img.w - r.left
    BY <1>1
  <2>5. /\ r.bottom - r.top \in Int /\ img.h - r.top \in Int
        /\ r.bottom - r.top <= img.h - r.top
    BY <1>1
  <2>. QED  BY <2>1, <2>2, <2>3, <2>4, <2>5
<1>3. /\ r.left + (r.right - r.left) = r.right /\ r.top + (r.bottom - r.top) = r.bottom
      /\ ~(r.right - r.left <= 0) /\ ~(r.bottom - r.top <= 0)
  BY <1>1
<1>4. Crop(img, r.left, r.top, Width(r), Height(r)) = new
  <2>1. Rect(r.left, r.top, r.left + Width(r), r.top + Height(r)) = r
    BY <1>1, <1>3 DEF Width, Height
  <2>2. /\ Width(r) = r.right - r.left /\ Height(r) = r.bottom - r.top
        /\ ~(Width(r) <= 0) /\ ~(Height(r) <= 0)
    BY <1>3 DEF Width, Height
  <2>3. /\ Max({r.left, 0}) = r.left /\ Max({r.top, 0}) = r.top
        /\ Min({Width(r), img.w - r.left}) = Width(r)
        /\ Min({Height(r), img.h - r.top}) = Height(r)
    BY <1>2, <2>2
  <2>. QED  BY <2>1, <2>2, <2>3, Zenon DEF Crop
<1>5. DOMAIN img = {"w", "h", "format", "dpi", "ink", "tint"} /\ img.ink \in SUBSET (Int \X Int)
  BY ImageShape
<1>6. new.w = Width(r) /\ new.h = Height(r) /\ new.ink = Cut(img.ink)
  BY <1>5
<1>7. ASSUME NEW p \in Int \X Int
      PROVE  p \in Cut(img.ink) <=> /\ p \in RectPixels(Rect(0, 0, Width(r), Height(r)))
                                   /\ <<p[1] + r.left, p[2] + r.top>> \in img.ink
  <2> DEFINE q == <<p[1] + r.left, p[2] + r.top>>
  <2>1. q \in RectPixels(r) <=> p \in RectPixels(Rect(0, 0, Width(r), Height(r)))
    BY <1>1 DEF RectPixels, Rect, Width, Height
  <2>2. p = <<q[1] - r.left, q[2] - r.top>>
    BY <1>1
  <2>3. \A s \in img.ink : p = <<s[1] - r.left, s[2] - r.top>> => s = q
    BY <1>1, <1>5
  <2> HIDE DEF q
  <2>. QED  BY <2>1, <2>2, <2>3 DEF q
<1> HIDE DEF new, Cut
<1>. QED  BY <1>4, <1>6, <1>7

LEMMA CutInside ==
  ASSUME NEW S \in SUBSET (Int \X Int), NEW x \in Int, NEW y \in Int, NEW w \in Int, NEW h \in Int
  PROVE  { <<p[1] - x, p[2] - y>> : p \in S \cap RectPixels(Rect(x, y, x + w, y + h)) }
           \subseteq RectPixels(Rect(0, 0, w, h))
<1>1. RectPixels(Rect(0, 0, w, h)) = (0 .. w - 1) \X (0 .. h - 1)
  BY DEF RectPixels, Rect
<1>2. RectPixels(Rect(x, y, x + w, y + h)) = (x .. x + w - 1) \X (y .. y + h - 1)
  BY DEF RectPixels, Rect
<1>3. \A p \in S \cap RectPixels(Rect(x, y, x + w, y + h)) :
        <<p[1] - x, p[2] - y>> \in (0 .. w - 1) \X (0 .. h - 1)
  BY <1>2
<1>. QED  BY <1>1, <1>3

LEMMA CropTyped ==
  ASSUME NEW img, IsImage(img), NEW x0 \in Int, NEW y0 \in Int, NEW w0 \in Int, NEW h0 \in Int
  PROVE  IsImage(Crop(img, x0, y0, w0, h0))
<1> DEFINE x == Max({x0, 0})
           y == Max({y0, 0})
           w == Min({w0, img.w - x})
           h == Min({h0, img.h - y})
           Cut(S) == { <<p[1] - x, p[2] - y>> : p \in S \cap RectPixels(Rect(x, y, x + w, y + h)) }
           new == [img EXCEPT !.w = w, !.h = h, !.ink = Cut(img.ink), !.tint = Cut(img.tint)]
<1>1. Crop(img, x0, y0, w0, h0) = IF w <= 0 \/ h <= 0 THEN NoImage ELSE new
  BY DEF Crop
<1>2. x \in Int /\ y \in Int
  <2>1. 0 \in Int
    OBVIOUS
  <2>. QED  BY <2>1, OfTwo
<1>3. w \in Int /\ h \in Int
  <2> HIDE DEF x, y
  <2>1. img.w - x \in Int /\ img.h - y \in Int
    BY <1>2, SizeTyped
  <2>2. \A a, b \in Int : Min({a, b}) \in Int
    BY OfTwo
  <2>. QED  BY <2>1, <2>2
<1> HIDE DEF x, y, w, h
<1>4. /\ DOMAIN img = {"w", "h", "format", "dpi", "ink", "tint"}
      /\ img = [k \in DOMAIN img |-> img[k]]
      /\ img.format \in Formats /\ img.dpi \in [x : Int, y : Int]
      /\ img.ink \in SUBSET (Int \X Int) /\ img.tint \subseteq img.ink
  BY ImageShape
<1>5. Cut(img.ink) \subseteq RectPixels(Rect(0, 0, w, h))
  BY <1>2, <1>3, <1>4, CutInside
<1>6. Cut(img.tint) \subseteq Cut(img.ink)
  BY <1>4
<1> HIDE DEF Cut
<1>7. /\ DOMAIN new = DOMAIN img /\ new = [k \in DOMAIN new |-> new[k]]
      /\ new.w = w /\ new.h = h /\ new.format = img.format /\ new.dpi = img.dpi
      /\ new.ink = Cut(img.ink) /\ new.tint = Cut(img.tint)
  BY <1>4
<1> HIDE DEF new
<1>8. CASE ~(w <= 0 \/ h <= 0)
  <2>1. w \in Nat /\ h \in Nat
    BY <1>3, <1>8
  <2>2. IsImage(new)
    BY <1>4, <1>5, <1>6, <1>7, <2>1, Repainted
  <2>. QED  BY <1>1, <1>8, <2>2
<1>. QED  BY <1>1, <1>8, NoImageTyped

LEMMA OffsetTyped ==
  ASSUME NEW r \in Rects, NEW dx \in Int, NEW dy \in Int
  PROVE  /\ Offset(r, dx, dy) \in Rects
         /\ Offset(r, dx, dy).left = r.left + dx /\ Offset(r, dx, dy).top = r.top + dy
         /\ Offset(r, dx, dy).right = r.right + dx /\ Offset(r, dx, dy).bottom = r.bottom + dy
<1>1. /\ r.left + dx \in Int /\ r.top + dy \in Int
      /\ r.right + dx \in Int /\ r.bottom + dy \in Int
  BY DEF Rects
<1> DEFINE l == r.left + dx
           t == r.top + dy
           e == r.right + dx
           b == r.bottom + dy
           R == Rect(l, t, e, b)
<1>2. Offset(r, dx, dy) = R
  BY DEF Offset
<1>3. l \in Int /\ t \in Int /\ e \in Int /\ b \in Int
  BY <1>1
<1> HIDE DEF l, t, e, b
<1>4. R \in Rects /\ R.left = l /\ R.top = t /\ R.right = e /\ R.bottom = b
  BY <1>3, RectTyped
<1>. QED  BY <1>2, <1>4 DEF l, t, e, b

LEMMA PixelOf ==
  ASSUME NEW r \in Rects, NEW p \in Int \X Int
  PROVE  p \in RectPixels(r) <=> /\ r.left <= p[1] /\ p[1] < r.right
                                /\ r.top <= p[2] /\ p[2] < r.bottom
BY DEF RectPixels, Rects

LEMMA IntersectionPixels ==
  ASSUME NEW a \in Rects, NEW b \in Rects, NEW p \in Int \X Int
  PROVE  p \in RectPixels(Intersection(a, b)) <=> p \in RectPixels(a) /\ p \in RectPixels(b)
<1> DEFINE l == Max({a.left, b.left})
           t == Max({a.top, b.top})
           r == Min({a.right, b.right})
           m == Min({a.bottom, b.bottom})
           R == Rect(l, t, r, m)
<1>1. /\ a.left \in Int /\ a.top \in Int /\ a.right \in Int /\ a.bottom \in Int
      /\ b.left \in Int /\ b.top \in Int /\ b.right \in Int /\ b.bottom \in Int
  BY DEF Rects
<1>2. \A u, v \in Int : /\ Max({u, v}) \in Int /\ Min({u, v}) \in Int
                        /\ \A x \in Int : Max({u, v}) <= x <=> u <= x /\ v <= x
                        /\ \A x \in Int : x < Min({u, v}) <=> x < u /\ x < v
  <2>1. SUFFICES ASSUME NEW u \in Int, NEW v \in Int
                 PROVE  /\ Max({u, v}) \in Int /\ Min({u, v}) \in Int
                        /\ \A x \in Int : Max({u, v}) <= x <=> u <= x /\ v <= x
                        /\ \A x \in Int : x < Min({u, v}) <=> x < u /\ x < v
    OBVIOUS
  <2>2. /\ Min({u, v}) = IF u <= v THEN u ELSE v
        /\ Max({u, v}) = IF u <= v THEN v ELSE u
    BY OfTwo
  <2>. QED  BY <2>2
<1>3. Intersection(a, b) = IF IsEmptyRect(R) THEN NoRect ELSE R
  BY DEF Intersection
<1>4. l \in Int /\ t \in Int /\ r \in Int /\ m \in Int
  BY <1>1, <1>2
<1>5. /\ l <= p[1] <=> a.left <= p[1] /\ b.left <= p[1]
      /\ t <= p[2] <=> a.top <= p[2] /\ b.top <= p[2]
      /\ p[1] < r <=> p[1] < a.right /\ p[1] < b.right
      /\ p[2] < m <=> p[2] < a.bottom /\ p[2] < b.bottom
  <2>1. p[1] \in Int /\ p[2] \in Int
    OBVIOUS
  <2>2. l <= p[1] <=> a.left <= p[1] /\ b.left <= p[1]
    BY <1>1, <1>2, <2>1
  <2>3. t <= p[2] <=> a.top <= p[2] /\ b.top <= p[2]
    BY <1>1, <1>2, <2>1
  <2>4. p[1] < r <=> p[1] < a.right /\ p[1] < b.right
    BY <1>1, <1>2, <2>1
  <2>5. p[2] < m <=> p[2] < a.bottom /\ p[2] < b.bottom
    BY <1>1, <1>2, <2>1
  <2>. QED  BY <2>2, <2>3, <2>4, <2>5
<1> HIDE DEF l, t, r, m
<1>6. R \in Rects /\ R.left = l /\ R.top = t /\ R.right = r /\ R.bottom = m
  BY <1>4, RectTyped
<1> HIDE DEF R
<1>7. p \in RectPixels(R) <=> p \in RectPixels(a) /\ p \in RectPixels(b)
  BY <1>5, <1>6, PixelOf
<1>8. IsEmptyRect(R) => p \notin RectPixels(R)
  BY <1>4, <1>6, PixelOf DEF IsEmptyRect
<1>9. p \notin RectPixels(NoRect)
  BY DEF RectPixels, NoRect, Rect
<1>. QED  BY <1>3, <1>7, <1>8, <1>9

\* What a copy leaves of the target: where the source falls, the source.
LEMMA BlitTyped ==
  ASSUME NEW dst, IsImage(dst), NEW src, IsImage(src), NEW dx \in Int, NEW dy \in Int
  PROVE  LET new == Blit(dst, src, dx, dy)
         IN  /\ IsImage(new)
             /\ new.w = dst.w /\ new.h = dst.h /\ new.format = dst.format /\ new.dpi = dst.dpi
             /\ \A p \in RectPixels(FullRect(dst)) :
                  p \in new.ink <=>
                    LET q == <<p[1] - dx, p[2] - dy>>
                    IN  IF q \in RectPixels(FullRect(src)) THEN q \in src.ink ELSE p \in dst.ink
<1> DEFINE target == RectPixels(Intersection(FullRect(dst), Offset(FullRect(src), dx, dy)))
           Moved(S) == { <<p[1] + dx, p[2] + dy>> : p \in S } \cap target
           canvas == RectPixels(FullRect(dst))
           source == RectPixels(FullRect(src))
           new == [dst EXCEPT !.ink = (dst.ink \ target) \cup Moved(src.ink),
                              !.tint = (dst.tint \ target) \cup Moved(src.tint)]
<1>1. Blit(dst, src, dx, dy) = IF IsEmptyImage(src) \/ IsEmptyImage(dst) THEN dst ELSE new
  BY DEF Blit
<1>2. /\ DOMAIN dst = {"w", "h", "format", "dpi", "ink", "tint"}
      /\ dst = [k \in DOMAIN dst |-> dst[k]]
      /\ dst.w \in Nat /\ dst.h \in Nat /\ dst.format \in Formats
      /\ dst.dpi \in [x : Int, y : Int]
      /\ dst.ink \in SUBSET (Int \X Int) /\ dst.tint \subseteq dst.ink /\ dst.ink \subseteq canvas
  BY ImageShape
<1>3. src.ink \in SUBSET (Int \X Int) /\ src.tint \subseteq src.ink /\ src.ink \subseteq source
  BY ImageShape
<1>4. canvas \subseteq Int \X Int /\ source \subseteq Int \X Int
  BY ImageShape DEF RectPixels, FullRect, Rect
<1>5. \A p \in Int \X Int : p \in target <=> p \in canvas /\ <<p[1] - dx, p[2] - dy>> \in source
  <2>1. SUFFICES ASSUME NEW p \in Int \X Int
                 PROVE  p \in target <=> p \in canvas /\ <<p[1] - dx, p[2] - dy>> \in source
    OBVIOUS
  <2> DEFINE O == Offset(FullRect(src), dx, dy)
             q == <<p[1] - dx, p[2] - dy>>
  <2>2. /\ O \in Rects /\ O.left = dx /\ O.top = dy
        /\ O.right = src.w + dx /\ O.bottom = src.h + dy
    BY FullTyped, OffsetTyped
  <2>3. p \in target <=> p \in canvas /\ p \in RectPixels(O)
    BY <2>2, FullTyped, IntersectionPixels
  <2>4. src.w \in Int /\ src.h \in Int
    BY SizeTyped
  <2>5. q \in Int \X Int /\ q[1] = p[1] - dx /\ q[2] = p[2] - dy
    OBVIOUS
  <2> HIDE DEF O, q
  <2>6. p \in RectPixels(O) <=> /\ dx <= p[1] /\ p[1] < src.w + dx
                               /\ dy <= p[2] /\ p[2] < src.h + dy
    BY <2>2, PixelOf
  <2>7. q \in source <=> 0 <= q[1] /\ q[1] < src.w /\ 0 <= q[2] /\ q[2] < src.h
    BY <2>5, FullTyped, PixelOf
  <2>8. p \in RectPixels(O) <=> q \in source
    BY <2>4, <2>5, <2>6, <2>7
  <2>. QED  BY <2>3, <2>8 DEF q
<1>6. target \subseteq canvas
  <2>1. target \subseteq Int \X Int
    <3>1. Intersection(FullRect(dst), Offset(FullRect(src), dx, dy)) \in Rects
      <4>1. Offset(FullRect(src), dx, dy) \in Rects /\ FullRect(dst) \in Rects
        BY FullTyped, OffsetTyped
      <4>2. \A a, b \in Rects : Intersection(a, b) \in Rects
        <5>1. SUFFICES ASSUME NEW a \in Rects, NEW b \in Rects  PROVE Intersection(a, b) \in Rects
          OBVIOUS
        <5>2. /\ a.left \in Int /\ a.top \in Int /\ a.right \in Int /\ a.bottom \in Int
              /\ b.left \in Int /\ b.top \in Int /\ b.right \in Int /\ b.bottom \in Int
          BY DEF Rects
        <5>3. \A u, v \in Int : Min({u, v}) \in Int /\ Max({u, v}) \in Int
          BY OfTwo
        <5>4. /\ Max({a.left, b.left}) \in Int /\ Max({a.top, b.top}) \in Int
              /\ Min({a.right, b.right}) \in Int /\ Min({a.bottom, b.bottom}) \in Int
          BY <5>2, <5>3
        <5>5. NoRect \in Rects
          BY DEF NoRect, Rect, Rects
        <5>. QED  BY <5>4, <5>5, RectTyped DEF Intersection
      <4>. QED  BY <4>1, <4>2
    <3>. QED  BY <3>1 DEF RectPixels, Rects
  <2>. QED  BY <1>5, <2>1
<1> HIDE DEF target, canvas, source
<1>7. /\ DOMAIN new = DOMAIN dst /\ new = [k \in DOMAIN new |-> new[k]]
      /\ new.w = dst.w /\ new.h = dst.h /\ new.format = dst.format /\ new.dpi = dst.dpi
      /\ new.ink = (dst.ink \ target) \cup Moved(src.ink)
      /\ new.tint = (dst.tint \ target) \cup Moved(src.tint)
  <2> HIDE DEF Moved
  <2>. QED  BY <1>2
<1>8. \A p \in target : p \in Moved(src.ink) <=> <<p[1] - dx, p[2] - dy>> \in src.ink
  <2>1. SUFFICES ASSUME NEW p \in target
                 PROVE  p \in Moved(src.ink) <=> <<p[1] - dx, p[2] - dy>> \in src.ink
    OBVIOUS
  <2>2. p \in Int \X Int
    BY <1>4, <1>6
  <2> DEFINE q == <<p[1] - dx, p[2] - dy>>
  <2>3. p = <<q[1] + dx, q[2] + dy>>
    BY <2>2
  <2>4. \A s \in src.ink : p = <<s[1] + dx, s[2] + dy>> => s = q
    BY <1>3, <2>2
  <2> HIDE DEF q
  <2>. QED  BY <2>3, <2>4 DEF q
<1>9. Moved(src.ink) \subseteq target /\ Moved(src.tint) \subseteq Moved(src.ink)
  BY <1>3
<1> HIDE DEF Moved, new
<1>10. IsImage(new)
  <2>1. new.ink \subseteq RectPixels(Rect(0, 0, new.w, new.h)) /\ new.tint \subseteq new.ink
    BY <1>2, <1>6, <1>7, <1>9 DEF canvas, FullRect
  <2>. QED  BY <1>2, <1>7, <2>1, Repainted
<1>11. \A p \in canvas :
         p \in new.ink <=> IF <<p[1] - dx, p[2] - dy>> \in source
                          THEN <<p[1] - dx, p[2] - dy>> \in src.ink ELSE p \in dst.ink
  <2>1. SUFFICES ASSUME NEW p \in canvas
                 PROVE  p \in new.ink <=> IF <<p[1] - dx, p[2] - dy>> \in source
                                         THEN <<p[1] - dx, p[2] - dy>> \in src.ink ELSE p \in dst.ink
    OBVIOUS
  <2>2. p \in target <=> <<p[1] - dx, p[2] - dy>> \in source
    BY <1>4, <1>5
  <2>. QED  BY <1>7, <1>8, <1>9, <2>2
<1>12. IsEmptyImage(src) => source = {}
  <2>1. \A q \in Int \X Int : q \in source <=> 0 <= q[1] /\ q[1] < src.w /\ 0 <= q[2] /\ q[2] < src.h
    BY FullTyped, PixelOf DEF source
  <2>2. src.w \in Int /\ src.h \in Int
    BY SizeTyped
  <2>3. SUFFICES ASSUME IsEmptyImage(src)  PROVE \A q \in Int \X Int : q \notin source
    BY <1>4
  <2>4. TAKE q \in Int \X Int
  <2>5. q[1] \in Int /\ q[2] \in Int
    OBVIOUS
  <2>. QED  BY <2>1, <2>2, <2>3, <2>5 DEF IsEmptyImage
<1>13. IsEmptyImage(dst) => canvas = {}
  <2>1. \A q \in Int \X Int : q \in canvas <=> 0 <= q[1] /\ q[1] < dst.w /\ 0 <= q[2] /\ q[2] < dst.h
    BY FullTyped, PixelOf DEF canvas
  <2>2. SUFFICES ASSUME IsEmptyImage(dst)  PROVE \A q \in Int \X Int : q \notin canvas
    BY <1>4
  <2>3. TAKE q \in Int \X Int
  <2>4. q[1] \in Int /\ q[2] \in Int
    OBVIOUS
  <2>. QED  BY <1>2, <2>1, <2>2, <2>4 DEF IsEmptyImage
<1>14. CASE IsEmptyImage(src) \/ IsEmptyImage(dst)
  BY <1>1, <1>12, <1>13, <1>14 DEF canvas, source
<1>15. CASE ~(IsEmptyImage(src) \/ IsEmptyImage(dst))
  BY <1>1, <1>7, <1>10, <1>11, <1>15 DEF canvas, source
<1>. QED  BY <1>14, <1>15

-----------------------------------------------------------------------------
(* Settings, scaling and rotation.                                         *)

LEMMA Rounded ==
  ASSUME NEW n \in Int, NEW d \in Nat \ {0}
  PROVE  RoundDiv(n, d) \in Int
<1>1. 2 * d \in Nat \ {0}
  OBVIOUS
<1>2. -2 * n + d \in Int /\ 2 * n + d \in Int
  OBVIOUS
<1>3. \A a \in Int, b \in Nat \ {0} : a \div b \in Int
  OBVIOUS
<1>4. (-2 * n + d) \div (2 * d) \in Int /\ (2 * n + d) \div (2 * d) \in Int
  BY <1>1, <1>2, <1>3
<1>. QED  BY <1>4 DEF RoundDiv

LEMMA PixelsOf ==
  ASSUME NEW m \in Measurement, NEW dpi \in Int
  PROVE  /\ ToPixels(m, dpi) \in Int
         /\ m.value >= 0 /\ dpi >= 0 => ToPixels(m, dpi) >= 0
<1>1. m.value \in Int /\ m.unit \in {"inches", "pixels", "millimeters"}
  BY DEF Measurement
<1>2. m.value * dpi \in Int /\ m.value * dpi * 10 \in Int
  BY <1>1
<1>3. RoundDiv(m.value * dpi * 10, 254) \in Int
  BY <1>2, Rounded
<1>4. m.value >= 0 /\ dpi >= 0 => m.value * dpi >= 0
  BY <1>1
<1>5. m.value >= 0 /\ dpi >= 0 => RoundDiv(m.value * dpi * 10, 254) >= 0
  <2> DEFINE n == m.value * dpi
  <2> HIDE DEF n
  <2>1. n \in Int
    BY <1>2 DEF n
  <2>2. n >= 0 => RoundDiv(n * 10, 254) >= 0
    BY <2>1 DEF RoundDiv
  <2>. QED  BY <1>4, <2>2 DEF n
<1>. QED  BY <1>1, <1>2, <1>3, <1>4, <1>5 DEF ToPixels

LEMMA EdgesOf ==
  ASSUME NEW e, e.top \in Measurement, e.bottom \in Measurement,
         e.left \in Measurement, e.right \in Measurement,
         NEW dpi \in [x : Int, y : Int]
  PROVE  /\ EdgePixels(e, dpi).top \in Int /\ EdgePixels(e, dpi).bottom \in Int
         /\ EdgePixels(e, dpi).left \in Int /\ EdgePixels(e, dpi).right \in Int
<1>1. dpi.x \in Int /\ dpi.y \in Int
  OBVIOUS
<1>2. /\ ToPixels(e.top, dpi.y) \in Int /\ ToPixels(e.bottom, dpi.y) \in Int
      /\ ToPixels(e.left, dpi.x) \in Int /\ ToPixels(e.right, dpi.x) \in Int
  BY <1>1, PixelsOf
<1>. QED  BY <1>2 DEF EdgePixels

LEMMA Halved ==
  ASSUME NEW n \in Int
  PROVE  Halve(n) \in Int
BY DEF Halve

\* A darker surrounding never makes a pixel lighter.
LEMMA DarkerStaysDark ==
  ASSUME NEW T, NEW S \in SUBSET T, NEW img, NEW xn \in Int, NEW yn \in Int,
         NEW xd \in Nat \ {0}, NEW yd \in Nat \ {0},
         BilinearDark(S, img, xn, xd, yn, yd)
  PROVE  BilinearDark(T, img, xn, xd, yn, yd)
<1> DEFINE x0 == xn \div xd
           y0 == yn \div yd
           x1 == Min({x0 + 1, img.w - 1})
           y1 == Min({y0 + 1, img.h - 1})
           fx == xn % xd
           fy == yn % yd
           a == (xd - fx) * (yd - fy)
           b == fx * (yd - fy)
           c == (xd - fx) * fy
           d == fx * fy
           W(R, x, y, weight) == IF <<x, y>> \in R THEN weight ELSE 0
           sum(R) == W(R, x0, y0, a) + W(R, x1, y0, b) + W(R, x0, y1, c) + W(R, x1, y1, d)
<1>1. \A R : BilinearDark(R, img, xn, xd, yn, yd) <=> 2 * sum(R) > xd * yd
  BY DEF BilinearDark
<1>2. fx \in Nat /\ fx < xd /\ fy \in Nat /\ fy < yd
  OBVIOUS
<1>3. \A u, v \in Nat : u * v \in Nat
  OBVIOUS
<1> HIDE DEF x0, y0, x1, y1, fx, fy
<1>4. xd - fx \in Nat /\ yd - fy \in Nat
  BY <1>2
<1>5. a \in Nat /\ b \in Nat /\ c \in Nat /\ d \in Nat
  BY <1>2, <1>3, <1>4
<1>6. xd * yd \in Nat
  BY <1>3
<1> HIDE DEF a, b, c, d
<1>7. \A x, y : /\ W(S, x, y, a) \in Nat /\ W(T, x, y, a) \in Nat /\ W(S, x, y, a) <= W(T, x, y, a)
               /\ W(S, x, y, b) \in Nat /\ W(T, x, y, b) \in Nat /\ W(S, x, y, b) <= W(T, x, y, b)
               /\ W(S, x, y, c) \in Nat /\ W(T, x, y, c) \in Nat /\ W(S, x, y, c) <= W(T, x, y, c)
               /\ W(S, x, y, d) \in Nat /\ W(T, x, y, d) \in Nat /\ W(S, x, y, d) <= W(T, x, y, d)
  BY <1>5
<1>8. sum(S) \in Nat /\ sum(T) \in Nat /\ sum(S) <= sum(T)
  <2> HIDE DEF W
  <2>. QED  BY <1>7
<1> HIDE DEF sum
<1>9. 2 * sum(S) > xd * yd
  BY <1>1
<1>10. 2 * sum(T) > xd * yd
  BY <1>6, <1>8, <1>9
<1>. QED  BY <1>1, <1>10

LEMMA ScaledTyped ==
  ASSUME NEW img, IsImage(img), NEW w \in Int, NEW h \in Int
  PROVE  IsImage(ScaleNearest(img, w, h)) /\ IsImage(ScaleBilinear(img, w, h))
<1> DEFINE From(p) == << (p[1] * img.w) \div w, (p[2] * img.h) \div h >>
           Sample(S) == { p \in (0 .. w - 1) \X (0 .. h - 1) : From(p) \in S }
           dpi == [x |-> RoundDiv(img.dpi.x * w, img.w), y |-> RoundDiv(img.dpi.y * h, img.h)]
           near == [img EXCEPT !.w = w, !.h = h, !.dpi = dpi,
                               !.ink = Sample(img.ink), !.tint = Sample(img.tint)]
           xd == Max({w - 1, 1})
           yd == Max({h - 1, 1})
           Dark(S, p) == BilinearDark(S, img, p[1] * (img.w - 1), xd, p[2] * (img.h - 1), yd)
           Smooth(S) == { p \in (0 .. w - 1) \X (0 .. h - 1) : Dark(S, p) }
           soft == [near EXCEPT !.ink = Smooth(img.ink), !.tint = Smooth(img.tint)]
           none == IsEmptyImage(img) \/ w <= 0 \/ h <= 0
<1>1. ScaleNearest(img, w, h) = IF none THEN NoImage ELSE near
  BY DEF ScaleNearest
<1>2. ScaleBilinear(img, w, h)
        = IF none \/ img.format = "BW1" THEN ScaleNearest(img, w, h)
          ELSE [ScaleNearest(img, w, h) EXCEPT !.ink = Smooth(img.ink), !.tint = Smooth(img.tint)]
  BY DEF ScaleBilinear
<1>3. CASE none
  BY <1>1, <1>2, <1>3, NoImageTyped
<1>4. CASE ~none
  <2>1. /\ DOMAIN img = {"w", "h", "format", "dpi", "ink", "tint"}
        /\ img = [k \in DOMAIN img |-> img[k]]
        /\ img.format \in Formats /\ img.tint \subseteq img.ink
    BY ImageShape
  <2>2. /\ w \in Nat \ {0} /\ h \in Nat \ {0} /\ img.w \in Nat \ {0} /\ img.h \in Nat \ {0}
        /\ img.dpi.x * w \in Int /\ img.dpi.y * h \in Int
    BY <1>4, SizeTyped DEF IsEmptyImage
  <2>3. dpi \in [x : Int, y : Int]
    BY <2>2, Rounded
  <2>4. RectPixels(Rect(0, 0, w, h)) = (0 .. w - 1) \X (0 .. h - 1)
    BY DEF RectPixels, Rect
  <2>5. xd \in Nat \ {0} /\ yd \in Nat \ {0}
    <3>1. w - 1 \in Int /\ h - 1 \in Int /\ 1 \in Int
      OBVIOUS
    <3>2. \A u \in Int : Max({u, 1}) \in Nat \ {0}
      <4>1. SUFFICES ASSUME NEW u \in Int  PROVE Max({u, 1}) \in Nat \ {0}
        OBVIOUS
      <4>2. Max({u, 1}) = IF u <= 1 THEN 1 ELSE u
        BY OfTwo
      <4>. QED  BY <4>2
    <3>. QED  BY <3>1, <3>2
  <2> HIDE DEF dpi, From, xd, yd
  <2>6. Sample(img.ink) \subseteq RectPixels(Rect(0, 0, w, h)) /\ Sample(img.tint) \subseteq Sample(img.ink)
    BY <2>1, <2>4
  <2>7. \A p \in (0 .. w - 1) \X (0 .. h - 1) : Dark(img.tint, p) => Dark(img.ink, p)
    <3>1. SUFFICES ASSUME NEW p \in (0 .. w - 1) \X (0 .. h - 1), Dark(img.tint, p)
                   PROVE  Dark(img.ink, p)
      OBVIOUS
    <3>2. p[1] * (img.w - 1) \in Int /\ p[2] * (img.h - 1) \in Int /\ img.tint \in SUBSET img.ink
      BY <2>1, <2>2
    <3>. QED  BY <2>5, <3>1, <3>2, DarkerStaysDark
  <2> HIDE DEF Dark
  <2>8. Smooth(img.ink) \subseteq RectPixels(Rect(0, 0, w, h)) /\ Smooth(img.tint) \subseteq Smooth(img.ink)
    BY <2>4, <2>7
  <2> HIDE DEF Sample, Smooth
  <2>9. /\ DOMAIN near = DOMAIN img /\ near = [k \in DOMAIN near |-> near[k]]
        /\ near.w = w /\ near.h = h /\ near.format = img.format /\ near.dpi = dpi
        /\ near.ink = Sample(img.ink) /\ near.tint = Sample(img.tint)
    BY <2>1
  <2> HIDE DEF near
  <2>10. IsImage(near)
    BY <2>1, <2>2, <2>3, <2>6, <2>9, Repainted
  <2>11. /\ DOMAIN soft = DOMAIN img /\ soft = [k \in DOMAIN soft |-> soft[k]]
         /\ soft.w = w /\ soft.h = h /\ soft.format = img.format /\ soft.dpi = dpi
         /\ soft.ink = Smooth(img.ink) /\ soft.tint = Smooth(img.tint)
    BY <2>1, <2>9
  <2> HIDE DEF soft
  <2>12. IsImage(soft)
    BY <2>1, <2>2, <2>3, <2>8, <2>11, Repainted
  <2>. QED  BY <1>1, <1>2, <1>4, <2>10, <2>12 DEF soft
<1>. QED  BY <1>3, <1>4

LEMMA CeilingPositive ==
  ASSUME NEW n \in Nat \ {0}, NEW d \in Nat \ {0}
  PROVE  CeilDiv(n, d) \in Nat \ {0}
<1> DEFINE q == (-n) \div d
           r == (-n) % d
<1>1. q \in Int /\ r \in Nat /\ -n = d * q + r
  OBVIOUS
<1> HIDE DEF q, r
<1>2. q < 0
  <2>1. SUFFICES ASSUME q >= 0  PROVE FALSE
    BY <1>1
  <2>2. d * q >= 0
    BY <1>1, <2>1
  <2>. QED  BY <1>1, <2>2
<1>3. CeilDiv(n, d) = -q
  BY DEF CeilDiv, q
<1>. QED  BY <1>1, <1>2, <1>3

LEMMA RotatedTyped ==
  ASSUME NEW img, IsImage(img), ~IsEmptyImage(img), NEW a \in Direction
  PROVE  /\ IsImage(RotateArbitrary(img, a))
         /\ ~IsEmptyImage(RotateArbitrary(img, a))
         /\ RotateArbitrary(img, a).dpi = img.dpi
<1> DEFINE w == CeilDiv(img.w * a.c + img.h * Abs(a.s), a.d)
           h == CeilDiv(img.w * Abs(a.s) + img.h * a.c, a.d)
           SrcX(p) == (2 * p[1] - w) * a.c + (2 * p[2] - h) * a.s + img.w * a.d
           SrcY(p) == (2 * p[2] - h) * a.c - (2 * p[1] - w) * a.s + img.h * a.d
           den == 2 * a.d
           Nearest(S) == { p \in (0 .. w - 1) \X (0 .. h - 1) :
                             << RoundDiv(SrcX(p), den), RoundDiv(SrcY(p), den) >> \in S }
           InX(p) == SrcX(p) \in 0 .. den * (img.w - 1) - 1
           InY(p) == SrcY(p) \in 0 .. den * (img.h - 1) - 1
           Dark(S, p) == BilinearDark(S, img, SrcX(p), den, SrcY(p), den)
           Blended(S) == { p \in (0 .. w - 1) \X (0 .. h - 1) : InX(p) /\ InY(p) /\ Dark(S, p) }
           Turn(S) == IF img.format = "BW1" THEN Nearest(S) ELSE Blended(S)
           new == [img EXCEPT !.w = w, !.h = h, !.ink = Turn(img.ink), !.tint = Turn(img.tint)]
<1>1. RotateArbitrary(img, a) = IF a.s = 0 THEN img ELSE new
  BY DEF RotateArbitrary
<1>2. a.c \in Nat \ {0} /\ a.s \in Int /\ a.d \in Nat \ {0} /\ Abs(a.s) \in Nat
  BY DEF Direction, Abs
<1>3. /\ DOMAIN img = {"w", "h", "format", "dpi", "ink", "tint"}
      /\ img = [k \in DOMAIN img |-> img[k]]
      /\ img.format \in Formats /\ img.dpi \in [x : Int, y : Int] /\ img.tint \subseteq img.ink
  BY ImageShape
<1>4. img.w \in Nat \ {0} /\ img.h \in Nat \ {0}
  BY SizeTyped DEF IsEmptyImage
<1>5. w \in Nat \ {0} /\ h \in Nat \ {0}
  <2>1. \A u, v \in Nat \ {0} : u * v \in Nat \ {0}
    OBVIOUS
  <2>2. \A u, v \in Nat : u * v \in Nat
    OBVIOUS
  <2>3. /\ img.w * a.c \in Nat \ {0} /\ img.h * a.c \in Nat \ {0}
        /\ img.h * Abs(a.s) \in Nat /\ img.w * Abs(a.s) \in Nat
    BY <1>2, <1>4, <2>1, <2>2
  <2>4. /\ img.w * a.c + img.h * Abs(a.s) \in Nat \ {0}
        /\ img.w * Abs(a.s) + img.h * a.c \in Nat \ {0}
    BY <2>3
  <2>. QED  BY <1>2, <2>4, CeilingPositive
<1>6. den \in Nat \ {0}
  BY <1>2
<1>7. RectPixels(Rect(0, 0, w, h)) = (0 .. w - 1) \X (0 .. h - 1)
  BY DEF RectPixels, Rect
<1> HIDE DEF w, h, den, SrcX, SrcY
<1>8. \A p \in (0 .. w - 1) \X (0 .. h - 1) :
        InX(p) /\ InY(p) /\ Dark(img.tint, p) => Dark(img.ink, p)
  <2>1. SUFFICES ASSUME NEW p \in (0 .. w - 1) \X (0 .. h - 1), InX(p), InY(p), Dark(img.tint, p)
                 PROVE  Dark(img.ink, p)
    OBVIOUS
  <2>2. SrcX(p) \in Int /\ SrcY(p) \in Int /\ img.tint \in SUBSET img.ink
    BY <1>3, <2>1
  <2>. QED  BY <1>6, <2>1, <2>2, DarkerStaysDark
<1> HIDE DEF InX, InY, Dark
<1>9. Turn(img.ink) \subseteq RectPixels(Rect(0, 0, w, h)) /\ Turn(img.tint) \subseteq Turn(img.ink)
  <2>1. /\ Nearest(img.ink) \subseteq RectPixels(Rect(0, 0, w, h))
        /\ Nearest(img.tint) \subseteq Nearest(img.ink)
    BY <1>3, <1>7
  <2>2. /\ Blended(img.ink) \subseteq RectPixels(Rect(0, 0, w, h))
        /\ Blended(img.tint) \subseteq Blended(img.ink)
    BY <1>7, <1>8
  <2> HIDE DEF Nearest, Blended
  <2>. QED  BY <2>1, <2>2
<1> HIDE DEF Turn
<1>10. /\ DOMAIN new = DOMAIN img /\ new = [k \in DOMAIN new |-> new[k]]
       /\ new.w = w /\ new.h = h /\ new.format = img.format /\ new.dpi = img.dpi
       /\ new.ink = Turn(img.ink) /\ new.tint = Turn(img.tint)
  BY <1>3
<1> HIDE DEF new
<1>11. IsImage(new)
  <2>1. w \in Nat /\ h \in Nat
    BY <1>5
  <2>. QED  BY <1>3, <1>9, <1>10, <2>1, Repainted
<1>12. ~IsEmptyImage(new)
  BY <1>5, <1>10 DEF IsEmptyImage
<1>. QED  BY <1>1, <1>10, <1>11, <1>12

-----------------------------------------------------------------------------
(* Detection and cleanup.                                                  *)

LEMMA FoundInside ==
  ASSUME NEW img, IsImage(img), NEW roi \in Rects
  PROVE  \A k \in DOMAIN ComponentsIn(img.ink, roi) :
           Boxed(ComponentsIn(img.ink, roi)[k].bounds, roi)
<1>1. /\ img.w \in Int /\ img.h \in Int
      /\ img.ink \in SUBSET RectPixels(Rect(0, 0, img.w, img.h))
  <2>1. img.ink \subseteq RectPixels(FullRect(img))
    BY ImageShape
  <2>. QED  BY <2>1, SizeTyped DEF FullRect
<1>2. \A k \in DOMAIN FindComponents(SpansFromBitmap(img.ink), roi, 4) :
        Boxed(FindComponents(SpansFromBitmap(img.ink), roi, 4)[k].bounds, roi)
  BY <1>1, ComponentsInside
<1>. QED  BY <1>2 DEF ComponentsIn

\* What is detected on an image lies on it.
LEMMA SubimageBoxed ==
  ASSUME NEW img, IsImage(img), NEW config
  PROVE  LET b == DetectSubimage(img, config).bounds
         IN  b = NoRect \/ Boxed(b, FullRect(img))
<1> DEFINE dpi == img.dpi
           Qualifies(c) ==
             /\ Width(c.bounds) >= config.min_width_px
             /\ Height(c.bounds) >= config.min_height_px
             /\ IsLength(config.max_width, dpi.x) =>
                  Width(c.bounds) <= WholePixels(config.max_width, dpi.x)
             /\ IsLength(config.max_height, dpi.y) =>
                  Height(c.bounds) <= WholePixels(config.max_height, dpi.y)
           found == ComponentsIn(img.ink, FullRect(img))
           kept == { k \in DOMAIN found : Qualifies(found[k]) }
           rects == { found[k].bounds : k \in kept }
<1>1. DetectSubimage(img, config).bounds = Hull(rects)
  BY DEF DetectSubimage
<1>2. \A k \in DOMAIN found : Boxed(found[k].bounds, FullRect(img))
  BY FullTyped, FoundInside
<1>3. \A r \in rects : Boxed(r, FullRect(img))
  BY <1>2
<1> HIDE DEF rects
<1>4. rects # {} => Boxed(Hull(rects), FullRect(img))
  BY <1>3, FullTyped, HullBoxed
<1>5. rects = {} => Hull(rects) = NoRect
  BY DEF Hull
<1>. QED  BY <1>1, <1>4, <1>5

LEMMA BoxedPixels ==
  ASSUME NEW outer \in Rects, NEW r, Boxed(r, outer)
  PROVE  RectPixels(r) \subseteq RectPixels(outer)
<1>1. /\ outer.left \in Int /\ outer.top \in Int /\ outer.right \in Int /\ outer.bottom \in Int
  BY DEF Rects
<1>2. /\ r.left \in Int /\ r.top \in Int /\ r.right \in Int /\ r.bottom \in Int
      /\ outer.left <= r.left /\ r.right <= outer.right
      /\ outer.top <= r.top /\ r.bottom <= outer.bottom
  BY BoxedShape
<1>. QED  BY <1>1, <1>2 DEF RectPixels

LEMMA StripsTyped ==
  ASSUME NEW img, IsImage(img), NEW e,
         e.top \in Int, e.bottom \in Int, e.left \in Int, e.right \in Int
  PROVE  Strips(img, e) \subseteq Rects
<1>1. img.w \in Int /\ img.h \in Int
  BY SizeTyped
<1>2. \A a, b \in Int : Min({a, b}) \in Int /\ Max({a, b}) \in Int
  BY OfTwo
<1>3. img.h - e.bottom \in Int /\ img.w - e.right \in Int /\ 0 \in Int
  BY <1>1
<1>4. /\ Min({e.top, img.h}) \in Int /\ Max({0, img.h - e.bottom}) \in Int
      /\ Min({e.left, img.w}) \in Int /\ Max({0, img.w - e.right}) \in Int
  BY <1>1, <1>2, <1>3
<1>5. \A l, t, r, b \in Int : Rect(l, t, r, b) \in Rects
  BY RectTyped
<1>. QED  BY <1>1, <1>3, <1>4, <1>5 DEF Strips

LEMMA CleanupsTyped ==
  ASSUME NEW img, IsImage(img), NEW config
  PROVE  /\ IsImage(EdgeCleanup(img, config)) /\ IsImage(HoleCleanup(img, config))
         /\ IsImage(Despeckle(img, config))
         /\ \A new \in {EdgeCleanup(img, config), HoleCleanup(img, config),
                        Despeckle(img, config)} :
              new.w = img.w /\ new.h = img.h /\ new.dpi = img.dpi
<1>1. ASSUME NEW rects
      PROVE  /\ IsImage(Cleared(img, rects))
             /\ Cleared(img, rects).w = img.w /\ Cleared(img, rects).h = img.h
             /\ Cleared(img, rects).dpi = img.dpi
  BY ClearedTyped
<1>2. \E rects : EdgeCleanup(img, config) = Cleared(img, rects)
  BY DEF EdgeCleanup
<1>3. HoleCleanup(img, config) = img \/ \E rects : HoleCleanup(img, config) = Cleared(img, rects)
  BY DEF HoleCleanup
<1>4. Despeckle(img, config) = img \/ \E rects : Despeckle(img, config) = Cleared(img, rects)
  BY DEF Despeckle
<1>. QED  BY <1>1, <1>2, <1>3, <1>4

\* Cleanup clears the boxes of components: of the strips along the edges, and
\* each component lies in its strip.
LEMMA HolesInStrips ==
  ASSUME NEW img, IsImage(img), NEW edges,
         edges.top \in Measurement, edges.bottom \in Measurement,
         edges.left \in Measurement, edges.right \in Measurement
  PROVE  img.ink \ HoleCleanup(img, edges).ink
           \subseteq UNION { RectPixels(s) : s \in Strips(img, EdgePixels(edges, img.dpi)) }
<1> DEFINE lowDpi == Min({img.dpi.x, img.dpi.y})
           Plausible(c) ==
             LET low == Min({Width(c.bounds), Height(c.bounds)})
                 high == Max({Width(c.bounds), Height(c.bounds)})
             IN  /\ low >= RoundDiv(15 * lowDpi, 300)
                 /\ high <= RoundDiv(60 * lowDpi, 300)
                 /\ high <= 2 * low
           strips == Strips(img, EdgePixels(edges, img.dpi))
           boxes == Boxes(img.ink, strips, Plausible)
<1>1. HoleCleanup(img, edges) = IF img.format # "BW1" THEN img ELSE Cleared(img, boxes)
  BY DEF HoleCleanup
<1>2. strips \subseteq Rects
  <2>1. img.dpi \in [x : Int, y : Int]
    BY ImageShape
  <2>. QED  BY <2>1, EdgesOf, StripsTyped
<1> HIDE DEF strips, Plausible
<1>3. \A b \in boxes : \E s \in strips : Boxed(b, s)
  <2>1. SUFFICES ASSUME NEW b \in boxes  PROVE \E s \in strips : Boxed(b, s)
    OBVIOUS
  <2>2. PICK s \in strips : b \in { c.bounds : c \in { d \in ToSet(ComponentsIn(img.ink, s)) : Plausible(d) } }
    BY <2>1 DEF Boxes
  <2>3. PICK k \in DOMAIN ComponentsIn(img.ink, s) : b = ComponentsIn(img.ink, s)[k].bounds
    BY <2>2 DEF ToSet
  <2>4. Boxed(b, s)
    BY <1>2, <2>3, FoundInside
  <2>. QED  BY <2>4
<1> HIDE DEF boxes
<1>4. \A b \in boxes : RectPixels(b) \subseteq UNION { RectPixels(s) : s \in strips }
  <2>1. SUFFICES ASSUME NEW b \in boxes
                 PROVE  RectPixels(b) \subseteq UNION { RectPixels(s) : s \in strips }
    OBVIOUS
  <2>2. PICK s \in strips : Boxed(b, s)
    BY <1>3
  <2>3. RectPixels(b) \subseteq RectPixels(s)
    BY <1>2, <2>2, BoxedPixels
  <2>. QED  BY <2>3
<1>5. Cleared(img, boxes).ink = img.ink \ UNION { RectPixels(r) : r \in boxes }
  BY ClearedTyped
<1>6. UNION { RectPixels(r) : r \in boxes } \subseteq UNION { RectPixels(s) : s \in strips }
  BY <1>4
<1>7. img.ink \ HoleCleanup(img, edges).ink \subseteq UNION { RectPixels(s) : s \in strips }
  BY <1>1, <1>5, <1>6
<1>. QED  BY <1>7 DEF strips

-----------------------------------------------------------------------------
(* Margins and resize.                                                     *)

LEMMA CanvasTyped ==
  ASSUME NEW presets, \A k \in DOMAIN presets : presets[k] \in Nat \X Nat,
         NEW config \in CanvasConfig(presets), NEW img, IsImage(img)
  PROVE  LET canvas == ResolveCanvas(config, presets, img)
         IN  /\ canvas[1] \in Int /\ canvas[2] \in Int
             /\ config.width.value >= 0 /\ config.height.value >= 0
                  /\ img.dpi.x >= 0 /\ img.dpi.y >= 0 => canvas[1] >= 0 /\ canvas[2] >= 0
<1> DEFINE size == IF config.preset = "custom"
                   THEN << ToPixels(config.width, img.dpi.x), ToPixels(config.height, img.dpi.y) >>
                   ELSE << presets[config.preset][1] * img.dpi.x,
                           presets[config.preset][2] * img.dpi.y >>
           positive == /\ config.width.value >= 0 /\ config.height.value >= 0
                       /\ img.dpi.x >= 0 /\ img.dpi.y >= 0
<1>1. /\ img.w \in Nat /\ img.h \in Nat /\ img.dpi.x \in Int /\ img.dpi.y \in Int
  BY SizeTyped
<1>2. /\ config.preset \in DOMAIN presets \cup {"autodetect", "custom"}
      /\ config.width \in Measurement /\ config.height \in Measurement
  BY DEF CanvasConfig
<1>3. /\ ToPixels(config.width, img.dpi.x) \in Int /\ ToPixels(config.height, img.dpi.y) \in Int
      /\ positive => /\ ToPixels(config.width, img.dpi.x) >= 0
                     /\ ToPixels(config.height, img.dpi.y) >= 0
  BY <1>1, <1>2, PixelsOf
<1>4. config.preset \in DOMAIN presets =>
        /\ presets[config.preset][1] * img.dpi.x \in Int
        /\ presets[config.preset][2] * img.dpi.y \in Int
        /\ positive => /\ presets[config.preset][1] * img.dpi.x >= 0
                       /\ presets[config.preset][2] * img.dpi.y >= 0
  <2>1. SUFFICES ASSUME config.preset \in DOMAIN presets
                 PROVE  /\ presets[config.preset][1] * img.dpi.x \in Int
                        /\ presets[config.preset][2] * img.dpi.y \in Int
                        /\ positive => /\ presets[config.preset][1] * img.dpi.x >= 0
                                       /\ presets[config.preset][2] * img.dpi.y >= 0
    OBVIOUS
  <2>2. presets[config.preset][1] \in Nat /\ presets[config.preset][2] \in Nat
    BY <2>1
  <2>3. \A u \in Nat, v \in Int : u * v \in Int /\ (v >= 0 => u * v >= 0)
    OBVIOUS
  <2>. QED  BY <1>1, <2>2, <2>3
<1>5. config.preset # "autodetect" => /\ size[1] \in Int /\ size[2] \in Int
                                      /\ positive => size[1] >= 0 /\ size[2] >= 0
  <2> HIDE DEF positive
  <2>. QED  BY <1>2, <1>3, <1>4
<1>6. \/ /\ config.preset = "autodetect"
         /\ ResolveCanvas(config, presets, img) = <<img.w, img.h>>
      \/ /\ config.preset # "autodetect"
         /\ ResolveCanvas(config, presets, img) \in { <<size[2], size[1]>>, size }
  BY DEF ResolveCanvas
<1> DEFINE canvas == ResolveCanvas(config, presets, img)
<1> HIDE DEF size, canvas, positive
<1>7. /\ canvas[1] \in Int /\ canvas[2] \in Int
      /\ positive => canvas[1] >= 0 /\ canvas[2] >= 0
  BY <1>1, <1>5, <1>6 DEF canvas
<1>. QED  BY <1>7 DEF canvas, positive

\* There is no page, or content of the size of bounds has a place on it and is
\* copied there, alone or with the page around it.
PlacedOnPage(at, img, bounds, keepOutside) ==
  LET content == Crop(img, bounds.left, bounds.top, Width(bounds), Height(bounds))
  IN  \/ at.image = NoImage /\ at.content = NoRect
      \/ \E x, y \in Int : \E page :
           /\ IsImage(page) /\ ~IsEmptyImage(page) /\ page.dpi = img.dpi
           /\ at.content = Rect(x, y, x + Width(bounds), y + Height(bounds))
           /\ at.image = IF keepOutside THEN Blit(page, img, x - bounds.left, y - bounds.top)
                         ELSE Blit(page, content, x, y)

LEMMA MarginsTyped ==
  ASSUME NEW img, IsImage(img), NEW bounds \in Rects, NEW margins \in MarginConfig,
         NEW canvas, canvas[1] \in Int, canvas[2] \in Int, NEW keepOutside
  PROVE  PlacedOnPage(ApplyMargins(img, bounds, margins, canvas, keepOutside),
                      img, bounds, keepOutside)
<1> DEFINE m == EdgePixels(margins, img.dpi)
           page == Image(canvas[1], canvas[2], img.format, img.dpi)
           x == IF margins.center_horizontal
                THEN m.left + Halve(canvas[1] - m.left - m.right - Width(bounds)) ELSE m.left
           y == IF margins.center_vertical
                THEN m.top + Halve(canvas[2] - m.top - m.bottom - Height(bounds)) ELSE m.top
           content == Crop(img, bounds.left, bounds.top, Width(bounds), Height(bounds))
           at == ApplyMargins(img, bounds, margins, canvas, keepOutside)
<1>1. at = IF IsEmptyImage(img) \/ canvas[1] <= 0 \/ canvas[2] <= 0
           THEN [image |-> NoImage, content |-> NoRect]
           ELSE [image |-> IF keepOutside THEN Blit(page, img, x - bounds.left, y - bounds.top)
                           ELSE Blit(page, content, x, y),
                 content |-> Rect(x, y, x + Width(bounds), y + Height(bounds))]
  BY DEF ApplyMargins
<1>2. img.dpi \in [x : Int, y : Int] /\ img.format \in Formats
  BY ImageShape
<1>3. m.left \in Int /\ m.right \in Int /\ m.top \in Int /\ m.bottom \in Int
  <2>1. /\ margins.top \in Measurement /\ margins.bottom \in Measurement
        /\ margins.left \in Measurement /\ margins.right \in Measurement
    BY DEF MarginConfig
  <2>. QED  BY <1>2, <2>1, EdgesOf
<1>4. Width(bounds) \in Int /\ Height(bounds) \in Int
  BY DEF Rects, Width, Height
<1> HIDE DEF m
<1>5. x \in Int
  <2>1. canvas[1] - m.left - m.right - Width(bounds) \in Int
    BY <1>3, <1>4
  <2>2. Halve(canvas[1] - m.left - m.right - Width(bounds)) \in Int
    BY <2>1, Halved
  <2>. QED  BY <1>3, <2>2
<1>6. y \in Int
  <2>1. canvas[2] - m.top - m.bottom - Height(bounds) \in Int
    BY <1>3, <1>4
  <2>2. Halve(canvas[2] - m.top - m.bottom - Height(bounds)) \in Int
    BY <2>1, Halved
  <2>. QED  BY <1>3, <2>2
<1> HIDE DEF x, y, content, at
<1>7. CASE IsEmptyImage(img) \/ canvas[1] <= 0 \/ canvas[2] <= 0
  <2>1. at.image = NoImage /\ at.content = NoRect
    BY <1>1, <1>7
  <2>. QED  BY <2>1 DEF at, PlacedOnPage
<1>8. CASE ~(IsEmptyImage(img) \/ canvas[1] <= 0 \/ canvas[2] <= 0)
  <2>1. canvas[1] \in Nat /\ canvas[2] \in Nat
    BY <1>8
  <2>2. IsImage(page) /\ page.w = canvas[1] /\ page.h = canvas[2] /\ page.dpi = img.dpi
    BY <1>2, <2>1, BlankTyped
  <2>3. ~IsEmptyImage(page)
    BY <1>8, <2>1, <2>2 DEF IsEmptyImage
  <2> HIDE DEF page
  <2>4. /\ at.content = Rect(x, y, x + Width(bounds), y + Height(bounds))
        /\ at.image = IF keepOutside THEN Blit(page, img, x - bounds.left, y - bounds.top)
                      ELSE Blit(page, content, x, y)
    BY <1>1, <1>8
  <2>. QED  BY <1>5, <1>6, <2>2, <2>3, <2>4 DEF at, content, PlacedOnPage
<1>. QED  BY <1>7, <1>8

LEMMA AlignedTyped ==
  ASSUME NEW alignment \in {"top", "center", "bottom", "proportional"},
         NEW room \in Int, NEW size \in Int, NEW part \in Int, NEW whole \in Nat \ {0}
  PROVE  Aligned(alignment, room, size, part, whole) \in Int
<1> DEFINE n == part * (room - size)
<1>1. n \in Int /\ room - size \in Int
  OBVIOUS
<1> HIDE DEF n
<1>2. -((-n) \div whole) \in Int /\ n \div whole \in Int
  BY <1>1
<1>3. Halve(room - size) \in Int
  BY <1>1, Halved
<1>. QED  BY <1>1, <1>2, <1>3 DEF Aligned, n

LEMMA FittedTyped ==
  ASSUME NEW content, IsImage(content), ~IsEmptyImage(content),
         NEW room, room[1] \in Nat \ {0}, room[2] \in Nat \ {0}, NEW config
  PROVE  IsImage(Scaled(content, FitRatio(<<content.w, content.h>>, room, config),
                        config.anti_alias))
<1> DEFINE ratio == FitRatio(<<content.w, content.h>>, room, config)
<1>1. content.w \in Nat \ {0} /\ content.h \in Nat \ {0}
  BY SizeTyped DEF IsEmptyImage
<1>2. ratio \in { <<1, 1>>, <<room[1], content.w>>, <<room[2], content.h>> }
  BY DEF FitRatio
<1>3. ratio[1] \in Int /\ ratio[2] \in Nat \ {0}
  BY <1>1, <1>2
<1> HIDE DEF ratio
<1> DEFINE Size(n) == Max({RoundDiv(n * ratio[1], ratio[2]), 1})
<1>4. \A n \in Int : Size(n) \in Int
  <2>1. SUFFICES ASSUME NEW n \in Int  PROVE Size(n) \in Int
    OBVIOUS
  <2>2. n * ratio[1] \in Int
    BY <1>3
  <2>3. RoundDiv(n * ratio[1], ratio[2]) \in Int
    BY <1>3, <2>2, Rounded
  <2>4. \A u, v \in Int : Max({u, v}) \in Int
    BY OfTwo
  <2>. QED  BY <2>3, <2>4
<1>5. Scaled(content, ratio, config.anti_alias)
        \in { content, ScaleBilinear(content, Size(content.w), Size(content.h)),
              ScaleNearest(content, Size(content.w), Size(content.h)) }
  BY DEF Scaled
<1>6. Size(content.w) \in Int /\ Size(content.h) \in Int
  BY <1>1, <1>4
<1> HIDE DEF Size
<1>7. /\ IsImage(ScaleBilinear(content, Size(content.w), Size(content.h)))
      /\ IsImage(ScaleNearest(content, Size(content.w), Size(content.h)))
  BY <1>6, ScaledTyped
<1>8. IsImage(Scaled(content, ratio, config.anti_alias))
  BY <1>5, <1>7
<1>. QED  BY <1>8 DEF ratio

LEMMA RefittedTyped ==
  ASSUME NEW img, IsImage(img), NEW src \in Rects,
         NEW canvas, canvas[1] \in Int, canvas[2] \in Int,
         ~IsEmptyImage(img) => canvas[1] >= 0 /\ canvas[2] >= 0,
         NEW m, m.top \in Int, m.bottom \in Int, m.left \in Int, m.right \in Int,
         NEW config, config.h_alignment \in {"center", "proportional"},
         config.v_alignment \in {"top", "center", "bottom", "proportional"}
  PROVE  LET new == Refitted(img, src, canvas, m, config)
         IN  /\ IsImage(new)
             /\ ~IsEmptyImage(new) => new.dpi = img.dpi
<1> DEFINE room == << canvas[1] - m.left - m.right, canvas[2] - m.top - m.bottom >>
           blank == Image(canvas[1], canvas[2], img.format, img.dpi)
           content == Crop(img, src.left, src.top, Width(src), Height(src))
           scaled == Scaled(content, FitRatio(<<content.w, content.h>>, room, config),
                            config.anti_alias)
           X == m.left + Aligned(config.h_alignment, room[1], scaled.w, src.left, img.w)
           Y == m.top + Aligned(config.v_alignment, room[2], scaled.h, src.top, img.h)
           none == IsEmptyImage(img) \/ ~config.enabled \/ room[1] <= 0 \/ room[2] <= 0
           new == Refitted(img, src, canvas, m, config)
<1>1. new = IF none THEN NoImage
            ELSE IF IsEmptyImage(content) THEN blank ELSE Blit(blank, scaled, X, Y)
  BY DEF Refitted
<1>2. CASE none
  <2> HIDE DEF none, new
  <2>1. new = NoImage
    BY <1>1, <1>2
  <2>2. IsImage(new) /\ IsEmptyImage(new)
    BY <2>1, NoImageTyped
  <2>. QED  BY <2>2 DEF new
<1>3. CASE ~none
  <2>1. canvas[1] \in Nat /\ canvas[2] \in Nat /\ ~IsEmptyImage(img)
    BY <1>3
  <2>2. IsImage(blank) /\ blank.dpi = img.dpi
    <3>1. img.dpi \in [x : Int, y : Int] /\ img.format \in Formats
      BY ImageShape
    <3>. QED  BY <2>1, <3>1, BlankTyped
  <2>3. /\ src.left \in Int /\ src.top \in Int /\ Width(src) \in Int /\ Height(src) \in Int
    BY DEF Rects, Width, Height
  <2>4. IsImage(content)
    BY <2>3, CropTyped
  <2>5. room[1] \in Nat \ {0} /\ room[2] \in Nat \ {0}
    BY <1>3, <2>1
  <2> HIDE DEF blank, content, room, none
  <2>6. CASE IsEmptyImage(content)
    BY <1>1, <1>3, <2>2, <2>6 DEF blank
  <2>7. CASE ~IsEmptyImage(content)
    <3>1. IsImage(scaled)
      BY <2>4, <2>5, <2>7, FittedTyped
    <3> HIDE DEF scaled
    <3>2. scaled.w \in Int /\ scaled.h \in Int
      BY <3>1, SizeTyped
    <3>3. img.w \in Nat \ {0} /\ img.h \in Nat \ {0}
      BY <2>1, SizeTyped DEF IsEmptyImage
    <3>4. X \in Int
      <4>1. Aligned(config.h_alignment, room[1], scaled.w, src.left, img.w) \in Int
        <5>1. /\ config.h_alignment \in {"top", "center", "bottom", "proportional"}
              /\ room[1] \in Int /\ scaled.w \in Int /\ src.left \in Int
              /\ img.w \in Nat \ {0}
          BY <2>3, <2>5, <3>2, <3>3
        <5>. QED  BY <5>1, AlignedTyped, Zenon
      <4>. QED  BY <4>1
    <3>5. Y \in Int
      <4>1. Aligned(config.v_alignment, room[2], scaled.h, src.top, img.h) \in Int
        <5>1. /\ config.v_alignment \in {"top", "center", "bottom", "proportional"}
              /\ room[2] \in Int /\ scaled.h \in Int /\ src.top \in Int
              /\ img.h \in Nat \ {0}
          BY <2>3, <2>5, <3>2, <3>3
        <5>. QED  BY <5>1, AlignedTyped, Zenon
      <4>. QED  BY <4>1
    <3> HIDE DEF X, Y
    <3>6. IsImage(Blit(blank, scaled, X, Y)) /\ Blit(blank, scaled, X, Y).dpi = img.dpi
      BY <2>2, <3>1, <3>4, <3>5, BlitTyped
    <3> HIDE DEF new
    <3>7. new = Blit(blank, scaled, X, Y)
      BY <1>1, <1>3, <2>7
    <3>. QED  BY <3>6, <3>7 DEF new
  <2>. QED  BY <2>6, <2>7
<1>. QED  BY <1>2, <1>3

LEMMA ResizedTyped ==
  ASSUME NEW presets, \A k \in DOMAIN presets : presets[k] \in Nat \X Nat,
         NEW config \in ResizeConfig(presets), NEW img, IsImage(img),
         ~IsEmptyImage(img) => img.dpi.x >= 0 /\ img.dpi.y >= 0,
         NEW bounds \in Rects, NEW page, NEW oddEven
  PROVE  LET new == ApplyResize(img, bounds, config, presets, page, oddEven)
         IN  /\ IsImage(new)
             /\ ~IsEmptyImage(new) => new.dpi = img.dpi
<1> DEFINE set == PageSet(page, oddEven)
           src == ResizeSource(img, bounds, config, set)
           canvas == ResolveCanvas(config.canvas, presets, img)
           m == EdgePixels(config.margins[set], img.dpi)
           e == EdgePixels(config.source_edges[set], img.dpi)
<1>1. ApplyResize(img, bounds, config, presets, page, oddEven) = Refitted(img, src, canvas, m, config)
  BY DEF ApplyResize
<1>2. set \in 1 .. 2
  BY DEF PageSet
<1>3. /\ config.source_edges \in EdgeValues \X EdgeValues
      /\ config.margins \in EdgeValues \X EdgeValues
      /\ config.canvas \in ResizeCanvas(presets)
      /\ config.h_alignment \in {"center", "proportional"}
      /\ config.v_alignment \in {"top", "center", "bottom", "proportional"}
      /\ config.source \in {"subimage", "full_page", "custom", "smart"}
  BY DEF ResizeConfig, EdgeSets
<1> HIDE DEF set
<1>4. config.source_edges[set] \in EdgeValues /\ config.margins[set] \in EdgeValues
  BY <1>2, <1>3
<1>5. \A v \in EdgeValues : /\ v.top \in Measurement /\ v.bottom \in Measurement
                             /\ v.left \in Measurement /\ v.right \in Measurement
  BY DEF EdgeValues
<1>6. img.dpi \in [x : Int, y : Int]
  BY ImageShape
<1>7. m.top \in Int /\ m.bottom \in Int /\ m.left \in Int /\ m.right \in Int
  BY <1>4, <1>5, <1>6, EdgesOf
<1>8. e.top \in Int /\ e.bottom \in Int /\ e.left \in Int /\ e.right \in Int
  BY <1>4, <1>5, <1>6, EdgesOf
<1>9. src \in Rects
  <2>1. FullRect(img) \in Rects
    BY FullTyped
  <2>2. Rect(e.left, e.top, img.w - e.right, img.h - e.bottom) \in Rects
    <3>1. img.w - e.right \in Int /\ img.h - e.bottom \in Int
      BY <1>8, SizeTyped
    <3>2. \A l, t, r, b \in Int : Rect(l, t, r, b) \in Rects
      BY RectTyped
    <3> HIDE DEF e
    <3>. QED  BY <1>8, <3>1, <3>2
  <2>3. src \in { bounds, FullRect(img), Rect(e.left, e.top, img.w - e.right, img.h - e.bottom) }
    BY <1>3 DEF ResizeSource
  <2>. QED  BY <2>1, <2>2, <2>3
<1>10. /\ config.canvas \in CanvasConfig(presets)
       /\ config.canvas.width.value >= 0 /\ config.canvas.height.value >= 0
  BY <1>3 DEF ResizeCanvas
<1>11. /\ canvas[1] \in Int /\ canvas[2] \in Int
       /\ ~IsEmptyImage(img) => canvas[1] >= 0 /\ canvas[2] >= 0
  BY <1>10, CanvasTyped
<1> HIDE DEF src, canvas, m, e
<1>12. LET new == Refitted(img, src, canvas, m, config)
       IN  IsImage(new) /\ (~IsEmptyImage(new) => new.dpi = img.dpi)
  BY <1>3, <1>7, <1>9, <1>11, RefittedTyped
<1>. QED  BY <1>1, <1>12

LEMMA SkewTyped ==
  ASSUME NEW angles, \A k \in DOMAIN angles : angles[k] \in Direction,
         NEW NoSkew \in Direction, NEW img, NEW maxAngle
  PROVE  DetectSkewAngle(img, angles, maxAngle, NoSkew) \in Direction
BY DEF DetectSkewAngle

LEMMA DeskewTyped ==
  ASSUME NEW angles, \A k \in DOMAIN angles : angles[k] \in Direction,
         NEW NoSkew \in Direction, NEW img, IsImage(img), ~IsEmptyImage(img), NEW config
  PROVE  LET new == ApplyDeskew(img, config, angles, NoSkew).image
         IN  IsImage(new) /\ ~IsEmptyImage(new) /\ new.dpi = img.dpi
<1> DEFINE angle == DetectSkewAngle(img, angles, config.max_angle, NoSkew)
           new == ApplyDeskew(img, config, angles, NoSkew).image
<1>1. angle \in Direction
  BY SkewTyped
<1>2. new \in { img, RotateArbitrary(img, angle) }
  BY DEF ApplyDeskew
<1> HIDE DEF angle, new
<1>3. /\ IsImage(RotateArbitrary(img, angle)) /\ ~IsEmptyImage(RotateArbitrary(img, angle))
      /\ RotateArbitrary(img, angle).dpi = img.dpi
  BY <1>1, RotatedTyped
<1>4. IsImage(new) /\ ~IsEmptyImage(new) /\ new.dpi = img.dpi
  BY <1>2, <1>3
<1>. QED  BY <1>4 DEF new

=============================================================================
