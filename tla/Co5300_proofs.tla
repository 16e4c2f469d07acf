--------------------------- MODULE Co5300_proofs ---------------------------
(***************************************************************************)
(* The upload of a frame shows what Slint has drawn and fails only for the *)
(* reasons that it may, for every panel, band and bound on the spans.  The *)
(* walk of flush_band over its spans is a recursive function, which        *)
(* induction over its finite domain identifies: its rectangles cover       *)
(* exactly the spans, whatever it merges, and those of a whole band have   *)
(* even sides.  Everything that Slint has rendered of a frame is then in   *)
(* the buffer, on the panel, or known to be missed.                        *)
(***************************************************************************)
EXTENDS Co5300, FiniteSetTheorems, TLAPS

(* What a set of spans draws, and the members of a sequence of them.        *)
Drawn(S) == UNION {SpanPixels(s) : s \in S}
Of(sequence) == {sequence[n] : n \in 1..Len(sequence)}

-----------------------------------------------------------------------------
LEMMA Constants ==
  /\ Width \in Nat \ {0} /\ Height \in Nat \ {0} /\ TileLines \in Nat \ {0}
  /\ Width % 2 = 0 /\ Height % 2 = 0 /\ TileLines % 2 = 0
  /\ MaxSpans \in Nat /\ MaxFaults \in Nat
BY Co5300Assumption

(* Every set of naturals that has an element has a least one.               *)
LEMMA Least ==
  ASSUME NEW S \in SUBSET Nat, S # {}
  PROVE  \E n \in S : \A m \in S : n <= m
<1> DEFINE T == {0..n : n \in S}
           R == StrictSubsetOrdering(Nat)
           F == FiniteSubsetsOf(Nat)
<1>1. IsWellFoundedOn(R, F)
  BY FS_StrictSubsetOrderingWellFounded
<1>2. \A n \in Nat : 0..n \in SUBSET Nat /\ 0..n \in F
  <2> TAKE n \in Nat
  <2>1. IsFiniteSet(0..n)
    BY FS_Interval
  <2> QED BY <2>1 DEF FiniteSubsetsOf
<1>3. T # {} /\ T \subseteq F
  BY <1>2
<1>4. PICK x \in T : \A y \in T : ~(<<y, x>> \in R)
  <2> HIDE DEF T, R, F
  <2> QED BY <1>1, <1>3, WFMin
<1>5. PICK n \in S : x = 0..n
  BY <1>4
<1>6. ASSUME NEW m \in S, ~(n <= m) PROVE FALSE
  <2>1. 0..m \subseteq 0..n /\ n \in 0..n /\ n \notin 0..m
    BY <1>6
  <2>2. <<0..m, 0..n>> \in R
    BY <2>1, <1>2 DEF StrictSubsetOrdering
  <2>3. 0..m \in T
    OBVIOUS
  <2> QED BY <1>4, <1>5, <2>2, <2>3
<1> QED BY <1>6

(* What holds of 0 and of n when it does of n - 1 holds of all up to N.     *)
LEMMA Induction ==
  ASSUME NEW N \in Nat, NEW S, 0 \in S, \A n \in 1..N : n - 1 \in S => n \in S
  PROVE  \A n \in 0..N : n \in S
<1> DEFINE lacking == (0..N) \ S
<1> SUFFICES ASSUME lacking # {} PROVE FALSE
  OBVIOUS
<1>1. PICK n \in lacking : \A m \in lacking : n <= m
  <2>1. lacking \in SUBSET Nat
    OBVIOUS
  <2> HIDE DEF lacking
  <2> QED BY <2>1, Least
<1>2. n \in 1..N /\ n - 1 \in 0..N /\ ~(n <= n - 1)
  BY <1>1
<1> QED BY <1>1, <1>2

(* A function that is defined by its value at 0 and by a step is defined.   *)
Recurses(f, N, V, first, step) ==
  /\ f \in [0..N -> V]
  /\ f[0] = first
  /\ \A n \in 1..N : f[n] = step[n][f[n - 1]]

LEMMA Recursion ==
  ASSUME NEW N \in Nat, NEW V, NEW first \in V, NEW step \in [1..N -> [V -> V]]
  PROVE  \E f : Recurses(f, N, V, first, step)
<1> DEFINE upTo(k, f) == Recurses(f, k, V, first, step)
           S == {k \in 0..N : \E f : upTo(k, f)}
<1>1. 0 \in S
  <2> DEFINE f == [n \in 0..0 |-> first]
  <2>1. upTo(0, f)
    BY DEF Recurses
  <2> HIDE DEF f
  <2> QED BY <2>1
<1>2. ASSUME NEW k \in 1..N, k - 1 \in S PROVE k \in S
  <2>1. PICK f : upTo(k - 1, f)
    BY <1>2
  <2> DEFINE g == [n \in 0..k |-> IF n = k THEN step[k][f[k - 1]] ELSE f[n]]
  <2>2. f[k - 1] \in V /\ step[k][f[k - 1]] \in V
    BY <2>1 DEF Recurses
  <2>3. g \in [0..k -> V] /\ g[0] = first
    BY <2>1, <2>2 DEF Recurses
  <2>4. \A n \in 1..k : g[n] = step[n][g[n - 1]]
    <3> TAKE n \in 1..k
    <3>1. CASE n = k
      BY <2>1, <3>1
    <3>2. CASE n # k
      <4>1. n \in 1..(k - 1) /\ n - 1 \in 0..k /\ n - 1 # k /\ n \in 0..k
        BY <3>2
      <4>2. g[n] = f[n] /\ g[n - 1] = f[n - 1]
        BY <4>1, <3>2
      <4> QED BY <4>1, <4>2, <2>1 DEF Recurses
    <3> QED BY <3>1, <3>2
  <2> HIDE DEF g
  <2>5. upTo(k, g)
    BY <2>3, <2>4 DEF Recurses
  <2> QED BY <2>5
<1>3. N \in S
  <2> HIDE DEF S
  <2>1. \A n \in 0..N : n \in S
    BY <1>1, <1>2, Induction
  <2> QED BY <2>1
<1> QED BY <1>3

-----------------------------------------------------------------------------
(* The spans of a region.                                                   *)
LEMMA SpanIs ==
  ASSUME NEW s \in Span
  PROVE  /\ s.line \in Nat /\ s.start \in Nat /\ s.end \in Nat
         /\ s.line < Height /\ s.start < Width /\ s.end <= Width
BY Constants DEF Span, Lines, Columns

LEMMA InSpan ==
  ASSUME NEW s \in Span, NEW x, NEW y
  PROVE  <<x, y>> \in SpanPixels(s) <=> x \in s.start..(s.end - 1) /\ y = s.line
BY DEF SpanPixels

(* Every pixel of a region is in one of its spans: the one from the column  *)
(* after the last gap to its left up to the first gap to its right.         *)
LEMMA PixelInSpan ==
  ASSUME NEW region \in SUBSET Pixels, NEW x, NEW y, <<x, y>> \in region
  PROVE  \E s \in SpansOf(region) : <<x, y>> \in SpanPixels(s)
<1>1. x \in 0..(Width - 1) /\ y \in Lines /\ Width \in Nat \ {0}
  BY Constants DEF Pixels, Columns
<1> DEFINE gaps == {e \in 1..Width : x < e /\ <<e, y>> \notin region}
           back == {b \in 0..x : <<x - b - 1, y>> \notin region}
<1>2. PICK end \in gaps : \A e \in gaps : end <= e
  <2>1. <<Width, y>> \notin region
    BY <1>1 DEF Pixels, Columns
  <2>2. Width \in gaps /\ gaps \in SUBSET Nat
    BY <1>1, <2>1
  <2> HIDE DEF gaps
  <2> QED BY <2>2, Least
<1>3. PICK first \in back : \A b \in back : first <= b
  <2>1. x - x - 1 = -1 /\ <<-1, y>> \notin region
    BY <1>1 DEF Pixels, Columns
  <2>2. x \in back /\ back \in SUBSET Nat
    BY <1>1, <2>1
  <2> HIDE DEF back
  <2> QED BY <2>2, Least
<1> DEFINE s == [line |-> y, start |-> x - first, end |-> end]
<1>4. s \in Span /\ s.start <= x /\ x < s.end /\ s.start \in Nat
  BY <1>1, <1>2, <1>3 DEF Span, Columns
<1>5. ASSUME NEW c \in s.start..(s.end - 1) PROVE <<c, y>> \in region
  <2>1. c \in Nat /\ c < end /\ c >= x - first
    BY <1>1, <1>2, <1>3
  <2>2. CASE c = x
    BY <2>2
  <2>3. CASE x < c
    <3>1. c \in 1..Width /\ ~(end <= c)
      BY <1>1, <1>2, <2>1, <2>3
    <3> QED BY <1>2, <2>3, <3>1
  <2>4. CASE c < x
    <3> DEFINE b == x - 1 - c
    <3>1. b \in 0..x /\ ~(first <= b) /\ x - b - 1 = c
      BY <1>1, <1>3, <2>1, <2>4
    <3> QED BY <1>3, <3>1
  <2> QED BY <1>1, <2>1, <2>2, <2>3, <2>4
<1>6. s \in SpansOf(region)
  <2>1. SpanPixels(s) \subseteq region
    BY <1>5 DEF SpanPixels
  <2>2. <<s.start - 1, s.line>> \notin region /\ <<s.end, s.line>> \notin region
    BY <1>2, <1>3
  <2>3. s.start < s.end
    BY <1>1, <1>2, <1>3
  <2> QED BY <1>4, <2>1, <2>2, <2>3 DEF SpansOf
<1>7. <<x, y>> \in SpanPixels(s)
  BY <1>1, <1>2, <1>3 DEF SpanPixels
<1> QED BY <1>6, <1>7

LEMMA RegionIsDrawn ==
  ASSUME NEW region \in SUBSET Pixels
  PROVE  Drawn(SpansOf(region)) = region
<1>1. ASSUME NEW p \in region PROVE p \in Drawn(SpansOf(region))
  <2>1. PICK x, y : p = <<x, y>>
    BY DEF Pixels
  <2> QED BY <1>1, <2>1, PixelInSpan DEF Drawn
<1>2. Drawn(SpansOf(region)) \subseteq region
  BY DEF Drawn, SpansOf
<1> QED BY <1>1, <1>2

(* The spans of a region that begin at the same place are the same.         *)
LEMMA SpansDiffer ==
  ASSUME NEW region, NEW s \in SpansOf(region), NEW t \in SpansOf(region),
         s.line = t.line, s.start = t.start
  PROVE  s = t
<1>1. s \in Span /\ t \in Span
  BY DEF SpansOf
<1>2. ASSUME NEW u \in SpansOf(region), NEW v \in SpansOf(region),
             u.line = v.line, u.start = v.start, u.end < v.end
      PROVE  FALSE
  <2>1. /\ u \in Span /\ v \in Span /\ u.start < u.end /\ <<u.end, u.line>> \notin region
        /\ SpanPixels(v) \subseteq region
    BY DEF SpansOf
  <2>2. u.end \in v.start..(v.end - 1)
    BY <1>2, <2>1, SpanIs
  <2>3. <<u.end, u.line>> \in SpanPixels(v)
    BY <1>2, <2>1, <2>2, InSpan
  <2> QED BY <2>1, <2>3
<1>3. s.end = t.end
  BY <1>1, <1>2, SpanIs
<1> QED BY <1>1, <1>3 DEF Span

(* Slint's order leaves a next span, as long as there is one.               *)
LEMMA NextSpanIs ==
  ASSUME spans \subseteq SpansOf(frame), spans # {}
  PROVE  /\ NextSpan \in spans
         /\ \A t \in spans \ {NextSpan} :
              Before(NextSpan.start, NextSpan.line, t.start, t.line)
<1>1. \A t \in spans : t \in Span /\ t.line \in Nat /\ t.start \in Nat
  BY SpanIs DEF SpansOf
<1>2. PICK line \in {t.line : t \in spans} : \A n \in {t.line : t \in spans} : line <= n
  <2> DEFINE ns == {t.line : t \in spans}
  <2>1. ns \in SUBSET Nat /\ ns # {}
    BY <1>1
  <2> HIDE DEF ns
  <2>2. \E line \in ns : \A n \in ns : line <= n
    BY <2>1, Least
  <2> QED BY <2>2 DEF ns
<1> DEFINE above == {t \in spans : t.line = line}
<1>3. PICK start \in {t.start : t \in above} : \A n \in {t.start : t \in above} : start <= n
  <2> DEFINE ns == {t.start : t \in above}
  <2>1. ns \in SUBSET Nat /\ ns # {}
    BY <1>1, <1>2
  <2> HIDE DEF ns
  <2>2. \E start \in ns : \A n \in ns : start <= n
    BY <2>1, Least
  <2> QED BY <2>2 DEF ns
<1>4. PICK s \in above : s.start = start
  BY <1>3
<1>5. ASSUME NEW t \in spans \ {s} PROVE Before(s.start, s.line, t.start, t.line)
  <2>1. s.line <= t.line /\ (s.line = t.line => s.start <= t.start)
    BY <1>2, <1>3, <1>4
  <2>2. ~(s.line = t.line /\ s.start = t.start)
    BY <1>4, SpansDiffer
  <2>3. s.line \in Nat /\ t.line \in Nat /\ s.start \in Nat /\ t.start \in Nat
    BY <1>1, <1>4
  <2> QED BY <2>1, <2>2, <2>3 DEF Before
<1>6. \E u \in spans : \A t \in spans \ {u} : Before(u.start, u.line, t.start, t.line)
  BY <1>4, <1>5
<1> QED BY <1>6 DEF NextSpan

(* The rows of a band.                                                      *)
LEMMA Multiple ==
  ASSUME NEW t \in Nat \ {0}, NEW n \in Nat
  PROVE  /\ (n \div t) * t \in Nat /\ (n \div t) * t <= n
         /\ n < (n \div t) * t + t
<1> DEFINE q == n \div t
<1>1. q \in Nat /\ q * t <= n /\ n < q * t + t
  OBVIOUS
<1> HIDE DEF q
<1>2. q * t \in Nat
  BY <1>1
<1> QED BY <1>1, <1>2 DEF q

LEMMA BandIs ==
  ASSUME NEW s \in Span
  PROVE  /\ BandOf(s) \in Lines /\ BandOf(s) \in Nat
         /\ BandOf(s) <= s.line /\ s.line - BandOf(s) \in Rows
<1>1. s.line \in Nat /\ s.line < Height
  BY SpanIs
<1>2. BandOf(s) \in Nat /\ BandOf(s) <= s.line /\ s.line < BandOf(s) + TileLines
  BY <1>1, Constants, Multiple DEF BandOf
<1> QED BY <1>1, <1>2, Constants DEF Lines, Rows

-----------------------------------------------------------------------------
(* The rectangles of a band cover exactly its spans, however they merge.    *)
Thick == {s \in Span : s.start < s.end}
Rectangle == [x : Nat, y : Nat, width : Nat \ {0}, height : Nat \ {0}]
Cover(rectangles) == UNION {RectanglePixels(r) : r \in rectangles}

LEMMA ThickIs ==
  ASSUME NEW region
  PROVE  SpansOf(region) \subseteq Thick
BY DEF SpansOf, Thick

Line(s) == [x |-> s.start, y |-> s.line, width |-> s.end - s.start, height |-> 1]
Longer(r) == [r EXCEPT !.height = @ + 1]

LEMMA LineIs ==
  ASSUME NEW s \in Thick
  PROVE  Line(s) \in Rectangle /\ RectanglePixels(Line(s)) = SpanPixels(s)
<1>1. s.start \in Nat /\ s.end \in Nat /\ s.line \in Nat /\ s.start < s.end
  BY SpanIs DEF Thick
<1>2. Line(s) \in Rectangle
  BY <1>1 DEF Line, Rectangle
<1>3. s.start + (s.end - s.start) - 1 = s.end - 1 /\ s.line + 1 - 1 = s.line
  BY <1>1
<1>4. RectanglePixels(Line(s)) = (s.start..(s.end - 1)) \X (s.line..s.line)
  BY <1>3 DEF RectanglePixels, Line
<1>5. s.line..s.line = {s.line}
  BY <1>1
<1> QED BY <1>2, <1>4, <1>5 DEF SpanPixels

LEMMA LongerIs ==
  ASSUME NEW s \in Thick, NEW r \in Rectangle, Extends(r, s)
  PROVE  /\ Longer(r) \in Rectangle
         /\ RectanglePixels(Longer(r)) = RectanglePixels(r) \cup SpanPixels(s)
<1>1. s.start \in Nat /\ s.end \in Nat /\ s.line \in Nat /\ s.start < s.end
  BY SpanIs DEF Thick
<1>2. /\ r.x \in Nat /\ r.y \in Nat /\ r.width \in Nat /\ r.height \in Nat \ {0}
      /\ r.x = s.start /\ r.width = s.end - s.start /\ r.y + r.height = s.line
  BY DEF Rectangle, Extends, SameColumns
<1>3. Longer(r) \in Rectangle
  BY <1>2 DEF Longer, Rectangle
<1>4. /\ Longer(r).x = r.x /\ Longer(r).y = r.y /\ Longer(r).width = r.width
      /\ Longer(r).height = r.height + 1
  BY DEF Longer, Rectangle
<1> DEFINE columns == r.x..(r.x + r.width - 1)
<1>5. columns = s.start..(s.end - 1)
  BY <1>1, <1>2
<1>6. r.y..(r.y + (r.height + 1) - 1) = (r.y..(r.y + r.height - 1)) \cup {s.line}
  BY <1>1, <1>2
<1> HIDE DEF columns
<1>7. RectanglePixels(Longer(r)) = columns \X ((r.y..(r.y + r.height - 1)) \cup {s.line})
  BY <1>4, <1>6 DEF RectanglePixels, columns
<1>8. RectanglePixels(r) = columns \X (r.y..(r.y + r.height - 1))
  BY DEF RectanglePixels, columns
<1>9. SpanPixels(s) = columns \X {s.line}
  BY <1>5 DEF SpanPixels
<1> QED BY <1>3, <1>7, <1>8, <1>9

LEMMA MergedIs ==
  ASSUME NEW s \in Thick, NEW rectangles \in SUBSET Rectangle
  PROVE  /\ Merged(rectangles, s) \in SUBSET Rectangle
         /\ Cover(Merged(rectangles, s)) = Cover(rectangles) \cup SpanPixels(s)
<1> DEFINE above == {r \in rectangles : Extends(r, s)}
<1>1. Merged(rectangles, s) = IF above = {} THEN rectangles \cup {Line(s)}
                              ELSE (rectangles \ above) \cup {Longer(r) : r \in above}
  BY DEF Merged, Line, Longer
<1>2. CASE above = {}
  BY <1>1, <1>2, LineIs DEF Cover
<1>3. CASE above # {}
  <2>1. \A r \in above : /\ Longer(r) \in Rectangle
                         /\ RectanglePixels(Longer(r)) = RectanglePixels(r) \cup SpanPixels(s)
    BY LongerIs
  <2> DEFINE merged == (rectangles \ above) \cup {Longer(r) : r \in above}
  <2>2. merged \in SUBSET Rectangle
    BY <2>1
  <2>3. Cover(merged) \subseteq Cover(rectangles) \cup SpanPixels(s)
    BY <2>1 DEF Cover
  <2>4. Cover(rectangles) \subseteq Cover(merged)
    <3> SUFFICES ASSUME NEW r \in rectangles, NEW p \in RectanglePixels(r)
                 PROVE  p \in Cover(merged)
      BY DEF Cover
    <3>1. CASE r \in above
      BY <2>1, <3>1 DEF Cover
    <3>2. CASE r \notin above
      BY <3>2 DEF Cover
    <3> QED BY <3>1, <3>2
  <2>5. SpanPixels(s) \subseteq Cover(merged)
    <3>1. PICK r \in above : TRUE
      BY <1>3
    <3> QED BY <2>1, <3>1 DEF Cover
  <2> QED BY <1>1, <1>3, <2>2, <2>3, <2>4, <2>5
<1> QED BY <1>2, <1>3

(* The walk over the spans.                                                 *)
Walk(f) == /\ f \in [0..Len(dirtySpans) -> SUBSET Rectangle]
           /\ f[0] = {}
           /\ \A n \in 1..Len(dirtySpans) : f[n] = Merged(f[n - 1], dirtySpans[n])

LEMMA WalkIs ==
  ASSUME dirtySpans \in Seq(Thick)
  PROVE  \E f : Walk(f) /\ Rectangles = f[Len(dirtySpans)]
<1> DEFINE N == Len(dirtySpans)
           V == SUBSET Rectangle
           step == [n \in 1..N |-> [v \in V |-> Merged(v, dirtySpans[n])]]
<1>1. N \in Nat /\ \A n \in 1..N : dirtySpans[n] \in Thick
  OBVIOUS
<1>2. step \in [1..N -> [V -> V]]
  BY <1>1, MergedIs
<1>3. PICK f : Recurses(f, N, V, {}, step)
  <2>1. {} \in V
    OBVIOUS
  <2> HIDE DEF step, V, N
  <2>2. N \in Nat
    BY <1>1
  <2> QED BY <1>2, <2>1, <2>2, Recursion
<1>4. f = [n \in 0..N |-> IF n = 0 THEN {} ELSE Merged(f[n - 1], dirtySpans[n])]
  <2>1. ASSUME NEW n \in 1..N PROVE f[n] = Merged(f[n - 1], dirtySpans[n])
    <3>1. n - 1 \in 0..N /\ f[n - 1] \in V
      BY <1>1, <1>3 DEF Recurses
    <3> QED BY <1>3, <3>1 DEF Recurses
  <2>2. \A n \in 0..N : f[n] = IF n = 0 THEN {} ELSE Merged(f[n - 1], dirtySpans[n])
    BY <1>1, <1>3, <2>1 DEF Recurses
  <2>3. f = [n \in 0..N |-> f[n]]
    BY <1>3 DEF Recurses
  <2> QED BY <2>2, <2>3
<1> DEFINE merged[n \in 0..N] == IF n = 0 THEN {} ELSE Merged(merged[n - 1], dirtySpans[n])
<1>5. merged = [n \in 0..N |-> IF n = 0 THEN {} ELSE Merged(merged[n - 1], dirtySpans[n])]
  BY <1>4
<1>6. Rectangles = merged[N]
  BY DEF Rectangles
<1> HIDE DEF merged
<1>7. merged[0] = {} /\ \A n \in 1..N : merged[n] = Merged(merged[n - 1], dirtySpans[n])
  <2> HIDE DEF N
  <2>1. merged[0] = {}
    <3>1. 0 \in 0..N
      BY <1>1
    <3> QED BY ONLY <1>5, <3>1
  <2>2. ASSUME NEW n \in 1..N PROVE merged[n] = Merged(merged[n - 1], dirtySpans[n])
    <3>1. n \in 0..N /\ n # 0
      BY <1>1
    <3> QED BY ONLY <1>5, <3>1
  <2> QED BY <2>1, <2>2
<1>8. \A n \in 0..N : merged[n] \in V
  <2> DEFINE S == {n \in 0..N : merged[n] \in V}
  <2>1. 0 \in S
    BY <1>1, <1>7
  <2>2. \A n \in 1..N : n - 1 \in S => n \in S
    BY <1>1, <1>7, MergedIs
  <2> HIDE DEF S
  <2>3. \A n \in 0..N : n \in S
    BY <1>1, <2>1, <2>2, Induction
  <2> QED BY <2>3 DEF S
<1>9. merged \in [0..N -> V]
  <2>1. merged = [n \in 0..N |-> merged[n]]
    BY <1>5
  <2> QED BY <1>8, <2>1
<1> QED BY <1>6, <1>7, <1>9 DEF Walk

LEMMA RectanglesCover ==
  ASSUME dirtySpans \in Seq(Thick)
  PROVE  Rectangles \in SUBSET Rectangle /\ Cover(Rectangles) = Drawn(Of(dirtySpans))
<1> DEFINE N == Len(dirtySpans)
           first(n) == {dirtySpans[i] : i \in 1..n}
<1>1. N \in Nat /\ \A n \in 1..N : dirtySpans[n] \in Thick
  OBVIOUS
<1>2. PICK f : Walk(f) /\ Rectangles = f[N]
  BY WalkIs
<1> DEFINE S == {n \in 0..N : Cover(f[n]) = Drawn(first(n))}
<1>3. 0 \in S
  BY <1>1, <1>2 DEF Walk, Cover, Drawn
<1>4. ASSUME NEW n \in 1..N, n - 1 \in S PROVE n \in S
  <2>1. f[n - 1] \in SUBSET Rectangle /\ f[n] = Merged(f[n - 1], dirtySpans[n])
    BY <1>1, <1>2 DEF Walk
  <2>2. Cover(f[n]) = Cover(f[n - 1]) \cup SpanPixels(dirtySpans[n])
    BY <1>1, <2>1, MergedIs
  <2>3. first(n) = first(n - 1) \cup {dirtySpans[n]}
    <3>1. 1..n = (1..(n - 1)) \cup {n}
      BY <1>1
    <3> QED BY <3>1
  <2>4. Drawn(first(n)) = Drawn(first(n - 1)) \cup SpanPixels(dirtySpans[n])
    BY <2>3 DEF Drawn
  <2>5. Cover(f[n - 1]) = Drawn(first(n - 1)) /\ n \in 0..N
    BY <1>1, <1>4
  <2> HIDE DEF first
  <2> QED BY <2>2, <2>4, <2>5
<1>5. N \in S
  <2> HIDE DEF S
  <2>1. \A n \in 0..N : n \in S
    BY <1>1, <1>3, <1>4, Induction
  <2> QED BY <1>1, <2>1
<1>6. Rectangles \in SUBSET Rectangle
  BY <1>1, <1>2 DEF Walk
<1> QED BY <1>2, <1>5, <1>6 DEF Of

-----------------------------------------------------------------------------
(* What is collected is in the buffer, and what Slint has rendered is       *)
(* collected, sent, or of a frame that has failed.                          *)
Between == ~drawing => /\ frame = {} /\ spans = {}
                       /\ dirtySpans = <<>> /\ band = {} /\ ~error
Going == drawing => ~redraw
Pending == spans \subseteq SpansOf(frame)
Collecting == /\ Of(dirtySpans) \subseteq SpansOf(frame)
              /\ band = {} => dirtySpans = <<>>
              /\ \A y \in band : \A s \in Of(dirtySpans) : BandOf(s) = y
Buffered == \A y \in band : \A s \in Of(dirtySpans) : \A x \in s.start..(s.end - 1) :
              buffer[<<s.line - y, x>>] = s.line
Reached == stale \subseteq dirty \cup missed \cup frame
Accounted == drawing /\ ~error =>
  stale \subseteq dirty \cup (missed \ frame) \cup Drawn(spans) \cup Drawn(Of(dirtySpans))

IInv == /\ TypeOK /\ Between /\ Going /\ Pending /\ Collecting /\ Buffered
        /\ Reached /\ Accounted

LEMMA ThickSpans ==
  ASSUME dirtySpans \in Seq(Span), Of(dirtySpans) \subseteq SpansOf(frame)
  PROVE  dirtySpans \in Seq(Thick)
<1>1. \A n \in 1..Len(dirtySpans) : dirtySpans[n] \in Thick
  BY ThickIs DEF Of
<1> QED BY <1>1

(* A flush takes from the stale pixels those of the rectangles it has sent. *)
LEMMA SentIs ==
  ASSUME TypeOK, Collecting, Buffered, NEW y \in band, NEW rectangles \in SUBSET Rectangles
  PROVE  Sent(rectangles, y) = stale \ Cover(rectangles)
<1> DEFINE pixels == Cover(rectangles)
           right == {p \in pixels : buffer[<<p[2] - y, p[1]>>] = p[2]}
<1>1. dirtySpans \in Seq(Thick)
  BY ThickSpans DEF TypeOK, Collecting
<1>2. Cover(rectangles) \subseteq Cover(Rectangles)
  BY DEF Cover
<1>3. ASSUME NEW p \in pixels PROVE p \in right
  <2>1. p \in Drawn(Of(dirtySpans))
    BY <1>1, <1>2, <1>3, RectanglesCover
  <2>2. PICK s \in Of(dirtySpans) : p \in SpanPixels(s)
    BY <2>1 DEF Drawn
  <2>3. PICK x \in s.start..(s.end - 1) : p = <<x, s.line>>
    BY <2>2 DEF SpanPixels
  <2>4. buffer[<<s.line - y, x>>] = s.line
    BY <2>2, <2>3 DEF Buffered
  <2> QED BY <1>3, <2>3, <2>4
<1>4. Sent(rectangles, y) = (stale \ right) \cup (pixels \ right)
  BY DEF Sent, Cover
<1>5. right = pixels
  BY <1>3
<1> QED BY <1>4, <1>5

LEMMA FlushTakes ==
  ASSUME TypeOK, Collecting, Buffered
  PROVE  /\ FlushSucceeds => /\ stale' = stale \ Drawn(Of(dirtySpans))
                             /\ faults' = faults
         /\ FlushFails => /\ stale' \subseteq stale
                          /\ faults' = faults \/ Refused
<1>1. ASSUME FlushSucceeds
      PROVE  stale' = stale \ Drawn(Of(dirtySpans)) /\ faults' = faults
  <2>1. CASE band = {}
    <3>1. Of(dirtySpans) = {}
      BY <2>1 DEF Collecting, Of
    <3> QED BY <1>1, <2>1, <3>1 DEF FlushSucceeds, Drawn
  <2>2. ASSUME NEW y \in band PROVE stale' = stale \ Drawn(Of(dirtySpans))
    <3>1. dirtySpans \in Seq(Thick)
      BY ThickSpans DEF TypeOK, Collecting
    <3>2. stale' = Sent(Rectangles, y)
      BY <1>1, <2>2 DEF FlushSucceeds
    <3>3. Sent(Rectangles, y) = stale \ Cover(Rectangles)
      BY <2>2, SentIs
    <3> QED BY <3>1, <3>2, <3>3, RectanglesCover
  <2> QED BY <1>1, <2>1, <2>2 DEF FlushSucceeds
<1>2. ASSUME FlushFails PROVE stale' \subseteq stale /\ (faults' = faults \/ Refused)
  <2>1. PICK y \in band, r \in Rectangles :
          LET before == {q \in Rectangles : Before(q.x, q.y, r.x, r.y)} IN
          /\ stale' = Sent(before, y)
          /\ faults' = faults \/ Refused
    BY <1>2 DEF FlushFails
  <2> DEFINE before == {q \in Rectangles : Before(q.x, q.y, r.x, r.y)}
  <2>2. before \in SUBSET Rectangles
    OBVIOUS
  <2>3. stale' = Sent(before, y) /\ (faults' = faults \/ Refused)
    BY <2>1
  <2> HIDE DEF before
  <2>4. Sent(before, y) = stale \ Cover(before)
    BY <2>2, SentIs
  <2> QED BY <2>3, <2>4
<1> QED BY <1>1, <1>2

-----------------------------------------------------------------------------
LEMMA BlocksArePixels == \A block \in Blocks : block \in SUBSET Pixels
<1> SUFFICES ASSUME NEW x \in 0..(Width \div 2 - 1), NEW y \in 0..(Height \div 2 - 1)
             PROVE  {2 * x, 2 * x + 1} \X {2 * y, 2 * y + 1} \in SUBSET Pixels
  BY DEF Blocks
<1>1. {2 * x, 2 * x + 1} \subseteq Columns
  BY Constants DEF Columns
<1>2. {2 * y, 2 * y + 1} \subseteq Lines
  BY Constants DEF Lines
<1> QED BY <1>1, <1>2 DEF Pixels

LEMMA InitIInv == Init => IInv
<1> SUFFICES ASSUME Init PROVE IInv
  OBVIOUS
<1>1. TypeOK
  <2>1. /\ {dirty, frame, stale, missed} \subseteq SUBSET Pixels /\ spans \subseteq Span
        /\ {drawing, redraw, error} \subseteq BOOLEAN /\ band \in Option(Lines)
    BY DEF Init, Option
  <2>2. buffer \in [Rows \X Columns -> Lines \cup {NoLine}]
    BY DEF Init
  <2>3. dirtySpans \in Seq(Span) /\ Len(dirtySpans) <= MaxSpans /\ faults \in 0..MaxFaults
    BY Constants DEF Init
  <2> QED BY <2>1, <2>2, <2>3 DEF TypeOK
<1>2. Of(dirtySpans) = {}
  BY DEF Init, Of
<1> QED BY <1>1, <1>2 DEF IInv, Init, Between, Going, Pending, Collecting, Buffered, Reached,
                          Accounted

LEMMA ChangesKeeps == ASSUME IInv, Changes PROVE IInv'
<1>1. /\ ~drawing
      /\ UNCHANGED <<frame, spans, drawing, redraw, buffer, band, dirtySpans, error,
                     missed, faults>>
  BY DEF Changes
<1>2. PICK block \in SUBSET Pixels : dirty' = dirty \cup block /\ stale' = stale \cup block
  BY BlocksArePixels, LaterBlocksAssumption DEF Changes
<1>3. TypeOK'
  BY <1>1, <1>2 DEF IInv, TypeOK
<1>4. Reached'
  BY <1>1, <1>2 DEF IInv, Reached
<1>5. Accounted' /\ Between' /\ Going' /\ Pending'
  BY <1>1 DEF IInv, Accounted, Between, Going, Pending
<1>6. Of(dirtySpans)' = Of(dirtySpans)
  BY <1>1
<1>7. Collecting' /\ Buffered'
  BY <1>1, <1>6 DEF IInv, Collecting, Buffered
<1> QED BY <1>3, <1>4, <1>5, <1>7 DEF IInv

LEMMA StartsKeeps == ASSUME IInv, StartsFrame PROVE IInv'
<1>1. /\ ~drawing /\ drawing' = TRUE /\ redraw' = FALSE
      /\ frame' = dirty /\ spans' = SpansOf(dirty) /\ dirty' = {}
      /\ buffer' = [i \in DOMAIN buffer |-> NoLine]
      /\ UNCHANGED <<band, dirtySpans, error, stale, missed, faults>>
  BY DEF StartsFrame
<1>2. /\ TypeOK /\ frame = {} /\ spans = {} /\ dirtySpans = <<>> /\ band = {} /\ ~error
      /\ stale \subseteq dirty \cup missed
  BY <1>1 DEF IInv, Between, Reached
<1>3. TypeOK'
  <2>1. buffer' \in [Rows \X Columns -> Lines \cup {NoLine}]
    BY <1>1, <1>2 DEF TypeOK
  <2>2. SpansOf(dirty) \subseteq Span
    BY DEF SpansOf
  <2> QED BY <1>1, <1>2, <2>1, <2>2 DEF TypeOK
<1>4. Between' /\ Going' /\ Pending'
  BY <1>1 DEF Between, Going, Pending
<1>5. Of(dirtySpans)' = {}
  BY <1>1, <1>2 DEF Of
<1>6. Collecting' /\ Buffered'
  BY <1>1, <1>2, <1>5 DEF Collecting, Buffered
<1>7. Reached'
  BY <1>1, <1>2 DEF Reached
<1>8. Accounted'
  <2>1. Drawn(spans') = frame'
    BY <1>1, <1>2, RegionIsDrawn DEF TypeOK
  <2> QED BY <1>1, <1>2, <2>1 DEF Accounted
<1> QED BY <1>3, <1>4, <1>6, <1>7, <1>8 DEF IInv

(* A span that is rendered joins those collected before it in its band.     *)
LEMMA RendersKeeps ==
  ASSUME TypeOK, NEW s \in SpansOf(frame), NEW collected \in Seq(Span),
         Of(collected) \subseteq SpansOf(frame), Len(collected) <= MaxSpans,
         \A t \in Of(collected) : BandOf(t) = BandOf(s),
         \A t \in Of(collected) : \A x \in t.start..(t.end - 1) :
           buffer[<<t.line - BandOf(s), x>>] = t.line,
         Renders(s, collected), frame' = frame
  PROVE  /\ buffer' \in [Rows \X Columns -> Lines \cup {NoLine}]
         /\ band' \in Option(Lines) /\ error' \in BOOLEAN
         /\ dirtySpans' \in Seq(Span) /\ Len(dirtySpans') <= MaxSpans
         /\ Collecting' /\ Buffered'
         /\ ~error' => Of(dirtySpans') = Of(collected) \cup {s}
         /\ error' \/ error' = error
<1>1. s \in Span /\ BandOf(s) \in Lines /\ s.line - BandOf(s) \in Rows /\ s.line \in Lines
  BY BandIs DEF SpansOf, Span
<1>2. /\ band' = {BandOf(s)}
      /\ buffer' = [i \in DOMAIN buffer |->
                      IF i[1] = s.line - BandOf(s) /\ i[2] \in s.start..(s.end - 1)
                      THEN s.line ELSE buffer[i]]
  BY DEF Renders
<1>3. buffer' \in [Rows \X Columns -> Lines \cup {NoLine}]
  BY <1>1, <1>2 DEF TypeOK
<1>4. \/ /\ dirtySpans' = Append(collected, s) /\ error' = error
         /\ Len(collected) < MaxSpans
      \/ dirtySpans' = collected /\ error' = TRUE
  BY DEF Renders, HasRoom
<1>5. Len(collected) \in Nat /\ Of(Append(collected, s)) = Of(collected) \cup {s}
  <2> DEFINE longer == Append(collected, s)
  <2>1. Len(collected) \in Nat
    OBVIOUS
  <2>2. /\ Len(longer) = Len(collected) + 1 /\ longer[Len(collected) + 1] = s
        /\ \A n \in 1..Len(collected) : longer[n] = collected[n]
    OBVIOUS
  <2>3. 1..(Len(collected) + 1) = (1..Len(collected)) \cup {Len(collected) + 1}
    BY <2>1
  <2> HIDE DEF longer
  <2> QED BY <2>1, <2>2, <2>3 DEF Of, longer
<1>6. /\ dirtySpans' \in Seq(Span) /\ Len(dirtySpans') <= MaxSpans
      /\ Of(dirtySpans') \subseteq Of(collected) \cup {s}
      /\ ~error' => Of(dirtySpans') = Of(collected) \cup {s}
  <2> DEFINE longer == Append(collected, s)
  <2>1. longer \in Seq(Span) /\ (Len(collected) < MaxSpans => Len(longer) <= MaxSpans)
    BY <1>1, Constants
  <2>2. Of(longer) = Of(collected) \cup {s}
    BY <1>5
  <2>3. CASE dirtySpans' = longer /\ Len(collected) < MaxSpans
    <3> HIDE DEF longer
    <3> QED BY <2>1, <2>2, <2>3, Zenon
  <2>4. CASE dirtySpans' = collected /\ error' = TRUE
    BY <2>4, Zenon
  <2> QED BY <1>4, <2>3, <2>4
<1>7. Collecting'
  BY <1>2, <1>6 DEF Collecting
<1>8. Buffered'
  <2> SUFFICES ASSUME NEW t \in Of(collected) \cup {s}, NEW x \in t.start..(t.end - 1)
               PROVE  buffer'[<<t.line - BandOf(s), x>>] = t.line
    BY <1>2, <1>6 DEF Buffered
  <2>1. t \in Span /\ BandOf(t) = BandOf(s)
    BY DEF SpansOf
  <2>2. t.line - BandOf(s) \in Rows /\ x \in Columns /\ t.line \in Nat /\ s.line \in Nat
        /\ BandOf(s) \in Nat
    <3>1. x \in Columns
      BY <2>1, SpanIs, Constants DEF Columns
    <3> QED BY <1>1, <2>1, <3>1, BandIs, SpanIs
  <2> DEFINE i == <<t.line - BandOf(s), x>>
  <2>3. i \in DOMAIN buffer /\ i[1] = t.line - BandOf(s) /\ i[2] = x
    BY <2>2 DEF TypeOK
  <2>4. buffer'[i] = IF t.line - BandOf(s) = s.line - BandOf(s) /\ x \in s.start..(s.end - 1)
                     THEN s.line ELSE buffer[i]
    BY <1>2, <2>3
  <2>5. CASE t.line - BandOf(s) = s.line - BandOf(s) /\ x \in s.start..(s.end - 1)
    <3>1. t.line = s.line
      BY <2>2, <2>5
    <3> QED BY <2>4, <2>5, <3>1
  <2>6. CASE ~(t.line - BandOf(s) = s.line - BandOf(s) /\ x \in s.start..(s.end - 1))
    <3>1. t \in Of(collected)
      BY <2>6
    <3>2. buffer[i] = t.line
      BY <3>1
    <3> QED BY <2>4, <2>6, <3>2
  <2> QED BY <2>5, <2>6
<1> QED BY <1>1, <1>2, <1>3, <1>4, <1>6, <1>7, <1>8 DEF Option, TypeOK

LEMMA RendersNext ==
  ASSUME IInv, spans # {}, ~error,
         /\ spans' = spans \ {NextSpan}
         /\ UNCHANGED <<dirty, frame, drawing, redraw, missed>>,
         \/ /\ ~EndsBand /\ Renders(NextSpan, dirtySpans)
            /\ stale' = stale /\ faults' = faults
         \/ /\ EndsBand /\ Renders(NextSpan, <<>>)
            /\ stale' = stale \ Drawn(Of(dirtySpans)) /\ faults' = faults
  PROVE  IInv'
<1> DEFINE s == NextSpan
<1>1. /\ TypeOK /\ Between /\ Pending /\ Collecting /\ Buffered /\ Reached /\ Accounted
      /\ drawing
  BY DEF IInv, Between
<1>2. s \in spans /\ s \in SpansOf(frame)
  BY <1>1, NextSpanIs DEF Pending
<1> HIDE DEF s
<1>3. PICK collected \in {dirtySpans, <<>>} :
        /\ Renders(s, collected)
        /\ faults' = faults /\ stale' \subseteq stale
        /\ \A t \in Of(collected) : BandOf(t) = BandOf(s)
        /\ \A t \in Of(collected) : \A x \in t.start..(t.end - 1) :
             buffer[<<t.line - BandOf(s), x>>] = t.line
        /\ collected = dirtySpans \/ stale' = stale \ Drawn(Of(dirtySpans))
  <2>1. CASE /\ ~EndsBand /\ Renders(s, dirtySpans)
             /\ stale' = stale /\ faults' = faults
    <3>1. band = {} \/ BandOf(s) \in band
      BY <2>1, <1>1 DEF EndsBand, TypeOK, Option, s
    <3>2. band = {} => Of(dirtySpans) = {}
      BY <1>1 DEF Collecting, Of
    <3>3. \A t \in Of(dirtySpans) : BandOf(t) = BandOf(s)
      BY <1>1, <3>1, <3>2 DEF Collecting
    <3>4. \A t \in Of(dirtySpans) : \A x \in t.start..(t.end - 1) :
            buffer[<<t.line - BandOf(s), x>>] = t.line
      BY <1>1, <3>1, <3>2 DEF Buffered
    <3> QED BY <2>1, <3>3, <3>4
  <2>2. CASE /\ EndsBand /\ Renders(s, <<>>)
             /\ stale' = stale \ Drawn(Of(dirtySpans)) /\ faults' = faults
    <3>1. Of(<<>>) = {}
      BY DEF Of
    <3> QED BY <2>2, <3>1
  <2> QED BY <2>1, <2>2 DEF s
<1>4. /\ collected \in Seq(Span) /\ Len(collected) <= MaxSpans
      /\ Of(collected) \subseteq SpansOf(frame)
  <2>1. CASE collected = dirtySpans
    BY <1>1, <2>1 DEF TypeOK, Collecting
  <2>2. CASE collected = <<>>
    BY <2>2, Constants DEF Of
  <2> QED BY <2>1, <2>2
<1>5. /\ buffer' \in [Rows \X Columns -> Lines \cup {NoLine}]
      /\ band' \in Option(Lines) /\ error' \in BOOLEAN
      /\ dirtySpans' \in Seq(Span) /\ Len(dirtySpans') <= MaxSpans
      /\ Collecting' /\ Buffered'
      /\ ~error' => Of(dirtySpans') = Of(collected) \cup {s}
  BY <1>1, <1>2, <1>3, <1>4, RendersKeeps
<1>6. spans' \subseteq spans /\ spans' = spans \ {s}
  BY DEF s
<1>7. TypeOK'
  BY <1>1, <1>3, <1>5, <1>6 DEF TypeOK
<1>8. Between' /\ Going' /\ Pending' /\ Reached'
  BY <1>1, <1>3, <1>6 DEF IInv, Between, Going, Pending, Reached
<1>9. Accounted'
  <2> SUFFICES ASSUME ~error', NEW p \in stale',
                      p \notin dirty \cup (missed \ frame) \cup Drawn(spans')
               PROVE  p \in Drawn(Of(dirtySpans'))
    BY DEF Accounted
  <2>1. p \in stale /\ p \in Drawn(spans) \cup Drawn(Of(dirtySpans))
    BY <1>1, <1>3 DEF Accounted
  <2>2. CASE p \in Drawn(spans)
    <3>1. p \in SpanPixels(s)
      BY <1>6, <2>2 DEF Drawn
    <3> QED BY <1>5, <3>1 DEF Drawn
  <2>3. CASE p \in Drawn(Of(dirtySpans))
    <3>1. collected = dirtySpans
      BY <1>3, <2>3
    <3> QED BY <1>5, <2>3, <3>1 DEF Drawn
  <2> QED BY <2>1, <2>2, <2>3
<1> QED BY <1>5, <1>7, <1>8, <1>9 DEF IInv

LEMMA ProcessKeeps == ASSUME IInv, ProcessLine PROVE IInv'
<1>1. /\ spans # {} /\ spans' = spans \ {NextSpan}
      /\ UNCHANGED <<dirty, frame, drawing, redraw, missed>>
  BY DEF ProcessLine
<1>2. /\ TypeOK /\ Between /\ Pending /\ Collecting /\ Buffered /\ Reached /\ Accounted
  BY DEF IInv
<1>3. ASSUME error', band' = band, dirtySpans' = dirtySpans, buffer' = buffer,
             stale' \subseteq stale, faults' = faults \/ Refused, error' \in BOOLEAN
      PROVE  IInv'
  <2>1. faults' \in 0..MaxFaults
    BY <1>2, <1>3, Constants DEF TypeOK, Refused
  <2>2. TypeOK'
    BY <1>1, <1>2, <1>3, <2>1 DEF TypeOK
  <2>3. Between' /\ Going' /\ Pending' /\ Reached' /\ Accounted'
    BY <1>1, <1>2, <1>3 DEF IInv, Between, Going, Pending, Reached, Accounted
  <2>4. Of(dirtySpans)' = Of(dirtySpans)
    BY <1>3
  <2>5. Collecting' /\ Buffered'
    BY <1>1, <1>2, <1>3, <2>4 DEF Collecting, Buffered
  <2> QED BY <2>2, <2>3, <2>5 DEF IInv
<1>4. CASE error /\ UNCHANGED upload
  BY <1>2, <1>3, <1>4 DEF upload, TypeOK
<1>5. CASE /\ ~error /\ ~EndsBand /\ Renders(NextSpan, dirtySpans)
           /\ UNCHANGED <<stale, faults>>
  BY <1>1, <1>5, RendersNext
<1>6. CASE ~error /\ EndsBand /\ FlushSucceeds /\ Renders(NextSpan, <<>>)
  BY <1>1, <1>2, <1>6, FlushTakes, RendersNext
<1>7. CASE ~error /\ EndsBand /\ FlushFails /\ error' = TRUE
           /\ UNCHANGED <<buffer, band, dirtySpans>>
  BY <1>2, <1>3, <1>7, FlushTakes
<1> QED BY <1>4, <1>5, <1>6, <1>7 DEF ProcessLine

LEMMA FinishKeeps == ASSUME IInv, FinishFrame PROVE IInv'
<1>1. /\ drawing /\ spans = {}
      /\ missed' = (IF redraw' THEN missed \cup frame ELSE missed \ frame)
      /\ error' = FALSE /\ band' = {} /\ dirtySpans' = <<>>
      /\ drawing' = FALSE /\ frame' = {}
      /\ UNCHANGED <<dirty, spans, buffer>>
  BY DEF FinishFrame, SpansAfterFrame
<1>2. /\ TypeOK /\ Between /\ Pending /\ Collecting /\ Buffered /\ Reached /\ Accounted
      /\ Going /\ redraw = FALSE
  BY <1>1 DEF IInv, Going, TypeOK
<1>3. /\ stale' \subseteq stale /\ (faults' = faults \/ Refused) /\ redraw' \in BOOLEAN
      /\ redraw' \/ (~error /\ stale' = stale \ Drawn(Of(dirtySpans)))
  <2>1. CASE error /\ UNCHANGED <<stale, faults>> /\ redraw' = TRUE
    BY <2>1
  <2>2. CASE ~error /\ FlushFails /\ redraw' = TRUE
    BY <1>2, <2>2, FlushTakes
  <2>3. CASE ~error /\ FlushSucceeds /\ UNCHANGED redraw
    BY <1>2, <2>3, FlushTakes
  <2> QED BY <2>1, <2>2, <2>3 DEF FinishFrame
<1>4. faults' \in 0..MaxFaults
  BY <1>2, <1>3, Constants DEF TypeOK, Refused
<1>5. TypeOK'
  <2>1. {dirty', frame', stale', missed'} \subseteq SUBSET Pixels
    BY <1>1, <1>2, <1>3 DEF TypeOK
  <2>2. {drawing', redraw', error'} \subseteq BOOLEAN /\ spans' \subseteq Span
        /\ band' \in Option(Lines)
        /\ buffer' \in [Rows \X Columns -> Lines \cup {NoLine}]
    BY <1>1, <1>2, <1>3 DEF TypeOK, Option
  <2>3. <<>> \in Seq(Span) /\ Len(<<>>) <= MaxSpans
    BY Constants
  <2> QED BY <1>1, <1>4, <2>1, <2>2, <2>3 DEF TypeOK
<1>6. Between' /\ Going' /\ Pending'
  BY <1>1 DEF Between, Going, Pending
<1>7. Of(dirtySpans)' = {}
  BY <1>1 DEF Of
<1>8. Collecting' /\ Buffered'
  BY <1>1, <1>7 DEF Collecting, Buffered
<1>9. Reached'
  <2>1. CASE redraw'
    BY <1>1, <1>2, <1>3, <2>1 DEF Reached
  <2>2. CASE ~redraw'
    <3>1. Drawn(spans) = {}
      BY <1>1 DEF Drawn
    <3> QED BY <1>1, <1>2, <1>3, <2>2, <3>1 DEF Accounted, Reached
  <2> QED BY <2>1, <2>2
<1>10. Accounted'
  BY <1>1 DEF Accounted
<1> QED BY <1>5, <1>6, <1>8, <1>9, <1>10 DEF IInv

LEMMA NextIInv == IInv /\ [Next]_vars => IInv'
<1> SUFFICES ASSUME IInv, [Next]_vars PROVE IInv'
  OBVIOUS
<1>1. CASE UNCHANGED vars
  <2>1. UNCHANGED <<dirty, frame, spans, drawing, redraw, buffer, band, dirtySpans, error,
                    stale, missed, faults>>
    BY <1>1 DEF vars, slint, upload
  <2>2. TypeOK'
    BY <2>1 DEF IInv, TypeOK
  <2>3. Of(dirtySpans)' = Of(dirtySpans)
    BY <2>1
  <2> QED BY <2>1, <2>2, <2>3 DEF IInv, Between, Going, Pending, Collecting, Buffered,
                                 Reached, Accounted
<1> QED BY <1>1, ChangesKeeps, StartsKeeps, ProcessKeeps, FinishKeeps DEF Next

LEMMA SpecIInv == Spec => []IInv
BY InitIInv, NextIInv, PTL DEF Spec

(* Every variable of the upload has its type: no span is collected beyond   *)
(* the room for them, and nothing is written outside the buffer's rows.     *)
THEOREM SpecTypeOK == Spec => []TypeOK
<1>1. IInv => TypeOK
  BY DEF IInv
<1> QED BY <1>1, SpecIInv, PTL

(* process_line, flush_band and finish_frame: when no frame is being drawn, *)
(* the panel shows the picture wherever Slint thinks that it does, but for  *)
(* the frames that failed, for every panel, band and number of spans.       *)
THEOREM SpecShownIsDrawn == Spec => []ShownIsDrawn
<1>1. IInv => ShownIsDrawn
  BY DEF IInv, Between, Reached, ShownIsDrawn
<1> QED BY <1>1, SpecIInv, PTL

-----------------------------------------------------------------------------
(* Why only faults fail: the region is aligned to blocks of two by two      *)
(* pixels, so each span has one of the same columns on the other line of    *)
(* its pair, in the same band.                                              *)
Twin(n) == IF n % 2 = 0 THEN n + 1 ELSE n - 1
Paired(region) ==
  \A p \in region : <<Twin(p[1]), p[2]>> \in region /\ <<p[1], Twin(p[2])>> \in region
Opposite(s) == [s EXCEPT !.line = Twin(@)]
Even(n) == n % 2 = 0

LEMMA TwinIs ==
  ASSUME NEW n \in Nat
  PROVE  /\ Twin(n) \in Nat /\ Twin(Twin(n)) = n
         /\ Even(n) => Twin(n) = n + 1
         /\ ~Even(n) => Twin(n) = n - 1 /\ n >= 1 /\ Even(Twin(n))
BY DEF Twin, Even

LEMMA Times ==
  ASSUME NEW t \in Nat \ {0}, NEW p \in Nat, NEW q \in Nat, p <= q
  PROVE  p * t <= q * t /\ p * t \in Nat /\ q * t \in Nat
<1>1. q * t = p * t + (q - p) * t /\ (q - p) * t \in Nat /\ p * t \in Nat /\ q * t \in Nat
  OBVIOUS
<1> QED BY <1>1

LEMMA QuotientIs ==
  ASSUME NEW t \in Nat \ {0}, NEW n \in Nat, NEW q \in Nat, q * t <= n, n < q * t + t
  PROVE  n \div t = q
<1> DEFINE p == n \div t
<1>1. p \in Nat /\ p * t <= n /\ n < p * t + t
  OBVIOUS
<1> HIDE DEF p
<1>2. p * t \in Nat /\ q * t \in Nat
  BY <1>1
<1>3. (p + 1) * t = p * t + t /\ (q + 1) * t = q * t + t
  BY <1>1
<1>4. ~(p + 1 <= q) /\ ~(q + 1 <= p)
  BY <1>1, <1>2, <1>3, Times
<1>5. p = q
  BY <1>1, <1>4
<1> QED BY <1>5 DEF p

LEMMA QuotientGrows ==
  ASSUME NEW t \in Nat \ {0}, NEW m \in Nat, NEW n \in Nat, m <= n
  PROVE  (m \div t) * t <= (n \div t) * t
<1> DEFINE p == m \div t
           q == n \div t
<1>1. p \in Nat /\ p * t <= m /\ q \in Nat /\ n < q * t + t
  OBVIOUS
<1> HIDE DEF p, q
<1>2. (q + 1) * t = q * t + t /\ p * t \in Nat /\ q * t \in Nat
  BY <1>1
<1>3. ~(q + 1 <= p)
  BY <1>1, <1>2, Times
<1>4. p * t <= q * t
  BY <1>1, <1>3, Times
<1> QED BY <1>4 DEF p, q

LEMMA EvenMultiple ==
  ASSUME NEW t \in Nat \ {0}, Even(t), NEW q \in Nat
  PROVE  q * t \in Nat /\ Even(q * t)
<1>1. PICK h \in Nat : t = 2 * h
  <2>1. t \div 2 \in Nat /\ t = 2 * (t \div 2)
    BY DEF Even
  <2> QED BY <2>1
<1>2. q * t = 2 * (q * h) /\ q * h \in Nat
  BY <1>1
<1> DEFINE k == q * h
<1> HIDE DEF k
<1>3. (2 * k) % 2 = 0
  BY <1>2 DEF k
<1> DEFINE m == q * t
<1>4. m = 2 * k /\ m \in Nat
  BY <1>2 DEF k
<1> HIDE DEF m
<1>5. m % 2 = 0
  BY <1>3, <1>4
<1> QED BY <1>4, <1>5 DEF Even, m

LEMMA TwinInBand ==
  ASSUME NEW t \in Nat \ {0}, Even(t), NEW n \in Nat
  PROVE  Twin(n) \div t = n \div t
<1> DEFINE q == n \div t
           base == q * t
<1>1. q \in Nat /\ base <= n /\ n < base + t
  OBVIOUS
<1>2. base \in Nat /\ Even(base)
  BY <1>1, EvenMultiple
<1> HIDE DEF base, q
<1>3. base <= Twin(n) /\ Twin(n) < base + t /\ Twin(n) \in Nat
  BY <1>1, <1>2 DEF Twin, Even
<1>4. Twin(n) \div t = q
  BY <1>1, <1>3, QuotientIs DEF base
<1> QED BY <1>4 DEF q

LEMMA OppositeIs ==
  ASSUME NEW s \in Span
  PROVE  /\ Opposite(s).line = Twin(s.line) /\ Opposite(s).start = s.start
         /\ Opposite(s).end = s.end
         /\ BandOf(Opposite(s)) = BandOf(s)
<1>1. s.line \in Nat
  BY SpanIs
<1>2. /\ Opposite(s).line = Twin(s.line) /\ Opposite(s).start = s.start
      /\ Opposite(s).end = s.end
  BY DEF Opposite, Span
<1>3. Twin(s.line) \div TileLines = s.line \div TileLines
  BY <1>1, Constants, TwinInBand DEF Even
<1> QED BY <1>2, <1>3 DEF BandOf

LEMMA SpansPaired ==
  ASSUME NEW region \in SUBSET Pixels, Paired(region), NEW s \in SpansOf(region)
  PROVE  Even(s.start) /\ Even(s.end) /\ Opposite(s) \in SpansOf(region)
<1>1. /\ s \in Span /\ s.start < s.end /\ SpanPixels(s) \subseteq region
      /\ <<s.start - 1, s.line>> \notin region /\ <<s.end, s.line>> \notin region
  BY DEF SpansOf
<1>2. s.line \in Nat /\ s.start \in Nat /\ s.end \in Nat
  BY <1>1, SpanIs
<1>3. ASSUME NEW x \in s.start..(s.end - 1)
      PROVE  /\ <<x, s.line>> \in region /\ <<Twin(x), s.line>> \in region
             /\ <<x, Twin(s.line)>> \in region
  <2>1. <<x, s.line>> \in region
    BY <1>1 DEF SpanPixels
  <2> QED BY <2>1 DEF Paired
<1>4. Even(s.start)
  <2>1. s.start \in s.start..(s.end - 1)
    BY <1>1, <1>2
  <2>2. <<Twin(s.start), s.line>> \in region
    BY <1>3, <2>1
  <2> QED BY <1>1, <1>2, <2>2, TwinIs
<1>5. Even(s.end)
  <2>1. s.end - 1 \in s.start..(s.end - 1) /\ s.end - 1 \in Nat
    BY <1>1, <1>2
  <2>2. <<Twin(s.end - 1), s.line>> \in region
    BY <1>3, <2>1
  <2>3. ~Even(s.end) => Twin(s.end - 1) = s.end
    BY <1>2, <2>1 DEF Twin, Even
  <2> QED BY <1>1, <2>2, <2>3
<1> DEFINE o == Opposite(s)
<1>6. o.line = Twin(s.line) /\ o.start = s.start /\ o.end = s.end
  BY <1>1, OppositeIs
<1>7. o \in Span
  <2>1. s.start \in s.start..(s.end - 1)
    BY <1>1, <1>2
  <2>2. Twin(s.line) \in Lines
    BY <1>3, <2>1 DEF Pixels
  <2> QED BY <1>1, <2>2 DEF Opposite, Span
<1>8. SpanPixels(o) \subseteq region
  BY <1>3, <1>6 DEF SpanPixels
<1>9. ASSUME NEW x, <<x, Twin(s.line)>> \in region PROVE <<x, s.line>> \in region
  <2>1. <<x, Twin(Twin(s.line))>> \in region
    BY <1>9 DEF Paired
  <2> QED BY <1>2, <2>1, TwinIs
<1>10. <<o.start - 1, o.line>> \notin region /\ <<o.end, o.line>> \notin region
  BY <1>1, <1>6, <1>9
<1>11. o \in SpansOf(region)
  <2> HIDE DEF o
  <2> QED BY <1>1, <1>6, <1>7, <1>8, <1>10 DEF SpansOf
<1> QED BY <1>4, <1>5, <1>11

-----------------------------------------------------------------------------
(* A whole band, in the order of its spans, merges into rectangles of an    *)
(* even height: one of an odd height awaits the span that extends it.       *)
Earlier(s, t) == Before(s.start, s.line, t.start, t.line)

Stacked(y) ==
  /\ y \in Nat /\ Even(y)
  /\ dirtySpans \in Seq(Thick)
  /\ \A i, j \in 1..Len(dirtySpans) : i < j => Earlier(dirtySpans[i], dirtySpans[j])
  /\ \A s \in Of(dirtySpans) : /\ Even(s.start) /\ Even(s.end)
                               /\ y <= s.line /\ s.line < y + TileLines
                               /\ Opposite(s) \in Of(dirtySpans)

Placed(r, y) == /\ Even(r.x) /\ Even(r.y) /\ Even(r.width)
                /\ y <= r.y /\ r.y + r.height <= y + TileLines
                /\ r.y + r.height <= Height /\ r.x + r.width <= Width
Awaited(r, n) == \E j \in (n + 1)..Len(dirtySpans) : Extends(r, dirtySpans[j])
Answered(rectangles, n) == \A j \in 1..n : Even(dirtySpans[j].line) =>
  \/ \E r \in rectangles : Extends(r, Opposite(dirtySpans[j]))
  \/ \E k \in 1..n : dirtySpans[k] = Opposite(dirtySpans[j])

Growing(rectangles, n, y) ==
  /\ \A r \in rectangles : Placed(r, y) /\ (Even(r.height) \/ Awaited(r, n))
  /\ Answered(rectangles, n)

LEMMA StackedIs ==
  ASSUME NEW y, Stacked(y), NEW n \in 1..Len(dirtySpans)
  PROVE  LET s == dirtySpans[n] IN
         /\ s \in Thick /\ s \in Span /\ s \in Of(dirtySpans)
         /\ s.line \in Nat /\ s.start \in Nat /\ s.end \in Nat /\ s.start < s.end
         /\ s.line < Height /\ s.end <= Width
         /\ Even(s.start) /\ Even(s.end) /\ y <= s.line /\ s.line < y + TileLines
<1> DEFINE s == dirtySpans[n]
<1>1. s \in Thick /\ s \in Of(dirtySpans)
  BY DEF Stacked, Of
<1>2. s \in Span /\ s.start < s.end
  BY <1>1 DEF Thick
<1>3. Even(s.start) /\ Even(s.end) /\ y <= s.line /\ s.line < y + TileLines
  BY <1>1 DEF Stacked
<1> HIDE DEF s
<1>4. /\ s.line \in Nat /\ s.start \in Nat /\ s.end \in Nat
      /\ s.line < Height /\ s.end <= Width
  BY <1>2, SpanIs
<1> QED BY <1>1, <1>2, <1>3, <1>4 DEF s

LEMMA OppositeLater ==
  ASSUME NEW y, Stacked(y), NEW n \in 1..Len(dirtySpans), Even(dirtySpans[n].line)
  PROVE  \E j \in (n + 1)..Len(dirtySpans) : dirtySpans[j] = Opposite(dirtySpans[n])
<1> DEFINE s == dirtySpans[n]
<1>1. s \in Span /\ s.line \in Nat /\ Opposite(s) \in Of(dirtySpans)
  BY StackedIs DEF Stacked
<1>2. PICK j \in 1..Len(dirtySpans) : dirtySpans[j] = Opposite(s)
  BY <1>1 DEF Of
<1>3. Opposite(s).line = s.line + 1
  BY <1>1, OppositeIs, TwinIs
<1>4. ~(j < n)
  <2> SUFFICES ASSUME j < n PROVE FALSE
    OBVIOUS
  <2>1. Earlier(Opposite(s), s)
    BY <1>2 DEF Stacked
  <2> QED BY <1>1, <1>3, <2>1 DEF Earlier, Before
<1>5. j # n
  BY <1>1, <1>2, <1>3
<1>6. j \in (n + 1)..Len(dirtySpans)
  BY <1>4, <1>5
<1> QED BY <1>2, <1>6

LEMMA OppositeSooner ==
  ASSUME NEW y, Stacked(y), NEW n \in 1..Len(dirtySpans), ~Even(dirtySpans[n].line)
  PROVE  \E j \in 1..(n - 1) : /\ Even(dirtySpans[j].line)
                               /\ Opposite(dirtySpans[j]) = dirtySpans[n]
<1> DEFINE s == dirtySpans[n]
           o == Opposite(s)
<1>1. s \in Span /\ s.line \in Nat /\ o \in Of(dirtySpans)
  BY StackedIs DEF Stacked
<1>2. PICK j \in 1..Len(dirtySpans) : dirtySpans[j] = o
  BY <1>1 DEF Of
<1>3. o.line = s.line - 1 /\ s.line >= 1 /\ Even(o.line)
  BY <1>1, OppositeIs, TwinIs
<1>4. ~(n < j)
  <2> SUFFICES ASSUME n < j PROVE FALSE
    OBVIOUS
  <2>1. Earlier(s, o)
    BY <1>2 DEF Stacked
  <2> QED BY <1>1, <1>3, <2>1 DEF Earlier, Before
<1>5. j # n
  BY <1>1, <1>2, <1>3
<1>6. Opposite(o) = s
  <2>1. Twin(Twin(s.line)) = s.line
    BY <1>1, TwinIs
  <2> QED BY <1>1, <2>1 DEF Opposite, Span
<1>7. j \in 1..(n - 1)
  BY <1>4, <1>5
<1> QED BY <1>2, <1>3, <1>6, <1>7

LEMMA RectangleIs ==
  ASSUME NEW r \in Rectangle
  PROVE  /\ r.x \in Nat /\ r.y \in Nat /\ r.width \in Nat \ {0} /\ r.height \in Nat \ {0}
         /\ Longer(r).x = r.x /\ Longer(r).y = r.y /\ Longer(r).width = r.width
         /\ Longer(r).height = r.height + 1
BY DEF Rectangle, Longer

LEMMA OneMore ==
  ASSUME NEW a \in Nat, NEW b \in Nat, NEW c, a + b = c
  PROVE  a + (b + 1) = c + 1
OBVIOUS

LEMMA EvenSum ==
  ASSUME NEW m \in Nat, NEW n \in Nat, Even(m)
  PROVE  /\ Even(n) <=> Even(m + n)
         /\ ~Even(n) => Even(n + 1)
BY DEF Even

LEMMA EvenDifference ==
  ASSUME NEW m \in Nat, NEW n \in Nat, Even(m), Even(n), m < n
  PROVE  Even(n - m)
BY DEF Even

LEMMA MergedGrows ==
  ASSUME NEW y, Stacked(y), NEW n \in 1..Len(dirtySpans),
         NEW rectangles \in SUBSET Rectangle, Growing(rectangles, n - 1, y)
  PROVE  Growing(Merged(rectangles, dirtySpans[n]), n, y)
<1> DEFINE s == dirtySpans[n]
           above == {r \in rectangles : Extends(r, s)}
           N == Len(dirtySpans)
<1>1. /\ s \in Thick /\ s \in Span
      /\ s.line \in Nat /\ s.start \in Nat /\ s.end \in Nat /\ s.start < s.end
      /\ s.line < Height /\ s.end <= Width
      /\ Even(s.start) /\ Even(s.end) /\ y <= s.line /\ s.line < y + TileLines
      /\ y \in Nat /\ Even(y)
      /\ N \in Nat /\ n \in 1..N
  BY StackedIs DEF Stacked
<1>2. Merged(rectangles, s) = IF above = {} THEN rectangles \cup {Line(s)}
                              ELSE (rectangles \ above) \cup {Longer(r) : r \in above}
  BY DEF Merged, Line, Longer
(* What ends at a span of an even line is awaited by its opposite.          *)
<1>3. ASSUME Even(s.line), NEW r, r.x = s.start, r.width = s.end - s.start,
             r.y + r.height = s.line + 1
      PROVE  Awaited(r, n)
  <2>1. PICK j \in (n + 1)..N : dirtySpans[j] = Opposite(s)
    BY <1>3, OppositeLater
  <2>2. Extends(r, Opposite(s))
    BY <1>1, <1>3, OppositeIs, TwinIs DEF Extends, SameColumns
  <2> QED BY <2>1, <2>2 DEF Awaited
<1>4. ASSUME above = {} PROVE Even(s.line)
  <2> SUFFICES ASSUME ~Even(s.line) PROVE FALSE
    OBVIOUS
  <2>1. PICK j \in 1..(n - 1) : Even(dirtySpans[j].line) /\ Opposite(dirtySpans[j]) = s
    BY OppositeSooner
  <2>2. PICK k \in 1..(n - 1) : dirtySpans[k] = s
    BY <1>4, <2>1 DEF Growing, Answered
  <2>3. k < n /\ k \in 1..N
    BY <1>1
  <2>4. Earlier(s, s)
    BY <2>2, <2>3 DEF Stacked
  <2> QED BY <1>1, <2>4 DEF Earlier, Before
<1> HIDE DEF s
<1>5. ASSUME NEW r \in rectangles, ~Extends(r, s)
      PROVE  Placed(r, y) /\ (Even(r.height) \/ Awaited(r, n))
  <2>1. Placed(r, y) /\ (Even(r.height) \/ Awaited(r, n - 1))
    BY DEF Growing
  <2>2. ASSUME Awaited(r, n - 1) PROVE Awaited(r, n)
    <3>1. PICK j \in (n - 1 + 1)..N : Extends(r, dirtySpans[j])
      BY <2>2 DEF Awaited
    <3>2. j # n
      BY <1>5, <3>1 DEF s
    <3>3. j \in (n + 1)..N
      BY <1>1, <3>2
    <3> QED BY <3>1, <3>3 DEF Awaited
  <2> QED BY <2>1, <2>2
<1>6. ASSUME NEW q \in above
      PROVE  Placed(Longer(q), y) /\ (Even(Longer(q).height) \/ Awaited(Longer(q), n))
  <2>1. /\ q.x \in Nat /\ q.y \in Nat /\ q.width \in Nat /\ q.height \in Nat
        /\ Longer(q).x = q.x /\ Longer(q).y = q.y /\ Longer(q).width = q.width
        /\ Longer(q).height = q.height + 1
    BY RectangleIs
  <2>2. q.x = s.start /\ q.width = s.end - s.start /\ q.y + q.height = s.line
    BY DEF Extends, SameColumns
  <2>3. Placed(q, y)
    BY DEF Growing
  <2>4. q.y + (q.height + 1) = s.line + 1
    BY <2>1, <2>2, OneMore
  <2>5. Placed(Longer(q), y)
    <3>1. s.line + 1 <= Height /\ s.line + 1 <= y + TileLines
      BY <1>1, Constants
    <3> QED BY <2>1, <2>3, <2>4, <3>1 DEF Placed
  <2>6. CASE Even(q.height)
    <3>1. Even(q.y + q.height)
      BY <2>1, <2>3, <2>6, EvenSum DEF Placed
    <3>2. Even(s.line)
      BY <2>2, <3>1
    <3> QED BY <1>3, <2>1, <2>2, <2>4, <2>5, <3>2
  <2>7. CASE ~Even(q.height)
    <3>1. Even(q.height + 1)
      BY <2>1, <2>3, <2>7, EvenSum DEF Placed
    <3> QED BY <2>1, <2>5, <3>1
  <2> QED BY <2>6, <2>7
<1>7. ASSUME above = {} PROVE Placed(Line(s), y) /\ Awaited(Line(s), n)
  <2> DEFINE r == Line(s)
  <2>1. r.x = s.start /\ r.y = s.line /\ r.width = s.end - s.start /\ r.height = 1
    BY DEF Line
  <2> HIDE DEF r
  <2>2. Even(s.end - s.start) /\ Even(s.line)
    BY <1>1, <1>4, <1>7, EvenDifference
  <2>3. s.start + (s.end - s.start) = s.end
    BY <1>1
  <2>4. s.line + 1 <= Height /\ s.line + 1 <= y + TileLines
    BY <1>1, Constants
  <2>5. Placed(r, y)
    BY <1>1, <2>1, <2>2, <2>3, <2>4 DEF Placed
  <2>6. Awaited(r, n)
    BY <1>3, <2>1, <2>2
  <2> QED BY <2>5, <2>6 DEF r
<1> DEFINE merged == Merged(rectangles, s)
<1>8. \A r \in merged : Placed(r, y) /\ (Even(r.height) \/ Awaited(r, n))
  BY <1>2, <1>5, <1>6, <1>7
(* The last line of a rectangle answers for its opposite.                   *)
<1>9. \E r \in merged : r.x = s.start /\ r.width = s.end - s.start /\ r.y + r.height = s.line + 1
  <2>1. CASE above = {}
    <3>1. Line(s) \in merged
      BY <1>2, <2>1
    <3> QED BY <3>1 DEF Line
  <2>2. ASSUME NEW q \in above
        PROVE  \E r \in merged : /\ r.x = s.start /\ r.width = s.end - s.start
                                 /\ r.y + r.height = s.line + 1
    <3>1. Longer(q) \in merged
      BY <1>2, <2>2
    <3>2. /\ q.x = s.start /\ q.width = s.end - s.start /\ q.y + q.height = s.line
          /\ q.y \in Nat /\ q.height \in Nat
          /\ Longer(q).x = q.x /\ Longer(q).y = q.y /\ Longer(q).width = q.width
          /\ Longer(q).height = q.height + 1
      BY RectangleIs DEF Extends, SameColumns
    <3>3. q.y + (q.height + 1) = s.line + 1
      BY <3>2, OneMore
    <3> QED BY <3>1, <3>2, <3>3
  <2> QED BY <2>1, <2>2
<1>10. Answered(merged, n)
  <2> SUFFICES ASSUME NEW j \in 1..n, Even(dirtySpans[j].line)
               PROVE  \/ \E r \in merged : Extends(r, Opposite(dirtySpans[j]))
                      \/ \E k \in 1..n : dirtySpans[k] = Opposite(dirtySpans[j])
    BY DEF Answered
  <2> DEFINE o == Opposite(dirtySpans[j])
  <2>1. CASE j = n
    <3>1. o.line = s.line + 1 /\ o.start = s.start /\ o.end = s.end
      BY <1>1, <2>1, OppositeIs, TwinIs DEF s
    <3> HIDE DEF o
    <3>2. \E r \in merged : Extends(r, o)
      BY <1>9, <3>1 DEF Extends, SameColumns
    <3> QED BY <3>2 DEF o
  <2>2. CASE j # n
    <3>1. j \in 1..(n - 1)
      BY <1>1, <2>2
    <3>2. CASE \E k \in 1..(n - 1) : dirtySpans[k] = o
      BY <1>1, <3>2
    <3>3. ASSUME NEW r \in rectangles, Extends(r, o)
          PROVE  (\E q \in merged : Extends(q, o)) \/ \E k \in 1..n : dirtySpans[k] = o
      <4>1. CASE Extends(r, s)
        <5>1. j \in 1..N
          BY <1>1
        <5>2. dirtySpans[j] \in Span /\ o \in Of(dirtySpans)
          BY <5>1, StackedIs DEF Stacked
        <5>3. PICK i \in 1..N : o = dirtySpans[i]
          BY <5>2 DEF Of
        <5>4. o \in Span /\ o.line \in Nat /\ o.start \in Nat /\ o.end \in Nat /\ o.start < o.end
          BY <5>3, StackedIs
        <5> HIDE DEF o
        <5>5. o.line = s.line /\ o.start = s.start
          BY <3>3, <4>1 DEF Extends, SameColumns
        <5>6. o.end - o.start = s.end - s.start
          BY <3>3, <4>1 DEF Extends, SameColumns
        <5>7. o.end = s.end
          BY <1>1, <5>4, <5>5, <5>6
        <5>8. o = s
          BY <1>1, <5>4, <5>5, <5>7 DEF Span
        <5> QED BY <1>1, <5>8 DEF s
      <4>2. CASE ~Extends(r, s)
        <5>1. r \in merged
          BY <1>2, <4>2
        <5> QED BY <3>3, <5>1
      <4> QED BY <4>1, <4>2
    <3> QED BY <3>1, <3>2, <3>3 DEF Growing, Answered
  <2> QED BY <2>1, <2>2
<1> QED BY <1>8, <1>10 DEF Growing, s

LEMMA AllSendable ==
  ASSUME NEW y, Stacked(y), NEW r \in Rectangles
  PROVE  Sendable(r, y)
<1> DEFINE N == Len(dirtySpans)
<1>1. N \in Nat /\ dirtySpans \in Seq(Thick) /\ y \in Nat
  BY DEF Stacked
<1>2. PICK f : Walk(f) /\ Rectangles = f[N]
  BY <1>1, WalkIs
<1> DEFINE S == {n \in 0..N : Growing(f[n], n, y)}
<1>3. 0 \in S
  BY <1>1, <1>2 DEF Walk, Growing, Answered
<1>4. ASSUME NEW n \in 1..N, n - 1 \in S PROVE n \in S
  <2>1. /\ f[n - 1] \in SUBSET Rectangle /\ f[n] = Merged(f[n - 1], dirtySpans[n])
        /\ Growing(f[n - 1], n - 1, y) /\ n \in 0..N
    BY <1>1, <1>2, <1>4 DEF Walk
  <2> QED BY <2>1, MergedGrows
<1>5. Growing(Rectangles, N, y)
  <2>1. N \in S
    <3> HIDE DEF S
    <3>1. \A n \in 0..N : n \in S
      BY <1>1, <1>3, <1>4, Induction
    <3> QED BY <1>1, <3>1
  <2> QED BY <1>2, <2>1
<1>6. Placed(r, y) /\ Even(r.height)
  BY <1>1, <1>5 DEF Growing, Awaited
<1>7. r.x \in Nat /\ r.y \in Nat /\ r.width \in Nat \ {0} /\ r.height \in Nat \ {0}
  BY <1>1, RectanglesCover, RectangleIs
<1>8. r.y - y + r.height <= TileLines
  BY <1>1, <1>6, <1>7, Constants DEF Placed
<1> QED BY <1>6, <1>7, <1>8 DEF Placed, Sendable, Even

-----------------------------------------------------------------------------
(* Until it fails, a frame has collected every span of its band that Slint  *)
(* has rendered, in order, and Slint never returns to an earlier band.      *)
Rendered == SpansOf(frame) \ spans
Aligned == Paired(dirty) /\ Paired(frame) /\ \A y \in band : Even(y)
Downwards == \A s \in Rendered, t \in spans : Earlier(s, t)
Complete == ~error =>
  /\ band = {} => Rendered = {}
  /\ \A y \in band : /\ \A s \in Rendered : BandOf(s) <= y
                     /\ \A s \in Rendered : BandOf(s) = y => s \in Of(dirtySpans)
                     /\ \A t \in spans : y <= BandOf(t)
InOrder == /\ Of(dirtySpans) \subseteq Rendered
           /\ \A i, j \in 1..Len(dirtySpans) : i < j => Earlier(dirtySpans[i], dirtySpans[j])

Whole == Aligned /\ Downwards /\ Complete /\ InOrder

LEMMA BandStacked ==
  ASSUME IInv, Whole, ~error, NEW y \in band, \A t \in spans : BandOf(t) # y
  PROVE  Stacked(y)
<1>1. y \in Nat /\ Even(y)
  BY DEF IInv, TypeOK, Option, Lines, Whole, Aligned
<1>2. dirtySpans \in Seq(Thick)
  BY ThickSpans DEF IInv, TypeOK, Collecting
<1>3. frame \in SUBSET Pixels /\ Paired(frame)
  BY DEF IInv, TypeOK, Whole, Aligned
<1>4. ASSUME NEW s \in Of(dirtySpans)
      PROVE  /\ Even(s.start) /\ Even(s.end)
             /\ y <= s.line /\ s.line < y + TileLines
             /\ Opposite(s) \in Of(dirtySpans)
  <2>1. s \in SpansOf(frame) /\ BandOf(s) = y
    BY DEF IInv, Collecting
  <2>2. s \in Span
    BY <2>1 DEF SpansOf
  <2>3. Even(s.start) /\ Even(s.end) /\ Opposite(s) \in SpansOf(frame)
    BY <1>3, <2>1, SpansPaired
  <2>4. BandOf(Opposite(s)) = y
    BY <2>1, <2>2, OppositeIs
  <2>5. Opposite(s) \in Rendered
    BY <2>3, <2>4 DEF Rendered
  <2>6. Opposite(s) \in Of(dirtySpans)
    BY <2>4, <2>5 DEF Whole, Complete
  <2>7. y <= s.line /\ s.line - y \in Rows /\ s.line \in Nat
    BY <2>1, <2>2, BandIs, SpanIs
  <2>8. s.line < y + TileLines
    BY <1>1, <2>7, Constants DEF Rows
  <2> QED BY <2>3, <2>6, <2>7, <2>8
<1> QED BY <1>1, <1>2, <1>4 DEF Stacked, Whole, InOrder

LEMMA PairedBlocks ==
  ASSUME NEW region, Paired(region), NEW block \in Blocks
  PROVE  Paired(region \cup block)
<1>1. PICK x \in Nat, y \in Nat : block = {2 * x, 2 * x + 1} \X {2 * y, 2 * y + 1}
  <2>1. 0..(Width \div 2 - 1) \subseteq Nat /\ 0..(Height \div 2 - 1) \subseteq Nat
    BY Constants
  <2> QED BY <2>1 DEF Blocks
<1>2. ASSUME NEW n \in Nat, NEW m \in {2 * n, 2 * n + 1} PROVE Twin(m) \in {2 * n, 2 * n + 1}
  BY DEF Twin
<1>3. Paired(block)
  BY <1>1, <1>2 DEF Paired
<1> QED BY <1>3 DEF Paired

LEMMA PairedPixels == Paired(Pixels)
<1>1. ASSUME NEW m \in Nat \ {0}, Even(m), NEW n \in 0..(m - 1) PROVE Twin(n) \in 0..(m - 1)
  BY <1>1 DEF Twin, Even
<1>2. ASSUME NEW x \in Columns PROVE Twin(x) \in Columns
  BY <1>1, Constants DEF Columns, Even
<1>3. ASSUME NEW y \in Lines PROVE Twin(y) \in Lines
  BY <1>1, Constants DEF Lines, Even
<1> QED BY <1>2, <1>3 DEF Paired, Pixels

LEMMA NoSpans == SpansOf({}) = {}
<1> SUFFICES ASSUME NEW s \in SpansOf({}) PROVE FALSE
  OBVIOUS
<1>1. s \in Span /\ s.start < s.end /\ SpanPixels(s) \subseteq {}
  BY DEF SpansOf
<1>2. s.start \in s.start..(s.end - 1)
  BY <1>1, SpanIs
<1> QED BY <1>1, <1>2 DEF SpanPixels

LEMMA BandsGrow ==
  ASSUME NEW s \in Span, NEW t \in Span, Earlier(s, t)
  PROVE  BandOf(s) <= BandOf(t)
<1>1. s.line \in Nat /\ t.line \in Nat /\ s.line <= t.line
  BY SpanIs DEF Earlier, Before
<1> QED BY <1>1, QuotientGrows, Constants DEF BandOf

LEMMA BandEven ==
  ASSUME NEW s \in Span
  PROVE  Even(BandOf(s))
<1>1. s.line \div TileLines \in Nat
  BY SpanIs, Constants
<1> QED BY <1>1, EvenMultiple, Constants DEF BandOf, Even

-----------------------------------------------------------------------------
LEMMA InitWhole == Init => Whole
<1> SUFFICES ASSUME Init PROVE Whole
  OBVIOUS
<1>1. Of(dirtySpans) = {} /\ Rendered = {}
  BY NoSpans DEF Init, Of, Rendered
<1>2. Aligned
  BY PairedPixels DEF Init, Aligned, Paired
<1> QED BY <1>1, <1>2 DEF Init, Whole, Downwards, Complete, InOrder

LEMMA RendersWhole ==
  ASSUME IInv, Whole, spans # {}, ~error,
         /\ spans' = spans \ {NextSpan}
         /\ UNCHANGED <<dirty, frame>>,
         \/ /\ ~EndsBand /\ Renders(NextSpan, dirtySpans)
         \/ /\ EndsBand /\ Renders(NextSpan, <<>>)
  PROVE  Whole'
<1> DEFINE s == NextSpan
<1>1. /\ TypeOK /\ Pending /\ Collecting
      /\ Aligned /\ Downwards /\ Complete /\ InOrder
  BY DEF IInv, Whole
<1>2. s \in spans /\ s \in SpansOf(frame) /\ \A t \in spans \ {s} : Earlier(s, t)
  BY <1>1, NextSpanIs DEF Pending, Earlier
<1>3. s \in Span /\ BandOf(s) \in Nat /\ Even(BandOf(s))
      /\ \A t \in SpansOf(frame) : t \in Span /\ BandOf(t) \in Nat
  BY <1>2, BandIs, BandEven DEF SpansOf
<1>4. spans' = spans \ {s} /\ Rendered' = Rendered \cup {s} /\ frame' = frame /\ dirty' = dirty
  BY <1>2 DEF Rendered, s
<1> HIDE DEF s
<1>5. PICK collected \in {dirtySpans, <<>>} :
        /\ Renders(s, collected)
        /\ \A t \in Rendered : BandOf(t) <= BandOf(s)
        /\ \A t \in Rendered : BandOf(t) = BandOf(s) => t \in Of(collected)
  <2>1. CASE ~EndsBand /\ Renders(s, dirtySpans)
    <3>1. band = {} \/ BandOf(s) \in band
      BY <2>1, <1>1 DEF EndsBand, TypeOK, Option, s
    <3> QED BY <1>1, <2>1, <3>1 DEF Complete
  <2>2. CASE EndsBand /\ Renders(s, <<>>)
    <3>1. PICK y \in band : y # BandOf(s) /\ y \in Nat
      BY <1>1, <2>2 DEF EndsBand, TypeOK, Option, Lines, s
    <3>2. y <= BandOf(s) /\ \A t \in Rendered : BandOf(t) <= y
      BY <1>1, <1>2, <3>1 DEF Complete
    <3>3. \A t \in Rendered : BandOf(t) <= BandOf(s) /\ BandOf(t) # BandOf(s)
      BY <1>3, <3>1, <3>2 DEF Rendered
    <3> QED BY <2>2, <3>3
  <2> QED BY <2>1, <2>2 DEF s
<1>6. /\ collected \in Seq(Span) /\ Of(collected) \subseteq Rendered
      /\ \A i, j \in 1..Len(collected) : i < j => Earlier(collected[i], collected[j])
  <2>1. CASE collected = dirtySpans
    BY <1>1, <2>1 DEF TypeOK, InOrder
  <2>2. CASE collected = <<>>
    BY <2>2 DEF Of
  <2> QED BY <2>1, <2>2
<1>7. /\ band' = {BandOf(s)}
      /\ \/ /\ dirtySpans' = Append(collected, s) /\ error' = error
         \/ dirtySpans' = collected /\ error' = TRUE
  BY <1>5 DEF Renders
<1> DEFINE longer == Append(collected, s)
<1>8. Of(longer) = Of(collected) \cup {s}
  <2>1. Len(collected) \in Nat
    BY <1>6
  <2>2. /\ Len(longer) = Len(collected) + 1 /\ longer[Len(collected) + 1] = s
        /\ \A n \in 1..Len(collected) : longer[n] = collected[n]
    BY <1>6
  <2>3. 1..(Len(collected) + 1) = (1..Len(collected)) \cup {Len(collected) + 1}
    BY <2>1
  <2> HIDE DEF longer
  <2> QED BY <2>1, <2>2, <2>3 DEF Of, longer
<1>9. \A i, j \in 1..Len(longer) : i < j => Earlier(longer[i], longer[j])
  <2> SUFFICES ASSUME NEW i \in 1..Len(longer), NEW j \in 1..Len(longer), i < j
               PROVE  Earlier(longer[i], longer[j])
    OBVIOUS
  <2>1. Len(collected) \in Nat /\ Len(longer) = Len(collected) + 1
        /\ longer[Len(collected) + 1] = s
        /\ \A n \in 1..Len(collected) : longer[n] = collected[n]
    BY <1>6
  <2>2. i \in 1..Len(collected) /\ longer[i] = collected[i]
    BY <2>1
  <2>3. CASE j = Len(collected) + 1
    <3>1. collected[i] \in Rendered
      BY <1>6, <2>2 DEF Of
    <3> QED BY <1>1, <1>2, <2>1, <2>2, <2>3, <3>1 DEF Downwards
  <2>4. CASE j # Len(collected) + 1
    <3>1. j \in 1..Len(collected) /\ longer[j] = collected[j]
      BY <2>1, <2>4
    <3> QED BY <1>6, <2>2, <3>1
  <2> QED BY <2>3, <2>4
<1> HIDE DEF longer
<1>10. InOrder'
  <2>1. CASE dirtySpans' = longer
    BY <1>4, <1>6, <1>8, <1>9, <2>1 DEF InOrder
  <2>2. CASE dirtySpans' = collected
    BY <1>4, <1>6, <2>2 DEF InOrder
  <2> QED BY <1>7, <2>1, <2>2 DEF longer
<1>11. Downwards'
  BY <1>1, <1>2, <1>4 DEF Downwards
<1>12. Aligned'
  BY <1>1, <1>3, <1>4, <1>7 DEF Aligned
<1>13. Complete'
  <2> SUFFICES ASSUME ~error'
               PROVE  /\ \A t \in Rendered' : BandOf(t) <= BandOf(s)
                      /\ \A t \in Rendered' : BandOf(t) = BandOf(s) => t \in Of(dirtySpans')
                      /\ \A t \in spans' : BandOf(s) <= BandOf(t)
    BY <1>7 DEF Complete
  <2>1. Of(dirtySpans') = Of(collected) \cup {s}
    BY <1>7, <1>8 DEF longer
  <2>2. \A t \in Rendered' : BandOf(t) <= BandOf(s)
    BY <1>3, <1>4, <1>5
  <2>3. \A t \in spans' : BandOf(s) <= BandOf(t)
    BY <1>1, <1>2, <1>3, <1>4, BandsGrow DEF Pending
  <2> QED BY <1>4, <1>5, <2>1, <2>2, <2>3
<1> QED BY <1>10, <1>11, <1>12, <1>13 DEF Whole

LEMMA NextWhole == IInv /\ Whole /\ [Next]_vars => Whole'
<1> SUFFICES ASSUME IInv, Whole, [Next]_vars PROVE Whole'
  OBVIOUS
<1>1. CASE UNCHANGED vars
  <2>1. UNCHANGED <<dirty, frame, spans, band, dirtySpans, error>>
    BY <1>1 DEF vars, slint, upload
  <2> QED BY <2>1 DEF Whole, Aligned, Downwards, Complete, InOrder, Rendered
<1>2. CASE Changes
  <2>1. UNCHANGED <<frame, spans, band, dirtySpans, error>>
    BY <1>2 DEF Changes
  <2>2. PICK block \in Blocks : dirty' = dirty \cup block
    BY <1>2, LaterBlocksAssumption DEF Changes
  <2>3. Paired(dirty')
    BY <2>2, PairedBlocks DEF Whole, Aligned
  <2> QED BY <2>1, <2>3 DEF Whole, Aligned, Downwards, Complete, InOrder, Rendered
<1>3. CASE StartsFrame
  <2>1. /\ frame' = dirty /\ spans' = SpansOf(dirty) /\ dirty' = {}
        /\ band' = {} /\ dirtySpans' = <<>>
    BY <1>3 DEF StartsFrame, IInv, Between
  <2>2. Rendered' = {} /\ Of(dirtySpans') = {}
    BY <2>1 DEF Rendered, Of
  <2>3. Aligned'
    BY <2>1 DEF Whole, Aligned, Paired
  <2> QED BY <2>1, <2>2, <2>3 DEF Whole, Downwards, Complete, InOrder
<1>4. CASE ProcessLine
  <2>1. /\ spans # {} /\ spans' = spans \ {NextSpan} /\ UNCHANGED <<dirty, frame>>
    BY <1>4 DEF ProcessLine
  <2>2. ASSUME error', band' = band, dirtySpans' = dirtySpans PROVE Whole'
    <3>1. /\ NextSpan \in spans /\ NextSpan \in SpansOf(frame)
          /\ \A t \in spans \ {NextSpan} : Earlier(NextSpan, t)
      BY <2>1, NextSpanIs DEF IInv, Pending, Earlier
    <3>2. Rendered' = Rendered \cup {NextSpan}
      BY <2>1, <3>1 DEF Rendered
    <3>3. Downwards'
      BY <2>1, <3>1, <3>2 DEF Whole, Downwards
    <3>4. InOrder'
      BY <2>2, <3>2 DEF Whole, InOrder
    <3> QED BY <2>1, <2>2, <3>3, <3>4 DEF Whole, Aligned, Complete
  <2>3. CASE error /\ UNCHANGED upload
    BY <2>2, <2>3 DEF upload
  <2>4. CASE ~error /\ ~EndsBand /\ Renders(NextSpan, dirtySpans)
    BY <2>1, <2>4, RendersWhole
  <2>5. CASE ~error /\ EndsBand /\ Renders(NextSpan, <<>>)
    BY <2>1, <2>5, RendersWhole
  <2>6. CASE error' = TRUE /\ UNCHANGED <<buffer, band, dirtySpans>>
    BY <2>2, <2>6
  <2> QED BY <1>4, <2>3, <2>4, <2>5, <2>6 DEF ProcessLine
<1>5. CASE FinishFrame
  <2>1. /\ frame' = {} /\ spans' = {} /\ dirty' = dirty /\ band' = {} /\ dirtySpans' = <<>>
    BY <1>5 DEF FinishFrame, SpansAfterFrame
  <2>2. Rendered' = {} /\ Of(dirtySpans') = {}
    BY <2>1, NoSpans DEF Rendered, Of
  <2>3. Aligned'
    BY <2>1 DEF Whole, Aligned, Paired
  <2> QED BY <2>1, <2>2, <2>3 DEF Whole, Downwards, Complete, InOrder
<1> QED BY <1>1, <1>2, <1>3, <1>4, <1>5 DEF Next

-----------------------------------------------------------------------------
(* A span too many.                                                         *)
LEMMA SpansFinite == ASSUME NEW region PROVE IsFiniteSet(SpansOf(region))
<1> DEFINE f == [s \in SpansOf(region) |-> <<s.line, s.start>>]
<1>1. f \in Injection(SpansOf(region), Lines \X Columns)
  <2>1. f \in [SpansOf(region) -> Lines \X Columns]
    BY DEF SpansOf, Span
  <2>2. ASSUME NEW s \in SpansOf(region), NEW t \in SpansOf(region), f[s] = f[t]
        PROVE  s = t
    <3>1. s.line = t.line /\ s.start = t.start
      BY <2>2
    <3> QED BY <3>1, SpansDiffer
  <2> HIDE DEF f
  <2> QED BY <2>1, <2>2 DEF Injection, IsInjective
<1>2. IsFiniteSet(Lines \X Columns)
  <2>1. IsFiniteSet(Lines) /\ IsFiniteSet(Columns)
    BY FS_Interval, Constants DEF Lines, Columns
  <2> QED BY <2>1, FS_Product
<1> HIDE DEF f
<1> QED BY <1>1, <1>2, FS_Injection

LEMMA QuotientTyped ==
  ASSUME NEW t \in Nat \ {0}, NEW n \in Nat
  PROVE  n \div t \in Nat /\ n \div t <= n
<1> DEFINE q == n \div t
<1>1. q \in Nat /\ q * t <= n
  OBVIOUS
<1> HIDE DEF q
<1>2. q * t = q + q * (t - 1) /\ q * (t - 1) \in Nat
  BY <1>1
<1> QED BY <1>1, <1>2 DEF q

LEMMA Overflowing ==
  ASSUME NEW s \in SpansOf(frame), NEW collected \in Seq(Span), ~HasRoom(collected),
         Of(collected) \subseteq SpansOf(frame) \ {s},
         \A i, j \in 1..Len(collected) : i < j => Earlier(collected[i], collected[j]),
         \A t \in Of(collected) : BandOf(t) = BandOf(s)
  PROVE  Overflows
<1> DEFINE y == s.line \div TileLines
           crowd == {t \in SpansOf(frame) : t.line \div TileLines = y}
           n == Len(collected)
           longer == Append(collected, s)
<1>1. s \in Span /\ s.line \in Nat /\ s.line < Height /\ n \in Nat /\ n >= MaxSpans
  BY SpanIs, Constants DEF SpansOf, HasRoom
<1>2. y \in Lines
  <2>1. y \in Nat /\ y <= s.line
    BY <1>1, Constants, QuotientTyped
  <2> QED BY <1>1, <2>1, Constants DEF Lines
<1>3. ASSUME NEW t \in Of(collected) PROVE t \in crowd
  <2>1. t \in SpansOf(frame) /\ t \in Span /\ t.line \in Nat
    BY SpanIs DEF SpansOf
  <2> DEFINE p == t.line \div TileLines
             q == s.line \div TileLines
  <2>2. p \in Nat /\ q \in Nat
    BY <1>1, <2>1, Constants, QuotientTyped
  <2>3. p * TileLines = q * TileLines
    BY DEF BandOf
  <2> HIDE DEF p, q
  <2>4. p = q
    <3>1. /\ (p + 1) * TileLines = p * TileLines + TileLines
          /\ (q + 1) * TileLines = q * TileLines + TileLines
          /\ p * TileLines \in Nat
      BY <2>2, Constants
    <3>2. ~(p + 1 <= q) /\ ~(q + 1 <= p)
      BY <2>2, <2>3, <3>1, Times, Constants
    <3> QED BY <2>2, <3>2
  <2> QED BY <2>1, <2>4 DEF p, q
<1>4. /\ Len(longer) = n + 1 /\ longer[n + 1] = s
      /\ \A i \in 1..n : longer[i] = collected[i] /\ collected[i] \in Of(collected)
  BY DEF Of
<1>5. IsFiniteSet(crowd)
  BY SpansFinite, FS_Subset
<1>6. s \in crowd
  OBVIOUS
<1> HIDE DEF longer, crowd
<1> DEFINE f == [i \in 1..(n + 1) |-> longer[i]]
<1>7. f \in Injection(1..(n + 1), crowd)
  <2>1. \A i \in 1..(n + 1) : longer[i] \in crowd
    <3> SUFFICES ASSUME NEW i \in 1..(n + 1) PROVE longer[i] \in crowd
      OBVIOUS
    <3>1. CASE i = n + 1
      BY <1>4, <1>6, <3>1
    <3>2. CASE i # n + 1
      <4>1. i \in 1..n
        BY <1>1, <3>2
      <4> QED BY <1>3, <1>4, <4>1
    <3> QED BY <3>1, <3>2
  <2>2. ASSUME NEW i \in 1..(n + 1), NEW j \in 1..(n + 1), i < j PROVE longer[i] # longer[j]
    <3>1. i \in 1..n /\ collected[i] \in Span /\ longer[i] = collected[i]
      BY <1>1, <1>4, <2>2
    <3>2. CASE j = n + 1
      <4>1. longer[i] \in Of(collected)
        BY <1>4, <3>1
      <4> QED BY <1>4, <3>2, <4>1
    <3>3. CASE j # n + 1
      <4>1. j \in 1..n /\ longer[j] = collected[j]
        BY <1>1, <1>4, <3>3
      <4>2. Earlier(collected[i], collected[j])
        BY <2>2, <3>1, <4>1
      <4>3. collected[i].line \in Nat /\ collected[i].start \in Nat
        BY <3>1, SpanIs
      <4> QED BY <3>1, <4>1, <4>2, <4>3 DEF Earlier, Before
    <3> QED BY <3>2, <3>3
  <2>3. ASSUME NEW i \in 1..(n + 1), NEW j \in 1..(n + 1), f[i] = f[j] PROVE i = j
    <3>1. ~(i < j) /\ ~(j < i)
      BY <2>2, <2>3
    <3> QED BY <3>1, <1>1
  <2>4. f \in [1..(n + 1) -> crowd]
    BY <2>1
  <2> HIDE DEF f
  <2> QED BY <2>3, <2>4 DEF Injection, IsInjective
<1>8. Cardinality(1..(n + 1)) <= Cardinality(crowd)
  <2> HIDE DEF f
  <2> QED BY <1>5, <1>7, FS_Injection
<1>9. Cardinality(1..(n + 1)) = n + 1
  BY <1>1, FS_Interval
<1>10. Cardinality(crowd) \in Nat
  BY <1>5, FS_CardinalityType
<1>11. Cardinality(crowd) > MaxSpans
  BY <1>1, <1>8, <1>9, <1>10, Constants
<1> QED BY <1>2, <1>11 DEF Overflows, crowd

LEMMA StepFails == IInv /\ Whole /\ [Next]_vars => (Fails => faults' > faults \/ Overflows)
<1> SUFFICES ASSUME IInv, Whole, [Next]_vars, Fails PROVE faults' > faults \/ Overflows
  OBVIOUS
<1>1. /\ TypeOK /\ Between /\ Going /\ Pending /\ Collecting /\ Whole
  BY DEF IInv
(* A flush only fails for a refused transfer.                               *)
<1>2. ASSUME ~error, FlushFails, \A y \in band : \A t \in spans : BandOf(t) # y
      PROVE  faults' > faults
  <2>1. PICK y \in band, r \in Rectangles : Refused \/ ~Sendable(r, y)
    BY <1>2 DEF FlushFails
  <2>2. Sendable(r, y)
    BY <1>2, BandStacked, AllSendable
  <2>3. faults' = faults + 1 /\ faults \in Nat
    BY <1>1, <2>1, <2>2, Constants DEF Refused, TypeOK
  <2> QED BY <2>3
<1>3. CASE ProcessLine /\ ~error /\ error'
  <2> DEFINE s == NextSpan
  <2>1. /\ s \in spans /\ s \in SpansOf(frame)
        /\ \A t \in spans \ {s} : Earlier(s, t)
    BY <1>1, <1>3, NextSpanIs DEF ProcessLine, Pending, Earlier
  <2> HIDE DEF s
  <2>2. CASE ~EndsBand /\ Renders(s, dirtySpans)
    <3>1. band = {} \/ BandOf(s) \in band
      BY <2>2, <1>1 DEF EndsBand, TypeOK, Option, s
    <3>2. \A t \in Of(dirtySpans) : BandOf(t) = BandOf(s)
      BY <1>1, <3>1 DEF Collecting, Of
    <3>3. ~HasRoom(dirtySpans)
      BY <1>3, <2>2 DEF Renders
    <3>4. Of(dirtySpans) \subseteq SpansOf(frame) \ {s}
      BY <1>1, <2>1 DEF Whole, InOrder, Rendered
    <3>5. dirtySpans \in Seq(Span)
          /\ \A i, j \in 1..Len(dirtySpans) : i < j => Earlier(dirtySpans[i], dirtySpans[j])
      BY <1>1 DEF TypeOK, Whole, InOrder
    <3> QED BY <2>1, <3>2, <3>3, <3>4, <3>5, Overflowing
  <2>3. CASE EndsBand /\ Renders(s, <<>>)
    <3> DEFINE none == <<>>
    <3>1. ~HasRoom(none)
      BY <1>3, <2>3 DEF Renders
    <3>2. none \in Seq(Span) /\ Len(none) = 0 /\ Of(none) = {}
      BY DEF Of
    <3>3. \A i, j \in 1..Len(none) : i < j => Earlier(none[i], none[j])
      BY <3>2
    <3> HIDE DEF none
    <3> QED BY <2>1, <3>1, <3>2, <3>3, Overflowing
  <2>4. CASE EndsBand /\ FlushFails
    <3>1. PICK y \in band : band = {y} /\ y \in Nat /\ y # BandOf(s)
      BY <1>1, <2>4 DEF EndsBand, TypeOK, Option, Lines, s
    <3>2. BandOf(s) \in Nat /\ y <= BandOf(s)
      BY <1>1, <1>3, <2>1, <3>1, BandIs DEF Whole, Complete, SpansOf
    <3>3. ASSUME NEW t \in spans PROVE BandOf(t) # y
      <4>1. t \in Span /\ s \in Span
        BY <1>1, <2>1 DEF Pending, SpansOf
      <4>2. t = s \/ BandOf(s) <= BandOf(t)
        BY <2>1, <4>1, BandsGrow
      <4>3. BandOf(t) \in Nat
        BY <4>1, BandIs
      <4> QED BY <3>1, <3>2, <4>2, <4>3
    <3> QED BY <1>2, <1>3, <2>4, <3>1, <3>3
  <2> QED BY <1>3, <2>2, <2>3, <2>4 DEF ProcessLine, s
<1>4. CASE FinishFrame /\ ~error /\ redraw'
  <2>1. spans = {} /\ redraw = FALSE
    BY <1>1, <1>4 DEF FinishFrame, Going, TypeOK
  <2>2. FlushFails
    BY <1>4, <2>1 DEF FinishFrame
  <2> QED BY <1>2, <1>4, <2>1, <2>2
<1>5. CASE Changes \/ StartsFrame \/ UNCHANGED vars
  BY <1>5 DEF Changes, StartsFrame, vars, upload, Fails
<1>6. ASSUME ProcessLine PROVE drawing' = drawing
  BY <1>6 DEF ProcessLine
<1>7. ASSUME FinishFrame PROVE error' = FALSE
  BY <1>7 DEF FinishFrame
<1> QED BY <1>3, <1>4, <1>5, <1>6, <1>7 DEF Next, Fails

(* flush_band and write_rectangle: a frame fails only for a transfer that   *)
(* the bus refused, or because one band of it has more spans than           *)
(* MAX_DIRTY_SPANS, whatever regions Slint makes dirty of its aligned       *)
(* blocks and however the bands cut them.                                   *)
THEOREM SpecOnlyFaultsFail == Spec => OnlyFaultsFail
<1>1. IInv /\ Whole /\ [Next]_vars => IInv' /\ Whole'
  BY NextIInv, NextWhole
<1>2. Spec => [](IInv /\ Whole)
  BY <1>1, InitIInv, InitWhole, PTL DEF Spec
<1>3. IInv /\ Whole /\ [Next]_vars => [Fails => faults' > faults \/ Overflows]_vars
  BY StepFails
<1> QED BY <1>2, <1>3, PTL DEF Spec, OnlyFaultsFail
=============================================================================
