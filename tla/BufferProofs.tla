---------------------------- MODULE BufferProofs ----------------------------
(***************************************************************************)
(* The buffer for every size of stream, RAM tail, segments and chunks:     *)
(* nothing held is lost, its files hold no more than they should, its      *)
(* hashes name the chunks they say, and it is an exact window.             *)
(***************************************************************************)
EXTENDS Buffer, FiniteSetTheorems, TLAPS

-----------------------------------------------------------------------------
(* Slices of the stream *)

LEMMA SliceType ==
  ASSUME NEW lo \in Nat, NEW hi \in Nat, lo <= hi
  PROVE  /\ Slice(lo, hi) \in Seq(Nat)
         /\ Len(Slice(lo, hi)) = hi - lo
         /\ \A i \in 1..(hi - lo) : Slice(lo, hi)[i] = lo + i - 1
         /\ lo < hi => Slice(lo, hi) \in Seq(0..(hi - 1))
BY DEF Slice

LEMMA SliceConcat ==
  ASSUME NEW lo \in Nat, NEW mi \in Nat, NEW hi \in Nat, lo <= mi, mi <= hi
  PROVE  Slice(lo, mi) \o Slice(mi, hi) = Slice(lo, hi)
BY DEF Slice

LEMMA SliceSub ==
  ASSUME NEW lo \in Nat, NEW x \in Nat, NEW y \in Nat, NEW hi \in Nat,
         lo <= x, x <= y, y <= hi
  PROVE  SubSeq(Slice(lo, hi), x - lo + 1, y - lo) = Slice(x, y)
BY DEF Slice

LEMMA SlicePrefix ==
  ASSUME NEW lo \in Nat, NEW hi \in Nat, NEW k \in Nat, lo + k <= hi
  PROVE  SubSeq(Slice(lo, hi), 1, k) = Slice(lo, lo + k)
BY DEF Slice

LEMMA SliceSuffix ==
  ASSUME NEW lo \in Nat, NEW hi \in Nat, NEW k \in Nat, lo + k <= hi
  PROVE  SubSeq(Slice(lo, hi), k + 1, Len(Slice(lo, hi))) = Slice(lo + k, hi)
BY DEF Slice

-----------------------------------------------------------------------------
(* Arithmetic of segment boundaries *)

LEMMA DivMod ==
  ASSUME NEW d \in Nat, NEW S \in Nat \ {0}
  PROVE  /\ d = S * (d \div S) + (d % S)
         /\ d % S \in 0..(S - 1)
         /\ d \div S \in Nat
OBVIOUS

LEMMA ModSmall ==
  ASSUME NEW d \in Nat, NEW S \in Nat \ {0}, d % S = 0, d > 0
  PROVE  d >= S
OBVIOUS

LEMMA ModFloor ==
  ASSUME NEW d \in Nat, NEW S \in Nat \ {0}
  PROVE  /\ d - (d % S) \in Nat
         /\ (d - (d % S)) % S = 0
         /\ d < d - (d % S) + S
OBVIOUS

LEMMA ModStep ==
  ASSUME NEW d \in Nat, NEW e \in Nat, NEW S \in Nat \ {0},
         d % S = 0, e % S = 0, d < e
  PROVE  d + S <= e
<1> DEFINE i == d \div S
           j == e \div S
<1>1. d = S * i /\ e = S * j /\ i \in Nat /\ j \in Nat
  BY DivMod
<1> HIDE DEF i, j
<1>2. i < j
  <2>1. CASE i < j
    BY <2>1
  <2>2. CASE j <= i
    <3>1. PICK k \in Nat : i = j + k
      BY <1>1, <2>2, i - j \in Nat, i = j + (i - j)
    <3>2. S * i = S * j + S * k
      BY <1>1, <3>1
    <3>3. S * k >= 0
      BY <3>1
    <3> QED
      BY <1>1, <3>2, <3>3
  <2> QED
    BY <1>1, <2>1, <2>2
<1>3. PICK k \in Nat : j = i + 1 + k
  BY <1>1, <1>2, j - i - 1 \in Nat, j = i + 1 + (j - i - 1)
<1>4. S * j = S * i + S + S * k
  BY <1>1, <1>3
<1>5. S * k >= 0
  BY <1>3
<1> QED
  BY <1>1, <1>4, <1>5

-----------------------------------------------------------------------------
(* Spilling keeps the segments a tiling *)

\* A segment whose file is what its offsets claim.
Sound(s) ==
  /\ s \in [startOff : Nat, endOff : Nat, file : Seq(Nat)]
  /\ s.startOff < s.endOff
  /\ s.endOff - s.startOff <= SegmentSize
  /\ s.file = Slice(s.startOff, s.endOff)

\* Segments that end at hi, overlap nowhere and cover everything from lo.
Tiling(segs, lo, hi) ==
  /\ \A s \in segs : Sound(s) /\ lo < s.endOff /\ s.endOff <= hi
  /\ \A s, t \in segs :
       s # t => s.endOff <= t.startOff \/ t.endOff <= s.startOff
  /\ \A off \in lo..(hi - 1) :
       \E s \in segs : s.startOff <= off /\ off < s.endOff
  /\ segs # {} => \E s \in segs : s.endOff = hi

LEMMA ActiveIsLast ==
  ASSUME NEW segs, NEW lo \in Nat, NEW hi \in Nat, lo <= hi,
         Tiling(segs, lo, hi)
  PROVE  LET act == Active(segs, hi)
         IN /\ act \in [startOff : Nat, endOff : Nat, file : Seq(Nat)]
            /\ act.endOff = hi
            /\ act.startOff <= hi
            /\ hi - act.startOff <= SegmentSize
            /\ act.file = Slice(act.startOff, hi)
            /\ \A s \in segs \ {act} : s.endOff <= act.startOff
            /\ segs = {} => act.startOff = hi
            /\ segs # {} => act \in segs
<1> USE BufferAssumption DEF BufferAssumption
<1>1. CASE segs = {}
  <2>1. Active(segs, hi) = [startOff |-> hi, endOff |-> hi, file |-> <<>>]
    BY <1>1 DEF Active
  <2>2. Slice(hi, hi) = <<>> /\ <<>> \in Seq(Nat)
    BY DEF Slice
  <2> DEFINE e == [startOff |-> hi, endOff |-> hi, file |-> <<>>]
  <2>3. /\ e \in [startOff : Nat, endOff : Nat, file : Seq(Nat)]
        /\ e.startOff = hi /\ e.endOff = hi /\ e.file = Slice(hi, hi)
    BY <2>2
  <2> HIDE DEF e
  <2>4. Active(segs, hi) = e
    BY <2>1 DEF e
  <2> QED
    BY <1>1, <2>3, <2>4
<1>2. CASE segs # {}
  <2>1. PICK s \in segs : s.endOff = hi
    BY <1>2 DEF Tiling
  <2>2. \A t \in segs : t # s => t.startOff < s.startOff /\ t.endOff <= s.startOff
    BY <2>1 DEF Tiling, Sound
  <2>3. \A t \in segs : (\A u \in segs : u.startOff <= t.startOff) => t = s
    BY <2>1, <2>2 DEF Tiling, Sound
  <2>4. \A t \in segs : t.startOff <= s.startOff
    <3>1. s.startOff \in Nat /\ \A t \in segs : t.startOff \in Nat
      BY DEF Tiling, Sound
    <3> QED
      BY <2>2, <3>1
  <2>5. Active(segs, hi) = s
    BY <1>2, <2>3, <2>4 DEF Active
  <2> QED
    BY <1>2, <2>1, <2>2, <2>5 DEF Tiling, Sound
<1> QED
  BY <1>1, <1>2

\* Where a segment starts, when the active one starts at a and the spilled
\* bytes end at end.
Starts(a, end) == {y \in a..(end - 1) : (y - a) % SegmentSize = 0}

LEMMA StartsApart ==
  ASSUME NEW a \in Nat, NEW end \in Nat,
         NEW x \in Starts(a, end), NEW y \in Starts(a, end), x < y
  PROVE  x + SegmentSize <= y
<1> USE BufferAssumption DEF BufferAssumption
<1> DEFINE d == x - a
           e == y - a
<1>1. /\ d \in Nat /\ e \in Nat /\ d < e /\ x = a + d /\ y = a + e
      /\ d % SegmentSize = 0 /\ e % SegmentSize = 0
  BY DEF Starts
<1> HIDE DEF d, e
<1>2. d + SegmentSize <= e
  BY <1>1, ModStep
<1> QED
  BY <1>1, <1>2

LEMMA StartsCover ==
  ASSUME NEW a \in Nat, NEW end \in Nat, NEW off \in a..(end - 1)
  PROVE  \E x \in Starts(a, end) : x <= off /\ off < x + SegmentSize
<1> USE BufferAssumption DEF BufferAssumption
<1> DEFINE d == off - a
           r == d % SegmentSize
<1>1. d \in Nat /\ off = a + d
  OBVIOUS
<1> HIDE DEF d
<1>2. /\ d - r \in Nat /\ (d - r) % SegmentSize = 0
      /\ d < d - r + SegmentSize /\ r \in 0..(SegmentSize - 1)
  BY <1>1, ModFloor, DivMod
<1> HIDE DEF r
<1>3. (a + (d - r)) - a = d - r
  BY <1>1, <1>2
<1>4. a + (d - r) \in Starts(a, end)
  BY <1>1, <1>2, <1>3 DEF Starts
<1> QED
  BY <1>1, <1>2, <1>4

LEMMA StartsAbove ==
  ASSUME NEW a \in Nat, NEW end \in Nat, NEW x \in Starts(a, end)
  PROVE  x \in Nat /\ a <= x /\ x < end /\ (x # a => a + SegmentSize <= x)
<1> USE BufferAssumption DEF BufferAssumption
<1>1. x \in a..(end - 1) /\ (x - a) % SegmentSize = 0
  BY DEF Starts
<1>2. x # a => x - a >= SegmentSize
  BY <1>1, x - a \in Nat, ModSmall
<1> QED
  BY <1>1, <1>2

\* The file of the segment that starts at x, filled up to top: the bytes of
\* the old active segment [a, hi) if it is that one, then spilled ones.
FileUpTo(a, hi, end, x, top) ==
  (IF x = a THEN Slice(a, hi) ELSE <<>>) \o
     SubSeq(Slice(hi, end), Greater(x, hi) - hi + 1, top - hi)

LEMMA FilledFile ==
  ASSUME NEW a \in Nat, NEW hi \in Nat, NEW end \in Nat, NEW x \in Nat,
         NEW top \in Nat, a <= hi, hi <= end, x < top, hi <= top, top <= end,
         x = a \/ hi <= x
  PROVE  FileUpTo(a, hi, end, x, top) = Slice(x, top)
<1> USE DEF FileUpTo
<1>1. CASE x = a
  <2>1. Greater(x, hi) = hi
    BY <1>1 DEF Greater
  <2>2. SubSeq(Slice(hi, end), hi - hi + 1, top - hi) = Slice(hi, top)
    BY SliceSub
  <2>3. Slice(a, hi) \o Slice(hi, top) = Slice(a, top)
    BY <1>1, SliceConcat
  <2> QED
    BY <1>1, <2>1, <2>2, <2>3
<1>2. CASE x # a
  <2>1. Greater(x, hi) = x
    BY <1>2 DEF Greater
  <2>2. SubSeq(Slice(hi, end), x - hi + 1, top - hi) = Slice(x, top)
    BY <1>2, SliceSub
  <2>3. Slice(x, top) \in Seq(Nat)
    BY SliceType
  <2>4. <<>> \o Slice(x, top) = Slice(x, top)
    BY <2>3
  <2> QED
    BY <1>2, <2>1, <2>2, <2>4
<1> QED
  BY <1>1, <1>2

\* The segment that starts at x once everything up to end is spilled.
FilledSegment(x, end) ==
  [ startOff |-> x,
    endOff   |-> Lesser(x + SegmentSize, end),
    file     |-> Slice(x, Lesser(x + SegmentSize, end)) ]

\* The active segment replaced by the segments that hold n more bytes.
Refilled(segs, hi, n) ==
  (segs \ {Active(segs, hi)}) \cup
     {FilledSegment(x, hi + n) : x \in Starts(Active(segs, hi).startOff, hi + n)}

\* A spill of the next n bytes of the stream replaces the active segment by
\* sound ones.
LEMMA SpillSegments ==
  ASSUME NEW segs, NEW lo \in Nat, NEW hi \in Nat, lo <= hi,
         Tiling(segs, lo, hi), NEW n \in Nat, n > 0
  PROVE  Spill(segs, hi, Slice(hi, hi + n)) = Refilled(segs, hi, n)
<1> USE BufferAssumption DEF BufferAssumption
<1> DEFINE act == Active(segs, hi)
           a == act.startOff
           p == Slice(hi, hi + n)
           end == hi + n
           Filled(x) ==
             [ startOff |-> x,
               endOff   |-> Lesser(x + SegmentSize, end),
               file     |-> (IF x = a THEN act.file ELSE <<>>) \o
                             SubSeq(p, Greater(x, hi) - hi + 1,
                                       Lesser(x + SegmentSize, end) - hi) ]
<1>1. /\ act.endOff = hi /\ a \in Nat /\ a <= hi /\ hi - a <= SegmentSize
      /\ act.file = Slice(a, hi)
  BY ActiveIsLast
<1>2. Len(p) = n /\ p # <<>>
  BY SliceType DEF Slice
<1>3. Spill(segs, hi, p) = (segs \ {act}) \cup {Filled(x) : x \in Starts(a, end)}
  BY <1>1, <1>2 DEF Spill, Starts
<1>4. ASSUME NEW x \in Starts(a, end)
      PROVE  Filled(x) = FilledSegment(x, end)
  <2> DEFINE top == Lesser(x + SegmentSize, end)
  <2>1. /\ x \in Nat /\ a <= x /\ x < end /\ (x # a => a + SegmentSize <= x)
    BY <1>1, StartsAbove
  <2>2. top \in Nat /\ x < top /\ top <= end /\ hi <= top
    BY <1>1, <2>1 DEF Lesser
  <2>3. x = a \/ hi <= x
    BY <1>1, <2>1
  <2>7. end \in Nat /\ hi <= end /\ p = Slice(hi, end)
    OBVIOUS
  <2> HIDE DEF top, act, end, a, p
  <2>5. a \in Nat /\ hi \in Nat /\ end \in Nat /\ x \in Nat /\ top \in Nat
    BY <1>1, <2>1, <2>2, <2>7
  <2>6. a <= hi /\ hi <= end /\ x < top /\ hi <= top /\ top <= end
    BY <1>1, <2>1, <2>2, <2>7
  <2>8. FileUpTo(a, hi, end, x, top) = Slice(x, top)
    BY <2>3, <2>5, <2>6, FilledFile
  <2>4. (IF x = a THEN act.file ELSE <<>>) \o
           SubSeq(p, Greater(x, hi) - hi + 1, top - hi) = Slice(x, top)
    BY <1>1, <2>7, <2>8 DEF FileUpTo
  <2> QED
    BY <2>4 DEF FilledSegment, top
<1> QED
  BY <1>3, <1>4 DEF Refilled

LEMMA FilledSound ==
  ASSUME NEW a \in Nat, NEW end \in Nat, NEW x \in Starts(a, end)
  PROVE  /\ Sound(FilledSegment(x, end))
         /\ FilledSegment(x, end).startOff = x
         /\ FilledSegment(x, end).endOff = Lesser(x + SegmentSize, end)
         /\ Lesser(x + SegmentSize, end) \in (x + 1)..end
<1> USE BufferAssumption DEF BufferAssumption
<1> DEFINE top == Lesser(x + SegmentSize, end)
<1>1. x \in Nat /\ x < end
  BY StartsAbove
<1>2. top \in Nat /\ x < top /\ top <= end /\ top - x <= SegmentSize
  BY <1>1 DEF Lesser
<1> HIDE DEF top
<1>3. Slice(x, top) \in Seq(Nat)
  BY <1>1, <1>2, SliceType
<1>4. FilledSegment(x, end) = [startOff |-> x, endOff |-> top, file |-> Slice(x, top)]
  BY DEF FilledSegment, top
<1>5. Sound(FilledSegment(x, end))
  BY <1>1, <1>2, <1>3, <1>4 DEF Sound
<1> QED
  BY <1>1, <1>2, <1>4, <1>5 DEF top

LEMMA SpillTiling ==
  ASSUME NEW segs, NEW lo \in Nat, NEW hi \in Nat, lo <= hi,
         Tiling(segs, lo, hi), segs = {} => lo = hi,
         NEW n \in Nat
  PROVE  Tiling(Spill(segs, hi, Slice(hi, hi + n)), lo, hi + n)
<1> USE BufferAssumption DEF BufferAssumption
<1>1. CASE n = 0
  <2>1. Slice(hi, hi + n) = <<>>
    BY <1>1 DEF Slice
  <2> QED
    BY <1>1, <2>1 DEF Spill
<1>2. CASE n > 0
  <2> DEFINE act == Active(segs, hi)
             a == act.startOff
             end == hi + n
             starts == Starts(a, end)
             Filled(x) == FilledSegment(x, end)
             R == (segs \ {act}) \cup {Filled(x) : x \in starts}
  <2>1. /\ act.endOff = hi
        /\ a \in Nat /\ a <= hi /\ hi - a <= SegmentSize
        /\ \A s \in segs \ {act} : s.endOff <= a
        /\ segs = {} => a = hi
        /\ segs # {} => act \in segs
    BY ActiveIsLast
  <2>2. Spill(segs, hi, Slice(hi, end)) = R
    <3>1. Spill(segs, hi, Slice(hi, hi + n)) = Refilled(segs, hi, n)
      BY <1>2, SpillSegments
    <3>2. Refilled(segs, hi, n) = R
      BY DEF Refilled
    <3> QED
      BY <3>1, <3>2
  <2>3. end \in Nat /\ hi < end
    BY <1>2
  <2> HIDE DEF act, end
  <2>4. \A x \in starts : /\ x \in Nat /\ a <= x /\ x < end
                          /\ x # a => hi <= x
    BY <2>1, <2>3, StartsAbove
  <2>5. \A x \in starts : /\ Sound(Filled(x))
                          /\ Filled(x).startOff = x
                          /\ Filled(x).endOff = Lesser(x + SegmentSize, end)
                          /\ Filled(x).endOff \in (x + 1)..end
    BY <2>1, <2>3, FilledSound
  <2>6. \A x, y \in starts : x < y => x + SegmentSize <= y
    BY <2>1, <2>3, StartsApart
  <2>7. \A off \in a..(end - 1) :
           \E x \in starts : x <= off /\ off < x + SegmentSize
    BY <2>1, <2>3, StartsCover
  <2> HIDE DEF starts, Filled, a
  <2>8. /\ \A s \in segs : /\ s.startOff \in Nat /\ s.endOff \in Nat
                           /\ Sound(s) /\ lo < s.endOff /\ s.endOff <= hi
        /\ \A s, t \in segs :
             s # t => s.endOff <= t.startOff \/ t.endOff <= s.startOff
        /\ \A off \in lo..(hi - 1) :
             \E s \in segs : s.startOff <= off /\ off < s.endOff
    BY DEF Tiling, Sound
  <2>9. \A s \in R : Sound(s) /\ lo < s.endOff /\ s.endOff <= end
    <3>1. ASSUME NEW x \in starts
          PROVE  lo < Filled(x).endOff
      <4>1. CASE hi <= x
        BY <2>4, <2>5, <4>1
      <4>2. CASE x = a
        <5>1. lo <= a \/ lo < hi
          BY <2>1, <2>8
        <5>2. hi <= Filled(x).endOff
          BY <2>1, <2>3, <2>4, <2>5, <4>2 DEF Lesser
        <5> QED
          BY <2>4, <2>5, <4>2, <5>1, <5>2
      <4> QED
        BY <2>4, <4>1, <4>2
    <3> QED
      BY <2>3, <2>5, <2>8, <3>1
  <2>10. \A s, t \in R : s # t => s.endOff <= t.startOff \/ t.endOff <= s.startOff
    <3>1. \A s \in segs \ {act}, x \in starts : s.endOff <= Filled(x).startOff
      BY <2>1, <2>4, <2>5, <2>8
    <3>2. \A x, y \in starts : x < y => Filled(x).endOff <= Filled(y).startOff
      BY <2>3, <2>4, <2>5, <2>6 DEF Lesser
    <3>3. \A x, y \in starts : x # y => x < y \/ y < x
      BY <2>4
    <3> QED
      BY <2>8, <3>1, <3>2, <3>3
  <2>11. \A off \in lo..(end - 1) :
            \E s \in R : s.startOff <= off /\ off < s.endOff
    <3> TAKE off \in lo..(end - 1)
    <3>1. CASE off >= a
      <4>1. PICK x \in starts : x <= off /\ off < x + SegmentSize
        BY <2>1, <2>3, <2>7, <3>1
      <4>2. Filled(x).startOff <= off /\ off < Filled(x).endOff
        BY <2>3, <2>4, <2>5, <4>1 DEF Lesser
      <4> QED
        BY <4>1, <4>2
    <3>2. CASE off < a
      <4>1. PICK s \in segs : s.startOff <= off /\ off < s.endOff
        BY <2>1, <2>3, <2>8, <3>2
      <4>2. s # act
        BY <2>1, <3>2, <4>1 DEF a
      <4> QED
        BY <4>1, <4>2
    <3> QED
      BY <2>1, <3>1, <3>2
  <2>12. \E s \in R : s.endOff = end
    <3>1. PICK x \in starts : x <= end - 1 /\ end - 1 < x + SegmentSize
      BY <2>1, <2>3, <2>7
    <3>2. Filled(x).endOff = end
      BY <2>3, <2>4, <2>5, <3>1 DEF Lesser
    <3> QED
      BY <3>1, <3>2
  <2>13. Tiling(R, lo, end)
    BY <2>9, <2>10, <2>11, <2>12 DEF Tiling
  <2> QED
    BY <2>2, <2>13 DEF end
<1> QED
  BY <1>1, <1>2

-----------------------------------------------------------------------------
(* A spill that fails half-way *)

\* What is left of Tiling then: every held byte still is where ReadAt looks
\* for it, but a file may be longer than its segment, and segments may reach
\* beyond hi.
Covering(segs, lo, hi) ==
  /\ segs \subseteq Segment
  /\ \A s \in segs : FileExact(s)
  /\ \A s, t \in segs :
       s # t => s.endOff <= t.startOff \/ t.endOff <= s.startOff
  /\ \A off \in lo..(hi - 1) :
       \E s \in segs : s.startOff <= off /\ off < s.endOff

\* What FileExact says of a file, for any sequence.
StreamBytes(f, lo, hi) ==
  /\ Len(f) = hi - lo
  /\ \A i \in 1..(hi - lo) : f[i] = lo + i - 1

LEMMA SliceBytes ==
  ASSUME NEW lo \in Nat, NEW hi \in Nat, lo <= hi
  PROVE  StreamBytes(Slice(lo, hi), lo, hi)
BY SliceType DEF StreamBytes

LEMMA TilingCovers ==
  ASSUME NEW segs, NEW lo \in Nat, NEW hi \in Nat, NEW mid \in Nat,
         mid <= hi, Tiling(segs, lo, hi)
  PROVE  Covering(segs, lo, mid)
<1>1. ASSUME NEW s \in segs
      PROVE  s \in Segment /\ FileExact(s)
  <2>1. Sound(s)
    BY DEF Tiling
  <2>2. /\ s.startOff \in Nat /\ s.endOff \in Nat /\ s.startOff < s.endOff
        /\ s.endOff - s.startOff <= SegmentSize
        /\ s \in Segment
    BY <2>1 DEF Sound, Segment
  <2>3. s.file = Slice(s.startOff, s.endOff)
    BY <2>1 DEF Sound
  <2>4. StreamBytes(Slice(s.startOff, s.endOff), s.startOff, s.endOff)
    BY <2>2, SliceBytes
  <2>5. StreamBytes(s.file, s.startOff, s.endOff)
    BY <2>3, <2>4, Zenon
  <2> QED
    BY <2>2, <2>5 DEF FileExact, StreamBytes
<1> QED
  BY <1>1 DEF Tiling, Covering

\* Junk behind the bytes a segment claims does not disturb it.
LEMMA JunkHarmless ==
  ASSUME NEW s \in Segment, NEW junk \in Seq(Nat), FileExact(s)
  PROVE  LET t == [s EXCEPT !.file = s.file \o junk]
         IN /\ t \in Segment /\ FileExact(t)
            /\ t.startOff = s.startOff /\ t.endOff = s.endOff
<1> DEFINE t == [s EXCEPT !.file = s.file \o junk]
<1>1. /\ s.startOff \in Nat /\ s.endOff \in Nat /\ s.file \in Seq(Nat)
  BY DEF Segment
<1>2. s.file \o junk \in Seq(Nat)
  BY <1>1
<1>3. /\ t \in Segment /\ t.startOff = s.startOff /\ t.endOff = s.endOff
      /\ t.file = s.file \o junk
  BY <1>2 DEF Segment
<1> HIDE DEF t
<1>4. /\ Len(s.file \o junk) >= Len(s.file)
      /\ \A i \in 1..Len(s.file) : (s.file \o junk)[i] = s.file[i]
  BY <1>1
<1>5. FileExact(t)
  BY <1>1, <1>3, <1>4 DEF FileExact
<1> QED
  BY <1>3, <1>5 DEF t

LEMMA TornCovers ==
  ASSUME NEW segs, NEW lo \in Nat, NEW hi \in Nat, NEW p, lo <= hi,
         Tiling(segs, lo, hi), segs = {} => lo = hi,
         NEW w \in Nat, NEW k \in Nat,
         SubSeq(p, 1, w) = Slice(hi, hi + w),
         SubSeq(p, w + 1, w + k) \in Seq(Nat)
  PROVE  Covering(SpillTorn(segs, hi, p, w, k), lo, hi)
<1> USE BufferAssumption DEF BufferAssumption
<1> DEFINE done == Spill(segs, hi, Slice(hi, hi + w))
           junk == SubSeq(p, w + 1, w + k)
           last == Active(done, hi)
           fresh == [startOff |-> last.endOff, endOff |-> last.endOff,
                     file |-> <<>>]
           tgt == IF done = {} \/ last.endOff - last.startOff >= SegmentSize
                  THEN fresh ELSE last
           torn == [tgt EXCEPT !.file = tgt.file \o junk]
           R == (done \ {tgt}) \cup {torn}
<1> DEFINE mid == hi + w
<1>1. w \in Nat /\ mid \in Nat /\ hi <= mid /\ lo <= mid
  OBVIOUS
<1>13. Tiling(done, lo, mid)
  BY <1>1, SpillTiling
<1> HIDE DEF mid
<1>2. done = {} => lo = mid
  BY <1>1, <1>13 DEF Tiling
<1> HIDE DEF done
<1>3. last = Active(done, mid)
  BY <1>1, <1>2, <1>13, mid = hi \/ done # {} DEF Active
<1>4. /\ last \in [startOff : Nat, endOff : Nat, file : Seq(Nat)]
      /\ last.endOff = mid
      /\ last.startOff <= mid
      /\ done # {} => last \in done
  <2>1. LET act == Active(done, mid)
        IN /\ act \in [startOff : Nat, endOff : Nat, file : Seq(Nat)]
           /\ act.endOff = mid /\ act.startOff <= mid
           /\ done # {} => act \in done
    <3> HIDE DEF last
    <3> QED
      BY <1>1, <1>13, ActiveIsLast
  <2> HIDE DEF last
  <2> QED
    BY <1>3, <2>1
<1>5. Covering(done, lo, mid) /\ Covering(done, lo, hi)
  BY <1>1, <1>13, TilingCovers
<1> HIDE DEF last
<1>6. /\ fresh \in Segment /\ FileExact(fresh)
      /\ fresh.startOff = mid /\ fresh.endOff = mid
  BY <1>4 DEF Segment, FileExact
<1> HIDE DEF fresh
<1>7. /\ tgt \in Segment /\ FileExact(tgt)
      /\ tgt \in done \/ (tgt.startOff = mid /\ tgt.endOff = mid)
  BY <1>4, <1>5, <1>6 DEF Covering
<1> HIDE DEF tgt
<1>8. /\ torn \in Segment /\ FileExact(torn)
      /\ torn.startOff = tgt.startOff /\ torn.endOff = tgt.endOff
  BY <1>7, JunkHarmless
<1> HIDE DEF torn
<1>9. \A s \in done : s.startOff \in Nat /\ s.endOff \in Nat /\ s.endOff <= mid
  BY <1>13 DEF Tiling, Sound
<1>10. \A s \in done \ {tgt} : s.endOff <= torn.startOff \/ torn.endOff <= s.startOff
  BY <1>5, <1>7, <1>8, <1>9 DEF Covering
<1>11. ASSUME NEW off \in lo..(hi - 1)
       PROVE  \E s \in R : s.startOff <= off /\ off < s.endOff
  <2>1. PICK s \in done : s.startOff <= off /\ off < s.endOff
    BY <1>5 DEF Covering
  <2>2. CASE s = tgt
    BY <1>8, <2>1, <2>2
  <2>3. CASE s # tgt
    BY <2>1, <2>3
  <2> QED
    BY <2>2, <2>3
<1>12. Covering(R, lo, hi)
  BY <1>5, <1>8, <1>10, <1>11 DEF Covering
<1> QED
  BY <1>12 DEF SpillTorn, R, torn, tgt, fresh, last, done

LEMMA FailureCovers ==
  ASSUME NEW segs, NEW lo \in Nat, NEW hi \in Nat, NEW n \in Nat, lo <= hi,
         Tiling(segs, lo, hi), segs = {} => lo = hi,
         NEW R \in SpillFailures(segs, hi, Slice(hi, hi + n))
  PROVE  Covering(R, lo, hi)
<1> USE BufferAssumption DEF BufferAssumption
<1> DEFINE p == Slice(hi, hi + n)
           act == Active(segs, hi)
<1>1. p \in Seq(Nat) /\ Len(p) = n
  BY DEF Slice
<1>2. \A w \in 0..(n - 1) : SubSeq(p, 1, w) = Slice(hi, hi + w)
  BY DEF Slice
<1>3. act.endOff = hi /\ act.startOff \in Nat /\ act.startOff <= hi
  BY ActiveIsLast
<1> HIDE DEF p
<1>4. ASSUME NEW w \in 0..(n - 1), R = Spill(segs, hi, SubSeq(p, 1, w))
      PROVE  Covering(R, lo, hi)
  <2> DEFINE mid == hi + w
  <2>1. w \in Nat /\ mid \in Nat /\ hi <= mid
    OBVIOUS
  <2>2. Tiling(R, lo, mid)
    BY <1>2, <1>4, <2>1, SpillTiling
  <2> HIDE DEF mid
  <2> QED
    BY <2>1, <2>2, TilingCovers
<1>5. ASSUME NEW w \in 0..(n - 1), NEW k \in Nat, w + k <= n,
             R = SpillTorn(segs, hi, p, w, k)
      PROVE  Covering(R, lo, hi)
  <2>1. SubSeq(p, w + 1, w + k) \in Seq(Nat)
    BY <1>1, <1>5
  <2> QED
    BY <1>2, <1>5, <2>1, TornCovers, w \in Nat
<1> DEFINE cuts == SpillCuts(segs, hi, p)
           Asked(w) == Lesser(Len(p) - w,
                         SegmentSize -
                           ((act.endOff + w - act.startOff) % SegmentSize))
<1>6. cuts \subseteq 0..(n - 1)
  BY <1>1 DEF SpillCuts
<1>7. ASSUME NEW w \in cuts
      PROVE  Asked(w) \in Int /\ Asked(w) <= n - w
  <2>1. w \in Nat
    BY <1>6
  <2>2. act.endOff + w - act.startOff \in Nat
    BY <1>3, <2>1
  <2>3. (act.endOff + w - act.startOff) % SegmentSize \in Int
    BY <2>2
  <2> HIDE DEF act
  <2> QED
    BY <1>1, <2>1, <2>3 DEF Lesser
<1>8. \/ \E w \in cuts : R = Spill(segs, hi, SubSeq(p, 1, w))
      \/ \E w \in cuts : \E k \in 0..(Asked(w) - 1) :
            R = SpillTorn(segs, hi, p, w, k)
  BY DEF SpillFailures, p
<1> HIDE DEF cuts, Asked
<1>9. ASSUME NEW w \in cuts, NEW k \in 0..(Asked(w) - 1)
      PROVE  k \in Nat /\ w + k <= n
  BY <1>6, <1>7
<1> QED
  BY <1>4, <1>5, <1>6, <1>8, <1>9

-----------------------------------------------------------------------------
(* The inductive invariant *)

\* While the buffer is open: mem is the newest part of the stream, and the
\* segments tile the rest of what is held, or, once a spill has failed, still
\* cover it.  Without the tiling the next spill would start in the wrong
\* place: that is why SegmentsTileHeldRange alone is not inductive.
HeldInv ==
  phase = "open" =>
    /\ mem = Slice(memOffset, total)
    /\ trimOffset <= memOffset
    /\ memOffset <= total
    /\ ~Disk => segments = {} /\ trimOffset = memOffset /\ ~failed
    /\ Disk => Covering(segments, trimOffset, memOffset)
    /\ Disk /\ ~failed => Tiling(segments, trimOffset, memOffset)

PersistedInv ==
  Disk /\ phase = "kept" /\ ~closeErr /\ ~failed
    => Tiling(persisted, trimOffset, total)

BufferInv == TypeOK /\ HeldInv /\ PersistedInv

LEMMA InitInv == Init => BufferInv
<1> USE BufferAssumption DEF BufferAssumption
<1> SUFFICES ASSUME Init PROVE BufferInv
  OBVIOUS
<1>1. TypeOK
  <2>1. <<>> \in Seq(Nat) /\ <<>> \in Seq(Seq(Nat)) /\ 0 \in Offsets
    BY DEF Offsets
  <2>2. reply \in [off : Offsets, bytes : Seq(Nat),
                   err : {"none", "nil", "EOF", "trimmed", "gap"}]
    BY <2>1 DEF Init, NoReply
  <2>3. waiter \in [state : {"idle", "check", "asleep"}, offset : Offsets,
                    ch : Nat]
    BY <2>1 DEF Init
  <2> QED
    BY <2>1, <2>2, <2>3 DEF Init, TypeOK
<1>2. Slice(0, 0) = <<>>
  BY DEF Slice
<1>3. Tiling({}, 0, 0) /\ Covering({}, 0, 0)
  BY DEF Tiling, Covering
<1>4. HeldInv
  BY <1>2, <1>3 DEF Init, HeldInv
<1>5. PersistedInv
  BY DEF Init, PersistedInv
<1> QED
  BY <1>1, <1>4, <1>5 DEF BufferInv

\* Hashing keeps the types; what the hashes are of is left to TLC.
LEMMA HashType ==
  ASSUME TypeOK, NEW p \in Seq(Nat), HashIn(p)
  PROVE  /\ chunkHashes' \in Seq(Seq(Nat)) /\ curHasher' \in Seq(Nat)
         /\ firstChunkIndex' = firstChunkIndex
<1> USE BufferAssumption DEF BufferAssumption
<1> DEFINE all == curHasher \o p
           k == Len(all) \div ChunkSize
           Chunk(i) == SubSeq(all, (i - 1) * ChunkSize + 1, i * ChunkSize)
<1>1. all \in Seq(Nat)
  BY DEF TypeOK
<1>2. /\ Len(all) = ChunkSize * k + (Len(all) % ChunkSize)
      /\ Len(all) % ChunkSize \in 0..(ChunkSize - 1)
      /\ k \in Nat
  <2> DEFINE len == Len(all)
  <2>1. len \in Nat
    BY <1>1
  <2> HIDE DEF len
  <2>2. /\ len = ChunkSize * (len \div ChunkSize) + (len % ChunkSize)
        /\ len % ChunkSize \in 0..(ChunkSize - 1)
        /\ len \div ChunkSize \in Nat
    BY <2>1, DivMod
  <2> QED
    BY <2>2 DEF len
<1> HIDE DEF k, all
<1>3. ASSUME NEW i \in 1..k
      PROVE  Chunk(i) \in Seq(Nat)
  <2>1. PICK j \in Nat : k = i + j
    BY <1>2, k - i \in Nat, k = i + (k - i)
  <2>2. ChunkSize * k = ChunkSize * i + ChunkSize * j
    BY <2>1
  <2>3. ChunkSize * j >= 0
    BY <2>1
  <2>4. i * ChunkSize = ChunkSize * i /\ ChunkSize * i \in Nat
    OBVIOUS
  <2>5. i * ChunkSize <= Len(all)
    <3> DEFINE ci == ChunkSize * i
               cj == ChunkSize * j
               ck == ChunkSize * k
    <3>1. /\ ci \in Nat /\ cj \in Int /\ cj >= 0 /\ ck = ci + cj
          /\ Len(all) = ck + (Len(all) % ChunkSize)
          /\ Len(all) % ChunkSize \in 0..(ChunkSize - 1)
      BY <1>2, <2>1, <2>2, <2>3, <2>4
    <3> HIDE DEF ci, cj, ck
    <3>2. ci <= Len(all)
      BY <3>1
    <3> QED
      BY <2>4, <3>2 DEF ci
  <2>6. (i - 1) * ChunkSize \in Nat
    BY i - 1 \in Nat
  <2> DEFINE x == (i - 1) * ChunkSize
             y == i * ChunkSize
  <2>7. x \in Nat /\ y \in Nat /\ y <= Len(all)
    BY <2>4, <2>5, <2>6
  <2> HIDE DEF x, y
  <2>8. SubSeq(all, x + 1, y) \in Seq(Nat)
    BY <1>1, <2>7
  <2> QED
    BY <2>8 DEF x, y
<1>4. [i \in 1..k |-> Chunk(i)] \in Seq(Seq(Nat))
  <2> HIDE DEF Chunk
  <2> QED
    BY <1>2, <1>3
<1>5. k * ChunkSize \in Nat /\ k * ChunkSize <= Len(all)
  <2>1. k * ChunkSize = ChunkSize * k /\ ChunkSize * k \in Nat
    BY <1>2
  <2> QED
    BY <1>1, <1>2, <2>1
<1>6. SubSeq(all, k * ChunkSize + 1, Len(all)) \in Seq(Nat)
  <2> DEFINE x == k * ChunkSize
  <2> HIDE DEF x
  <2>1. SubSeq(all, x + 1, Len(all)) \in Seq(Nat)
    BY <1>1, <1>5 DEF x
  <2> QED
    BY <2>1 DEF x
<1>7. chunkHashes' = chunkHashes \o [i \in 1..k |-> Chunk(i)]
  BY DEF HashIn, CompleteChunks, k, all
<1>8. curHasher' = SubSeq(all, k * ChunkSize + 1, Len(all))
  BY DEF HashIn, CompleteChunks, k, all
<1>9. firstChunkIndex' = firstChunkIndex
  BY DEF HashIn
<1> HIDE DEF Chunk
<1> QED
  BY <1>4, <1>6, <1>7, <1>8, <1>9 DEF TypeOK

-----------------------------------------------------------------------------
(* One lemma per method *)

LEMMA AppendInv ==
  ASSUME BufferInv, NEW n \in 1..MaxAppend, BufAppend(n)
  PROVE  BufferInv'
<1> USE BufferAssumption DEF BufferAssumption
<1> DEFINE end == total + n
           spill == Greater(Len(Slice(memOffset, end)) - RamTail, 0)
<1>1. /\ TypeOK /\ phase = "open" /\ ~failed /\ HeldInv
      /\ memOffset \in Nat /\ total \in Nat /\ trimOffset \in Nat
      /\ end <= MaxTotal
  BY DEF BufferInv, BufAppend, TypeOK, Offsets
<1>2. /\ mem = Slice(memOffset, total)
      /\ trimOffset <= memOffset /\ memOffset <= total
      /\ ~Disk => segments = {} /\ trimOffset = memOffset
      /\ Disk => Tiling(segments, trimOffset, memOffset)
  BY <1>1 DEF HeldInv
<1>3. /\ end \in Nat /\ total <= end /\ memOffset <= end /\ total < end
  BY <1>1, <1>2
<1>4. /\ mem \o Slice(total, end) = Slice(memOffset, end)
      /\ Len(Slice(memOffset, end)) = end - memOffset
  BY <1>1, <1>2, <1>3, SliceConcat, SliceType
<1>5. spill \in Nat /\ memOffset + spill <= end
  BY <1>1, <1>3, <1>4 DEF Greater
<1>6. /\ total' = end
      /\ memOffset' = memOffset + spill
      /\ mem' = SubSeq(Slice(memOffset, end), spill + 1,
                       Len(Slice(memOffset, end)))
      /\ segments' = IF Disk
                     THEN Spill(segments, memOffset,
                                SubSeq(Slice(memOffset, end), 1, spill))
                     ELSE segments
      /\ trimOffset' = trimOffset + Dropped(spill)
      /\ notify' = notify + 1
      /\ HashIn(Slice(total, end))
      /\ UNCHANGED <<sealed, persisted, closeErr, phase, failed, reply, waiter>>
  BY <1>4 DEF BufAppend, lifecycle
<1> HIDE DEF end, spill
<1>7. trimOffset' = IF Disk THEN trimOffset ELSE trimOffset + spill
  BY <1>1, <1>5, <1>6 DEF Dropped
<1>8. mem' = Slice(memOffset + spill, end)
  BY <1>1, <1>3, <1>5, <1>6, SliceSuffix
<1>9. SubSeq(Slice(memOffset, end), 1, spill) = Slice(memOffset, memOffset + spill)
  BY <1>1, <1>3, <1>5, SlicePrefix
<1>10. Disk => Tiling(segments', trimOffset', memOffset')
  <2>1. segments = {} /\ Disk => trimOffset = memOffset
    BY <1>1, <1>2 DEF Tiling
  <2> QED
    BY <1>1, <1>2, <1>5, <1>6, <1>7, <1>9, <2>1, SpillTiling
<1>11. memOffset' \in Nat /\ trimOffset' \in Nat /\ trimOffset' <= memOffset'
  BY <1>1, <1>2, <1>5, <1>6, <1>7
<1>12. Disk => Covering(segments', trimOffset', memOffset')
  BY <1>10, <1>11, TilingCovers
<1>13. HeldInv'
  BY <1>1, <1>2, <1>3, <1>5, <1>6, <1>7, <1>8, <1>10, <1>11, <1>12 DEF HeldInv
<1>14. TypeOK'
  <2>1. Slice(total, end) \in Seq(Nat) /\ mem' \in Seq(Nat)
    BY <1>1, <1>3, <1>5, <1>8, SliceType, memOffset + spill \in Nat
  <2>2. /\ chunkHashes' \in Seq(Seq(Nat)) /\ curHasher' \in Seq(Nat)
        /\ firstChunkIndex' = firstChunkIndex
    BY <1>1, <1>6, <2>1, HashType
  <2>3. /\ memOffset' \in Offsets /\ total' \in Offsets /\ trimOffset' \in Offsets
    BY <1>1, <1>2, <1>3, <1>5, <1>6, <1>7, <1>11 DEF Offsets
  <2>4. segments' \subseteq Segment
    BY <1>1, <1>6, <1>12 DEF Covering, TypeOK
  <2>5. /\ notify' \in Nat /\ sealed' \in BOOLEAN /\ closeErr' \in BOOLEAN
        /\ phase' \in {"open", "kept", "removed"} /\ failed' \in BOOLEAN
        /\ reply' = reply /\ waiter' = waiter /\ persisted' = persisted
        /\ failed' = failed
    BY <1>1, <1>6 DEF TypeOK
  <2>6. /\ firstChunkIndex' \in Nat
        /\ ~failed' => persisted' \subseteq Segment
    BY <1>1, <2>2, <2>5 DEF TypeOK
  <2> QED
    BY <1>1, <2>1, <2>2, <2>3, <2>4, <2>5, <2>6 DEF TypeOK
<1>15. PersistedInv'
  BY <1>1, <1>6 DEF PersistedInv
<1> QED
  BY <1>13, <1>14, <1>15 DEF BufferInv

LEMMA AppendFailsInv ==
  ASSUME BufferInv, NEW n \in 1..MaxAppend, AppendFails(n)
  PROVE  BufferInv'
<1> USE BufferAssumption DEF BufferAssumption
<1> DEFINE end == total + n
           spill == Len(Slice(memOffset, end)) - RamTail
<1>1. /\ TypeOK /\ phase = "open" /\ ~failed /\ Disk /\ HeldInv
      /\ memOffset \in Nat /\ total \in Nat /\ trimOffset \in Nat
      /\ end <= MaxTotal
  BY DEF BufferInv, AppendFails, TypeOK, Offsets
<1>2. /\ mem = Slice(memOffset, total)
      /\ trimOffset <= memOffset /\ memOffset <= total
      /\ Tiling(segments, trimOffset, memOffset)
  BY <1>1 DEF HeldInv
<1>3. /\ end \in Nat /\ total <= end /\ memOffset <= end
  BY <1>1, <1>2
<1>4. /\ mem \o Slice(total, end) = Slice(memOffset, end)
      /\ Len(Slice(memOffset, end)) = end - memOffset
      /\ Slice(memOffset, end) \in Seq(Nat) /\ Slice(total, end) \in Seq(Nat)
  BY <1>1, <1>2, <1>3, SliceConcat, SliceType
<1>5. /\ total' = end
      /\ mem' = Slice(memOffset, end)
      /\ segments' \in SpillFailures(segments, memOffset,
                         SubSeq(Slice(memOffset, end), 1, spill))
      /\ spill > 0
      /\ failed'
      /\ HashIn(Slice(total, end))
      /\ UNCHANGED <<memOffset, trimOffset, notify, sealed, persisted, closeErr,
                     phase, reply, waiter>>
  BY <1>4 DEF AppendFails, lifecycle
<1>6. spill \in Nat /\ memOffset + spill <= end
  BY <1>1, <1>3, <1>4, <1>5
<1> HIDE DEF end, spill
<1>7. SubSeq(Slice(memOffset, end), 1, spill) = Slice(memOffset, memOffset + spill)
  BY <1>1, <1>3, <1>6, SlicePrefix
<1>8. Covering(segments', trimOffset, memOffset)
  <2>1. segments = {} => trimOffset = memOffset
    BY <1>1, <1>2 DEF Tiling
  <2> QED
    BY <1>1, <1>2, <1>5, <1>6, <1>7, <2>1, FailureCovers
<1>9. HeldInv'
  BY <1>1, <1>2, <1>3, <1>5, <1>8 DEF HeldInv
<1>10. TypeOK'
  <2>1. /\ chunkHashes' \in Seq(Seq(Nat)) /\ curHasher' \in Seq(Nat)
        /\ firstChunkIndex' = firstChunkIndex
    BY <1>1, <1>4, <1>5, HashType
  <2>2. total' \in Offsets
    BY <1>1, <1>3, <1>5 DEF Offsets
  <2>3. segments' \subseteq Segment
    BY <1>8 DEF Covering
  <2> QED
    BY <1>1, <1>4, <1>5, <2>1, <2>2, <2>3 DEF TypeOK
<1>11. PersistedInv'
  BY <1>5 DEF PersistedInv
<1> QED
  BY <1>9, <1>10, <1>11 DEF BufferInv

LEMMA TrimInv ==
  ASSUME BufferInv, NEW ack \in Offsets, TrimTo(ack)
  PROVE  BufferInv'
<1> USE BufferAssumption DEF BufferAssumption
<1> DEFINE off == Lesser(ack, total)
           drop == Lesser(off - memOffset, Len(mem))
<1>1. /\ TypeOK /\ phase = "open" /\ HeldInv
      /\ memOffset \in Nat /\ total \in Nat /\ trimOffset \in Nat
      /\ ack \in Nat /\ ack > trimOffset /\ total <= MaxTotal
  BY DEF BufferInv, TrimTo, TypeOK, Offsets
<1>2. /\ mem = Slice(memOffset, total)
      /\ trimOffset <= memOffset /\ memOffset <= total
      /\ ~Disk => segments = {} /\ trimOffset = memOffset /\ ~failed
      /\ Disk => Covering(segments, trimOffset, memOffset)
      /\ Disk /\ ~failed => Tiling(segments, trimOffset, memOffset)
  BY <1>1 DEF HeldInv
<1>3. off \in Nat /\ trimOffset <= off /\ off <= total
  BY <1>1, <1>2 DEF Lesser
<1>4. Len(mem) = total - memOffset
  BY <1>1, <1>2, SliceType
<1>5. off > memOffset => drop = off - memOffset
  BY <1>1, <1>2, <1>3, <1>4 DEF Lesser
<1>6. /\ trimOffset' = off
      /\ segments' = {s \in segments : s.endOff > off}
      /\ off > memOffset => /\ mem' = SubSeq(mem, drop + 1, Len(mem))
                            /\ memOffset' = off
      /\ ~(off > memOffset) => UNCHANGED <<mem, memOffset>>
      /\ UNCHANGED <<total, notify, sealed, persisted, closeErr, phase, failed,
                     reply, waiter>>
  BY DEF TrimTo, Acked, StillHeld, lifecycle, ram
<1>7. /\ chunkHashes' \in Seq(Seq(Nat)) /\ firstChunkIndex' \in Nat
      /\ curHasher' \in Seq(Nat)
  <2> DEFINE threshold == off \div ChunkSize
             hdrop == Lesser(threshold - firstChunkIndex, Len(chunkHashes))
  <2>1. /\ chunkHashes \in Seq(Seq(Nat)) /\ firstChunkIndex \in Nat
        /\ curHasher \in Seq(Nat)
    BY <1>1 DEF TypeOK
  <2>2. threshold \in Nat
    BY <1>3, DivMod
  <2>3. \/ UNCHANGED <<chunkHashes, firstChunkIndex, curHasher>>
        \/ /\ threshold > firstChunkIndex
           /\ chunkHashes' = SubSeq(chunkHashes, hdrop + 1, Len(chunkHashes))
           /\ firstChunkIndex' = firstChunkIndex + hdrop
           /\ UNCHANGED curHasher
    BY DEF TrimTo, Acked, WholeChunks, hashes
  <2> HIDE DEF threshold, off
  <2>4. threshold > firstChunkIndex => hdrop \in Nat
    BY <2>1, <2>2 DEF Lesser
  <2> HIDE DEF hdrop
  <2>5. hdrop \in Nat => SubSeq(chunkHashes, hdrop + 1, Len(chunkHashes))
                           \in Seq(Seq(Nat))
    BY <2>1
  <2>6. CASE UNCHANGED <<chunkHashes, firstChunkIndex, curHasher>>
    BY <2>1, <2>6
  <2>7. CASE /\ threshold > firstChunkIndex
             /\ chunkHashes' = SubSeq(chunkHashes, hdrop + 1, Len(chunkHashes))
             /\ firstChunkIndex' = firstChunkIndex + hdrop
             /\ UNCHANGED curHasher
    <3>1. hdrop \in Nat
      BY <2>4, <2>7
    <3>2. chunkHashes' \in Seq(Seq(Nat))
      BY <2>5, <2>7, <3>1
    <3>3. firstChunkIndex' \in Nat
      BY <2>1, <2>7, <3>1
    <3> QED
      BY <2>1, <2>7, <3>2, <3>3
  <2> QED
    BY <2>3, <2>6, <2>7
<1> HIDE DEF off, drop
<1>8. mem' = Slice(memOffset', total) /\ memOffset' \in Nat
      /\ memOffset <= memOffset' /\ memOffset' <= total /\ off <= memOffset'
  <2>1. CASE off > memOffset
    <3> DEFINE d == off - memOffset
    <3>1. d \in Nat /\ memOffset + d = off
      BY <1>1, <1>3, <2>1
    <3> HIDE DEF d
    <3>2. SubSeq(Slice(memOffset, total), d + 1, Len(Slice(memOffset, total)))
            = Slice(memOffset + d, total)
      BY <1>1, <1>3, <3>1, SliceSuffix
    <3>3. mem' = SubSeq(mem, drop + 1, Len(mem)) /\ memOffset' = off
      BY <1>6, <2>1
    <3>4. drop = d
      BY <1>5, <2>1 DEF d
    <3>5. mem' = Slice(off, total)
      BY <1>2, <3>1, <3>2, <3>3, <3>4
    <3> QED
      BY <1>1, <1>3, <2>1, <3>3, <3>5
  <2>2. CASE ~(off > memOffset)
    BY <1>1, <1>2, <1>3, <1>6, <2>2
  <2> QED
    BY <2>1, <2>2
<1>9. memOffset' = memOffset \/ (memOffset' = off /\ off > memOffset)
  BY <1>6
<1>10. Disk => Covering(segments', off, memOffset')
  <2> SUFFICES ASSUME Disk PROVE Covering(segments', off, memOffset')
    OBVIOUS
  <2>1. /\ segments \subseteq Segment
        /\ \A s \in segments : FileExact(s) /\ s.endOff \in Nat
        /\ \A s, t \in segments :
             s # t => s.endOff <= t.startOff \/ t.endOff <= s.startOff
        /\ \A o \in trimOffset..(memOffset - 1) :
             \E s \in segments : s.startOff <= o /\ o < s.endOff
    BY <1>2 DEF Covering, Segment
  <2>2. ASSUME NEW o \in off..(memOffset' - 1)
        PROVE  \E s \in segments' : s.startOff <= o /\ o < s.endOff
    <3>1. memOffset' = memOffset /\ o \in trimOffset..(memOffset - 1)
      BY <1>1, <1>3, <1>9
    <3>2. PICK s \in segments : s.startOff <= o /\ o < s.endOff
      BY <2>1, <3>1
    <3>3. s.endOff > off
      BY <1>3, <2>1, <3>2
    <3> QED
      BY <1>6, <3>2, <3>3
  <2> QED
    BY <1>6, <2>1, <2>2 DEF Covering
<1>11. Disk /\ ~failed => Tiling(segments', off, memOffset')
  <2> SUFFICES ASSUME Disk, ~failed PROVE Tiling(segments', off, memOffset')
    OBVIOUS
  <2>1. /\ \A s \in segments : /\ Sound(s) /\ s.endOff \in Nat
                               /\ s.endOff <= memOffset
        /\ \A s, t \in segments :
             s # t => s.endOff <= t.startOff \/ t.endOff <= s.startOff
        /\ segments # {} => \E s \in segments : s.endOff = memOffset
    BY <1>2 DEF Tiling, Sound
  <2>2. segments' # {} => \E s \in segments' : s.endOff = memOffset'
    <3> SUFFICES ASSUME segments' # {}
                 PROVE  \E s \in segments' : s.endOff = memOffset'
      OBVIOUS
    <3>1. PICK t \in segments : t.endOff > off
      BY <1>6
    <3>2. off < memOffset
      BY <1>1, <1>3, <2>1, <3>1
    <3>3. PICK s \in segments : s.endOff = memOffset
      BY <2>1, <3>1
    <3> QED
      BY <1>1, <1>3, <1>6, <1>9, <3>2, <3>3
  <2>3. \A o \in off..(memOffset' - 1) :
           \E s \in segments' : s.startOff <= o /\ o < s.endOff
    BY <1>10 DEF Covering
  <2>4. \A s \in segments' : Sound(s) /\ off < s.endOff /\ s.endOff <= memOffset'
    BY <1>1, <1>3, <1>6, <1>8, <2>1
  <2> QED
    BY <1>6, <2>1, <2>2, <2>3, <2>4 DEF Tiling
<1>12. HeldInv'
  BY <1>1, <1>2, <1>3, <1>6, <1>8, <1>9, <1>10, <1>11 DEF HeldInv
<1>13. TypeOK'
  <2>1. mem' \in Seq(Nat)
    BY <1>1, <1>8, SliceType
  <2>2. trimOffset' \in Offsets /\ memOffset' \in Offsets
    BY <1>1, <1>3, <1>6, <1>8 DEF Offsets
  <2> QED
    BY <1>1, <1>6, <1>7, <2>1, <2>2 DEF TypeOK
<1>14. PersistedInv'
  BY <1>1, <1>6 DEF PersistedInv
<1> QED
  BY <1>12, <1>13, <1>14 DEF BufferInv

\* What ReadAt returns is the answer of the window contract: the heart of the
\* refinement.
LEMMA ReadExact ==
  ASSUME BufferInv, phase = "open", NEW off \in Nat, NEW n \in Nat, n > 0
  PROVE  ReadResult(off, n) = Window!ReadReply(off, n)
<1> USE BufferAssumption DEF BufferAssumption
<1>1. /\ TypeOK /\ HeldInv
      /\ memOffset \in Nat /\ total \in Nat /\ trimOffset \in Nat
  BY DEF BufferInv, TypeOK, Offsets
<1>2. /\ mem = Slice(memOffset, total)
      /\ trimOffset <= memOffset /\ memOffset <= total
      /\ ~Disk => segments = {} /\ trimOffset = memOffset
      /\ Disk => Covering(segments, trimOffset, memOffset)
  BY <1>1 DEF HeldInv
<1>3. ASSUME NEW o \in Nat, trimOffset <= o, o < memOffset
      PROVE  Containing(o) # {} /\ ByteAt(o) = o
  <2>1. Disk /\ Covering(segments, trimOffset, memOffset)
    BY <1>1, <1>2, <1>3
  <2>2. PICK s \in segments : s.startOff <= o /\ o < s.endOff
    BY <1>1, <1>3, <2>1 DEF Covering
  <2>3. \A t \in segments : t.startOff \in Nat /\ t.endOff \in Nat
    BY <2>1 DEF Covering, Segment
  <2>4. \A t \in segments : t.startOff <= o /\ o < t.endOff => t = s
    BY <2>1, <2>2, <2>3 DEF Covering
  <2>5. Containing(o) = {s}
    BY <2>2, <2>4 DEF Containing
  <2>6. (CHOOSE x \in Containing(o) :
           \A t \in Containing(o) : x.startOff <= t.startOff) = s
    BY <2>3, <2>5
  <2>7. ByteAt(o) = s.file[o - s.startOff + 1]
    <3>1. ~(o >= memOffset)
      BY <1>1, <1>3
    <3> QED
      BY <2>6, <3>1, Zenon DEF ByteAt
  <2>8. s.file[o - s.startOff + 1] = o
    <3> DEFINE i == o - s.startOff + 1
    <3>1. i \in 1..(s.endOff - s.startOff) /\ s.startOff + i - 1 = o
      BY <2>2, <2>3
    <3> HIDE DEF i
    <3>2. s.file[i] = s.startOff + i - 1
      BY <2>1, <3>1 DEF Covering, FileExact
    <3> QED
      BY <3>1, <3>2 DEF i
  <2> QED
    BY <2>5, <2>7, <2>8
<1>4. ASSUME NEW o \in Nat, memOffset <= o, o < total
      PROVE  ByteAt(o) = o
  BY <1>1, <1>2, <1>4 DEF ByteAt, Slice
<1>5. CASE off >= total
  BY <1>5 DEF ReadResult, Window!ReadReply
<1>6. CASE off < total /\ off < trimOffset
  BY <1>1, <1>6 DEF ReadResult, Window!ReadReply
<1>7. CASE off < total /\ trimOffset <= off
  <2> DEFINE want == Lesser(off + n, total) - off
             Gap(i) == off + i - 1 < memOffset /\ Containing(off + i - 1) = {}
  <2>1. want \in Nat /\ off + want <= total
    BY <1>1, <1>7 DEF Lesser
  <2>2. ASSUME NEW i \in 1..want
        PROVE  ~Gap(i) /\ ByteAt(off + i - 1) = off + i - 1
    <3> DEFINE o == off + i - 1
    <3>1. o \in Nat /\ trimOffset <= o /\ o < total
      BY <1>1, <1>7, <2>1
    <3> HIDE DEF o
    <3>2. ByteAt(o) = o /\ (o < memOffset => Containing(o) # {})
      BY <1>1, <1>3, <1>4, <3>1
    <3> QED
      BY <3>2 DEF o
  <2>3. {i \in 1..want : Gap(i)} = {}
    BY <2>2
  <2>4. ReadResult(off, n) =
          [off |-> off, bytes |-> [i \in 1..want |-> ByteAt(off + i - 1)],
           err |-> "nil"]
    BY <1>1, <1>7, <2>3 DEF ReadResult
  <2>5. [i \in 1..want |-> ByteAt(off + i - 1)] = [i \in 1..want |-> off + i - 1]
    BY <2>2
  <2>6. Window!ReadReply(off, n) =
          [off |-> off, bytes |-> [i \in 1..want |-> off + i - 1], err |-> "nil"]
    BY <1>1, <1>7 DEF Window!ReadReply, Window!Slice, Window!Lesser, Lesser
  <2> QED
    BY <2>4, <2>5, <2>6
<1> QED
  BY <1>1, <1>5, <1>6, <1>7

LEMMA CloseInv ==
  ASSUME BufferInv, NEW removeFile \in BOOLEAN, Close(removeFile)
  PROVE  BufferInv'
<1> USE BufferAssumption DEF BufferAssumption
<1> DEFINE flush == ~removeFile /\ mem # <<>> /\ Disk
<1>1. /\ TypeOK /\ phase = "open" /\ HeldInv
      /\ memOffset \in Nat /\ total \in Nat /\ trimOffset \in Nat
      /\ total <= MaxTotal /\ segments \subseteq Segment
  BY DEF BufferInv, Close, TypeOK, Offsets
<1>2. /\ mem = Slice(memOffset, total)
      /\ trimOffset <= memOffset /\ memOffset <= total
      /\ Disk /\ ~failed => Tiling(segments, trimOffset, memOffset)
  BY <1>1 DEF HeldInv
<1>3. /\ Len(mem) = total - memOffset /\ mem \in Seq(Nat)
      /\ mem = <<>> => memOffset = total
  <2>1. Len(mem) = total - memOffset /\ mem \in Seq(Nat)
    BY <1>1, <1>2, SliceType
  <2> QED
    BY <1>1, <1>2, <2>1
<1>4. /\ sealed' = TRUE /\ segments' = {}
      /\ phase' = IF removeFile THEN "removed" ELSE "kept"
      /\ UNCHANGED <<total, chunkHashes, firstChunkIndex, curHasher, trimOffset,
                     notify, failed, reply, waiter>>
      /\ \/ /\ persisted' = IF removeFile THEN {}
                            ELSE IF flush THEN Spill(segments, memOffset, mem)
                            ELSE segments
            /\ closeErr' = FALSE
            /\ mem' = (IF flush THEN <<>> ELSE mem)
            /\ memOffset' = (IF flush THEN memOffset + Len(mem) ELSE memOffset)
         \/ /\ flush
            /\ persisted' \in SpillFailures(segments, memOffset, mem)
            /\ closeErr' = TRUE
            /\ UNCHANGED <<mem, memOffset>>
  BY DEF Close, Flushes, hashes, ram
<1> HIDE DEF flush
<1>5. Disk /\ ~failed =>
        /\ Tiling(Spill(segments, memOffset, mem), trimOffset, total)
        /\ \A R \in SpillFailures(segments, memOffset, mem) :
             Covering(R, trimOffset, memOffset)
  <2> SUFFICES ASSUME Disk, ~failed
               PROVE  /\ Tiling(Spill(segments, memOffset, mem), trimOffset, total)
                      /\ \A R \in SpillFailures(segments, memOffset, mem) :
                           Covering(R, trimOffset, memOffset)
    OBVIOUS
  <2> DEFINE n == total - memOffset
  <2>1. n \in Nat /\ memOffset + n = total
    BY <1>1, <1>2
  <2> HIDE DEF n
  <2>2. mem = Slice(memOffset, memOffset + n)
    BY <1>2, <2>1
  <2>3. Tiling(segments, trimOffset, memOffset)
    BY <1>2
  <2>4. segments = {} => trimOffset = memOffset
    BY <1>1, <1>2, <2>3 DEF Tiling
  <2>5. Tiling(Spill(segments, memOffset, mem), trimOffset, memOffset + n)
    BY <1>1, <1>2, <2>1, <2>2, <2>3, <2>4, SpillTiling
  <2>6. \A R \in SpillFailures(segments, memOffset, mem) :
           Covering(R, trimOffset, memOffset)
    BY <1>1, <1>2, <2>1, <2>2, <2>3, <2>4, FailureCovers
  <2> QED
    BY <2>1, <2>5, <2>6
<1>6. HeldInv'
  BY <1>4 DEF HeldInv
<1>7. PersistedInv'
  <2> SUFFICES ASSUME Disk, ~failed, ~removeFile, ~closeErr'
               PROVE  Tiling(persisted', trimOffset, total)
    BY <1>4 DEF PersistedInv
  <2>1. CASE mem = <<>>
    <3>1. persisted' = segments
      BY <1>4, <2>1 DEF flush
    <3> QED
      BY <1>2, <1>3, <2>1, <3>1
  <2>2. CASE mem # <<>>
    <3>1. persisted' = Spill(segments, memOffset, mem)
      BY <1>4, <2>2 DEF flush
    <3> QED
      BY <1>5, <3>1
  <2> QED
    BY <2>1, <2>2
<1>8. TypeOK'
  <2>1. ~failed => persisted' \subseteq Segment
    <3> SUFFICES ASSUME ~failed PROVE persisted' \subseteq Segment
      OBVIOUS
    <3>1. CASE ~flush
      BY <1>1, <1>4, <3>1
    <3>2. CASE flush
      <4>1. Disk /\ ~removeFile
        BY <3>2 DEF flush
      <4>2. Covering(Spill(segments, memOffset, mem), trimOffset, total)
        BY <1>1, <1>5, <4>1, TilingCovers
      <4>3. \/ persisted' = Spill(segments, memOffset, mem)
            \/ persisted' \in SpillFailures(segments, memOffset, mem)
        BY <1>4, <3>2, <4>1
      <4>4. Covering(persisted', trimOffset, total)
              \/ Covering(persisted', trimOffset, memOffset)
        BY <1>5, <4>1, <4>2, <4>3
      <4> QED
        BY <4>4 DEF Covering
    <3> QED
      BY <3>1, <3>2
  <2>2. mem' \in Seq(Nat) /\ memOffset' \in Offsets
    <3>1. memOffset \in Offsets /\ memOffset + Len(mem) \in Offsets
      BY <1>1, <1>2, <1>3 DEF Offsets
    <3>2. <<>> \in Seq(Nat)
      OBVIOUS
    <3> QED
      BY <1>3, <1>4, <3>1, <3>2
  <2>3. closeErr' \in BOOLEAN
    BY <1>4
  <2> QED
    BY <1>1, <1>4, <2>1, <2>2, <2>3 DEF TypeOK
<1> QED
  BY <1>6, <1>7, <1>8 DEF BufferInv

\* The methods that touch neither the bytes nor the segments.
LEMMA OtherStepsInv ==
  ASSUME BufferInv,
         \/ Seal \/ WaitCheck \/ WaitWake \/ WaitCancel
         \/ \E off \in Offsets : WaitFor(off)
         \/ \E off \in Offsets, n \in 1..MaxRead : ReadAt(off, n)
         \/ UNCHANGED vars
  PROVE  BufferInv'
<1> USE BufferAssumption DEF BufferAssumption
<1> USE DEF ram, hashes, lifecycle
<1>1. TypeOK /\ HeldInv /\ PersistedInv
  BY DEF BufferInv
<1>2. /\ UNCHANGED <<mem, memOffset, total, segments, chunkHashes,
                     firstChunkIndex, curHasher, trimOffset, notify, persisted,
                     closeErr, phase, failed>>
  BY DEF Seal, WaitCheck, WaitWake, WaitCancel, WaitFor, ReadAt, vars
<1>3. HeldInv'
  BY <1>1, <1>2 DEF HeldInv, Covering, Tiling, FileExact, Sound
<1>4. PersistedInv'
  BY <1>1, <1>2 DEF PersistedInv, Tiling, Sound
<1>5. sealed' \in BOOLEAN
  BY <1>1 DEF TypeOK, Seal, WaitCheck, WaitWake, WaitCancel, WaitFor, ReadAt,
              vars
<1>6. waiter' \in [state : {"idle", "check", "asleep"}, offset : Offsets, ch : Nat]
  <2>1. CASE WaitCheck \/ WaitWake \/ WaitCancel
    BY <1>1, <2>1 DEF TypeOK, WaitCheck, WaitWake, WaitCancel
  <2>2. CASE \E off \in Offsets : WaitFor(off)
    BY <2>2 DEF WaitFor
  <2>3. CASE Seal \/ UNCHANGED vars
               \/ \E off \in Offsets, n \in 1..MaxRead : ReadAt(off, n)
    BY <1>1, <2>3 DEF TypeOK, Seal, vars, ReadAt
  <2> QED
    BY <2>1, <2>2, <2>3
<1>7. reply' \in [off : Offsets, bytes : Seq(Nat),
                  err : {"none", "nil", "EOF", "trimmed", "gap"}]
  <2>1. CASE \E off \in Offsets, n \in 1..MaxRead : ReadAt(off, n)
    <3>1. PICK off \in Offsets, n \in 1..MaxRead : ReadAt(off, n)
      BY <2>1
    <3>2. reply' = Window!ReadReply(off, n)
      BY <3>1, ReadExact DEF ReadAt, Offsets
    <3>3. total \in Nat /\ off \in Nat /\ n \in Nat
      BY <1>1 DEF TypeOK, Offsets
    <3> DEFINE top == Window!Lesser(off + n, total)
    <3>4. top \in Nat /\ (off < total => off <= top)
      BY <3>3 DEF Window!Lesser
    <3> HIDE DEF top
    <3>5. off < total => Window!Slice(off, top) \in Seq(Nat)
      BY <3>3, <3>4 DEF Window!Slice
    <3> QED
      BY <3>2, <3>3, <3>5 DEF Window!ReadReply, top
  <2>2. CASE UNCHANGED reply
    BY <1>1, <2>2 DEF TypeOK
  <2> QED
    BY <2>1, <2>2 DEF Seal, WaitCheck, WaitWake, WaitCancel, WaitFor, vars
<1>8. TypeOK'
  BY <1>1, <1>2, <1>5, <1>6, <1>7 DEF TypeOK
<1> QED
  BY <1>3, <1>4, <1>8 DEF BufferInv

LEMMA NextInv == BufferInv /\ [Next]_vars => BufferInv'
<1> SUFFICES ASSUME BufferInv, [Next]_vars PROVE BufferInv'
  OBVIOUS
<1>1. ASSUME NEW n \in 1..MaxAppend, BufAppend(n) PROVE BufferInv'
  BY <1>1, AppendInv
<1>2. ASSUME NEW n \in 1..MaxAppend, AppendFails(n) PROVE BufferInv'
  BY <1>2, AppendFailsInv
<1>3. ASSUME NEW ack \in Offsets, TrimTo(ack) PROVE BufferInv'
  BY <1>3, TrimInv
<1>4. ASSUME NEW removeFile \in BOOLEAN, Close(removeFile) PROVE BufferInv'
  BY <1>4, CloseInv
<1> QED
  BY <1>1, <1>2, <1>3, <1>4, OtherStepsInv DEF Next

-----------------------------------------------------------------------------
(* Arithmetic of chunk boundaries *)

LEMMA TimesMonotone ==
  ASSUME NEW S \in Nat, NEW i \in Nat, NEW j \in Nat, i <= j
  PROVE  S * i \in Nat /\ S * j \in Nat /\ S * i <= S * j
<1>1. PICK k \in Nat : j = i + k
  BY j - i \in Nat, j = i + (j - i)
<1>2. S * j = S * i + S * k
  BY <1>1
<1>3. S * k \in Nat /\ S * i \in Nat
  BY <1>1
<1> QED
  BY <1>2, <1>3

LEMMA TimesAdd ==
  ASSUME NEW S \in Int, NEW i \in Int, NEW j \in Int
  PROVE  /\ S * (i + j) = S * i + S * j
         /\ S * (i + 1) = S * i + S
         /\ S * (i - 1) = S * i - S
         /\ i * S = S * i
OBVIOUS

LEMMA DivUnique ==
  ASSUME NEW S \in Nat \ {0}, NEW d \in Nat, NEW q \in Nat,
         S * q <= d, d < S * q + S
  PROVE  d \div S = q /\ d % S = d - S * q
<1> DEFINE p == d \div S
<1>1. d = S * p + (d % S) /\ d % S \in 0..(S - 1) /\ p \in Nat
  BY DivMod
<1> HIDE DEF p
<1>2. S * p \in Nat /\ S * q \in Nat
  BY <1>1
<1>3. CASE p < q
  <2>1. S * (p + 1) <= S * q
    BY <1>1, <1>3, TimesMonotone
  <2>2. S * (p + 1) = S * p + S
    BY <1>1, TimesAdd
  <2> QED
    BY <1>1, <1>2, <2>1, <2>2
<1>4. CASE q < p
  <2>1. S * (q + 1) <= S * p
    BY <1>1, <1>4, TimesMonotone
  <2>2. S * (q + 1) = S * q + S
    BY TimesAdd
  <2> QED
    BY <1>1, <1>2, <2>1, <2>2
<1>5. CASE p = q
  BY <1>1, <1>2, <1>5 DEF p
<1> QED
  BY <1>1, <1>3, <1>4, <1>5

LEMMA DivMonotone ==
  ASSUME NEW S \in Nat \ {0}, NEW d \in Nat, NEW e \in Nat, d <= e
  PROVE  d \div S <= e \div S
<1> DEFINE p == d \div S
           q == e \div S
<1>1. /\ d = S * p + (d % S) /\ d % S \in 0..(S - 1) /\ p \in Nat
      /\ e = S * q + (e % S) /\ e % S \in 0..(S - 1) /\ q \in Nat
  BY DivMod
<1> HIDE DEF p, q
<1>2. CASE q < p
  <2>1. S * (q + 1) <= S * p
    BY <1>1, <1>2, TimesMonotone
  <2>2. S * (q + 1) = S * q + S
    BY <1>1, TimesAdd
  <2>3. S * p \in Nat /\ S * q \in Nat
    BY <1>1
  <2> QED
    BY <1>1, <2>1, <2>2, <2>3
<1> QED
  BY <1>1, <1>2 DEF p, q

\* Appending n bytes to a stream of t: what the open chunk then holds
\* completes as many chunks as the stream gains.
LEMMA DivAppend ==
  ASSUME NEW S \in Nat \ {0}, NEW t \in Nat, NEW n \in Nat
  PROVE  LET q == t \div S
             k == (t + n - S * q) \div S
         IN /\ q \in Nat /\ k \in Nat /\ S * q <= t
            /\ (t + n) \div S = q + k
            /\ S * q + S * k <= t + n
<1> DEFINE q == t \div S
           d == t + n - S * q
           k == d \div S
<1>1. t = S * q + (t % S) /\ t % S \in 0..(S - 1) /\ q \in Nat
  BY DivMod
<1> HIDE DEF q
<1>2. S * q \in Nat /\ S * q <= t /\ d \in Nat
  BY <1>1
<1>3. t + n = S * q + d
  BY <1>1, <1>2
<1> HIDE DEF d
<1>4. d = S * k + (d % S) /\ d % S \in 0..(S - 1) /\ k \in Nat
  BY <1>2, DivMod
<1> HIDE DEF k
<1>5. S * k \in Nat /\ S * (q + k) = S * q + S * k
  BY <1>1, <1>4, TimesAdd
<1>6. S * (q + k) <= t + n /\ t + n < S * (q + k) + S
  BY <1>2, <1>3, <1>4, <1>5
<1>7. (t + n) \div S = q + k
  BY <1>1, <1>4, <1>6, t + n \in Nat, q + k \in Nat, DivUnique
<1> QED
  BY <1>1, <1>2, <1>4, <1>5, <1>6, <1>7 DEF q, d, k

-----------------------------------------------------------------------------
(* Sequences *)

LEMMA SuffixOf ==
  ASSUME NEW T, NEW s \in Seq(T), NEW k \in 0..Len(s)
  PROVE  /\ SubSeq(s, k + 1, Len(s)) \in Seq(T)
         /\ Len(SubSeq(s, k + 1, Len(s))) = Len(s) - k
         /\ \A i \in 1..(Len(s) - k) : SubSeq(s, k + 1, Len(s))[i] = s[k + i]
OBVIOUS

LEMMA ConcatOf ==
  ASSUME NEW T, NEW s \in Seq(T), NEW t \in Seq(T)
  PROVE  /\ s \o t \in Seq(T)
         /\ Len(s \o t) = Len(s) + Len(t)
         /\ \A i \in 1..Len(s) : (s \o t)[i] = s[i]
         /\ \A i \in 1..Len(t) : (s \o t)[Len(s) + i] = t[i]
OBVIOUS

LEMMA TupleOf ==
  ASSUME NEW T, NEW k \in Nat, NEW f \in [1..k -> T]
  PROVE  f \in Seq(T) /\ Len(f) = k
OBVIOUS

-----------------------------------------------------------------------------
(* The inductive invariant *)

\* The content of chunk c of the stream.
ChunkAt(c) == Slice(ChunkSize * c, ChunkSize * (c + 1))

\* Hashes h of the chunks from f on, and what is hashed of the open chunk,
\* for a stream of t bytes.
Hashed(h, f, open, t) ==
  /\ h \in Seq(Seq(Nat)) /\ f \in Nat
  /\ f + Len(h) = t \div ChunkSize
  /\ \A i \in 1..Len(h) : h[i] = ChunkAt(f + i - 1)
  /\ open = Slice(ChunkSize * (t \div ChunkSize), t)

\* Hashed strengthens ManifestAligned by the content of the open chunk: its
\* length alone does not tell what the next append completes.
HashInv ==
  /\ Hashed(chunkHashes, firstChunkIndex, curHasher, total)
  /\ Disk => firstChunkIndex = trimOffset \div ChunkSize

\* Hashing the next n bytes keeps the hashes right.
LEMMA HashInRight ==
  ASSUME NEW n \in Nat, total \in Nat,
         Hashed(chunkHashes, firstChunkIndex, curHasher, total),
         HashIn(Slice(total, total + n))
  PROVE  /\ Hashed(chunkHashes', firstChunkIndex', curHasher', total + n)
         /\ firstChunkIndex' = firstChunkIndex
<1> USE BufferAssumption DEF BufferAssumption
<1> DEFINE C == ChunkSize
           end == total + n
           q == total \div C
           b == C * q
           all == curHasher \o Slice(total, total + n)
           k == CompleteChunks(all)
           new == [i \in 1..k |-> SubSeq(all, (i - 1) * C + 1, i * C)]
<1>1. /\ chunkHashes \in Seq(Seq(Nat)) /\ firstChunkIndex \in Nat
      /\ firstChunkIndex + Len(chunkHashes) = q
      /\ \A i \in 1..Len(chunkHashes) :
           chunkHashes[i] = ChunkAt(firstChunkIndex + i - 1)
      /\ curHasher = Slice(b, total)
  BY DEF Hashed
<1>2. /\ chunkHashes' = chunkHashes \o new
      /\ curHasher' = SubSeq(all, k * C + 1, Len(all))
      /\ firstChunkIndex' = firstChunkIndex
  BY DEF HashIn
<1>3. /\ q \in Nat /\ b \in Nat /\ b <= total
      /\ (total + n - b) \div C \in Nat
      /\ (total + n) \div C = q + ((total + n - b) \div C)
      /\ b + C * ((total + n - b) \div C) <= total + n
  <2>1. q \in Nat /\ C \in Nat \ {0}
    BY DivMod
  <2>2. b \in Nat
    BY <2>1, TimesMonotone
  <2> QED
    BY <2>1, <2>2, DivAppend
<1>4. end \in Nat /\ total <= end
  OBVIOUS
<1> HIDE DEF b, q, C
<1>5. all = Slice(b, end) /\ Len(all) = end - b
  <2>1. Slice(b, total) \o Slice(total, end) = Slice(b, end)
    BY <1>4, <1>3, SliceConcat
  <2>2. Len(Slice(b, end)) = end - b
    BY <1>4, <1>3, SliceType
  <2> QED
    BY <1>1, <2>1, <2>2
<1>6. CompleteChunks(all) = Len(all) \div C
  BY DEF CompleteChunks, C
<1>7. Len(all) = total + n - b
  <2>1. Len(all) = end - b
    BY <1>5
  <2> HIDE DEF all
  <2> QED
    BY <1>3, <2>1 DEF end
<1>8. k = (total + n - b) \div C
  BY <1>6, <1>7
<1> HIDE DEF all, k
<1>9. /\ k \in Nat /\ (total + n) \div C = q + k /\ b + C * k <= end
      /\ C * k \in Nat /\ C \in Nat \ {0}
  BY <1>3, <1>8 DEF C
<1>10. ASSUME NEW i \in 1..k
      PROVE  new[i] = ChunkAt(q + i - 1) /\ new[i] \in Seq(Nat)
  <2> DEFINE from == b + C * (i - 1)
             upto == b + C * i
  <2>1. C * (i - 1) \in Nat /\ C * i \in Nat /\ C * (i - 1) <= C * i
        /\ C * i <= C * k
    BY <1>9, i \in Nat, i - 1 \in Nat, TimesMonotone
  <2>2. from \in Nat /\ upto \in Nat /\ b <= from /\ from <= upto /\ upto <= end
    BY <1>3, <1>9, <2>1
  <2>3. (i - 1) * C + 1 = from - b + 1 /\ i * C = upto - b
    BY <1>3, <1>9, <2>1, TimesAdd
  <2>4. C * (q + i - 1) = from /\ C * (q + i - 1 + 1) = upto
    <3>1. /\ C * (q + (i - 1)) = C * q + C * (i - 1)
          /\ C * (q + i) = C * q + C * i
      BY <1>3, <1>9, TimesAdd
    <3>2. q + (i - 1) = q + i - 1 /\ q + i - 1 + 1 = q + i
      BY <1>3
    <3> QED
      BY <3>1, <3>2 DEF b
  <2> HIDE DEF from, upto, end, new
  <2>5. SubSeq(Slice(b, end), from - b + 1, upto - b) = Slice(from, upto)
    <3>1. b \in Nat /\ end \in Nat
      BY <1>4, <1>3
    <3>2. from \in Nat /\ upto \in Nat /\ b <= from /\ from <= upto /\ upto <= end
      BY <2>2
    <3> QED
      BY <3>1, <3>2 DEF Slice
  <2>6. new[i] = Slice(from, upto)
    BY <1>5, <2>3, <2>5 DEF new
  <2>7. Slice(from, upto) \in Seq(Nat)
    BY <2>2, SliceType
  <2> QED
    BY <2>4, <2>6, <2>7 DEF ChunkAt, C
<1>11. new \in Seq(Seq(Nat)) /\ Len(new) = k
  <2>1. new \in [1..k -> Seq(Nat)]
    BY <1>10
  <2> QED
    BY <1>9, <2>1, TupleOf
<1> HIDE DEF new
<1>12. /\ chunkHashes' \in Seq(Seq(Nat))
       /\ Len(chunkHashes') = Len(chunkHashes) + k
       /\ \A i \in 1..Len(chunkHashes) : chunkHashes'[i] = chunkHashes[i]
       /\ \A i \in 1..k : chunkHashes'[Len(chunkHashes) + i] = new[i]
  <2>1. chunkHashes \in Seq(Seq(Nat))
    BY <1>1
  <2>2. chunkHashes' = chunkHashes \o new
    BY <1>2
  <2>3. /\ chunkHashes \o new \in Seq(Seq(Nat))
        /\ Len(chunkHashes \o new) = Len(chunkHashes) + Len(new)
        /\ \A i \in 1..Len(chunkHashes) : (chunkHashes \o new)[i] = chunkHashes[i]
        /\ \A i \in 1..Len(new) :
             (chunkHashes \o new)[Len(chunkHashes) + i] = new[i]
    <3>1. new \in Seq(Seq(Nat))
      BY <1>11
    <3> DEFINE T == Seq(Nat)
    <3>2. chunkHashes \in Seq(T) /\ new \in Seq(T)
      BY <2>1, <3>1
    <3> HIDE DEF T
    <3>3. /\ chunkHashes \o new \in Seq(T)
          /\ Len(chunkHashes \o new) = Len(chunkHashes) + Len(new)
          /\ \A i \in 1..Len(chunkHashes) :
               (chunkHashes \o new)[i] = chunkHashes[i]
          /\ \A i \in 1..Len(new) :
               (chunkHashes \o new)[Len(chunkHashes) + i] = new[i]
      BY <3>2, ConcatOf
    <3> QED
      BY <3>3 DEF T
  <2> QED
    BY <1>11, <2>2, <2>3
<1>13. ASSUME NEW i \in 1..Len(chunkHashes')
       PROVE  chunkHashes'[i] = ChunkAt(firstChunkIndex + i - 1)
  <2> DEFINE len == Len(chunkHashes)
  <2>1. len \in Nat
    BY <1>1
  <2>2. CASE i <= len
    <3>1. i \in 1..len
      BY <2>1, <2>2
    <3> QED
      BY <1>1, <1>12, <3>1
  <2>3. CASE i > len
    <3>1. i - len \in 1..k
      BY <1>9, <1>12, <2>1, <2>3
    <3>2. chunkHashes'[i] = new[i - len]
      <4>1. \A j \in 1..k : chunkHashes'[len + j] = new[j]
        BY <1>12
      <4>2. i = len + (i - len)
        BY <2>1
      <4> HIDE DEF len
      <4> QED
        BY <3>1, <4>1, <4>2
    <3>3. q + (i - len) - 1 = firstChunkIndex + i - 1
      BY <1>1, <2>1
    <3> QED
      BY <1>10, <3>1, <3>2, <3>3
  <2> QED
    BY <2>1, <2>2, <2>3
<1>14. curHasher' = Slice(C * (q + k), end)
  <2>1. C * (q + k) = b + C * k
    BY <1>3, <1>9, TimesAdd DEF b
  <2>2. k * C = C * k
    BY <1>9, TimesAdd
  <2> DEFINE w == C * k
  <2>3. w \in Nat /\ b + w <= end
    BY <1>9
  <2> HIDE DEF w, end
  <2>4. SubSeq(Slice(b, end), w + 1, Len(Slice(b, end))) = Slice(b + w, end)
    BY <1>4, <1>3, <2>3, SliceSuffix
  <2> QED
    BY <1>2, <1>5, <2>1, <2>2, <2>4 DEF w
<1>15. end \div C = q + k
  BY <1>9
<1> HIDE DEF end
<1>16. Hashed(chunkHashes', firstChunkIndex', curHasher', end)
  <2>1. chunkHashes' \in Seq(Seq(Nat)) /\ firstChunkIndex' \in Nat
    BY <1>1, <1>2, <1>12
  <2>2. firstChunkIndex' + Len(chunkHashes') = end \div C
    <3> DEFINE len == Len(chunkHashes)
    <3>1. /\ len \in Nat /\ k \in Nat /\ firstChunkIndex \in Nat
          /\ firstChunkIndex + len = q
      BY <1>1, <1>9
    <3>2. Len(chunkHashes') = len + k /\ firstChunkIndex' = firstChunkIndex
      BY <1>2, <1>12
    <3> HIDE DEF len
    <3>3. firstChunkIndex + (len + k) = q + k
      BY <3>1
    <3> QED
      BY <1>15, <3>2, <3>3
  <2>3. \A i \in 1..Len(chunkHashes') :
          chunkHashes'[i] = ChunkAt(firstChunkIndex' + i - 1)
    BY <1>2, <1>13
  <2>4. curHasher' = Slice(C * (end \div C), end)
    BY <1>14, <1>15
  <2> QED
    BY <2>1, <2>2, <2>3, <2>4 DEF Hashed, C
<1> QED
  BY <1>2, <1>16 DEF end

LEMMA HashInit == Init => HashInv
<1> USE BufferAssumption DEF BufferAssumption
<1> SUFFICES ASSUME Init PROVE HashInv
  OBVIOUS
<1>1. /\ total = 0 /\ chunkHashes = <<>> /\ firstChunkIndex = 0
      /\ curHasher = <<>> /\ trimOffset = 0
  BY DEF Init
<1>2. 0 \div ChunkSize = 0
  BY ChunkSize * 0 = 0, DivUnique
<1>3. Slice(ChunkSize * 0, 0) = <<>>
  BY ChunkSize * 0 = 0 DEF Slice
<1> QED
  BY <1>1, <1>2, <1>3 DEF HashInv, Hashed

\* Append, whether or not its spill fails: the hashing is done by then.
LEMMA HashAppend ==
  ASSUME BufferInv, HashInv, NEW n \in 1..MaxAppend,
         BufAppend(n) \/ AppendFails(n)
  PROVE  HashInv'
<1> USE BufferAssumption DEF BufferAssumption
<1>1. total \in Nat /\ trimOffset \in Nat /\ n \in Nat
  BY DEF BufferInv, TypeOK, Offsets
<1>2. HashIn(Slice(total, total + n)) /\ total' = total + n
  BY DEF BufAppend, AppendFails
<1>3. Disk => trimOffset' = trimOffset
  BY <1>1 DEF BufAppend, AppendFails, Dropped
<1>4. /\ Hashed(chunkHashes', firstChunkIndex', curHasher', total')
      /\ firstChunkIndex' = firstChunkIndex
  BY <1>1, <1>2, HashInRight DEF HashInv
<1> QED
  BY <1>3, <1>4 DEF HashInv, Hashed, ChunkAt

\* TrimTo drops the hashes of the chunks below the new trim point.
LEMMA HashTrim ==
  ASSUME BufferInv, HashInv, NEW ack \in Offsets, TrimTo(ack)
  PROVE  HashInv'
<1> USE BufferAssumption DEF BufferAssumption
<1> DEFINE off == Acked(ack)
           threshold == WholeChunks(off)
           len == Len(chunkHashes)
           hdrop == Lesser(threshold - firstChunkIndex, len)
<1>1. /\ phase = "open" /\ HeldInv /\ TypeOK
  BY DEF TrimTo, BufferInv
<1>2. /\ total \in Nat /\ trimOffset \in Nat /\ memOffset \in Nat /\ ack \in Nat
      /\ trimOffset <= total
  BY <1>1 DEF TypeOK, Offsets, HeldInv
<1>3. off \in Nat /\ off <= total /\ trimOffset <= off
  BY <1>2 DEF Acked, Lesser, TrimTo
<1>4. /\ trimOffset' = off /\ total' = total /\ curHasher' = curHasher
      /\ IF threshold > firstChunkIndex
         THEN /\ chunkHashes' = SubSeq(chunkHashes, hdrop + 1, len)
              /\ firstChunkIndex' = firstChunkIndex + hdrop
         ELSE UNCHANGED <<chunkHashes, firstChunkIndex>>
  BY DEF TrimTo, hashes
<1>5. /\ chunkHashes \in Seq(Seq(Nat)) /\ firstChunkIndex \in Nat /\ len \in Nat
      /\ firstChunkIndex + len = total \div ChunkSize
      /\ \A i \in 1..len : chunkHashes[i] = ChunkAt(firstChunkIndex + i - 1)
      /\ curHasher = Slice(ChunkSize * (total \div ChunkSize), total)
      /\ Disk => firstChunkIndex = trimOffset \div ChunkSize
  BY DEF HashInv, Hashed
<1>6. /\ threshold = off \div ChunkSize
      /\ threshold \in Nat /\ threshold <= total \div ChunkSize
      /\ trimOffset \div ChunkSize <= threshold
  <2>1. threshold = off \div ChunkSize
    BY DEF WholeChunks
  <2> HIDE DEF off, threshold
  <2> QED
    BY <1>2, <1>3, <2>1, DivMod, DivMonotone
<1> HIDE DEF off, threshold
<1>7. CASE threshold > firstChunkIndex
  <2>1. hdrop = threshold - firstChunkIndex /\ hdrop \in 1..len
    BY <1>5, <1>6, <1>7 DEF Lesser
  <2> HIDE DEF hdrop
  <2>2. /\ chunkHashes' = SubSeq(chunkHashes, hdrop + 1, len)
        /\ firstChunkIndex' = firstChunkIndex + hdrop
    BY <1>4, <1>7
  <2>3. /\ chunkHashes' \in Seq(Seq(Nat))
        /\ Len(chunkHashes') = len - hdrop
        /\ \A i \in 1..(len - hdrop) : chunkHashes'[i] = chunkHashes[hdrop + i]
    BY <1>5, <2>1, <2>2, hdrop \in 0..len, SuffixOf
  <2>4. ASSUME NEW i \in 1..Len(chunkHashes')
        PROVE  chunkHashes'[i] = ChunkAt(firstChunkIndex' + i - 1)
    <3>1. hdrop + i \in 1..len
      <4>1. len \in Nat
        BY <1>5
      <4>2. i \in 1..(len - hdrop)
        BY <2>3
      <4> HIDE DEF len
      <4> QED
        BY <2>1, <4>1, <4>2
    <3>2. chunkHashes'[i] = chunkHashes[hdrop + i]
      BY <2>3
    <3>3. firstChunkIndex + (hdrop + i) - 1 = firstChunkIndex' + i - 1
      <4>1. /\ firstChunkIndex \in Nat /\ hdrop \in Nat /\ i \in Nat
            /\ firstChunkIndex' = firstChunkIndex + hdrop
        BY <1>5, <2>1, <2>2
      <4> QED
        BY <4>1
    <3>4. chunkHashes[hdrop + i] = ChunkAt(firstChunkIndex + (hdrop + i) - 1)
      <4>1. \A j \in 1..len : chunkHashes[j] = ChunkAt(firstChunkIndex + j - 1)
        BY <1>5
      <4> QED
        BY <3>1, <4>1
    <3> QED
      BY <3>2, <3>3, <3>4
  <2>5. firstChunkIndex' \in Nat /\ firstChunkIndex' = threshold
        /\ firstChunkIndex' + Len(chunkHashes') = total' \div ChunkSize
    <3>1. firstChunkIndex \in Nat /\ len \in Nat
          /\ firstChunkIndex + len = total \div ChunkSize
      BY <1>5
    <3>2. total' = total /\ Len(chunkHashes') = len - hdrop
      BY <1>4, <2>3
    <3>3. firstChunkIndex' = firstChunkIndex + hdrop
      BY <2>2
    <3> HIDE DEF len
    <3>4. hdrop \in Nat /\ hdrop = threshold - firstChunkIndex /\ threshold \in Nat
      BY <1>6, <2>1, <3>1
    <3>5. firstChunkIndex + hdrop = threshold
      BY <3>1, <3>4
    <3>6. (firstChunkIndex + hdrop) + (len - hdrop) = firstChunkIndex + len
      BY <3>1, <3>4
    <3> QED
      BY <3>1, <3>2, <3>3, <3>4, <3>5, <3>6
  <2>6. Hashed(chunkHashes', firstChunkIndex', curHasher', total')
    BY <1>4, <1>5, <2>3, <2>4, <2>5 DEF Hashed
  <2> QED
    BY <1>4, <1>6, <2>5, <2>6 DEF HashInv, Hashed, ChunkAt
<1>8. CASE ~(threshold > firstChunkIndex)
  <2>1. UNCHANGED <<chunkHashes, firstChunkIndex, curHasher, total>>
    BY <1>4, <1>8
  <2>2. Disk => firstChunkIndex = off \div ChunkSize
    BY <1>5, <1>6, <1>8
  <2>3. Hashed(chunkHashes', firstChunkIndex', curHasher', total')
    BY <2>1 DEF HashInv
  <2> QED
    BY <1>4, <2>1, <2>2, <2>3 DEF HashInv, Hashed, ChunkAt
<1> QED
  BY <1>7, <1>8

LEMMA HashNext == BufferInv /\ HashInv /\ [Next]_vars => HashInv'
<1> SUFFICES ASSUME BufferInv, HashInv, [Next]_vars PROVE HashInv'
  OBVIOUS
<1>1. ASSUME NEW n \in 1..MaxAppend, BufAppend(n) \/ AppendFails(n)
      PROVE  HashInv'
  BY <1>1, HashAppend
<1>2. ASSUME NEW ack \in Offsets, TrimTo(ack) PROVE HashInv'
  BY <1>2, HashTrim
<1>3. ASSUME UNCHANGED <<chunkHashes, firstChunkIndex, curHasher, total,
                         trimOffset>>
      PROVE  HashInv'
  BY <1>3 DEF HashInv, Hashed, ChunkAt
<1>4. ASSUME \/ Seal \/ WaitCheck \/ WaitWake \/ WaitCancel
             \/ \E off \in Offsets : WaitFor(off)
             \/ \E off \in Offsets, n \in 1..MaxRead : ReadAt(off, n)
             \/ \E removeFile \in BOOLEAN : Close(removeFile)
             \/ UNCHANGED vars
      PROVE  UNCHANGED <<chunkHashes, firstChunkIndex, curHasher, total,
                         trimOffset>>
  BY <1>4 DEF Seal, WaitCheck, WaitWake, WaitCancel, WaitFor, ReadAt, Close,
              hashes, vars
<1> QED
  BY <1>1, <1>2, <1>3, <1>4 DEF Next

-----------------------------------------------------------------------------
(* What trimming leaves on disk *)

\* The place in the stream a byte in a file stands for.
PlaceOf(b) == b[1].startOff + b[2] - 1

\* Segments that tile a range put no place of the stream on disk twice.
LEMMA PlacesApart ==
  ASSUME NEW lo \in Nat, NEW hi \in Nat, Tiling(segments, lo, hi),
         NEW a \in StoredBytes, NEW b \in StoredBytes
  PROVE  /\ PlaceOf(a) \in (lo - SegmentSize + 1)..(hi - 1)
         /\ PlaceOf(a) = PlaceOf(b) => a = b
<1> USE BufferAssumption DEF BufferAssumption
<1>1. ASSUME NEW c \in StoredBytes
      PROVE  \E s \in segments : \E i \in 1..Len(s.file) : c = <<s, i>>
  BY <1>1 DEF StoredBytes
<1>2. PICK s \in segments : \E i \in 1..Len(s.file) : a = <<s, i>>
  BY <1>1
<1>3. PICK i \in 1..Len(s.file) : a = <<s, i>>
  BY <1>2
<1>4. PICK t \in segments : \E j \in 1..Len(t.file) : b = <<t, j>>
  BY <1>1
<1>5. PICK j \in 1..Len(t.file) : b = <<t, j>>
  BY <1>4
<1>6. ASSUME NEW u \in segments
      PROVE  /\ u.startOff \in Nat /\ u.endOff \in Nat
             /\ Len(u.file) = u.endOff - u.startOff
             /\ lo < u.endOff /\ u.endOff <= hi
             /\ u.endOff - u.startOff <= SegmentSize
  <2>1. Sound(u) /\ lo < u.endOff /\ u.endOff <= hi
    BY DEF Tiling
  <2>2. u.startOff \in Nat /\ u.endOff \in Nat /\ u.startOff <= u.endOff
    BY <2>1 DEF Sound
  <2>3. Len(u.file) = u.endOff - u.startOff
    BY <2>1, <2>2, SliceType DEF Sound
  <2> QED
    BY <2>1, <2>2, <2>3 DEF Sound
<1>7. /\ PlaceOf(a) = s.startOff + i - 1 /\ s.startOff \in Nat /\ s.endOff \in Nat
      /\ i \in 1..(s.endOff - s.startOff)
      /\ lo < s.endOff /\ s.endOff <= hi /\ s.endOff - s.startOff <= SegmentSize
  BY <1>3, <1>6 DEF PlaceOf
<1>8. /\ PlaceOf(b) = t.startOff + j - 1 /\ t.startOff \in Nat /\ t.endOff \in Nat
      /\ j \in 1..(t.endOff - t.startOff)
  BY <1>5, <1>6 DEF PlaceOf
<1>9. PlaceOf(a) \in (lo - SegmentSize + 1)..(hi - 1)
  BY <1>7
<1>10. ASSUME PlaceOf(a) = PlaceOf(b)
      PROVE  a = b
  <2>1. s = t
    <3> SUFFICES ASSUME s # t PROVE FALSE
      OBVIOUS
    <3>1. s.endOff <= t.startOff \/ t.endOff <= s.startOff
      BY DEF Tiling
    <3>2. /\ PlaceOf(a) \in Int /\ s.startOff <= PlaceOf(a) /\ PlaceOf(a) < s.endOff
          /\ s.startOff \in Nat /\ s.endOff \in Nat
      BY <1>7
    <3>3. /\ t.startOff <= PlaceOf(b) /\ PlaceOf(b) < t.endOff
          /\ t.startOff \in Nat /\ t.endOff \in Nat
      BY <1>8
    <3> QED
      BY <1>10, <3>1, <3>2, <3>3
  <2>2. i = j
    BY <1>7, <1>8, <1>10, <2>1
  <2> QED
    BY <1>3, <1>5, <2>1, <2>2
<1> QED
  BY <1>9, <1>10

LEMMA StoredBounded ==
  ASSUME NEW lo \in Nat, NEW hi \in Nat, lo <= hi, Tiling(segments, lo, hi)
  PROVE  Cardinality(StoredBytes) <= (hi - lo) + SegmentSize
<1> USE BufferAssumption DEF BufferAssumption
<1> DEFINE places == (lo - SegmentSize + 1)..(hi - 1)
           place == [b \in StoredBytes |-> PlaceOf(b)]
<1>1. place \in Injection(StoredBytes, places)
  <2>1. \A b \in StoredBytes : PlaceOf(b) \in places
    BY PlacesApart
  <2>2. \A a, b \in StoredBytes : PlaceOf(a) = PlaceOf(b) => a = b
    BY PlacesApart
  <2> HIDE DEF places
  <2> QED
    BY <2>1, <2>2, Zenon DEF Injection, IsInjective
<1>2. /\ IsFiniteSet(places)
      /\ Cardinality(places) = IF lo - SegmentSize + 1 > hi - 1 THEN 0
                               ELSE (hi - 1) - (lo - SegmentSize + 1) + 1
  BY FS_Interval
<1>3. Cardinality(StoredBytes) <= Cardinality(places)
  <2> HIDE DEF place, places
  <2> QED
    BY <1>1, <1>2, FS_Injection
<1>4. IsFiniteSet(StoredBytes)
  <2> HIDE DEF place, places
  <2> QED
    BY <1>1, <1>2, FS_Injection
<1>5. Cardinality(StoredBytes) \in Nat
  BY <1>4, FS_CardinalityType
<1>6. Cardinality(places) <= (hi - lo) + SegmentSize /\ Cardinality(places) \in Nat
  BY <1>2
<1> HIDE DEF places
<1> QED
  BY <1>3, <1>5, <1>6

-----------------------------------------------------------------------------
(* Waiting *)

\* A goroutine sleeps in WaitFor on a channel that is closed already, or its
\* condition has not come true: what it waits for cannot have slipped in
\* between its check and its sleep.  The exception is a failed Append, which
\* tells nobody: Seal, which follows it, closes the channel.
NoLostWakeup ==
  waiter.state = "asleep" =>
    /\ waiter.ch <= notify
    /\ total > waiter.offset \/ sealed => ChannelClosed(waiter.ch) \/ failed

LEMMA WakeInit == Init => NoLostWakeup
BY DEF Init, NoLostWakeup

LEMMA WakeNext == TypeOK /\ NoLostWakeup /\ [Next]_vars => NoLostWakeup'
<1> SUFFICES ASSUME TypeOK, NoLostWakeup, [Next]_vars PROVE NoLostWakeup'
  OBVIOUS
<1> USE DEF NoLostWakeup, ChannelClosed
<1>1. notify \in Nat /\ waiter.ch \in Nat
  BY DEF TypeOK
<1>2. ASSUME NEW n \in 1..MaxAppend, BufAppend(n) PROVE NoLostWakeup'
  BY <1>1, <1>2 DEF BufAppend
<1>3. ASSUME NEW n \in 1..MaxAppend, AppendFails(n) PROVE NoLostWakeup'
  BY <1>3 DEF AppendFails
<1>4. ASSUME NEW ack \in Offsets, TrimTo(ack) PROVE NoLostWakeup'
  BY <1>4 DEF TrimTo
<1>5. ASSUME NEW off \in Offsets, NEW n \in 1..MaxRead, ReadAt(off, n)
      PROVE  NoLostWakeup'
  BY <1>5 DEF ReadAt
<1>6. ASSUME Seal PROVE NoLostWakeup'
  BY <1>6 DEF Seal
<1>7. ASSUME NEW removeFile \in BOOLEAN, Close(removeFile) PROVE NoLostWakeup'
  BY <1>7 DEF Close
<1>8. ASSUME NEW off \in Offsets, WaitFor(off) PROVE NoLostWakeup'
  BY <1>8 DEF WaitFor
<1>9. ASSUME WaitCheck PROVE NoLostWakeup'
  <2>1. waiter' = [waiter EXCEPT !.state = "idle"]
        \/ /\ waiter' = [waiter EXCEPT !.state = "asleep", !.ch = notify]
           /\ ~(total > waiter.offset \/ sealed)
    BY <1>9 DEF WaitCheck
  <2>2. UNCHANGED <<total, notify, sealed, failed>>
    BY <1>9 DEF WaitCheck
  <2>3. waiter \in [state : {"idle", "check", "asleep"}, offset : Offsets, ch : Nat]
    BY DEF TypeOK
  <2>4. CASE waiter' = [waiter EXCEPT !.state = "idle"]
    BY <2>3, <2>4
  <2>5. CASE /\ waiter' = [waiter EXCEPT !.state = "asleep", !.ch = notify]
             /\ ~(total > waiter.offset \/ sealed)
    <3>1. waiter'.ch = notify /\ waiter'.offset = waiter.offset
      BY <2>3, <2>5
    <3> QED
      BY <1>1, <2>2, <2>5, <3>1
  <2> QED
    BY <2>1, <2>4, <2>5
<1>10. ASSUME WaitWake PROVE NoLostWakeup'
  BY <1>10 DEF WaitWake, TypeOK
<1>11. ASSUME WaitCancel PROVE NoLostWakeup'
  BY <1>11 DEF WaitCancel, TypeOK
<1>12. ASSUME UNCHANGED vars PROVE NoLostWakeup'
  BY <1>12 DEF vars
<1> QED
  BY <1>2, <1>3, <1>4, <1>5, <1>6, <1>7, <1>8, <1>9, <1>10, <1>11, <1>12 DEF Next

-----------------------------------------------------------------------------
(* Theorems *)

\* The inductive invariant holds of every reachable state: the other theorems
\* are read off it.
THEOREM BufferInvariant == Spec => []BufferInv
BY InitInv, NextInv, PTL DEF Spec

\* Every reachable state of the buffer is well typed, for every size of the
\* RAM tail, the segments, the chunks and the stream, also after failed
\* spills.
THEOREM TypeCorrect == Spec => []TypeOK
<1>1. BufferInv => TypeOK
  BY DEF BufferInv
<1> QED
  BY <1>1, BufferInvariant, PTL

\* Segment files and RAM tail together hold every byte from the trim point
\* on, each where its offset says, whatever Append, TrimTo and a failing disk
\* do (SegmentsTileHeldRange).
THEOREM NothingHeldIsLost == Spec => []SegmentsTileHeldRange
<1>1. BufferInv => SegmentsTileHeldRange
  <2> SUFFICES ASSUME BufferInv, phase = "open"
               PROVE  SegmentsTileHeldRange
    BY DEF SegmentsTileHeldRange
  <2>1. HeldInv
    BY DEF BufferInv
  <2>2. Disk => Covering(segments, trimOffset, memOffset)
    BY <2>1 DEF HeldInv
  <2>3. Disk /\ ~failed => Tiling(segments, trimOffset, memOffset)
    BY <2>1 DEF HeldInv
  <2>4. Disk \/ segments = {}
    BY <2>1 DEF HeldInv
  <2> QED
    BY <2>1, <2>2, <2>3, <2>4
       DEF HeldInv, SegmentsTileHeldRange, RamExact, Covering, Tiling
<1> QED
  BY <1>1, BufferInvariant, PTL

\* Close(false) without an error, and without a failed Append before it,
\* leaves files that a replay reads back as the whole held stream
\* (PersistedComplete).
THEOREM CloseKeepsStream == Spec => []PersistedComplete
<1>1. BufferInv => PersistedComplete
  <2> SUFFICES ASSUME BufferInv, Disk, phase = "kept", ~closeErr, ~failed
               PROVE  ScannedExactly(persisted, trimOffset, total)
    BY DEF PersistedComplete
  <2>1. Tiling(persisted, trimOffset, total)
    BY DEF BufferInv, PersistedInv
  <2>2. ASSUME NEW s \in persisted
        PROVE  /\ s.startOff \in Nat /\ s.endOff \in Nat
               /\ s.startOff < s.endOff
               /\ s.file = Slice(s.startOff, s.endOff)
               /\ s.startOff + Len(s.file) = s.endOff
    <3>1. /\ s.startOff \in Nat /\ s.endOff \in Nat /\ s.startOff < s.endOff
          /\ s.file = Slice(s.startOff, s.endOff)
      BY <2>1 DEF Tiling, Sound
    <3> DEFINE x == s.startOff
               y == s.endOff
    <3>2. x \in Nat /\ y \in Nat /\ x <= y
      BY <3>1
    <3> HIDE DEF x, y
    <3>3. Len(Slice(x, y)) = y - x
      BY <3>2, SliceType
    <3>4. x + Len(Slice(x, y)) = y
      BY <3>2, <3>3
    <3> QED
      BY <3>1, <3>4 DEF x, y
  <2>3. \A s, t \in persisted :
          s.startOff < t.startOff => s.endOff <= t.startOff
    BY <2>1, <2>2 DEF Tiling
  <2>4. \A off \in trimOffset..(total - 1) :
          \E s \in persisted : s.startOff <= off /\ off < s.endOff
    BY <2>1 DEF Tiling
  <2> QED
    BY <2>2, <2>3, <2>4 DEF ScannedExactly
<1> QED
  BY <1>1, BufferInvariant, PTL

\* The buffer implements the window contract of StreamWindow: no reader can
\* tell it from a plain append-only window, for every placement of the bytes
\* in RAM and files (ImplementsWindow).
THEOREM BufferImplementsWindow == Spec => ImplementsWindow
<1> USE BufferAssumption DEF BufferAssumption
<1>1. Init => Window!WindowInit
  BY DEF Init, Window!WindowInit, NoReply, Window!NoReply
<1>2. BufferInv /\ [Next]_vars => [Window!WindowNext]_(Window!wvars)
  <2> SUFFICES ASSUME BufferInv, [Next]_vars
               PROVE  Window!WindowNext \/ UNCHANGED Window!wvars
    OBVIOUS
  <2> USE DEF Window!wvars
  <2>1. /\ memOffset \in Nat /\ total \in Nat /\ trimOffset \in Nat
        /\ HeldInv /\ sealed \in BOOLEAN
    BY DEF BufferInv, TypeOK, Offsets
  <2>2. ASSUME NEW n \in 1..MaxAppend, BufAppend(n)
        PROVE  Window!WindowAppend
    <3>1. trimOffset' \in Nat /\ trimOffset <= trimOffset' /\ trimOffset' <= total'
      <4>1. phase = "open" /\ BufferInv'
        BY <2>2, AppendInv DEF BufAppend
      <4>2. phase' = "open" /\ HeldInv' /\ TypeOK'
        BY <2>2, <4>1 DEF BufAppend, lifecycle, BufferInv
      <4>3. trimOffset' \in Nat /\ memOffset' \in Nat /\ total' \in Nat
        BY <4>2 DEF TypeOK, Offsets
      <4>4. trimOffset' <= total'
        BY <4>2, <4>3 DEF HeldInv
      <4>5. trimOffset' = trimOffset \/ \E k \in Nat : trimOffset' = trimOffset + k
        <5> DEFINE m == mem \o Slice(total, total + n)
        <5>1. Len(m) \in Nat
          <6>1. mem \in Seq(Nat)
            BY DEF BufferInv, TypeOK
          <6>2. Slice(total, total + n) \in Seq(Nat)
            BY <2>1 DEF Slice
          <6> QED
            BY <6>1, <6>2
        <5> HIDE DEF m
        <5>2. Greater(Len(m) - RamTail, 0) \in Nat
          BY <5>1 DEF Greater
        <5> QED
          BY <2>1, <2>2, <5>2 DEF BufAppend, Dropped, m
      <4> QED
        BY <2>1, <4>3, <4>4, <4>5
    <3>2. /\ total' = total + n /\ ~sealed /\ UNCHANGED <<sealed, reply>>
          /\ Disk => trimOffset' = trimOffset
      BY <2>1, <2>2 DEF BufAppend, Dropped
    <3> QED
      BY <2>1, <3>1, <3>2 DEF Window!WindowAppend
  <2>3. ASSUME NEW n \in 1..MaxAppend, AppendFails(n)
        PROVE  Window!WindowAppend
    <3>1. /\ total' = total + n /\ ~sealed /\ phase = "open"
          /\ UNCHANGED <<sealed, reply, trimOffset>>
      BY <2>3 DEF AppendFails
    <3>2. trimOffset <= total
      BY <2>1, <3>1 DEF HeldInv
    <3> QED
      BY <2>1, <3>1, <3>2 DEF Window!WindowAppend
  <2>4. ASSUME NEW ack \in Offsets, TrimTo(ack)
        PROVE  Window!WindowTrim
    <3>1. /\ phase = "open" /\ ack > trimOffset /\ trimOffset' = Lesser(ack, total)
          /\ UNCHANGED <<total, sealed, reply>>
      BY <2>4 DEF TrimTo, Acked
    <3>2. trimOffset <= total
      BY <2>1, <3>1 DEF HeldInv
    <3> QED
      BY <2>1, <3>1, <3>2 DEF Window!WindowTrim, Lesser, Offsets
  <2>5. ASSUME NEW off \in Offsets, NEW n \in 1..MaxRead, ReadAt(off, n)
        PROVE  Window!WindowRead
    <3>1. phase = "open" /\ reply' = ReadResult(off, n)
          /\ UNCHANGED <<total, trimOffset, sealed>>
      BY <2>5 DEF ReadAt
    <3>2. reply' = Window!ReadReply(off, n)
      BY <3>1, ReadExact DEF Offsets
    <3> QED
      BY <3>1, <3>2 DEF Window!WindowRead, Offsets
  <2>6. ASSUME Seal
        PROVE  Window!WindowSeal
    BY <2>6 DEF Seal, Window!WindowSeal
  <2>7. ASSUME NEW removeFile \in BOOLEAN, Close(removeFile)
        PROVE  Window!WindowSeal
    BY <2>7 DEF Close, Window!WindowSeal
  <2>8. ASSUME \/ \E off \in Offsets : WaitFor(off)
               \/ WaitCheck \/ WaitWake \/ WaitCancel \/ UNCHANGED vars
        PROVE  UNCHANGED Window!wvars
    BY <2>8 DEF WaitFor, WaitCheck, WaitWake, WaitCancel, vars
  <2> QED
    BY <2>2, <2>3, <2>4, <2>5, <2>6, <2>7, <2>8 DEF Next, Window!WindowNext
<1> QED
  BY <1>1, <1>2, BufferInvariant, PTL
     DEF Spec, ImplementsWindow, Window!WindowSpec

\* The manifest a HELLO or HELLO_ACK is built from names the chunks it says:
\* hash i is that of absolute chunk firstChunkIndex + i - 1, none is missing
\* up to the end of the stream and, on disk, none stays that is trimmed
\* (ManifestAligned), however the stream was cut into appends and ACKs.
THEOREM ManifestIsAligned == Spec => []ManifestAligned
<1> USE BufferAssumption DEF BufferAssumption
<1>1. BufferInv /\ HashInv => ManifestAligned
  <2> SUFFICES ASSUME BufferInv, HashInv PROVE ManifestAligned
    OBVIOUS
  <2>1. total \in Nat
    BY DEF BufferInv, TypeOK, Offsets
  <2>2. /\ chunkHashes \in Seq(Seq(Nat)) /\ firstChunkIndex \in Nat
        /\ firstChunkIndex + Len(chunkHashes) = total \div ChunkSize
        /\ \A i \in 1..Len(chunkHashes) :
             chunkHashes[i] = ChunkAt(firstChunkIndex + i - 1)
        /\ curHasher = Slice(ChunkSize * (total \div ChunkSize), total)
        /\ Disk => firstChunkIndex = trimOffset \div ChunkSize
    BY DEF HashInv, Hashed
  <2>3. Len(curHasher) = total % ChunkSize
    <3> DEFINE b == ChunkSize * (total \div ChunkSize)
    <3>1. total = b + (total % ChunkSize) /\ total % ChunkSize \in Nat /\ b \in Nat
      BY <2>1, DivMod
    <3> HIDE DEF b
    <3>2. Len(Slice(b, total)) = total - b
      BY <2>1, <3>1, SliceType
    <3> QED
      BY <2>1, <2>2, <3>1, <3>2 DEF b
  <2>4. ASSUME NEW i \in DOMAIN chunkHashes
        PROVE  LET c == firstChunkIndex + i - 1
               IN chunkHashes[i] = Slice(c * ChunkSize, (c + 1) * ChunkSize)
    <3> DEFINE c == firstChunkIndex + i - 1
    <3>1. i \in 1..Len(chunkHashes) /\ c \in Nat
      BY <2>2
    <3>2. chunkHashes[i] = ChunkAt(c)
      BY <2>2, <3>1
    <3> HIDE DEF c
    <3>3. c * ChunkSize = ChunkSize * c /\ (c + 1) * ChunkSize = ChunkSize * (c + 1)
      BY <3>1
    <3> QED
      BY <3>2, <3>3 DEF ChunkAt, c
  <2> QED
    BY <2>2, <2>3, <2>4 DEF ManifestAligned
<1> QED
  BY <1>1, HashInit, HashNext, BufferInvariant, PTL DEF Spec

\* While no spill has failed, the segment files hold at most one segment more
\* than is held below the RAM tail, wherever the acknowledgements fell
\* (TrimWasteBounded).
THEOREM WasteIsBounded == Spec => []TrimWasteBounded
<1>1. BufferInv => TrimWasteBounded
  <2> SUFFICES ASSUME BufferInv, phase = "open", ~failed
               PROVE  Cardinality(StoredBytes)
                        <= (memOffset - trimOffset) + SegmentSize
    BY DEF TrimWasteBounded
  <2>1. /\ memOffset \in Nat /\ trimOffset \in Nat /\ trimOffset <= memOffset
        /\ ~Disk => segments = {}
        /\ Disk => Tiling(segments, trimOffset, memOffset)
    BY DEF BufferInv, TypeOK, Offsets, HeldInv
  <2>2. CASE Disk
    BY <2>1, <2>2, StoredBounded
  <2>3. CASE ~Disk
    <3>1. StoredBytes = {}
      BY <2>1, <2>3 DEF StoredBytes
    <3>2. Cardinality(StoredBytes) = 0
      BY <3>1, FS_EmptySet
    <3> QED
      BY <2>1, <3>2, BufferAssumption DEF BufferAssumption
  <2> QED
    BY <2>2, <2>3
<1> QED
  BY <1>1, BufferInvariant, PTL

\* WaitFor releases the lock between its check and its sleep, and yet no
\* append and no Seal that falls in between is missed (NoLostWakeup): the
\* safety half of WaiterReturns.
THEOREM WaiterIsWoken == Spec => []NoLostWakeup
<1>1. BufferInv => TypeOK
  BY DEF BufferInv
<1> QED
  BY <1>1, WakeInit, WakeNext, BufferInvariant, PTL DEF Spec

=============================================================================
