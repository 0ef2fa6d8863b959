-------------------------- MODULE AlgorithmProofs --------------------------
(***************************************************************************)
(* The pure algorithms against their reference definitions: ResendFrom for *)
(* every two histories and every chunk size, and the byte filters for      *)
(* every input and every way it is cut into reads and writes.              *)
(***************************************************************************)
EXTENDS MCAlgorithms, ChunkProofs, FiniteSetTheorems, SequenceTheorems

-----------------------------------------------------------------------------
(* ResendFrom over histories *)

\* Longer histories have no fewer chunks.
LEMMA DivMonotone ==
  ASSUME NEW S \in Nat \ {0}, NEW d \in Nat, NEW e \in Nat, d <= e
  PROVE  d \div S \in Nat /\ e \div S \in Nat /\ d \div S <= e \div S
<1> DEFINE p == d \div S
           q == e \div S
<1>1. /\ d = S * p + (d % S) /\ d % S \in 0..(S - 1) /\ p \in Nat
      /\ e = S * q + (e % S) /\ e % S \in 0..(S - 1) /\ q \in Nat
  OBVIOUS
<1> HIDE DEF p, q
<1>2. CASE q < p
  <2>1. PICK k \in Nat : p = q + 1 + k
    BY <1>1, <1>2, p - q - 1 \in Nat, p = q + 1 + (p - q - 1)
  <2>2. S * p = S * q + S + S * k /\ S * k \in Nat /\ S * q \in Nat
    BY <1>1, <2>1
  <2> QED
    BY <1>1, <2>2
<1> QED
  BY <1>1, <1>2 DEF p, q

\* Both histories are sequences of bytes, and neither side has trimmed more
\* than its complete chunks.
HistoryInv ==
  /\ own \in Seq(Bytes) /\ Len(own) <= MaxLen
  /\ peer \in Seq(Bytes) /\ Len(peer) <= MaxLen
  /\ ownFirst \in Nat /\ ownFirst <= Complete(own)
  /\ peerFirst \in Nat /\ peerFirst <= Complete(peer)

\* How many chunks of a history are complete, and that none is lost when it grows.
LEMMA CompleteType ==
  ASSUME NEW s \in Seq(Bytes)
  PROVE  /\ Complete(s) \in Nat
         /\ \A b \in Bytes : /\ Append(s, b) \in Seq(Bytes)
                             /\ Len(Append(s, b)) = Len(s) + 1
                             /\ Complete(s) <= Complete(Append(s, b))
<1>1. ASSUME NEW b \in Bytes
      PROVE  /\ Append(s, b) \in Seq(Bytes)
             /\ Len(Append(s, b)) = Len(s) + 1
             /\ Complete(s) <= Complete(Append(s, b))
  BY DivMonotone, ChunkAssumption DEF Complete, ChunkAssumption
<1>2. Complete(s) \in Nat
  BY DivMonotone, ChunkAssumption DEF Complete, ChunkAssumption
<1> QED
  BY <1>1, <1>2

\* The histories begin empty.
LEMMA HistoryInit == Init => HistoryInv
<1> SUFFICES ASSUME Init PROVE HistoryInv
  OBVIOUS
<1>1. own = <<>> /\ peer = <<>> /\ ownFirst = 0 /\ peerFirst = 0
  BY DEF Init
<1>2. own \in Seq(Bytes) /\ peer \in Seq(Bytes)
  BY <1>1
<1>3. Complete(own) \in Nat /\ Complete(peer) \in Nat
  BY <1>2, CompleteType
<1> QED
  BY <1>1, <1>2, <1>3, LengthAssumption DEF HistoryInv, LengthAssumption

\* Growing and trimming keep the trimmed chunks among the complete ones.
LEMMA HistoryNext == HistoryInv /\ [Next]_vars => HistoryInv'
<1> SUFFICES ASSUME HistoryInv, [Next]_vars PROVE HistoryInv'
  OBVIOUS
<1> USE LengthAssumption DEF HistoryInv, LengthAssumption
<1>1. Complete(own) \in Nat /\ Complete(peer) \in Nat
  BY CompleteType
<1>2. CASE OwnGrows
  <2>1. PICK b \in Bytes : own' = Append(own, b)
    BY <1>2 DEF OwnGrows
  <2>2. Complete(own)' = Complete(own') /\ Complete(peer)' = Complete(peer)
    BY <1>2 DEF OwnGrows, Complete
  <2>3. /\ own' \in Seq(Bytes) /\ Len(own') = Len(own) + 1
        /\ Complete(own) <= Complete(own')
    BY <2>1, CompleteType
  <2>4. Complete(own') \in Nat
    BY <2>3, CompleteType
  <2>5. Len(own') <= MaxLen /\ UNCHANGED <<peer, ownFirst, peerFirst>>
    BY <1>2, <2>3 DEF OwnGrows
  <2> QED
    BY <1>1, <2>2, <2>3, <2>4, <2>5
<1>3. CASE PeerGrows
  <2>1. PICK b \in Bytes : peer' = Append(peer, b)
    BY <1>3 DEF PeerGrows
  <2>2. Complete(peer)' = Complete(peer') /\ Complete(own)' = Complete(own)
    BY <1>3 DEF PeerGrows, Complete
  <2>3. /\ peer' \in Seq(Bytes) /\ Len(peer') = Len(peer) + 1
        /\ Complete(peer) <= Complete(peer')
    BY <2>1, CompleteType
  <2>4. Complete(peer') \in Nat
    BY <2>3, CompleteType
  <2>5. Len(peer') <= MaxLen /\ UNCHANGED <<own, ownFirst, peerFirst>>
    BY <1>3, <2>3 DEF PeerGrows
  <2> QED
    BY <1>1, <2>2, <2>3, <2>4, <2>5
<1>4. CASE OwnTrims
  BY <1>1, <1>4 DEF OwnTrims, Complete
<1>5. CASE PeerTrims
  BY <1>1, <1>5 DEF PeerTrims, Complete
<1>6. CASE UNCHANGED vars
  BY <1>6 DEF vars, Complete
<1> QED
  BY <1>2, <1>3, <1>4, <1>5, <1>6 DEF Next

\* The manifest of a history names its chunks.
LEMMA ManifestOfRight ==
  ASSUME NEW s \in Seq(Bytes), NEW first \in Nat, first <= Complete(s)
  PROVE  /\ ManifestOf(s, first) \in Manifest(Seq(Bytes))
         /\ ManifestOf(s, first).firstIndex = first
         /\ End(ManifestOf(s, first)) = Complete(s)
         /\ \A i \in first..(Complete(s) - 1) :
              HashOf(ManifestOf(s, first), i) = ChunkAt(s, i)
<1> USE ChunkAssumption DEF ChunkAssumption
<1> DEFINE c == Complete(s)
           h == [i \in 1..(c - first) |-> ChunkAt(s, first + i - 1)]
           man == ManifestOf(s, first)
<1>1. c \in Nat
  BY CompleteType
<1>2. ASSUME NEW i \in Nat, i < c
      PROVE  ChunkAt(s, i) \in Seq(Bytes)
  <2>1. c * ChunkSize <= Len(s)
    BY DEF Complete
  <2>2. (i + 1) * ChunkSize <= c * ChunkSize
    <3>1. PICK k \in Nat : c = i + 1 + k
      BY <1>1, <1>2, c - i - 1 \in Nat, c = i + 1 + (c - i - 1)
    <3> HIDE DEF c
    <3>2. c * ChunkSize = (i + 1) * ChunkSize + k * ChunkSize /\ k * ChunkSize \in Nat
          /\ (i + 1) * ChunkSize \in Nat
      BY <3>1
    <3> QED
      BY <3>2
  <2>3. i * ChunkSize + 1 \in Nat /\ (i + 1) * ChunkSize \in Nat /\ i * ChunkSize + 1 >= 1
    OBVIOUS
  <2> DEFINE lo == i * ChunkSize + 1
             hi == (i + 1) * ChunkSize
  <2>4. c * ChunkSize \in Nat
    BY <1>1
  <2>5. hi <= Len(s) /\ lo \in 1..(Len(s) + 1) /\ hi \in Nat
    BY <2>1, <2>2, <2>3, <2>4, i * ChunkSize + ChunkSize = (i + 1) * ChunkSize
  <2> HIDE DEF lo, hi
  <2>6. SubSeq(s, lo, hi) \in Seq(Bytes)
    BY <2>5
  <2> QED
    BY <2>6 DEF ChunkAt, lo, hi
<1>3. man = [firstIndex |-> first, hashes |-> h]
  BY DEF ManifestOf
<1> HIDE DEF c, man
<1>4. h \in Seq(Seq(Bytes)) /\ Len(h) = c - first
      /\ \A i \in 1..(c - first) : h[i] = ChunkAt(s, first + i - 1)
  <2>1. \A i \in 1..(c - first) : ChunkAt(s, first + i - 1) \in Seq(Bytes)
    BY <1>1, <1>2
  <2>2. c - first \in Nat
    BY <1>1 DEF c
  <2> QED
    BY <2>1, <2>2
<1> HIDE DEF h
<1>5. man \in Manifest(Seq(Bytes)) /\ man.firstIndex = first /\ man.hashes = h
  BY <1>3, <1>4 DEF Manifest
<1>6. End(man) = c
  BY <1>1, <1>4, <1>5 DEF End
<1>7. ASSUME NEW i \in first..(c - 1)
      PROVE  HashOf(man, i) = ChunkAt(s, i)
  <2>1. i - first + 1 \in 1..(c - first) /\ first + (i - first + 1) - 1 = i
    BY <1>1
  <2>2. h[i - first + 1] = ChunkAt(s, first + (i - first + 1) - 1)
    BY <1>4, <2>1
  <2> QED
    BY <1>5, <2>1, <2>2 DEF HashOf
<1> QED
  BY <1>5, <1>6, <1>7 DEF c, man

\* The boundary the algorithm computes is the largest adequate one.
LEMMA LargestAdequate ==
  ASSUME HistoryInv
  PROVE  ResendsFromLargestAdequate
<1> USE ChunkAssumption, LengthAssumption DEF ChunkAssumption, LengthAssumption
<1> DEFINE o == Complete(own)
           p == Complete(peer)
           d == Divergent(OwnManifest, PeerManifest)
           top == Greater(o - 1, 0)
           b == Lesser(top, d)
           limit == MaxLen \div ChunkSize
           adequate == {x \in 0..limit : Adequate(x)}
<1>1. /\ own \in Seq(Bytes) /\ peer \in Seq(Bytes) /\ o \in Nat /\ p \in Nat
      /\ ownFirst \in Nat /\ peerFirst \in Nat /\ ownFirst <= o /\ peerFirst <= p
  BY CompleteType DEF HistoryInv
<1>2. o <= limit /\ limit \in Nat
  <2>1. Len(own) \in Nat /\ Len(own) <= MaxLen
    BY <1>1 DEF HistoryInv
  <2> QED
    BY <2>1, DivMonotone DEF Complete
<1>3. /\ OwnManifest \in Manifest(Seq(Bytes)) /\ OwnManifest.firstIndex = ownFirst
      /\ End(OwnManifest) = o
      /\ \A i \in ownFirst..(o - 1) : HashOf(OwnManifest, i) = ChunkAt(own, i)
  BY <1>1, ManifestOfRight DEF OwnManifest
<1>4. /\ PeerManifest \in Manifest(Seq(Bytes)) /\ PeerManifest.firstIndex = peerFirst
      /\ End(PeerManifest) = p
      /\ \A i \in peerFirst..(p - 1) : HashOf(PeerManifest, i) = ChunkAt(peer, i)
  BY <1>1, ManifestOfRight DEF PeerManifest
<1> HIDE DEF o, p
<1>5. \A i : i \in Overlap(OwnManifest, PeerManifest)
              <=> /\ i \in Nat /\ i >= ownFirst /\ i >= peerFirst
                  /\ i < o /\ i < p
  BY <1>1, <1>3, <1>4 DEF Overlap, OverlapEnd, Lesser, Greater
<1>6. OverlapEnd(OwnManifest, PeerManifest) = Lesser(o, p)
  BY <1>3, <1>4 DEF OverlapEnd
<1>7. \A i \in Overlap(OwnManifest, PeerManifest) :
         /\ HashOf(OwnManifest, i) = ChunkAt(own, i)
         /\ HashOf(PeerManifest, i) = ChunkAt(peer, i)
  BY <1>1, <1>3, <1>4, <1>5
<1>8. /\ d \in Nat /\ d <= Lesser(o, p)
      /\ \A i \in Overlap(OwnManifest, PeerManifest) :
           i < d => HashOf(OwnManifest, i) = HashOf(PeerManifest, i)
      /\ d < Lesser(o, p) => d \in Bad(OwnManifest, PeerManifest)
  BY <1>3, <1>4, <1>6, DivergentSplits
<1> HIDE DEF d, limit
<1>9. /\ top \in Nat /\ b \in Nat /\ b <= top /\ b <= d /\ (b = top \/ b = d)
      /\ b <= o /\ b <= p
  BY <1>1, <1>8 DEF Greater, Lesser
<1>10. Adequate(b)
  <2>1. ASSUME NEW i \in 0..(b - 1), i >= ownFirst, i >= peerFirst
        PROVE  ChunkAt(own, i) = ChunkAt(peer, i)
    <3>1. i \in Overlap(OwnManifest, PeerManifest) /\ i < d
      BY <1>1, <1>5, <1>8, <1>9, <2>1 DEF Lesser
    <3> QED
      BY <1>7, <1>8, <3>1
  <2> QED
    BY <1>9, <2>1 DEF Adequate, o, p
<1>11. ASSUME NEW x \in Nat, Adequate(x)
       PROVE  x <= b
  <2>1. /\ x <= top /\ x <= p
        /\ \A i \in 0..(x - 1) :
             i >= ownFirst /\ i >= peerFirst => ChunkAt(own, i) = ChunkAt(peer, i)
    BY <1>11 DEF Adequate, o, p
  <2>2. CASE x <= d
    BY <1>9, <2>1, <2>2
  <2>3. CASE x > d
    <3>1. d < o /\ d < p
      BY <1>1, <1>8, <2>1, <2>3 DEF Greater
    <3>2. d \in Bad(OwnManifest, PeerManifest)
      BY <1>1, <1>8, <3>1 DEF Lesser
    <3>3. d \in Overlap(OwnManifest, PeerManifest)
          /\ HashOf(OwnManifest, d) # HashOf(PeerManifest, d)
      BY <3>2 DEF Bad
    <3>4. ChunkAt(own, d) # ChunkAt(peer, d) /\ d >= ownFirst /\ d >= peerFirst
      BY <1>5, <1>7, <3>3
    <3> QED
      BY <1>8, <2>1, <2>3, <3>4
  <2> QED
    BY <1>8, <2>2, <2>3
<1> HIDE DEF b, top
<1>12. b \in adequate /\ \A x \in adequate : x \in Nat /\ x <= b
  BY <1>1, <1>2, <1>9, <1>10, <1>11
<1>13. Max(adequate) = b
  <2> HIDE DEF adequate
  <2>1. b \in adequate /\ \A x \in adequate : b >= x
    BY <1>9, <1>12
  <2>2. \A x \in adequate : (\A y \in adequate : x >= y) => x = b
    BY <1>9, <1>12
  <2> QED
    BY <2>1, <2>2 DEF Max
<1>14. ResendFrom(OwnManifest, PeerManifest) = b * ChunkSize
  <2>1. LastChunkStart(OwnManifest) = top * ChunkSize
    BY <1>1, <1>3 DEF LastChunkStart, top, Greater
  <2>2. ResendFrom(OwnManifest, PeerManifest) = Lesser(top * ChunkSize, d * ChunkSize)
    BY <2>1 DEF ResendFrom, d
  <2>3. \A x, y \in Nat : x <= y <=> x * ChunkSize <= y * ChunkSize
    OBVIOUS
  <2>4. top \in Nat /\ d \in Nat /\ b = Lesser(top, d)
    BY <1>8, <1>9 DEF b
  <2>5. top <= d <=> top * ChunkSize <= d * ChunkSize
    BY <2>3, <2>4
  <2> QED
    BY <2>2, <2>4, <2>5 DEF Lesser
<1> QED
  BY <1>13, <1>14 DEF ResendsFromLargestAdequate, limit

-----------------------------------------------------------------------------
(* The terminal *)

\* What one more byte does to the places of the others, and its own place.
LEMMA PlaceNext ==
  ASSUME NEW T, NEW s \in Seq(T), NEW b
  PROVE  LET r == Append(s, b)
             n == Len(s)
         IN /\ PlaceOnScreen(s, n) \in Nat
            /\ PlaceOnScreen(r, n + 1)
                 = PlaceOnScreen(s, n) + (IF BareAt(r, n + 1) THEN 2 ELSE 1)
            /\ \A i \in 1..n : /\ BareAt(r, i) <=> BareAt(s, i)
                               /\ PlaceOnScreen(r, i) = PlaceOnScreen(s, i)
                               /\ PlaceOnScreen(s, i) \in 1..PlaceOnScreen(s, n)
                               /\ BareAt(s, i) => PlaceOnScreen(s, i) > 1
<1> DEFINE r == Append(s, b)
           n == Len(s)
           Bares(i) == {j \in 1..i : BareAt(s, j)}
           new == {j \in 1..(n + 1) : BareAt(r, j)}
<1>1. n \in Nat /\ \A i \in 1..n : r[i] = s[i]
  OBVIOUS
<1>2. \A i \in 1..n : BareAt(r, i) <=> BareAt(s, i)
  BY <1>1 DEF BareAt
<1>3. ASSUME NEW i \in 0..n
      PROVE  /\ IsFiniteSet(Bares(i)) /\ Cardinality(Bares(i)) \in Nat
             /\ Cardinality(Bares(i)) <= Cardinality(Bares(n))
  <2> HIDE DEF r, n
  <2>0. Bares(n) \in SUBSET (1..n) /\ Bares(i) \in SUBSET Bares(n)
    BY <1>1
  <2>1. IsFiniteSet(1..n)
    BY <1>1, FS_Interval
  <2> HIDE DEF Bares
  <2>2. IsFiniteSet(Bares(n))
    BY <2>0, <2>1, FS_Subset
  <2>3. IsFiniteSet(Bares(i)) /\ Cardinality(Bares(i)) <= Cardinality(Bares(n))
    BY <2>0, <2>2, FS_Subset
  <2> QED
    BY <2>3, FS_CardinalityType
<1>4. \A i \in 0..n : PlaceOnScreen(s, i) = i + Cardinality(Bares(i))
  BY DEF PlaceOnScreen
<1>5. \A i \in 0..n : PlaceOnScreen(r, i) = PlaceOnScreen(s, i)
  <2>1. \A i \in 0..n : {j \in 1..i : BareAt(r, j)} = {j \in 1..i : BareAt(s, j)}
    BY <1>1, <1>2
  <2> HIDE DEF r
  <2> QED
    BY <2>1 DEF PlaceOnScreen
<1>6. PlaceOnScreen(r, n + 1) = n + 1 + Cardinality(new)
  BY DEF PlaceOnScreen
<1>7. new = IF BareAt(r, n + 1) THEN Bares(n) \cup {n + 1} ELSE Bares(n)
  <2> HIDE DEF r
  <2> QED
    BY <1>1, <1>2
<1>8. n + 1 \notin Bares(n)
  BY <1>1
<1>9. \A i \in 1..n : BareAt(s, i) => Cardinality(Bares(i)) > 0
  <2> SUFFICES ASSUME NEW i \in 1..n, BareAt(s, i)
               PROVE  Cardinality(Bares(i)) > 0
    OBVIOUS
  <2> HIDE DEF r, n
  <2>1. i \in Bares(i)
    BY <1>1
  <2>2. IsFiniteSet(Bares(i)) /\ Cardinality(Bares(i)) \in Nat
    BY <1>1, <1>3, i \in 0..n
  <2> HIDE DEF Bares
  <2>3. Cardinality(Bares(i)) # 0
    BY <2>1, <2>2, FS_EmptySet
  <2> QED
    BY <2>2, <2>3
<1> HIDE DEF r, n, Bares, new
<1>10. Cardinality(new) = Cardinality(Bares(n)) + (IF BareAt(r, n + 1) THEN 1 ELSE 0)
  <2>1. n \in 0..n
    BY <1>1
  <2>2. IsFiniteSet(Bares(n)) /\ Cardinality(Bares(n)) \in Nat
    BY <1>3, <2>1
  <2>3. CASE BareAt(r, n + 1)
    BY <1>7, <1>8, <2>2, <2>3, FS_AddElement
  <2>4. CASE ~BareAt(r, n + 1)
    BY <1>7, <2>2, <2>4
  <2> QED
    BY <2>3, <2>4
<1>11. /\ PlaceOnScreen(s, n) \in Nat
       /\ PlaceOnScreen(r, n + 1)
            = PlaceOnScreen(s, n) + (IF BareAt(r, n + 1) THEN 2 ELSE 1)
  <2>1. n \in 0..n
    BY <1>1
  <2>2. Cardinality(Bares(n)) \in Nat
    BY <1>3, <2>1
  <2>3. PlaceOnScreen(s, n) = n + Cardinality(Bares(n))
    BY <1>4, <2>1
  <2>4. CASE BareAt(r, n + 1)
    BY <1>1, <1>6, <1>10, <2>2, <2>3, <2>4
  <2>5. CASE ~BareAt(r, n + 1)
    BY <1>1, <1>6, <1>10, <2>2, <2>3, <2>5
  <2> QED
    BY <2>4, <2>5
<1>12. ASSUME NEW i \in 1..n
       PROVE  /\ PlaceOnScreen(s, i) \in 1..PlaceOnScreen(s, n)
              /\ BareAt(s, i) => PlaceOnScreen(s, i) > 1
  <2>1. i \in 0..n /\ n \in 0..n
    BY <1>1
  <2>2. /\ Cardinality(Bares(i)) \in Nat /\ Cardinality(Bares(n)) \in Nat
        /\ Cardinality(Bares(i)) <= Cardinality(Bares(n))
    BY <1>3, <2>1
  <2> QED
    BY <1>1, <1>4, <1>9, <2>1, <2>2
<1> QED
  BY <1>1, <1>2, <1>5, <1>11, <1>12 DEF r, n

\* A byte translated as Write does it keeps the translation right.
LEMMA TranslatesNext ==
  ASSUME NEW T, NEW s \in Seq(T), NEW b, NEW U, NEW shown \in Seq(U),
         Translates(shown, s), "cr" \in U, "lf" \in U, b \in U
  PROVE  Translates(shown \o IF BareAt(Append(s, b), Len(s) + 1)
                                THEN <<"cr", "lf">> ELSE <<b>>,
                    Append(s, b))
<1> DEFINE r == Append(s, b)
           n == Len(s)
           m == Len(shown)
           bare == BareAt(r, n + 1)
           q == IF bare THEN <<"cr", "lf">> ELSE <<b>>
           more == shown \o q
<1>1. /\ n \in Nat /\ Len(r) = n + 1 /\ r[n + 1] = b
      /\ \A i \in 1..n : r[i] = s[i]
  OBVIOUS
<1>2. /\ m = PlaceOnScreen(s, n) /\ m \in Nat
      /\ PlaceOnScreen(r, n + 1) = m + (IF bare THEN 2 ELSE 1)
      /\ \A i \in 1..n : /\ BareAt(r, i) <=> BareAt(s, i)
                         /\ PlaceOnScreen(r, i) = PlaceOnScreen(s, i)
                         /\ PlaceOnScreen(s, i) \in 1..m
                         /\ BareAt(s, i) => PlaceOnScreen(s, i) > 1
  BY PlaceNext DEF Translates
<1>3. /\ \A i \in 1..m : shown[i] = "lf" => i > 1 /\ shown[i - 1] = "cr"
      /\ \A i \in 1..n : /\ shown[PlaceOnScreen(s, i)] = s[i]
                         /\ BareAt(s, i) => shown[PlaceOnScreen(s, i) - 1] = "cr"
  BY DEF Translates
<1>4. \A i \in 1..m : more[i] = shown[i]
  OBVIOUS
<1>5. Len(more) = m + (IF bare THEN 2 ELSE 1)
  OBVIOUS
<1>6. /\ bare => more[m + 1] = "cr" /\ more[m + 2] = "lf"
      /\ ~bare => more[m + 1] = b
  OBVIOUS
<1>7. bare => b = "lf"
  BY <1>1 DEF BareAt
<1>8. ~bare /\ b = "lf" => n > 0 /\ s[n] = "cr"
  BY <1>1 DEF BareAt
<1>9. n > 0 => m > 0 /\ shown[m] = s[n]
  <2> SUFFICES ASSUME n > 0 PROVE m > 0 /\ shown[m] = s[n]
    OBVIOUS
  <2>1. n \in 1..n
    BY <1>1
  <2> QED
    BY <1>2, <1>3, <2>1
<1> HIDE DEF r, n, m, bare, q, more
<1>10. ASSUME NEW i \in 1..Len(more), more[i] = "lf"
       PROVE  i > 1 /\ more[i - 1] = "cr"
  <2>1. CASE i \in 1..m
    <3>1. i > 1 /\ shown[i - 1] = "cr"
      BY <1>3, <1>4, <1>10, <2>1
    <3>2. i - 1 \in 1..m
      BY <1>2, <2>1, <3>1
    <3> QED
      BY <1>4, <3>1, <3>2
  <2>2. CASE i \notin 1..m /\ bare
    <3>1. i = m + 1 \/ i = m + 2
      BY <1>2, <1>5, <2>2
    <3>2. i # m + 1
      BY <1>6, <1>10, <2>2
    <3> QED
      BY <1>2, <1>6, <2>2, <3>1, <3>2
  <2>3. CASE i \notin 1..m /\ ~bare
    <3>1. i = m + 1
      BY <1>2, <1>5, <2>3
    <3>2. n > 0 /\ s[n] = "cr"
      BY <1>6, <1>8, <1>10, <2>3, <3>1
    <3>3. m \in 1..m /\ more[m] = "cr"
      BY <1>2, <1>4, <1>9, <3>2
    <3> QED
      BY <1>2, <3>1, <3>3
  <2> QED
    BY <2>1, <2>2, <2>3
<1>11. ASSUME NEW i \in 1..(n + 1)
       PROVE  /\ more[PlaceOnScreen(r, i)] = r[i]
              /\ BareAt(r, i) => more[PlaceOnScreen(r, i) - 1] = "cr"
  <2>1. CASE i \in 1..n
    <3>1. /\ PlaceOnScreen(r, i) = PlaceOnScreen(s, i)
          /\ PlaceOnScreen(s, i) \in 1..m /\ r[i] = s[i]
          /\ BareAt(r, i) <=> BareAt(s, i)
      BY <1>1, <1>2, <2>1
    <3>2. more[PlaceOnScreen(r, i)] = r[i]
      BY <1>3, <1>4, <2>1, <3>1
    <3>3. ASSUME BareAt(r, i) PROVE more[PlaceOnScreen(r, i) - 1] = "cr"
      <4>1. PlaceOnScreen(s, i) - 1 \in 1..m
        BY <1>2, <2>1, <3>1, <3>3
      <4> QED
        BY <1>3, <1>4, <2>1, <3>1, <3>3, <4>1
    <3> QED
      BY <3>2, <3>3
  <2>2. CASE i = n + 1
    <3>1. CASE bare
      BY <1>1, <1>2, <1>6, <1>7, <2>2, <3>1
    <3>2. CASE ~bare
      BY <1>1, <1>2, <1>6, <2>2, <3>2 DEF bare
    <3> QED
      BY <3>1, <3>2
  <2> QED
    BY <1>1, <2>1, <2>2
<1>12. Translates(more, r)
  BY <1>1, <1>2, <1>5, <1>10, <1>11 DEF Translates
<1> QED
  BY <1>12 DEF more, q, bare, r, n

\* Bytes that stand on the terminal.
Shown == Shows \cup {"cr", "lf"}

\* NoBareNewline, and the byte the translator remembers, without which the
\* next one could not be translated.
TerminalInv ==
  /\ text \in Seq(Shows)
  /\ screen \in Seq(Shown)
  /\ terminal \in [last : Shown \cup {"none"}, out : Seq(Shown)]
  /\ terminal.last = IF text = <<>> THEN "none" ELSE text[Len(text)]
  /\ NoBareNewline

\* Nothing shown is translated to nothing.
LEMMA TerminalStart == TerminalInit => TerminalInv
<1> SUFFICES ASSUME TerminalInit PROVE TerminalInv
  OBVIOUS
<1>1. /\ text = <<>> /\ screen = <<>> /\ terminal = [last |-> "none", out |-> <<>>]
  BY DEF TerminalInit, NewTerminal
<1>2. screen \o terminal.out = <<>>
  BY <1>1
<1>3. PlaceOnScreen(text, Len(text)) = 0
  <2>1. {j \in 1..0 : BareAt(text, j)} = {}
    OBVIOUS
  <2> QED
    BY <1>1, <2>1, FS_EmptySet DEF PlaceOnScreen
<1>4. NoBareNewline
  BY <1>1, <1>2, <1>3 DEF NoBareNewline, Translates
<1> QED
  BY <1>1, <1>4 DEF TerminalInv

\* Every byte shown, and every end of a Write.
LEMMA TerminalNext ==
  ASSUME TerminalInv, TerminalSteps \/ UNCHANGED terminalVars
  PROVE  TerminalInv'
<1> DEFINE shown == screen \o terminal.out
<1>1. /\ text \in Seq(Shows) /\ screen \in Seq(Shown) /\ terminal.out \in Seq(Shown)
      /\ terminal \in [last : Shown \cup {"none"}, out : Seq(Shown)]
      /\ terminal.last = IF text = <<>> THEN "none" ELSE text[Len(text)]
      /\ Translates(shown, text) /\ shown \in Seq(Shown)
  BY DEF TerminalInv, NoBareNewline
<1>2. CASE ByteShown
  <2>1. PICK b \in Shows : text' = Append(text, b) /\ terminal' = ShownByte(terminal, b)
    BY <1>2 DEF ByteShown
  <2>2. screen' = screen
    BY <1>2 DEF ByteShown
  <2> DEFINE q == IF b = "lf" /\ terminal.last # "cr" THEN <<"cr", "lf">> ELSE <<b>>
  <2>3. BareAt(Append(text, b), Len(text) + 1) <=> b = "lf" /\ terminal.last # "cr"
    <3>1. /\ Append(text, b)[Len(text) + 1] = b
          /\ text # <<>> => Append(text, b)[Len(text)] = text[Len(text)]
          /\ text = <<>> <=> Len(text) + 1 = 1
      BY <1>1
    <3>2. Len(text) + 1 - 1 = Len(text)
      BY <1>1
    <3>3. CASE text = <<>>
      BY <1>1, <3>1, <3>3 DEF BareAt
    <3>4. CASE text # <<>>
      <4>1. terminal.last = text[Len(text)]
        BY <1>1, <3>4
      <4> HIDE DEF shown
      <4>2. Append(text, b)[(Len(text) + 1) - 1] = terminal.last
        <5> DEFINE prev == (Len(text) + 1) - 1
        <5>1. prev = Len(text)
          BY <1>1
        <5> HIDE DEF prev
        <5>2. Append(text, b)[prev] = terminal.last
          BY <3>1, <3>4, <4>1, <5>1
        <5> QED
          BY <5>2 DEF prev
      <4> QED
        BY <3>1, <3>4, <4>2 DEF BareAt
    <3> QED
      BY <3>3, <3>4
  <2>4. b \in Shown /\ "cr" \in Shown /\ "lf" \in Shown
    BY DEF Shown
  <2>5. Translates(shown \o q, Append(text, b))
    <3> HIDE DEF shown
    <3> QED
      BY <1>1, <2>3, <2>4, TranslatesNext
  <2>6. q \in Seq(Shown)
    BY <2>4
  <2>7. terminal' = [last |-> b, out |-> terminal.out \o q]
    BY <2>1 DEF ShownByte
  <2> HIDE DEF q
  <2>8. screen' \o terminal'.out = shown \o q
    BY <1>1, <2>2, <2>6, <2>7
  <2>9. /\ text' \in Seq(Shows) /\ screen' \in Seq(Shown)
        /\ terminal' \in [last : Shown \cup {"none"}, out : Seq(Shown)]
        /\ terminal'.last = b
    BY <1>1, <2>1, <2>2, <2>4, <2>6, <2>7
  <2>10. text' # <<>> /\ text'[Len(text')] = b
    BY <1>1, <2>1
  <2>11. NoBareNewline'
    BY <2>1, <2>5, <2>8 DEF NoBareNewline
  <2> QED
    BY <2>9, <2>10, <2>11 DEF TerminalInv
<1>3. CASE WriteEnds
  <2>1. /\ screen' = shown /\ terminal' = [terminal EXCEPT !.out = <<>>]
        /\ text' = text
    BY <1>3 DEF WriteEnds, NextWrite
  <2>2. terminal'.out = <<>> /\ terminal'.last = terminal.last
        /\ terminal' \in [last : Shown \cup {"none"}, out : Seq(Shown)]
    <3>1. <<>> \in Seq(Shown)
      OBVIOUS
    <3> QED
      BY <1>1, <2>1, <3>1
  <2>3. screen' \o terminal'.out = shown
    BY <1>1, <2>1, <2>2
  <2>4. NoBareNewline'
    BY <1>1, <2>1, <2>3 DEF NoBareNewline
  <2> QED
    BY <1>1, <2>1, <2>2, <2>4 DEF TerminalInv
<1>4. CASE UNCHANGED terminalVars
  BY <1>4 DEF TerminalInv, NoBareNewline, terminalVars
<1> QED
  BY <1>2, <1>3, <1>4 DEF TerminalSteps

-----------------------------------------------------------------------------
(* Standard input *)

\* Selecting one more place behind the others appends what stands there.
LEMMA SelectsNext ==
  ASSUME NEW T, NEW s \in Seq(T), NEW U, NEW out \in Seq(U), NEW places,
         NEW m \in 1..Len(s), places \subseteq 1..(m - 1), Selects(out, s, places),
         s[m] \in U
  PROVE  /\ Selects(Append(out, s[m]), s, places \cup {m})
         /\ places \cup {m} \subseteq 1..m
<1> DEFINE upto(i) == {j \in places : j <= i}
           more == Append(out, s[m])
<1>1. m \in Nat /\ m \notin places /\ \A i \in places : i \in Nat /\ i < m
  OBVIOUS
<1>2. IsFiniteSet(places)
  <2>1. IsFiniteSet(1..(m - 1))
    BY <1>1, FS_Interval
  <2> QED
    BY <2>1, FS_Subset
<1>3. /\ Cardinality(places) \in Nat
      /\ Cardinality(places \cup {m}) = Cardinality(places) + 1
  BY <1>1, <1>2, FS_AddElement, FS_CardinalityType
<1>4. Len(out) = Cardinality(places)
      /\ \A i \in places : out[Cardinality(upto(i))] = s[i]
  BY DEF Selects
<1>5. /\ Len(more) = Len(out) + 1 /\ more[Len(out) + 1] = s[m]
      /\ \A k \in 1..Len(out) : more[k] = out[k]
  OBVIOUS
<1>6. ASSUME NEW i \in places
      PROVE  Cardinality(upto(i)) \in 1..Cardinality(places)
  <2>1. upto(i) \in SUBSET places /\ i \in upto(i)
    BY <1>1
  <2> HIDE DEF upto
  <2>2. IsFiniteSet(upto(i)) /\ Cardinality(upto(i)) <= Cardinality(places)
    BY <1>2, <2>1, FS_Subset
  <2>3. Cardinality(upto(i)) \in Nat
    BY <2>2, FS_CardinalityType
  <2>4. Cardinality(upto(i)) # 0
    BY <2>1, <2>2, FS_EmptySet
  <2> QED
    BY <1>3, <2>2, <2>3, <2>4
<1>7. \A i \in places : {j \in places \cup {m} : j <= i} = upto(i)
  BY <1>1
<1>8. {j \in places \cup {m} : j <= m} = places \cup {m}
  <2>1. \A j \in places \cup {m} : j <= m
    BY <1>1
  <2> QED
    BY <2>1, Zenon
<1> HIDE DEF upto, more
<1>9. \A i \in places : more[Cardinality({j \in places \cup {m} : j <= i})] = s[i]
  BY <1>4, <1>5, <1>6, <1>7
<1>10. more[Cardinality({j \in places \cup {m} : j <= m})] = s[m]
  BY <1>3, <1>4, <1>5, <1>8
<1>11. Selects(more, s, places \cup {m})
  BY <1>3, <1>4, <1>5, <1>9, <1>10 DEF Selects
<1> QED
  BY <1>1, <1>11 DEF more

\* A selection is not changed by what comes behind it.
LEMMA SelectsLonger ==
  ASSUME NEW T, NEW s \in Seq(T), NEW b, NEW out, NEW places,
         places \subseteq 1..Len(s), Selects(out, s, places)
  PROVE  Selects(out, Append(s, b), places)
<1>1. \A i \in places : Append(s, b)[i] = s[i]
  OBVIOUS
<1> QED
  BY <1>1 DEF Selects

\* Which keys are meant changes with the next key only at the end.
LEMMA MeantNext ==
  ASSUME NEW T, NEW s \in Seq(T), NEW b
  PROVE  LET r == Append(s, b)
             n == Len(s)
             held == n > 0 /\ EscapeAt(s, n)
         IN /\ Meant(r) = Meant(s)
                 \cup (IF held /\ b \notin {"~", "."} THEN {n} ELSE {})
                 \cup (IF \/ held /\ b # "."
                          \/ ~held /\ ~EscapeAt(r, n + 1) THEN {n + 1} ELSE {})
            /\ Meant(s) \subseteq 1..n
            /\ held => Meant(s) \subseteq 1..(n - 1)
            /\ (\E i \in 1..(n + 1) : AbortAt(r, i))
                 <=> (\E i \in 1..n : AbortAt(s, i)) \/ (held /\ b = ".")
<1> DEFINE r == Append(s, b)
           n == Len(s)
           held == n > 0 /\ EscapeAt(s, n)
<1>1. /\ n \in Nat /\ Len(r) = n + 1 /\ r[n + 1] = b
      /\ \A i \in 1..n : r[i] = s[i]
  OBVIOUS
<1> HIDE DEF r, n
<1>2. \A i \in 1..n : EscapeAt(r, i) <=> EscapeAt(s, i)
  BY <1>1 DEF EscapeAt
<1>3. \A i \in 1..(n - 1) : AbortAt(r, i) <=> AbortAt(s, i)
  BY <1>1, <1>2 DEF AbortAt, n
<1>4. ~AbortAt(s, n)
  BY <1>1 DEF AbortAt, n
<1>5. n > 0 => (AbortAt(r, n) <=> held /\ b = ".")
  BY <1>1, <1>2 DEF AbortAt
<1>6. ~AbortAt(r, n + 1)
  BY <1>1 DEF AbortAt
<1>7. held => ~EscapeAt(r, n + 1)
  BY <1>1 DEF EscapeAt, LineEnds
<1>8. \A i \in 1..n : i \in Meant(s)
         <=> /\ EscapeAt(s, i) => i < n /\ s[i + 1] \notin {"~", "."}
             /\ i > 1 => ~AbortAt(s, i - 1)
  BY DEF Meant, n
<1>9. \A i \in 1..(n + 1) : i \in Meant(r)
         <=> /\ EscapeAt(r, i) => i < n + 1 /\ r[i + 1] \notin {"~", "."}
             /\ i > 1 => ~AbortAt(r, i - 1)
  BY <1>1 DEF Meant
<1>10. Meant(s) \subseteq 1..n /\ Meant(r) \subseteq 1..(n + 1)
  BY <1>1 DEF Meant, n
<1>11. ASSUME NEW i \in 1..(n - 1)
       PROVE  i \in Meant(r) <=> i \in Meant(s)
  <2>1. i \in 1..n /\ i \in 1..(n + 1) /\ i + 1 \in 1..n /\ i < n
    BY <1>1
  <2>2. (EscapeAt(r, i) <=> EscapeAt(s, i)) /\ r[i + 1] = s[i + 1]
    BY <1>1, <1>2, <2>1
  <2>3. i > 1 => (AbortAt(r, i - 1) <=> AbortAt(s, i - 1))
    BY <1>1, <1>3
  <2> QED
    BY <1>1, <1>8, <1>9, <2>1, <2>2, <2>3
<1>12. n > 0 => (n \in Meant(r)
                  <=> n \in Meant(s) \/ (held /\ b \notin {"~", "."}))
  <2> SUFFICES ASSUME n > 0
               PROVE  n \in Meant(r) <=> n \in Meant(s) \/ (held /\ b \notin {"~", "."})
    OBVIOUS
  <2>1. n \in 1..n /\ n \in 1..(n + 1)
    BY <1>1
  <2>2. held <=> EscapeAt(s, n)
    OBVIOUS
  <2>3. n > 1 => (AbortAt(r, n - 1) <=> AbortAt(s, n - 1))
    BY <1>1, <1>3
  <2>4. n \in Meant(s) <=> ~held /\ (n > 1 => ~AbortAt(s, n - 1))
    BY <1>1, <1>8, <2>1, <2>2
  <2>5. n \in Meant(r) <=> /\ held => b \notin {"~", "."}
                           /\ n > 1 => ~AbortAt(s, n - 1)
    <3>1. n \in Meant(r)
            <=> /\ EscapeAt(r, n) => n < n + 1 /\ r[n + 1] \notin {"~", "."}
                /\ n > 1 => ~AbortAt(r, n - 1)
      BY <1>9, <2>1, Zenon
    <3>2. n < n + 1 /\ r[n + 1] = b /\ (EscapeAt(r, n) <=> held)
      BY <1>1, <1>2, <2>1, <2>2
    <3> HIDE DEF held
    <3> QED
      BY <2>3, <3>1, <3>2, Zenon
  <2>6. held => (n > 1 => ~AbortAt(s, n - 1))
    <3>1. EscapeAt(s, n) => s[n] = "~"
      BY DEF EscapeAt
    <3>2. n > 1 /\ AbortAt(s, n - 1) => s[n] = "."
      BY <1>1 DEF AbortAt
    <3> QED
      BY <2>2, <3>1, <3>2
  <2> HIDE DEF held
  <2> QED
    BY <2>4, <2>5, <2>6, Zenon
<1>13. n + 1 \in Meant(r) <=> (held /\ b # ".") \/ (~held /\ ~EscapeAt(r, n + 1))
  <2>1. n + 1 \in Meant(r) <=> /\ ~EscapeAt(r, n + 1)
                               /\ n > 0 => ~AbortAt(r, n)
    <3> DEFINE m == n + 1
    <3>1. m \in 1..(n + 1) /\ m - 1 = n /\ ~(m < n + 1) /\ (m > 1 <=> n > 0)
      BY <1>1
    <3> HIDE DEF m
    <3>2. m \in Meant(r)
            <=> /\ EscapeAt(r, m) => m < n + 1 /\ r[m + 1] \notin {"~", "."}
                /\ m > 1 => ~AbortAt(r, m - 1)
      BY <1>9, <3>1, Zenon
    <3>3. m \in Meant(r) <=> /\ ~EscapeAt(r, m)
                             /\ n > 0 => ~AbortAt(r, n)
      BY <3>1, <3>2, Zenon
    <3> QED
      BY <3>3, Zenon DEF m
  <2>2. n > 0 /\ AbortAt(r, n) <=> held /\ b = "."
    BY <1>5
  <2> HIDE DEF held
  <2> QED
    BY <1>7, <2>1, <2>2, Zenon
<1>14. held => n \notin Meant(s)
  BY <1>1, <1>8
<1>15. held => Meant(s) \subseteq 1..(n - 1)
  BY <1>1, <1>10, <1>14
<1>16. (\E i \in 1..(n + 1) : AbortAt(r, i))
         <=> (\E i \in 1..n : AbortAt(s, i)) \/ (held /\ b = ".")
  <2>1. ASSUME NEW i \in 1..(n + 1), AbortAt(r, i)
        PROVE  (\E k \in 1..n : AbortAt(s, k)) \/ (held /\ b = ".")
    <3>1. i # n + 1
      BY <1>6, <2>1
    <3>2. CASE i = n
      BY <1>1, <1>5, <2>1, <3>2
    <3>3. CASE i # n
      <4>1. i \in 1..(n - 1) /\ i \in 1..n
        BY <1>1, <3>1, <3>3
      <4> QED
        BY <1>3, <2>1, <4>1
    <3> QED
      BY <3>2, <3>3
  <2>2. ASSUME NEW i \in 1..n, AbortAt(s, i)
        PROVE  \E k \in 1..(n + 1) : AbortAt(r, k)
    <3>1. i # n
      BY <1>4, <2>2
    <3>2. i \in 1..(n - 1) /\ i \in 1..(n + 1)
      BY <1>1, <3>1
    <3> QED
      BY <1>3, <2>2, <3>2
  <2>3. held /\ b = "." => \E k \in 1..(n + 1) : AbortAt(r, k)
    BY <1>1, <1>5
  <2> HIDE DEF held
  <2> QED
    BY <2>1, <2>2, <2>3
<1>17. Meant(r) = Meant(s)
          \cup (IF held /\ b \notin {"~", "."} THEN {n} ELSE {})
          \cup (IF (held /\ b # ".") \/ (~held /\ ~EscapeAt(r, n + 1))
               THEN {n + 1} ELSE {})
  <2>1. n = 0 => ~held
    OBVIOUS
  <2> HIDE DEF held
  <2>2. ASSUME NEW i \in 1..(n + 1)
        PROVE  i \in Meant(r) <=>
                 i \in Meant(s)
                   \cup (IF held /\ b \notin {"~", "."} THEN {n} ELSE {})
                   \cup (IF (held /\ b # ".") \/ (~held /\ ~EscapeAt(r, n + 1))
                        THEN {n + 1} ELSE {})
    <3>1. CASE i = n + 1
      <4>1. i \notin Meant(s) /\ i # n
        BY <1>1, <1>10, <3>1
      <4> QED
        BY <1>13, <3>1, <4>1
    <3>2. CASE i = n
      <4>1. n > 0 /\ i # n + 1
        BY <1>1, <3>2
      <4> QED
        BY <1>12, <3>2, <4>1
    <3>3. CASE i # n /\ i # n + 1
      <4>1. i \in 1..(n - 1)
        BY <1>1, <3>3
      <4> QED
        BY <1>11, <3>3, <4>1
    <3> QED
      BY <3>1, <3>2, <3>3
  <2>3. n \in 1..(n + 1) \/ ~held
    BY <1>1, <2>1
  <2>4. n + 1 \in 1..(n + 1) /\ 1..n \subseteq 1..(n + 1)
    BY <1>1
  <2> QED
    BY <1>10, <2>2, <2>3, <2>4
<1> QED
  BY <1>10, <1>15, <1>16, <1>17 DEF r, n

\* Keys, and the ~ that is put back for an escape that was none.
Typed == Keys \cup {"~"}

\* EscapesFound, and what readStdinForever remembers of the last key.
KeysInv ==
  /\ keys \in Seq(Keys)
  /\ sent \in Seq(Typed)
  /\ stdin \in [atStart : BOOLEAN, pending : BOOLEAN, aborted : BOOLEAN, out : Seq(Typed)]
  /\ stdin.pending <=> Len(keys) > 0 /\ EscapeAt(keys, Len(keys))
  /\ ~stdin.pending /\ ~stdin.aborted
       => (stdin.atStart <=> keys = <<>> \/ keys[Len(keys)] \in LineEnds)
  /\ EscapesFound

\* Nothing typed is sent as nothing.
LEMMA StdinStart == StdinInit => KeysInv
<1> SUFFICES ASSUME StdinInit PROVE KeysInv
  OBVIOUS
<1>1. /\ keys = <<>> /\ sent = <<>>
      /\ stdin = [atStart |-> TRUE, pending |-> FALSE, aborted |-> FALSE, out |-> <<>>]
  BY DEF StdinInit, NewStdin
<1>2. Len(keys) = 0 /\ sent \o stdin.out = <<>>
  BY <1>1
<1>3. Meant(keys) = {}
  BY <1>2 DEF Meant
<1>4. Selects(<<>>, keys, {})
  <2>1. Cardinality({}) = Len(<<>>)
    BY FS_EmptySet
  <2>2. \A i \in {} : <<>>[Cardinality({j \in {} : j <= i})] = keys[i]
    OBVIOUS
  <2> QED
    BY <2>1, <2>2, Zenon DEF Selects
<1>5. EscapesFound
  <2>1. 1..Len(keys) = {} /\ ~stdin.aborted
    BY <1>1, <1>2
  <2> QED
    BY <1>2, <1>3, <1>4, <2>1, Zenon DEF EscapesFound
<1> QED
  BY <1>1, <1>2, <1>5 DEF KeysInv

\* What the next key does to `held`, which is EscapeAt of the last one.
LEMMA EscapeNext ==
  ASSUME NEW T, NEW s \in Seq(T), NEW b
  PROVE  EscapeAt(Append(s, b), Len(s) + 1)
           <=> b = "~" /\ (s = <<>> \/ s[Len(s)] \in LineEnds)
<1> DEFINE r == Append(s, b)
           n == Len(s)
           prev == (n + 1) - 1
<1>1. /\ n \in Nat /\ r[n + 1] = b /\ prev = n
      /\ s = <<>> <=> n + 1 = 1
      /\ s # <<>> => r[n] = s[n]
  OBVIOUS
<1>2. EscapeAt(r, n + 1) <=> r[n + 1] = "~" /\ (n + 1 = 1 \/ r[prev] \in LineEnds)
  BY Zenon DEF EscapeAt, prev
<1> HIDE DEF prev, r
<1> QED
  BY <1>1, <1>2, Zenon DEF r

\* Every key typed, and every end of a read.
LEMMA StdinNext ==
  ASSUME KeysInv, StdinSteps \/ UNCHANGED stdinVars
  PROVE  KeysInv'
<1> DEFINE shown == sent \o stdin.out
           n == Len(keys)
<1>1. /\ keys \in Seq(Keys) /\ sent \in Seq(Typed) /\ stdin.out \in Seq(Typed)
      /\ stdin \in [atStart : BOOLEAN, pending : BOOLEAN, aborted : BOOLEAN,
                    out : Seq(Typed)]
      /\ shown \in Seq(Typed) /\ n \in Nat
  BY DEF KeysInv
<1>2. stdin.pending <=> n > 0 /\ EscapeAt(keys, n)
  BY DEF KeysInv
<1>3. ~stdin.pending /\ ~stdin.aborted
        => (stdin.atStart <=> keys = <<>> \/ keys[n] \in LineEnds)
  BY DEF KeysInv
<1>4. /\ stdin.aborted <=> \E i \in 1..n : AbortAt(keys, i)
      /\ Selects(shown, keys, Meant(keys))
  BY DEF KeysInv, EscapesFound
<1>5. CASE KeyTyped
  <2>1. PICK b \in Keys : keys' = Append(keys, b) /\ stdin' = TypedKey(stdin, b)
    BY <1>5 DEF KeyTyped
  <2>2. sent' = sent /\ ~stdin.aborted
    BY <1>5 DEF KeyTyped
  <2> DEFINE r == Append(keys, b)
  <2>3. /\ r \in Seq(Keys) /\ Len(r) = n + 1 /\ r[n + 1] = b
        /\ n > 0 => r[n] = keys[n]
        /\ b \in Typed /\ "~" \in Typed /\ r # <<>>
        /\ \A i \in 1..(n + 1) : r[i] \in Typed
    <3>1. r \in Seq(Keys) /\ Len(r) = n + 1 /\ r[n + 1] = b /\ (n > 0 => r[n] = keys[n])
      BY <1>1
    <3>2. r # <<>>
      BY <1>1
    <3> HIDE DEF r, n
    <3> QED
      BY <3>1, <3>2 DEF Typed
  <2>4. EscapeAt(r, n + 1) <=> b = "~" /\ (keys = <<>> \/ keys[n] \in LineEnds)
    BY <1>1, EscapeNext
  <2>5. stdin.pending => n > 0 /\ keys[n] = "~" /\ keys # <<>>
    BY <1>1, <1>2 DEF EscapeAt
  <2>6. /\ Meant(r) = Meant(keys)
             \cup (IF stdin.pending /\ b \notin {"~", "."} THEN {n} ELSE {})
             \cup (IF \/ stdin.pending /\ b # "."
                      \/ ~stdin.pending /\ ~EscapeAt(r, n + 1) THEN {n + 1} ELSE {})
        /\ Meant(keys) \subseteq 1..n
        /\ stdin.pending => Meant(keys) \subseteq 1..(n - 1)
        /\ (\E i \in 1..(n + 1) : AbortAt(r, i))
             <=> (\E i \in 1..n : AbortAt(keys, i)) \/ (stdin.pending /\ b = ".")
    BY <1>1, <1>2, MeantNext
  <2>7. Selects(shown, r, Meant(keys))
    BY <1>1, <1>4, <2>6, SelectsLonger
  <2> HIDE DEF r, n, shown
  <2>8. stdin.pending => ~EscapeAt(r, n + 1)
    BY <2>4, <2>5 DEF LineEnds
  <2>9. ASSUME NEW q \in Seq(Typed),
               stdin' \in [atStart : BOOLEAN, pending : BOOLEAN, aborted : BOOLEAN,
                           out : Seq(Typed)],
               stdin'.out = stdin.out \o q,
               stdin'.pending <=> EscapeAt(r, n + 1),
               ~stdin'.pending /\ ~stdin'.aborted => (stdin'.atStart <=> b \in LineEnds),
               stdin'.aborted <=> stdin.pending /\ b = ".",
               Selects(shown \o q, r, Meant(r))
        PROVE  KeysInv'
    <3>1. keys' = r /\ sent' = sent
      BY <2>1, <2>2 DEF r
    <3>2. sent' \o stdin'.out = shown \o q
      BY <1>1, <2>9, <3>1 DEF shown
    <3>3. stdin'.aborted <=> \E i \in 1..(n + 1) : AbortAt(r, i)
      BY <1>4, <2>2, <2>6, <2>9
    <3>4. EscapesFound'
      BY <2>3, <2>9, <3>1, <3>2, <3>3 DEF EscapesFound
    <3>5. /\ stdin'.pending <=> Len(keys') > 0 /\ EscapeAt(keys', Len(keys'))
          /\ ~stdin'.pending /\ ~stdin'.aborted
               => (stdin'.atStart <=> keys' = <<>> \/ keys'[Len(keys')] \in LineEnds)
      <4>1. Len(keys') = n + 1 /\ n + 1 > 0 /\ keys'[n + 1] = b /\ keys' # <<>>
        BY <1>1, <2>3, <3>1
      <4> QED
        BY <2>9, <3>1, <4>1
    <3> QED
      BY <1>1, <2>3, <2>9, <3>1, <3>4, <3>5 DEF KeysInv
  <2>10. ASSUME NEW out \in Seq(Typed), NEW places, places \subseteq 1..n,
                Selects(out, r, places)
         PROVE  Selects(out \o <<b>>, r, places \cup {n + 1})
    <3> DEFINE m == n + 1
    <3>1. m \in 1..Len(r) /\ 1..n = 1..(m - 1) /\ r[m] = b
      BY <1>1, <2>3
    <3>2. Append(out, b) = out \o <<b>>
      BY <2>3, <2>10
    <3> HIDE DEF m
    <3>3. Selects(Append(out, r[m]), r, places \cup {m})
      BY <2>3, <2>10, <3>1, SelectsNext
    <3> QED
      BY <3>1, <3>2, <3>3 DEF m
  <2>11. ASSUME NEW q \in Seq(Typed), stdin' = Sends(stdin, q, b)
         PROVE  /\ stdin' \in [atStart : BOOLEAN, pending : BOOLEAN, aborted : BOOLEAN,
                               out : Seq(Typed)]
                /\ stdin'.out = stdin.out \o q
                /\ ~stdin'.pending /\ ~stdin'.aborted
                /\ stdin'.atStart <=> b \in LineEnds
    <3>1. stdin.out \o q \in Seq(Typed)
      BY <1>1, <2>11
    <3> DEFINE start == b \in LineEnds
    <3>2. start \in BOOLEAN
      OBVIOUS
    <3>3. stdin' = [stdin EXCEPT !.out = stdin.out \o q, !.pending = FALSE,
                                 !.atStart = start]
      BY <2>11 DEF Sends
    <3> HIDE DEF start
    <3>4. /\ stdin' \in [atStart : BOOLEAN, pending : BOOLEAN, aborted : BOOLEAN,
                         out : Seq(Typed)]
          /\ stdin'.out = stdin.out \o q /\ stdin'.atStart = start
          /\ stdin'.pending = FALSE /\ stdin'.aborted = stdin.aborted
      BY <1>1, <3>1, <3>2, <3>3
    <3> QED
      BY <2>2, <3>4 DEF start
  <2>12. shown \o <<>> = shown /\ stdin.out \o <<>> = stdin.out /\ <<>> \in Seq(Typed)
    BY <1>1
  <2>13. CASE stdin.pending /\ b = "."
    <3>1. stdin' = [stdin EXCEPT !.pending = FALSE, !.aborted = TRUE]
      BY <2>1, <2>13 DEF TypedKey
    <3>2. Meant(r) = Meant(keys)
      BY <2>6, <2>13
    <3>3. /\ stdin' \in [atStart : BOOLEAN, pending : BOOLEAN, aborted : BOOLEAN,
                         out : Seq(Typed)]
          /\ stdin'.out = stdin.out /\ ~stdin'.pending /\ stdin'.aborted
      BY <1>1, <3>1
    <3> QED
      BY <2>7, <2>8, <2>9, <2>12, <2>13, <3>2, <3>3
  <2>14. CASE stdin.pending /\ b = "~"
    <3>1. stdin' = Sends(stdin, <<b>>, b) /\ <<b>> \in Seq(Typed)
      BY <2>1, <2>3, <2>14 DEF TypedKey
    <3>2. Meant(r) = Meant(keys) \cup {n + 1} /\ Meant(keys) \subseteq 1..n
      BY <2>6, <2>14
    <3>3. Selects(shown \o <<b>>, r, Meant(r))
      BY <1>1, <2>7, <2>10, <3>2
    <3> QED
      BY <2>8, <2>9, <2>11, <2>14, <3>1, <3>3
  <2>15. CASE stdin.pending /\ b \notin {"~", "."}
    <3>1. stdin' = Sends(stdin, <<"~", b>>, b) /\ <<"~", b>> \in Seq(Typed)
      <4>1. stdin' = Sends(stdin, <<"~", b>>, b)
        BY <2>1, <2>15 DEF TypedKey
      <4>2. <<"~", b>> = <<"~">> \o <<b>> /\ <<"~">> \in Seq(Typed) /\ <<b>> \in Seq(Typed)
        BY <2>3
      <4> QED
        BY <4>1, <4>2
    <3>2. /\ Meant(r) = (Meant(keys) \cup {n}) \cup {n + 1}
          /\ Meant(keys) \subseteq 1..(n - 1)
          /\ n \in 1..Len(r) /\ r[n] = "~"
      BY <1>1, <2>3, <2>5, <2>6, <2>15
    <3>3. /\ Selects(Append(shown, r[n]), r, Meant(keys) \cup {n})
          /\ Meant(keys) \cup {n} \subseteq 1..n
      BY <1>1, <2>3, <2>7, <3>2, SelectsNext
    <3>4. Append(shown, r[n]) \in Seq(Typed)
      BY <1>1, <2>3, <3>2
    <3>5. Selects(Append(shown, r[n]) \o <<b>>, r, Meant(r))
      BY <2>10, <3>2, <3>3, <3>4
    <3>6. Append(shown, r[n]) \o <<b>> = shown \o <<"~", b>>
      <4>1. Append(shown, r[n]) = shown \o <<"~">> /\ <<"~", b>> = <<"~">> \o <<b>>
        BY <1>1, <2>3, <3>2
      <4>2. <<"~">> \in Seq(Typed) /\ <<b>> \in Seq(Typed)
        BY <2>3
      <4>3. (shown \o <<"~">>) \o <<b>> = shown \o (<<"~">> \o <<b>>)
        BY <1>1, <4>2, ConcatAssociative
      <4> QED
        BY <4>1, <4>3
    <3> QED
      BY <2>8, <2>9, <2>11, <2>15, <3>1, <3>5, <3>6
  <2>16. CASE ~stdin.pending /\ stdin.atStart /\ b = "~"
    <3>1. stdin' = [stdin EXCEPT !.pending = TRUE]
      BY <2>1, <2>16 DEF TypedKey
    <3>2. EscapeAt(r, n + 1)
      BY <1>3, <2>2, <2>4, <2>16
    <3>3. Meant(r) = Meant(keys)
      BY <2>6, <2>16, <3>2
    <3>4. /\ stdin' \in [atStart : BOOLEAN, pending : BOOLEAN, aborted : BOOLEAN,
                         out : Seq(Typed)]
          /\ stdin'.out = stdin.out /\ stdin'.pending /\ stdin'.aborted = stdin.aborted
      BY <1>1, <3>1
    <3> QED
      BY <2>2, <2>7, <2>9, <2>12, <2>16, <3>2, <3>3, <3>4
  <2>17. CASE ~stdin.pending /\ ~(stdin.atStart /\ b = "~")
    <3>1. stdin' = Sends(stdin, <<b>>, b) /\ <<b>> \in Seq(Typed)
      BY <2>1, <2>3, <2>17 DEF TypedKey
    <3>2. ~EscapeAt(r, n + 1)
      BY <1>3, <2>2, <2>4, <2>17
    <3>3. Meant(r) = Meant(keys) \cup {n + 1} /\ Meant(keys) \subseteq 1..n
      BY <2>6, <2>17, <3>2
    <3>4. Selects(shown \o <<b>>, r, Meant(r))
      BY <1>1, <2>7, <2>10, <3>3
    <3> QED
      BY <2>9, <2>11, <2>17, <3>1, <3>2, <3>4
  <2> QED
    BY <1>1, <2>13, <2>14, <2>15, <2>16, <2>17
<1>6. CASE ReadEnds
  <2>1. /\ sent' = shown /\ stdin' = [stdin EXCEPT !.out = <<>>] /\ keys' = keys
        /\ ~stdin.aborted
    BY <1>6 DEF ReadEnds, NextRead
  <2>2. /\ stdin'.out = <<>> /\ stdin'.pending = stdin.pending
        /\ stdin'.aborted = stdin.aborted /\ stdin'.atStart = stdin.atStart
        /\ stdin' \in [atStart : BOOLEAN, pending : BOOLEAN, aborted : BOOLEAN,
                       out : Seq(Typed)]
    <3>1. <<>> \in Seq(Typed)
      OBVIOUS
    <3> QED
      BY <1>1, <2>1, <3>1
  <2>3. sent' \o stdin'.out = shown
    BY <1>1, <2>1, <2>2
  <2>4. EscapesFound'
    BY <1>4, <2>1, <2>2, <2>3 DEF EscapesFound
  <2> QED
    BY <1>1, <1>2, <1>3, <2>1, <2>2, <2>4 DEF KeysInv
<1>7. CASE UNCHANGED stdinVars
  BY <1>7 DEF KeysInv, EscapesFound, stdinVars
<1> QED
  BY <1>5, <1>6, <1>7 DEF StdinSteps

-----------------------------------------------------------------------------
(* The alt-screen *)

\* A sequence that is begun at i of s and goes on to the end of s[i..j].
Params(s, i, j) == Opens(s, i) /\ \A k \in (i + 3)..j : s[k] \in ParmBytes

\* The rest of a sequence grows with it.
LEMMA SubSeqNext ==
  ASSUME NEW T, NEW s \in Seq(T), NEW b \in T, NEW m \in 1..(Len(s) + 1)
  PROVE  /\ SubSeq(Append(s, b), m, Len(s) + 1) = Append(SubSeq(s, m, Len(s)), b)
         /\ SubSeq(s, m, Len(s)) \in Seq(T)
         /\ Len(SubSeq(s, m, Len(s))) = (Len(s) + 1) - m
<1> DEFINE r == Append(s, b)
           n == Len(s)
           old == SubSeq(s, m, n)
           new == SubSeq(r, m, n + 1)
<1>1. /\ n \in Nat /\ Len(r) = n + 1 /\ r \in Seq(T) /\ r[n + 1] = b
      /\ \A i \in 1..n : r[i] = s[i] /\ s[i] \in T
      /\ \A i \in 1..(n + 1) : r[i] \in T
      /\ m \in Int /\ m >= 1 /\ m <= n + 1
  OBVIOUS
<1> HIDE DEF r, n
<1>2. /\ old \in Seq(T) /\ Len(old) = (n + 1) - m
      /\ \A i \in 1..((n + 1) - m) : old[i] = s[m + i - 1]
  <2>1. \A i \in m..n : s[i] \in T
    BY <1>1
  <2>2. /\ old \in Seq(T) /\ Len(old) = IF m <= n THEN n - m + 1 ELSE 0
        /\ \A i \in 1..(n - m + 1) : old[i] = s[m + i - 1]
    BY <1>1, <2>1, SubSeqProperties
  <2>3. n - m + 1 = (n + 1) - m /\ (~(m <= n) => (n + 1) - m = 0)
    BY <1>1
  <2> HIDE DEF old
  <2> QED
    BY <2>2, <2>3
<1>3. /\ new \in Seq(T) /\ Len(new) = (n + 2) - m
      /\ \A i \in 1..((n + 2) - m) : new[i] = r[m + i - 1]
  <2>1. \A i \in m..(n + 1) : r[i] \in T
    BY <1>1
  <2>2. /\ new \in Seq(T) /\ Len(new) = IF m <= n + 1 THEN (n + 1) - m + 1 ELSE 0
        /\ \A i \in 1..((n + 1) - m + 1) : new[i] = r[m + i - 1]
    BY <1>1, <2>1, SubSeqProperties
  <2>3. (n + 1) - m + 1 = (n + 2) - m /\ m <= n + 1
    BY <1>1
  <2> HIDE DEF new
  <2> QED
    BY <2>2, <2>3
<1> HIDE DEF old, new
<1>4. /\ Append(old, b) \in Seq(T) /\ Len(Append(old, b)) = (n + 2) - m
      /\ \A i \in 1..((n + 2) - m) : Append(old, b)[i] = new[i]
  <2>1. Append(old, b) \in Seq(T) /\ Len(Append(old, b)) = (n + 2) - m
    <3>1. Append(old, b) \in Seq(T) /\ Len(Append(old, b)) = Len(old) + 1
      BY <1>2, AppendProperties
    <3> QED
      BY <1>1, <1>2, <3>1
  <2>2. ASSUME NEW i \in 1..((n + 2) - m) PROVE Append(old, b)[i] = new[i]
    <3>1. new[i] = r[m + i - 1]
      BY <1>3
    <3>2. CASE i = (n + 2) - m
      <4>1. Append(old, b)[i] = b
        BY <1>1, <1>2, <3>2
      <4>2. m + i - 1 = n + 1
        BY <1>1, <3>2
      <4> QED
        BY <1>1, <3>1, <4>1, <4>2
    <3>3. CASE i # (n + 2) - m
      <4>1. i \in 1..((n + 1) - m) /\ m + i - 1 \in 1..n
        BY <1>1, <3>3
      <4>2. Append(old, b)[i] = old[i]
        BY <1>1, <1>2, <4>1
      <4>3. old[i] = s[m + i - 1] /\ r[m + i - 1] = s[m + i - 1]
        BY <1>1, <1>2, <4>1
      <4> QED
        BY <3>1, <4>2, <4>3
    <3> QED
      BY <3>2, <3>3
  <2> QED
    BY <2>1, <2>2
<1>5. Append(old, b) = new
  BY <1>3, <1>4, SeqEqual
<1> QED
  BY <1>2, <1>5 DEF old, new, r, n

\* What stands in front of the last byte does not change with it.
LEMMA SubSeqSame ==
  ASSUME NEW T, NEW s \in Seq(T), NEW b \in T, NEW m \in Int, m >= 1,
         NEW k \in Int, k <= Len(s)
  PROVE  SubSeq(Append(s, b), m, k) = SubSeq(s, m, k)
<1> DEFINE r == Append(s, b)
<1>1. \A i \in m..k : s[i] \in T /\ r[i] \in T /\ r[i] = s[i]
  OBVIOUS
<1> HIDE DEF r
<1>2. /\ SubSeq(s, m, k) \in Seq(T) /\ SubSeq(r, m, k) \in Seq(T)
      /\ Len(SubSeq(s, m, k)) = IF m <= k THEN k - m + 1 ELSE 0
      /\ Len(SubSeq(r, m, k)) = IF m <= k THEN k - m + 1 ELSE 0
      /\ \A i \in 1..(k - m + 1) : SubSeq(s, m, k)[i] = s[m + i - 1]
      /\ \A i \in 1..(k - m + 1) : SubSeq(r, m, k)[i] = r[m + i - 1]
  BY <1>1, SubSeqProperties
<1>3. ASSUME NEW i \in 1..Len(SubSeq(s, m, k))
      PROVE  SubSeq(s, m, k)[i] = SubSeq(r, m, k)[i]
  <2>1. m <= k
    BY <1>2
  <2>2. i \in 1..(k - m + 1) /\ m + i - 1 \in m..k
    BY <1>2, <2>1
  <2> QED
    BY <1>1, <1>2, <2>2
<1>4. SubSeq(s, m, k) = SubSeq(r, m, k)
  BY <1>2, <1>3, SeqEqual
<1> QED
  BY <1>4 DEF r

\* The parameters the scanner keeps, byte by byte.
LEMMA KeptNext ==
  ASSUME NEW T, NEW p \in Seq(T), NEW b \in T
  PROVE  /\ Kept(p) \in Seq(T)
         /\ Len(Kept(p)) = IF Len(p) < ParmMax THEN Len(p) ELSE ParmMax
         /\ Kept(Append(p, b)) = IF Len(Kept(p)) < ParmMax THEN Append(Kept(p), b)
                                                           ELSE Kept(p)
<1> DEFINE n == Len(p)
           r == Append(p, b)
<1>1. ParmMax \in Nat /\ ParmMax > 0
  BY FiltersAssumption
<1>2. /\ n \in Nat /\ Len(r) = n + 1
      /\ \A i \in 1..n : p[i] \in T
  OBVIOUS
<1>3. CASE n < ParmMax
  <2>1. Kept(p) = p
    BY <1>3 DEF Kept
  <2>2. Kept(r) = r
    <3>1. (IF n + 1 < ParmMax THEN n + 1 ELSE ParmMax) = n + 1
      BY <1>1, <1>2, <1>3
    <3>2. SubSeq(r, 1, n + 1) = r
      BY <1>2
    <3> HIDE DEF r, n
    <3> QED
      BY <1>2, <3>1, <3>2 DEF Kept
  <2> QED
    BY <1>3, <2>1, <2>2
<1>4. CASE ~(n < ParmMax)
  <2>1. Kept(p) = SubSeq(p, 1, ParmMax)
    BY <1>4 DEF Kept
  <2>2. Kept(r) = SubSeq(r, 1, ParmMax)
    <3>1. ~(n + 1 < ParmMax)
      BY <1>1, <1>2, <1>4
    <3> HIDE DEF r, n
    <3> QED
      BY <1>2, <3>1 DEF Kept
  <2>3. SubSeq(r, 1, ParmMax) = SubSeq(p, 1, ParmMax)
    BY <1>1, <1>4, SubSeqSame
  <2>4. SubSeq(p, 1, ParmMax) \in Seq(T) /\ Len(SubSeq(p, 1, ParmMax)) = ParmMax
    <3>1. \A i \in 1..ParmMax : p[i] \in T
      BY <1>1, <1>2, <1>4
    <3>2. /\ SubSeq(p, 1, ParmMax) \in Seq(T)
          /\ Len(SubSeq(p, 1, ParmMax)) = IF 1 <= ParmMax THEN ParmMax - 1 + 1 ELSE 0
      BY <1>1, <3>1, SubSeqProperties
    <3> QED
      BY <1>1, <3>2
  <2> HIDE DEF r
  <2>5. Kept(p) \in Seq(T) /\ Len(Kept(p)) = ParmMax /\ Kept(r) = Kept(p)
    BY <2>1, <2>2, <2>3, <2>4
  <2> QED
    BY <1>1, <1>4, <2>5 DEF r
<1> QED
  BY <1>3, <1>4

\* Bytes that could be part of a sequence.
Part == {"esc", "[", "?"} \cup ParmBytes

\* What the next byte does to the sequences that are begun, and to those that
\* are complete.
LEMMA ParamsNext ==
  ASSUME NEW T, NEW s \in Seq(T), NEW b \in T
  PROVE  LET r == Append(s, b)
             n == Len(s)
         IN /\ \A i \in 1..n : Fresh(r, i) <=> Fresh(s, i)
            /\ Fresh(r, n + 1) <=> n = 0 \/ s[n] \notin Part
            /\ \A i \in 1..n : i + 2 <= n
                 => (Params(r, i, n + 1) <=> Params(s, i, n) /\ b \in ParmBytes)
            /\ \A i \in 1..n : i + 1 = n
                 => (Params(r, i, n + 1) <=> s[i] = "esc" /\ s[n] = "[" /\ b = "?")
<1> DEFINE r == Append(s, b)
           n == Len(s)
<1>1. /\ n \in Nat /\ Len(r) = n + 1 /\ r[n + 1] = b
      /\ \A i \in 1..n : r[i] = s[i]
  OBVIOUS
<1> HIDE DEF r, n
<1>2. ASSUME NEW i \in 1..n PROVE Fresh(r, i) <=> Fresh(s, i)
  <2>1. i # 1 => i - 1 \in 1..n
    BY <1>1
  <2> QED
    BY <1>1, <2>1 DEF Fresh
<1>3. Fresh(r, n + 1) <=> n = 0 \/ s[n] \notin Part
  <2> DEFINE prev == (n + 1) - 1
  <2>1. prev = n /\ (n + 1 = 1 <=> n = 0) /\ (n # 0 => r[n] = s[n])
    BY <1>1
  <2>2. Fresh(r, n + 1) <=> n + 1 = 1 \/ r[prev] \notin Part
    BY DEF Fresh, Part
  <2> HIDE DEF prev
  <2> QED
    BY <2>1, <2>2
<1>4. ASSUME NEW i \in 1..n, i + 2 <= n
      PROVE  Params(r, i, n + 1) <=> Params(s, i, n) /\ b \in ParmBytes
  <2>1. i \in 1..n /\ i + 1 \in 1..n /\ i + 2 \in 1..n
    BY <1>1, <1>4
  <2>2. Opens(r, i) <=> Opens(s, i)
    BY <1>1, <2>1 DEF Opens
  <2>3. ASSUME NEW k \in (i + 3)..n PROVE r[k] = s[k]
    BY <1>1, <1>4
  <2>4. /\ n + 1 \in (i + 3)..(n + 1)
        /\ \A k \in (i + 3)..(n + 1) : k = n + 1 \/ k \in (i + 3)..n
        /\ \A k \in (i + 3)..n : k \in (i + 3)..(n + 1)
    BY <1>1, <1>4
  <2>5. (\A k \in (i + 3)..(n + 1) : r[k] \in ParmBytes)
          <=> (\A k \in (i + 3)..n : s[k] \in ParmBytes) /\ b \in ParmBytes
    BY <1>1, <2>3, <2>4
  <2> QED
    BY <2>2, <2>5 DEF Params
<1>5. ASSUME NEW i \in 1..n, i + 1 = n
      PROVE  Params(r, i, n + 1) <=> s[i] = "esc" /\ s[n] = "[" /\ b = "?"
  <2>1. i + 2 = n + 1 /\ r[i] = s[i] /\ r[n] = s[n] /\ (i + 3)..(n + 1) = {}
    BY <1>1, <1>5
  <2>2. Opens(r, i) <=> s[i] = "esc" /\ s[n] = "[" /\ b = "?"
    BY <1>1, <1>5, <2>1 DEF Opens
  <2> QED
    BY <2>1, <2>2 DEF Params
<1> QED
  BY <1>2, <1>3, <1>4, <1>5 DEF r, n

\* A byte completes sequences that end with it, and no others.
LEMMA SwitchesNext ==
  ASSUME NEW T, NEW s \in Seq(T), NEW b \in T
  PROVE  LET r == Append(s, b)
             n == Len(s)
         IN /\ \A i, j \in 1..n : Switches(r, i, j) <=> Switches(s, i, j)
            /\ \A i \in 1..n : Switches(r, i, n + 1)
                 <=> /\ i + 2 <= n /\ Params(s, i, n) /\ b \in {"h", "l"}
                     /\ NamesAltScreen(Kept(SubSeq(s, i + 3, n)))
            /\ \A j \in 1..(n + 1) : ~Switches(r, n + 1, j)
<1> DEFINE r == Append(s, b)
           n == Len(s)
<1>1. /\ n \in Nat /\ Len(r) = n + 1 /\ r[n + 1] = b
      /\ \A i \in 1..n : r[i] = s[i]
  OBVIOUS
<1>2. \A m, k \in Int : m >= 1 /\ k <= n => SubSeq(r, m, k) = SubSeq(s, m, k)
  BY SubSeqSame
<1> HIDE DEF r, n
<1>3. ASSUME NEW i \in 1..n, NEW j \in 1..n
      PROVE  Switches(r, i, j) <=> Switches(s, i, j)
  <2>1. CASE ~(j > i + 3)
    BY <2>1 DEF Switches
  <2>2. CASE j > i + 3
    <3>1. /\ i + 1 \in 1..n /\ i + 2 \in 1..n /\ i + 3 \in Int /\ j - 1 \in Int
          /\ i + 3 >= 1 /\ j - 1 <= n
          /\ \A k \in (i + 3)..(j - 1) : k \in 1..n
      BY <1>1, <2>2
    <3>2. SubSeq(r, i + 3, j - 1) = SubSeq(s, i + 3, j - 1)
      BY <1>2, <3>1
    <3>3. (Opens(r, i) <=> Opens(s, i)) /\ r[j] = s[j]
      BY <1>1, <3>1 DEF Opens
    <3>4. \A k \in (i + 3)..(j - 1) : r[k] = s[k]
      BY <1>1, <3>1
    <3> QED
      BY <3>2, <3>3, <3>4 DEF Switches
  <2> QED
    BY <2>1, <2>2
<1>4. ASSUME NEW i \in 1..n
      PROVE  Switches(r, i, n + 1)
               <=> /\ i + 2 <= n /\ Params(s, i, n) /\ b \in {"h", "l"}
                   /\ NamesAltScreen(Kept(SubSeq(s, i + 3, n)))
  <2> DEFINE last == (n + 1) - 1
  <2>1. last = n
    BY <1>1
  <2>2. Switches(r, i, n + 1)
          <=> /\ n + 1 > i + 3 /\ Opens(r, i)
              /\ \A k \in (i + 3)..last : r[k] \in ParmBytes
              /\ r[n + 1] \in {"h", "l"}
              /\ NamesAltScreen(Kept(SubSeq(r, i + 3, last)))
    BY DEF Switches
  <2> HIDE DEF last
  <2>3. CASE ~(i + 2 <= n)
    <3>1. ~(n + 1 > i + 3)
      BY <1>1, <2>3
    <3> QED
      BY <2>2, <2>3, <3>1
  <2>4. CASE i + 2 <= n
    <3>1. /\ i + 1 \in 1..n /\ i + 2 \in 1..n /\ i + 3 \in Int /\ i + 3 >= 1
          /\ n <= n /\ n \in Int
          /\ \A k \in (i + 3)..n : k \in 1..n
      BY <1>1, <2>4
    <3>2. SubSeq(r, i + 3, n) = SubSeq(s, i + 3, n)
      BY <1>2, <3>1
    <3>3. Opens(r, i) <=> Opens(s, i)
      BY <1>1, <3>1 DEF Opens
    <3>4. \A k \in (i + 3)..n : r[k] = s[k]
      BY <1>1, <3>1
    <3>5. NamesAltScreen(Kept(SubSeq(s, i + 3, n))) => n + 1 > i + 3
      <4> SUFFICES ASSUME n + 1 = i + 3
                   PROVE  ~NamesAltScreen(Kept(SubSeq(s, i + 3, n)))
        BY <1>1, <2>4
      <4>1. SubSeq(s, i + 3, n) = <<>>
        <5>1. n < i + 3
          BY <1>1
        <5> QED
          BY <3>1, <5>1, SubSeqEmpty
      <4>2. Len(Kept(<<>>)) = 0
        <5> DEFINE empty == <<>>
        <5>1. empty \in Seq(T) /\ Len(empty) = 0 /\ 0 < ParmMax
          BY FiltersAssumption
        <5> HIDE DEF empty
        <5>2. Len(Kept(empty)) = IF Len(empty) < ParmMax THEN Len(empty) ELSE ParmMax
          BY <5>1, KeptNext
        <5>3. Len(Kept(empty)) = 0
          BY <5>1, <5>2
        <5> QED
          BY <5>3 DEF empty
      <4>3. 1..(0 - 1) = {}
        OBVIOUS
      <4> QED
        BY <4>1, <4>2, <4>3 DEF NamesAltScreen
    <3> QED
      BY <1>1, <2>1, <2>2, <2>4, <3>2, <3>3, <3>4, <3>5 DEF Params
  <2> QED
    BY <2>3, <2>4
<1>5. ASSUME NEW j \in 1..(n + 1) PROVE ~Switches(r, n + 1, j)
  <2>1. ~(j > (n + 1) + 3)
    BY <1>1
  <2> QED
    BY <2>1 DEF Switches
<1> QED
  BY <1>3, <1>4, <1>5 DEF r, n

\* The automaton against the bytes scanned: it stands in a sequence only where
\* the output has one, and in each that is begun where nothing else is.
AutomatonInv(s, a) ==
  LET n == Len(s)
  IN /\ a.state = "esc" => n > 0 /\ s[n] = "esc"
     /\ a.state = "csi" => n > 1 /\ s[n - 1] = "esc" /\ s[n] = "["
     /\ a.state = "parm"
          => \E i \in 1..n : /\ i + 2 <= n /\ Params(s, i, n)
                             /\ a.parm = Kept(SubSeq(s, i + 3, n))
     /\ n = 0 \/ s[n] \notin Part => a.state = "idle"
     /\ \A i \in 1..n : Fresh(s, i)
          => /\ i = n /\ s[n] = "esc" => a.state = "esc"
             /\ i + 1 = n /\ s[i] = "esc" /\ s[n] = "[" => a.state = "csi"
             /\ i + 2 <= n /\ Params(s, i, n)
                  => a.state = "parm" /\ a.parm = Kept(SubSeq(s, i + 3, n))

States == {"idle", "esc", "csi", "parm"}
Events == {"none", "h", "l"}

\* AltScreenTracked, and where the automaton stands.
ScanInv ==
  /\ coming \in Seq(STRING) /\ output \in Seq(STRING) /\ inAlt \in BOOLEAN
  /\ scanner \in [state : States, parm : Seq(STRING), ev : Events]
  /\ AutomatonInv(output, scanner)
  /\ AltScreenTracked

\* One byte of the automaton.
LEMMA AutomatonNext ==
  ASSUME NEW T, NEW s \in Seq(T), NEW b \in T,
         NEW a \in [state : States, parm : Seq(T), ev : Events], AutomatonInv(s, a)
  PROVE  /\ ScanByte(a, b) \in [state : States, parm : Seq(T), ev : Events]
         /\ AutomatonInv(Append(s, b), ScanByte(a, b))
<1> DEFINE r == Append(s, b)
           n == Len(s)
           c == ScanByte(a, b)
<1>1. /\ n \in Nat /\ Len(r) = n + 1 /\ r[n + 1] = b
      /\ \A i \in 1..n : r[i] = s[i]
  OBVIOUS
<1>2. /\ \A i \in 1..n : Fresh(r, i) <=> Fresh(s, i)
      /\ Fresh(r, n + 1) <=> n = 0 \/ s[n] \notin Part
      /\ \A i \in 1..n : i + 2 <= n
           => (Params(r, i, n + 1) <=> Params(s, i, n) /\ b \in ParmBytes)
      /\ \A i \in 1..n : i + 1 = n
           => (Params(r, i, n + 1) <=> s[i] = "esc" /\ s[n] = "[" /\ b = "?")
  BY ParamsNext
<1>3. \A i \in 1..n : i + 2 <= n
        => Kept(SubSeq(r, i + 3, n + 1))
             = IF Len(Kept(SubSeq(s, i + 3, n))) < ParmMax
               THEN Append(Kept(SubSeq(s, i + 3, n)), b)
               ELSE Kept(SubSeq(s, i + 3, n))
  <2> SUFFICES ASSUME NEW i \in 1..n, i + 2 <= n
               PROVE  Kept(SubSeq(r, i + 3, n + 1))
                        = IF Len(Kept(SubSeq(s, i + 3, n))) < ParmMax
                          THEN Append(Kept(SubSeq(s, i + 3, n)), b)
                          ELSE Kept(SubSeq(s, i + 3, n))
    OBVIOUS
  <2> DEFINE m == i + 3
  <2>1. m \in 1..(n + 1)
    BY <1>1
  <2> HIDE DEF m
  <2>2. /\ SubSeq(r, m, n + 1) = Append(SubSeq(s, m, n), b)
        /\ SubSeq(s, m, n) \in Seq(T)
    BY <2>1, SubSeqNext
  <2> HIDE DEF r, n
  <2>3. Kept(SubSeq(r, m, n + 1))
          = IF Len(Kept(SubSeq(s, m, n))) < ParmMax
            THEN Append(Kept(SubSeq(s, m, n)), b)
            ELSE Kept(SubSeq(s, m, n))
    <3> DEFINE p == SubSeq(s, m, n)
    <3>1. p \in Seq(T) /\ SubSeq(r, m, n + 1) = Append(p, b)
      BY <2>2
    <3> HIDE DEF p
    <3>2. Kept(Append(p, b)) = IF Len(Kept(p)) < ParmMax THEN Append(Kept(p), b)
                                                         ELSE Kept(p)
      BY <3>1, KeptNext
    <3> QED
      BY <3>1, <3>2 DEF p
  <2> QED
    BY <2>3 DEF m
<1>4. \A i \in 1..n : i + 1 = n => Kept(SubSeq(r, i + 3, n + 1)) = <<>>
  <2> SUFFICES ASSUME NEW i \in 1..n, i + 1 = n
               PROVE  Kept(SubSeq(r, i + 3, n + 1)) = <<>>
    OBVIOUS
  <2>1. i + 3 \in Int /\ n + 1 \in Int /\ n + 1 < i + 3
    BY <1>1
  <2> HIDE DEF r, n
  <2>2. SubSeq(r, i + 3, n + 1) = <<>>
    BY <2>1, SubSeqEmpty
  <2>3. Kept(<<>>) = <<>>
    BY FiltersAssumption DEF Kept
  <2> QED
    BY <2>2, <2>3
<1> HIDE DEF r, n
<1>5. /\ a.state = "esc" => n > 0 /\ s[n] = "esc"
      /\ a.state = "csi" => n > 1 /\ s[n - 1] = "esc" /\ s[n] = "["
      /\ a.state = "parm"
           => \E i \in 1..n : /\ i + 2 <= n /\ Params(s, i, n)
                              /\ a.parm = Kept(SubSeq(s, i + 3, n))
      /\ n = 0 \/ s[n] \notin Part => a.state = "idle"
      /\ \A i \in 1..n : Fresh(s, i)
           => /\ i = n /\ s[n] = "esc" => a.state = "esc"
              /\ i + 1 = n /\ s[i] = "esc" /\ s[n] = "[" => a.state = "csi"
              /\ i + 2 <= n /\ Params(s, i, n)
                   => a.state = "parm" /\ a.parm = Kept(SubSeq(s, i + 3, n))
  BY DEF AutomatonInv, n
<1>6. /\ a.state \in States /\ a.parm \in Seq(T) /\ a.ev \in Events
      /\ Append(a.parm, b) \in Seq(T) /\ <<>> \in Seq(T)
  OBVIOUS
<1>7. /\ c \in [state : States, parm : Seq(T), ev : Events]
      /\ a.state = "idle" => c.state = IF b = "esc" THEN "esc" ELSE "idle"
      /\ a.state = "esc" => c.state = IF b = "[" THEN "csi" ELSE "idle"
      /\ a.state = "csi" => c.state = IF b = "?" THEN "parm" ELSE "idle"
      /\ a.state = "csi" /\ b = "?" => c.parm = <<>>
      /\ a.state = "parm" => c.state = IF b \in ParmBytes THEN "parm" ELSE "idle"
      /\ a.state = "parm" /\ b \in ParmBytes
           => c.parm = IF Len(a.parm) < ParmMax THEN Append(a.parm, b) ELSE a.parm
  <2>1. CASE a.state = "idle"
    BY <1>6, <2>1 DEF ScanByte, Moved, States
  <2>2. CASE a.state = "esc"
    BY <1>6, <2>2 DEF ScanByte, Moved, States
  <2>3. CASE a.state = "csi" /\ b = "?"
    BY <1>6, <2>3 DEF ScanByte, Moved, States
  <2>4. CASE a.state = "csi" /\ b # "?"
    BY <1>6, <2>4 DEF ScanByte, Moved, States
  <2>5. CASE a.state = "parm" /\ b \in ParmBytes
    BY <1>6, <2>5 DEF ScanByte, Moved, States
  <2>6. CASE a.state = "parm" /\ b \notin ParmBytes
    BY <1>6, <2>6 DEF ScanByte, Moved, States, Events
  <2> QED
    BY <1>6, <2>1, <2>2, <2>3, <2>4, <2>5, <2>6 DEF States
<1> HIDE DEF c
<1>8. /\ c.state = "esc" => n + 1 > 0 /\ r[n + 1] = "esc"
      /\ c.state = "csi" => n + 1 > 1 /\ r[(n + 1) - 1] = "esc" /\ r[n + 1] = "["
  <2>1. c.state = "esc" => b = "esc"
    BY <1>6, <1>7 DEF States
  <2>2. c.state = "csi" => b = "[" /\ a.state = "esc"
    BY <1>6, <1>7 DEF States
  <2>3. n > 0 => (n + 1) - 1 \in 1..n /\ (n + 1) - 1 = n /\ r[n] = s[n]
    BY <1>1
  <2> QED
    BY <1>1, <1>5, <2>1, <2>2, <2>3
<1>9. ASSUME c.state = "parm"
      PROVE  \E i \in 1..(n + 1) : /\ i + 2 <= n + 1 /\ Params(r, i, n + 1)
                                   /\ c.parm = Kept(SubSeq(r, i + 3, n + 1))
  <2>1. CASE a.state = "parm" /\ b \in ParmBytes
    <3>1. PICK i \in 1..n : /\ i + 2 <= n /\ Params(s, i, n)
                            /\ a.parm = Kept(SubSeq(s, i + 3, n))
      BY <1>5, <2>1
    <3>2. Params(r, i, n + 1)
      BY <1>2, <2>1, <3>1
    <3>3. c.parm = Kept(SubSeq(r, i + 3, n + 1))
      BY <1>3, <1>7, <2>1, <3>1
    <3>4. i \in 1..(n + 1) /\ i + 2 <= n + 1
      BY <1>1, <3>1
    <3> QED
      BY <3>2, <3>3, <3>4
  <2>2. CASE a.state = "csi" /\ b = "?"
    <3>1. n - 1 \in 1..n /\ (n - 1) + 1 = n /\ s[n - 1] = "esc" /\ s[n] = "["
      BY <1>1, <1>5, <2>2
    <3> DEFINE i == n - 1
    <3>2. i \in 1..n /\ i + 1 = n /\ s[i] = "esc" /\ i + 2 <= n + 1 /\ i \in 1..(n + 1)
      BY <1>1, <3>1
    <3> HIDE DEF i
    <3>3. Params(r, i, n + 1)
      BY <1>2, <2>2, <3>1, <3>2
    <3>4. c.parm = Kept(SubSeq(r, i + 3, n + 1))
      BY <1>4, <1>7, <2>2, <3>2
    <3> QED
      BY <3>2, <3>3, <3>4
  <2> QED
    BY <1>6, <1>7, <1>9, <2>1, <2>2 DEF States
<1>10. ~(n + 1 = 0) /\ (r[n + 1] \notin Part => c.state = "idle")
  <2>1. b \notin Part => b # "esc" /\ b # "[" /\ b # "?" /\ b \notin ParmBytes
    BY DEF Part
  <2> QED
    BY <1>1, <1>6, <1>7, <2>1 DEF States
<1>11. ASSUME NEW i \in 1..(n + 1), Fresh(r, i)
       PROVE  /\ i = n + 1 /\ r[n + 1] = "esc" => c.state = "esc"
              /\ i + 1 = n + 1 /\ r[i] = "esc" /\ r[n + 1] = "[" => c.state = "csi"
              /\ i + 2 <= n + 1 /\ Params(r, i, n + 1)
                   => c.state = "parm" /\ c.parm = Kept(SubSeq(r, i + 3, n + 1))
  <2>1. CASE i = n + 1
    <3>1. a.state = "idle"
      BY <1>2, <1>5, <1>11, <2>1
    <3> QED
      BY <1>1, <1>7, <2>1, <3>1
  <2>2. CASE i = n
    <3>1. i \in 1..n /\ r[i] = s[i] /\ Fresh(s, i)
      BY <1>1, <1>2, <1>11, <2>2
    <3>2. r[i] = "esc" => a.state = "esc"
      BY <1>5, <2>2, <3>1
    <3> QED
      BY <1>1, <1>7, <2>2, <3>2
  <2>3. CASE i + 1 = n
    <3>1. i \in 1..n /\ Fresh(s, i) /\ i # n + 1 /\ i + 1 # n + 1
      BY <1>1, <1>2, <1>11, <2>3
    <3>2. ASSUME Params(r, i, n + 1)
          PROVE  c.state = "parm" /\ c.parm = Kept(SubSeq(r, i + 3, n + 1))
      <4>1. s[i] = "esc" /\ s[n] = "[" /\ b = "?"
        BY <1>2, <2>3, <3>1, <3>2
      <4>2. a.state = "csi"
        BY <1>5, <2>3, <3>1, <4>1
      <4> QED
        BY <1>4, <1>7, <2>3, <3>1, <4>1, <4>2
    <3> QED
      BY <3>1, <3>2
  <2>4. CASE i + 2 <= n
    <3>1. i \in 1..n /\ Fresh(s, i) /\ i # n + 1 /\ i + 1 # n + 1
      BY <1>1, <1>2, <1>11, <2>4
    <3>2. ASSUME Params(r, i, n + 1)
          PROVE  c.state = "parm" /\ c.parm = Kept(SubSeq(r, i + 3, n + 1))
      <4>1. Params(s, i, n) /\ b \in ParmBytes
        BY <1>2, <2>4, <3>1, <3>2
      <4>2. a.state = "parm" /\ a.parm = Kept(SubSeq(s, i + 3, n))
        BY <1>5, <2>4, <3>1, <4>1
      <4> QED
        BY <1>3, <1>7, <2>4, <3>1, <4>1, <4>2
    <3> QED
      BY <3>1, <3>2
  <2> QED
    BY <1>1, <2>1, <2>2, <2>3, <2>4
<1>12. AutomatonInv(r, c)
  BY <1>1, <1>8, <1>9, <1>10, <1>11 DEF AutomatonInv
<1> QED
  BY <1>7, <1>12 DEF r, c

\* The event of the byte: it comes exactly when a sequence ends with it, in an
\* output in which each is begun where nothing else is.
LEMMA EventNext ==
  ASSUME NEW T, NEW s \in Seq(T), NEW b \in T,
         NEW a \in [state : States, parm : Seq(T), ev : Events], AutomatonInv(s, a),
         Plain(Append(s, b))
  PROVE  LET r == Append(s, b)
             n == Len(s)
             c == ScanByte(a, b)
         IN \/ /\ c.ev = b /\ b \in {"h", "l"}
               /\ \E i \in 1..(n + 1) : <<i, n + 1>> \in Switched(r)
            \/ /\ c.ev = a.ev
               /\ Switched(r) = Switched(s)
<1> DEFINE r == Append(s, b)
           n == Len(s)
           c == ScanByte(a, b)
<1>1. /\ n \in Nat /\ Len(r) = n + 1 /\ r[n + 1] = b
      /\ n + 1 \in 1..(n + 1) /\ 1..n \subseteq 1..(n + 1)
      /\ \A i \in 1..(n + 1) : i \in 1..n \/ i = n + 1
  OBVIOUS
<1>2. /\ \A i, j \in 1..n : Switches(r, i, j) <=> Switches(s, i, j)
      /\ \A i \in 1..n : Switches(r, i, n + 1)
           <=> /\ i + 2 <= n /\ Params(s, i, n) /\ b \in {"h", "l"}
               /\ NamesAltScreen(Kept(SubSeq(s, i + 3, n)))
      /\ \A j \in 1..(n + 1) : ~Switches(r, n + 1, j)
  BY SwitchesNext
<1>3. \A i \in 1..n : Fresh(r, i) <=> Fresh(s, i)
  BY ParamsNext
<1>4. /\ a.state = "parm"
           => \E i \in 1..n : /\ i + 2 <= n /\ Params(s, i, n)
                              /\ a.parm = Kept(SubSeq(s, i + 3, n))
      /\ \A i \in 1..n : Fresh(s, i) /\ i + 2 <= n /\ Params(s, i, n)
           => a.state = "parm" /\ a.parm = Kept(SubSeq(s, i + 3, n))
  BY DEF AutomatonInv
<1> DEFINE ends == a.state = "parm" /\ b \in {"h", "l"} /\ NamesAltScreen(a.parm)
<1>5. c.ev = IF ends THEN b ELSE a.ev
  <2>1. a.state \in States /\ (b \in {"h", "l"} => b \notin ParmBytes)
    BY DEF ParmBytes
  <2>2. CASE ends
    BY <2>1, <2>2 DEF ScanByte
  <2>3. CASE ~ends
    BY <2>1, <2>3 DEF ScanByte, Moved, States
  <2> QED
    BY <2>2, <2>3
<1> HIDE DEF r, n, c
<1>6. Switched(r) = {ij \in (1..(n + 1)) \X (1..(n + 1)) : Switches(r, ij[1], ij[2])}
  BY <1>1 DEF Switched
<1>7. Switched(s) = {ij \in (1..n) \X (1..n) : Switches(s, ij[1], ij[2])}
  BY DEF Switched, n
<1>8. ASSUME ends
      PROVE  \E i \in 1..(n + 1) : <<i, n + 1>> \in Switched(r)
  <2>1. PICK i \in 1..n : /\ i + 2 <= n /\ Params(s, i, n)
                          /\ a.parm = Kept(SubSeq(s, i + 3, n))
    BY <1>4, <1>8
  <2>2. Switches(r, i, n + 1)
    BY <1>2, <1>8, <2>1
  <2>3. <<i, n + 1>> \in (1..(n + 1)) \X (1..(n + 1))
    BY <1>1
  <2>4. <<i, n + 1>> \in Switched(r)
    BY <1>6, <2>2, <2>3
  <2> QED
    BY <1>1, <2>4
<1>9. ASSUME ~ends PROVE Switched(r) = Switched(s)
  <2>1. ASSUME NEW i \in 1..n PROVE ~Switches(r, i, n + 1)
    <3> SUFFICES ASSUME Switches(r, i, n + 1) PROVE FALSE
      OBVIOUS
    <3>1. /\ i + 2 <= n /\ Params(s, i, n) /\ b \in {"h", "l"}
          /\ NamesAltScreen(Kept(SubSeq(s, i + 3, n)))
      BY <1>2
    <3>2. <<i, n + 1>> \in Switched(r)
      <4>1. <<i, n + 1>> \in (1..(n + 1)) \X (1..(n + 1))
        BY <1>1
      <4> QED
        BY <1>6, <4>1
    <3>3. Fresh(r, <<i, n + 1>>[1])
      BY <3>2, Zenon DEF Plain, r
    <3>4. Fresh(s, i)
      BY <1>3, <3>3
    <3>5. a.state = "parm" /\ a.parm = Kept(SubSeq(s, i + 3, n))
      BY <1>4, <3>1, <3>4
    <3> QED
      BY <1>9, <3>1, <3>5
  <2>2. ASSUME NEW i \in 1..(n + 1), NEW j \in 1..(n + 1), Switches(r, i, j)
        PROVE  i \in 1..n /\ j \in 1..n /\ Switches(s, i, j)
    <3>1. i # n + 1
      BY <1>2, <2>2
    <3>2. j # n + 1
      BY <1>1, <2>1, <2>2, <3>1
    <3> QED
      BY <1>1, <1>2, <2>2, <3>1, <3>2
  <2>3. ASSUME NEW i \in 1..n, NEW j \in 1..n, Switches(s, i, j)
        PROVE  i \in 1..(n + 1) /\ j \in 1..(n + 1) /\ Switches(r, i, j)
    BY <1>1, <1>2, <2>3
  <2> HIDE DEF ends
  <2>4. Switched(r) \subseteq Switched(s)
    BY <1>6, <1>7, <2>2
  <2>5. Switched(s) \subseteq Switched(r)
    BY <1>6, <1>7, <2>3
  <2> QED
    BY <2>4, <2>5
<1> HIDE DEF ends
<1>10. CASE ends
  <2>1. b \in {"h", "l"}
    BY <1>10 DEF ends
  <2> QED
    BY <1>5, <1>8, <1>10, <2>1 DEF r, n, c
<1>11. CASE ~ends
  BY <1>5, <1>9, <1>11 DEF r, n, c
<1> QED
  BY <1>10, <1>11

\* Plain is no less true of what was scanned before.
LEMMA PlainBefore ==
  ASSUME NEW T, NEW s \in Seq(T), NEW b \in T, Plain(Append(s, b))
  PROVE  Plain(s)
<1> DEFINE r == Append(s, b)
           n == Len(s)
<1>1. Len(r) = n + 1 /\ 1..n \subseteq 1..(n + 1)
  OBVIOUS
<1>2. \A i, j \in 1..n : Switches(r, i, j) <=> Switches(s, i, j)
  BY SwitchesNext
<1>3. \A i \in 1..n : Fresh(r, i) <=> Fresh(s, i)
  BY ParamsNext
<1>4. \A ij \in Switched(r) : Fresh(r, ij[1])
  BY DEF Plain
<1> HIDE DEF r
<1>5. ASSUME NEW ij \in Switched(s) PROVE Fresh(s, ij[1])
  <2>1. /\ ij \in (1..n) \X (1..n) /\ ij[1] \in 1..n /\ ij[2] \in 1..n
        /\ Switches(s, ij[1], ij[2])
    BY DEF Switched
  <2> HIDE DEF n
  <2>2. ij \in (1..(n + 1)) \X (1..(n + 1)) /\ Switches(r, ij[1], ij[2])
    BY <1>1, <1>2, <2>1
  <2>3. ij \in Switched(r)
    BY <1>1, <2>2 DEF Switched
  <2> QED
    BY <1>3, <1>4, <2>1, <2>3
<1> QED
  BY <1>5 DEF Plain

\* The automaton begins idle, in front of an empty output.
LEMMA ScanStart == ScanInit => ScanInv
<1> SUFFICES ASSUME ScanInit PROVE ScanInv
  OBVIOUS
<1>1. /\ coming = <<>> /\ output = <<>> /\ inAlt = FALSE
      /\ scanner = [state |-> "idle", parm |-> <<>>, ev |-> "none"]
  BY DEF ScanInit, NewScanner
<1>2. Len(output) = 0 /\ 1..0 = {}
  BY <1>1
<1>3. AutomatonInv(output, scanner)
  BY <1>1, <1>2 DEF AutomatonInv
<1>4. Switched(output) = {}
  BY <1>2 DEF Switched
<1>5. ~InAltAfter /\ ~SwitchedOn(output)
  BY <1>1, <1>4 DEF InAltAfter, SwitchedOn
<1>6. InAltAfter \in BOOLEAN /\ SwitchedOn(output) \in BOOLEAN
  BY <1>1 DEF InAltAfter, SwitchedOn
<1>7. AltScreenTracked
  BY <1>5, <1>6 DEF AltScreenTracked
<1>8. /\ coming \in Seq(STRING) /\ output \in Seq(STRING) /\ inAlt \in BOOLEAN
      /\ scanner \in [state : States, parm : Seq(STRING), ev : Events]
  <2> DEFINE T == STRING
  <2>1. "none" \in Events /\ "idle" \in States
    BY DEF States, Events
  <2> HIDE DEF T
  <2>2. <<>> \in Seq(T)
    OBVIOUS
  <2>3. scanner \in [state : States, parm : Seq(T), ev : Events]
    BY <1>1, <2>1, <2>2
  <2> QED
    BY <1>1, <2>2, <2>3 DEF T
<1> QED
  BY <1>3, <1>7, <1>8 DEF ScanInv

\* Every write, every byte scanned, and every end of a Scan.
LEMMA ScanInvNext ==
  ASSUME ScanInv, ScanSteps \/ UNCHANGED scanVars
  PROVE  ScanInv'
<1>1. /\ coming \in Seq(STRING) /\ output \in Seq(STRING) /\ inAlt \in BOOLEAN
      /\ scanner \in [state : States, parm : Seq(STRING), ev : Events]
      /\ AutomatonInv(output, scanner)
      /\ AltScreenTracked
  BY DEF ScanInv
<1>2. CASE Write
  <2>1. PICK p \in Writes : coming' = p
    BY <1>2 DEF Write
  <2>2. UNCHANGED <<output, scanner, inAlt>>
    BY <1>2 DEF Write
  <2>3. coming' \in Seq(STRING)
    BY <2>1, FiltersAssumption
  <2> QED
    BY <1>1, <2>2, <2>3 DEF ScanInv, AltScreenTracked, InAltAfter
<1>3. CASE ScanReturns
  <2>1. /\ inAlt' = InAltAfter /\ scanner' = [scanner EXCEPT !.ev = "none"]
        /\ coming' = coming /\ output' = output
    BY <1>3 DEF ScanReturns, NextScan
  <2>2. /\ scanner'.state = scanner.state /\ scanner'.parm = scanner.parm
        /\ scanner'.ev = "none"
        /\ scanner' \in [state : States, parm : Seq(STRING), ev : Events]
    <3> DEFINE T == STRING
    <3>1. "none" \in Events /\ scanner \in [state : States, parm : Seq(T), ev : Events]
      BY <1>1 DEF Events
    <3> HIDE DEF T
    <3>2. /\ scanner'.state = scanner.state /\ scanner'.parm = scanner.parm
          /\ scanner'.ev = "none"
          /\ scanner' \in [state : States, parm : Seq(T), ev : Events]
      BY <2>1, <3>1
    <3> QED
      BY <3>2 DEF T
  <2>3. InAltAfter' = InAltAfter /\ inAlt' \in BOOLEAN
    BY <1>1, <2>1, <2>2 DEF InAltAfter
  <2>4. AltScreenTracked'
    BY <1>1, <2>1, <2>3 DEF AltScreenTracked
  <2>5. AutomatonInv(output', scanner')
    BY <1>1, <2>1, <2>2 DEF AutomatonInv
  <2> QED
    BY <1>1, <2>1, <2>2, <2>3, <2>4, <2>5 DEF ScanInv
<1>4. CASE ScanNext
  <2> DEFINE b == Head(coming)
  <2>1. /\ coming # <<>> /\ scanner' = ScanByte(scanner, b)
        /\ output' = Append(output, b) /\ coming' = Tail(coming) /\ inAlt' = inAlt
    BY <1>4 DEF ScanNext
  <2>2. b \in STRING /\ coming' \in Seq(STRING)
    BY <1>1, <2>1, HeadTailProperties
  <2> HIDE DEF b
  <2>3. output' \in Seq(STRING)
    BY <1>1, <2>1, <2>2, AppendProperties
  <2>4. /\ scanner' \in [state : States, parm : Seq(STRING), ev : Events]
        /\ AutomatonInv(output', scanner')
    BY <1>1, <2>1, <2>2, AutomatonNext
  <2>5. ASSUME Plain(output') PROVE InAltAfter' = SwitchedOn(output')
    <3>1. Plain(output)
      BY <1>1, <2>1, <2>2, <2>5, PlainBefore
    <3>2. InAltAfter = SwitchedOn(output)
      BY <1>1, <3>1 DEF AltScreenTracked
    <3> DEFINE n == Len(output)
    <3>3. \/ /\ scanner'.ev = b /\ b \in {"h", "l"}
             /\ \E i \in 1..(n + 1) : <<i, n + 1>> \in Switched(output')
          \/ /\ scanner'.ev = scanner.ev
             /\ Switched(output') = Switched(output)
      <4> DEFINE T == STRING
      <4>1. /\ output \in Seq(T) /\ b \in T
            /\ scanner \in [state : States, parm : Seq(T), ev : Events]
        BY <1>1, <2>2
      <4> HIDE DEF T
      <4>2. AutomatonInv(output, scanner) /\ Plain(Append(output, b))
        BY <1>1, <2>1, <2>5
      <4> QED
        BY <2>1, <4>1, <4>2, EventNext
    <3>4. /\ n \in Nat /\ Len(output') = n + 1 /\ output'[n + 1] = b
          /\ \A i \in 1..n : output'[i] = output[i]
      BY <1>1, <2>1, <2>2
    <3> HIDE DEF n
    <3>5. CASE /\ scanner'.ev = b /\ b \in {"h", "l"}
               /\ \E i \in 1..(n + 1) : <<i, n + 1>> \in Switched(output')
      <4>1. PICK i \in 1..(n + 1) : <<i, n + 1>> \in Switched(output')
        BY <3>5
      <4>2. \A ij \in Switched(output') : ij[2] \in 1..(n + 1)
        BY <3>4 DEF Switched
      <4>3. SwitchedOn(output') <=> b = "h"
        <5>1. ASSUME SwitchedOn(output') PROVE b = "h"
          <6>1. PICK ij \in Switched(output') :
                  /\ output'[ij[2]] = "h"
                  /\ \A other \in Switched(output') : other[2] <= ij[2]
            BY <5>1 DEF SwitchedOn
          <6>2. <<i, n + 1>>[2] <= ij[2] /\ <<i, n + 1>>[2] = n + 1
            BY <4>1, <6>1
          <6>3. ij[2] = n + 1
            BY <3>4, <4>2, <6>2
          <6> QED
            BY <3>4, <6>1, <6>3
        <5>2. ASSUME b = "h" PROVE SwitchedOn(output')
          <6>1. <<i, n + 1>>[2] = n + 1
            OBVIOUS
          <6>2. \A other \in Switched(output') : other[2] <= n + 1
            BY <3>4, <4>2
          <6> QED
            BY <3>4, <4>1, <5>2, <6>1, <6>2 DEF SwitchedOn
        <5> QED
          BY <5>1, <5>2
      <4>4. InAltAfter' = (b = "h")
        BY <3>5 DEF InAltAfter
      <4>5. SwitchedOn(output') \in BOOLEAN
        BY DEF SwitchedOn
      <4> QED
        BY <4>3, <4>4, <4>5
    <3>6. CASE scanner'.ev = scanner.ev /\ Switched(output') = Switched(output)
      <4>1. InAltAfter' = InAltAfter
        BY <2>1, <3>6 DEF InAltAfter
      <4>2. \A ij \in Switched(output) : output'[ij[2]] = output[ij[2]]
        BY <3>4 DEF Switched, n
      <4>3. SwitchedOn(output') = SwitchedOn(output)
        BY <3>6, <4>2 DEF SwitchedOn
      <4> QED
        BY <3>2, <4>1, <4>3
    <3> QED
      BY <3>3, <3>5, <3>6
  <2>6. AltScreenTracked'
    BY <2>5 DEF AltScreenTracked
  <2> QED
    BY <1>1, <2>1, <2>2, <2>3, <2>4, <2>6 DEF ScanInv
<1>5. CASE UNCHANGED scanVars
  BY <1>1, <1>5 DEF ScanInv, AltScreenTracked, InAltAfter, scanVars
<1> QED
  BY <1>2, <1>3, <1>4, <1>5 DEF ScanSteps

-----------------------------------------------------------------------------
(* What the algorithms are shown to do *)

\* ResendFrom (internal/chunk) returns the largest chunk boundary that is
\* adequate, for all histories of any length, any chunk size, and whatever of
\* their hashes the two sides have trimmed: nothing the peer lacks is left
\* out, and not one complete chunk too many is sent.
THEOREM ResendIsLargestAdequate == Spec => []ResendsFromLargestAdequate
<1>1. Init => HistoryInv
  BY HistoryInit
<1>2. HistoryInv /\ [Next]_vars => HistoryInv'
  BY HistoryNext
<1>3. HistoryInv => ResendsFromLargestAdequate
  BY LargestAdequate
<1> QED
  BY <1>1, <1>2, <1>3, PTL DEF Spec

\* No step of one filter touches another.
LEMMA FilterSteps ==
  [FilterNext]_filterVars =>
    /\ ScanSteps \/ UNCHANGED scanVars
    /\ StdinSteps \/ UNCHANGED stdinVars
    /\ TerminalSteps \/ UNCHANGED terminalVars
BY DEF FilterNext, filterVars

\* altscreen.Scanner, with pumpPTY and handleOutputFrame that keep the event
\* of each Scan: wherever a Write of any length is cut into Scans, and however
\* many parameters the scanner keeps, inAltScreen says what the last sequence
\* of the whole output says.
THEOREM AltScreenIsTracked == FilterSpec => []AltScreenTracked
<1>1. FilterInit => ScanInv
  BY ScanStart DEF FilterInit
<1>2. ScanInv /\ [FilterNext]_filterVars => ScanInv'
  BY ScanInvNext, FilterSteps
<1>3. ScanInv => AltScreenTracked
  BY DEF ScanInv
<1> QED
  BY <1>1, <1>2, <1>3, PTL DEF FilterSpec

\* readStdinForever and crlfTranslator: whatever is typed or printed and
\* wherever it is cut into reads and writes, ~. aborts exactly at the start of
\* a line, the remote gets the keys meant for it once and in order, and the
\* terminal gets CR LF for every bare LF and everything else as it is.
THEOREM TextIsFiltered == FilterSpec => []TextFiltered
<1>1. FilterInit => KeysInv /\ TerminalInv
  BY StdinStart, TerminalStart DEF FilterInit
<1>2. KeysInv /\ TerminalInv /\ [FilterNext]_filterVars => (KeysInv /\ TerminalInv)'
  BY StdinNext, TerminalNext, FilterSteps
<1>3. KeysInv /\ TerminalInv => TextFiltered
  BY DEF KeysInv, TerminalInv, TextFiltered
<1> QED
  BY <1>1, <1>2, <1>3, PTL DEF FilterSpec

\* The specification that is model-checked takes only steps of the two that
\* the theorems above are about.
THEOREM RunTakesTheirSteps == AllSpec => Spec /\ FilterSpec
<1>1. AllInit => Init /\ FilterInit
  BY DEF AllInit
<1>2. [AllNext]_allVars => [Next]_vars /\ [FilterNext]_filterVars
  BY DEF AllNext, allVars, vars, FilterNext, filterVars
<1> QED
  BY <1>1, <1>2, PTL DEF AllSpec, Spec, FilterSpec

=============================================================================
