---------------------------- MODULE ChunkProofs ----------------------------
(***************************************************************************)
(* What ResendFrom guarantees for manifests and chunk sizes of any size.   *)
(***************************************************************************)
EXTENDS Chunk, TLAPS, WellFoundedInduction

\* Manifests whose hashes are of any one set.
Manifest(Hash) == [firstIndex : Nat, hashes : Seq(Hash)]

\* Indices of the overlap whose hashes differ.
Bad(own, peer) == {i \in Overlap(own, peer) : HashOf(own, i) # HashOf(peer, i)}

LEMMA MinNat ==
  ASSUME NEW S, S \subseteq Nat, S # {}
  PROVE  Min(S) \in S /\ \A y \in S : Min(S) <= y
<1> DEFINE Below == OpToRel(<, Nat)
<1>1. Below = {ss \in Nat \X Nat : ss[1] < ss[2]}
  BY Zenon DEF OpToRel
<1>2. IsWellFoundedOn(Below, Nat)
  BY NatLessThanWellFounded, Zenon
<1> HIDE DEF Below
<1>3. PICK x \in S : \A y \in S : ~(<<y, x>> \in Below)
  BY <1>2, WFMin
<1>4. ASSUME NEW y \in S
      PROVE  x <= y
  <2>1. ~(<<y, x>> \in {ss \in Nat \X Nat : ss[1] < ss[2]})
    BY <1>1, <1>3, Zenon
  <2>2. x \in Nat /\ y \in Nat
    OBVIOUS
  <2> QED
    BY <2>1, <2>2, SMT
<1> QED
  BY <1>4 DEF Min

LEMMA EndsType ==
  ASSUME NEW Hash, NEW own \in Manifest(Hash), NEW peer \in Manifest(Hash)
  PROVE  /\ End(own) \in Nat /\ End(peer) \in Nat
         /\ OverlapEnd(own, peer) \in Nat
         /\ OverlapEnd(own, peer) <= End(own) /\ OverlapEnd(own, peer) <= End(peer)
         /\ Overlap(own, peer) \subseteq Nat
         /\ \A i \in Overlap(own, peer) : i < OverlapEnd(own, peer)
<1>1. /\ own.firstIndex \in Nat /\ peer.firstIndex \in Nat
      /\ Len(own.hashes) \in Nat /\ Len(peer.hashes) \in Nat
  BY DEF Manifest
<1>2. End(own) \in Nat /\ End(peer) \in Nat
  BY <1>1 DEF End
<1>3. /\ OverlapEnd(own, peer) \in Nat
      /\ OverlapEnd(own, peer) <= End(own) /\ OverlapEnd(own, peer) <= End(peer)
  BY <1>2 DEF OverlapEnd, Lesser
<1> QED
  BY <1>1, <1>2, <1>3 DEF Overlap, Greater

\* Divergent splits the overlap: equal below it, different at it.
LEMMA DivergentSplits ==
  ASSUME NEW Hash, NEW own \in Manifest(Hash), NEW peer \in Manifest(Hash)
  PROVE  /\ Divergent(own, peer) \in Nat
         /\ Divergent(own, peer) <= OverlapEnd(own, peer)
         /\ \A i \in Overlap(own, peer) :
              i < Divergent(own, peer) => HashOf(own, i) = HashOf(peer, i)
         /\ Divergent(own, peer) < OverlapEnd(own, peer)
              => Divergent(own, peer) \in Bad(own, peer)
<1> DEFINE S == Bad(own, peer) \cup {OverlapEnd(own, peer)}
<1>0. /\ OverlapEnd(own, peer) \in Nat /\ Overlap(own, peer) \subseteq Nat
      /\ \A i \in Overlap(own, peer) : i < OverlapEnd(own, peer)
  BY EndsType
<1>1. S \subseteq Nat /\ S # {}
  BY <1>0 DEF Bad
<1>2. Divergent(own, peer) = Min(S)
  BY DEF Divergent, Bad
<1>3. Min(S) \in S /\ \A y \in S : Min(S) <= y
  BY <1>1, MinNat
<1>4. ASSUME NEW i \in Overlap(own, peer), i < Min(S)
      PROVE  HashOf(own, i) = HashOf(peer, i)
  <2>1. i \notin S
    BY <1>0, <1>1, <1>3, <1>4
  <2> QED
    BY <2>1 DEF Bad
<1>5. Min(S) < OverlapEnd(own, peer) => Min(S) \in Bad(own, peer)
  BY <1>0, <1>1, <1>3
<1>6. Min(S) <= OverlapEnd(own, peer)
  BY <1>3
<1> HIDE DEF S
<1> QED
  BY <1>0, <1>1, <1>2, <1>3, <1>4, <1>5, <1>6

\* chunk.go, ResendFrom: for any two manifests the resend starts at or below
\* own's last complete chunk (the ragged-edge guard) and below the end of the
\* peer's complete chunks (a peer that holds all its chunks sees no gap);
\* every chunk that is not resent and can be compared is equal; and when it
\* starts below both bounds, the chunk it starts with does differ.
THEOREM ResendIsExact ==
  ASSUME NEW Hash, NEW own \in Manifest(Hash), NEW peer \in Manifest(Hash)
  PROVE  /\ ResendFrom(own, peer) \in Nat
         /\ ResendFrom(own, peer) <= LastChunkStart(own)
         /\ ResendFrom(own, peer) <= End(peer) * ChunkSize
         /\ \A i \in Overlap(own, peer) :
              i * ChunkSize < ResendFrom(own, peer)
                => HashOf(own, i) = HashOf(peer, i)
         /\ ResendFrom(own, peer) < LastChunkStart(own)
            /\ ResendFrom(own, peer) < OverlapEnd(own, peer) * ChunkSize
              => \E i \in Bad(own, peer) : ResendFrom(own, peer) = i * ChunkSize
<1> USE ChunkAssumption DEF ChunkAssumption
<1> DEFINE d == Divergent(own, peer)
           e == OverlapEnd(own, peer)
           p == End(peer)
           l == LastChunkStart(own)
           r == ResendFrom(own, peer)
<1>1. /\ d \in Nat /\ e \in Nat /\ p \in Nat /\ d <= e /\ e <= p
      /\ \A i \in Overlap(own, peer) : i \in Nat
      /\ \A i \in Overlap(own, peer) :
           i < d => HashOf(own, i) = HashOf(peer, i)
      /\ d < e => d \in Bad(own, peer)
  BY EndsType, DivergentSplits
<1>2. l \in Nat
  BY EndsType DEF LastChunkStart
<1>3. r = Lesser(l, d * ChunkSize)
  BY DEF ResendFrom
<1> HIDE DEF d, e, p, l, r
<1>4. /\ d * ChunkSize \in Nat /\ e * ChunkSize \in Nat /\ p * ChunkSize \in Nat
  BY <1>1
<1>5. \A a, b \in Nat : a < b <=> a * ChunkSize < b * ChunkSize
  OBVIOUS
<1>6. d * ChunkSize <= p * ChunkSize
  BY <1>1, <1>4, <1>5
<1>7. r \in Nat /\ r <= l /\ r <= d * ChunkSize
      /\ (r = l \/ r = d * ChunkSize)
  BY <1>2, <1>3, <1>4 DEF Lesser
<1>8. r <= p * ChunkSize
  BY <1>4, <1>6, <1>7
<1>9. ASSUME NEW i \in Overlap(own, peer), i * ChunkSize < r
      PROVE  HashOf(own, i) = HashOf(peer, i)
  <2>1. i \in Nat /\ i * ChunkSize \in Nat
    BY <1>1
  <2>2. i * ChunkSize < d * ChunkSize
    BY <1>4, <1>7, <1>9, <2>1
  <2> QED
    BY <1>1, <1>5, <2>1, <2>2
<1>10. ASSUME r < l, r < e * ChunkSize
       PROVE  \E i \in Bad(own, peer) : r = i * ChunkSize
  <2>1. r = d * ChunkSize
    BY <1>2, <1>7, <1>10
  <2>2. d < e
    BY <1>1, <1>5, <1>10, <2>1
  <2> QED
    BY <1>1, <2>1, <2>2
<1> QED
  BY <1>7, <1>8, <1>9, <1>10 DEF d, e, p, l, r

=============================================================================
