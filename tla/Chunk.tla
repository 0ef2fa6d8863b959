------------------------------- MODULE Chunk -------------------------------
(***************************************************************************)
(* internal/chunk: where to resume an interrupted stream.  Each side       *)
(* describes the complete chunks it still has hashes of in a manifest;     *)
(* ResendFrom compares two manifests by absolute chunk index and picks the *)
(* offset its owner retransmits from.                                      *)
(*                                                                         *)
(* A hash is any value that is equal exactly when the chunks are (SHA-256  *)
(* is assumed free of collisions).                                         *)
(***************************************************************************)
EXTENDS ByteStream, FiniteSetsExt

CONSTANT ChunkSize

ASSUME ChunkAssumption == ChunkSize \in Nat \ {0}

\* One past the last absolute chunk index a manifest has a hash of.
End(man) == man.firstIndex + Len(man.hashes)

\* The hash of absolute chunk i.
HashOf(man, i) == man.hashes[i - man.firstIndex + 1]

\* The absolute indices of the chunks both sides have hashes of are Overlap;
\* OverlapEnd is the first index beyond them.
OverlapEnd(own, peer) == Lesser(End(own), End(peer))

Overlap(own, peer) ==
  Greater(own.firstIndex, peer.firstIndex)..(OverlapEnd(own, peer) - 1)

\* Mutants of Divergent: the peer is taken to hold all of own's chunks; the
\* newest mismatch is taken for the first.
PeerComplete(own, peer) == End(own)

LastDivergent(own, peer) ==
  LET bad == {i \in Overlap(own, peer) : HashOf(own, i) # HashOf(peer, i)}
  IN IF bad = {} THEN OverlapEnd(own, peer) ELSE Max(bad)

\* The first chunk of the overlap whose hashes differ; its end if none does.
Divergent(own, peer) ==
  Min({i \in Overlap(own, peer) : HashOf(own, i) # HashOf(peer, i)}
        \cup {OverlapEnd(own, peer)})

\* Mutant of LastChunkStart: the stream with no complete chunk is forgotten.
Unguarded(own) == (End(own) - 1) * ChunkSize

\* Where own's last complete chunk starts.
LastChunkStart(own) == IF End(own) > 0 THEN (End(own) - 1) * ChunkSize ELSE 0

ResendFrom(own, peer) ==
  Lesser(LastChunkStart(own), Divergent(own, peer) * ChunkSize)

=============================================================================
