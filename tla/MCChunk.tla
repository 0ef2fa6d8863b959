------------------------------ MODULE MCChunk ------------------------------
(***************************************************************************)
(* ResendFrom over every pair of small histories.  The state is one input: *)
(* two byte histories over a two-letter alphabet (so that chunks repeat),  *)
(* and the number of leading hashes each side has trimmed.                 *)
(***************************************************************************)
EXTENDS Chunk

CONSTANTS
  Bytes,
  MaxLen  \* bound: length of a history

ASSUME LengthAssumption == MaxLen \in Nat

VARIABLES own, peer, ownFirst, peerFirst

vars == <<own, peer, ownFirst, peerFirst>>

Complete(s) == Len(s) \div ChunkSize

ChunkAt(s, i) == SubSeq(s, i * ChunkSize + 1, (i + 1) * ChunkSize)

ManifestOf(s, first) ==
  [firstIndex |-> first,
   hashes     |-> [i \in 1..(Complete(s) - first) |-> ChunkAt(s, first + i - 1)]]

Init ==
  /\ own = <<>> /\ peer = <<>>
  /\ ownFirst = 0 /\ peerFirst = 0

OwnGrows ==
  /\ Len(own) < MaxLen
  /\ \E b \in Bytes : own' = Append(own, b)
  /\ UNCHANGED <<peer, ownFirst, peerFirst>>

PeerGrows ==
  /\ Len(peer) < MaxLen
  /\ \E b \in Bytes : peer' = Append(peer, b)
  /\ UNCHANGED <<own, ownFirst, peerFirst>>

OwnTrims ==
  /\ ownFirst < Complete(own)
  /\ ownFirst' = ownFirst + 1
  /\ UNCHANGED <<own, peer, peerFirst>>

PeerTrims ==
  /\ peerFirst < Complete(peer)
  /\ peerFirst' = peerFirst + 1
  /\ UNCHANGED <<own, peer, ownFirst>>

Next == OwnGrows \/ PeerGrows \/ OwnTrims \/ PeerTrims

Spec == Init /\ [][Next]_vars

-----------------------------------------------------------------------------
OwnManifest == ManifestOf(own, ownFirst)
PeerManifest == ManifestOf(peer, peerFirst)

\* The reference: resending from chunk boundary b is adequate when b is not
\* beyond the start of own's last complete chunk nor beyond the peer's
\* complete chunks, and no chunk below b that both have hashes of differs.
Adequate(b) ==
  /\ b <= Greater(Complete(own) - 1, 0)
  /\ b <= Complete(peer)
  /\ \A i \in 0..(b - 1) :
       i >= ownFirst /\ i >= peerFirst => ChunkAt(own, i) = ChunkAt(peer, i)

\* ResendFrom resends everything it has to and not one chunk more: it is the
\* largest adequate boundary, whatever was trimmed on either side.
ResendsFromLargestAdequate ==
  LET adequate == {b \in 0..(MaxLen \div ChunkSize) : Adequate(b)}
  IN ResendFrom(OwnManifest, PeerManifest) = Max(adequate) * ChunkSize

=============================================================================
