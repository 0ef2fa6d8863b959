------------------------------- MODULE Buffer -------------------------------
(***************************************************************************)
(* internal/buffer: the append-only history of one output stream.  The     *)
(* newest RamTail bytes are in mem; what is older is spilled to segment    *)
(* files (Disk) or dropped (no-disk mode).  TrimTo frees what the client   *)
(* has acknowledged, ReadAt serves the streamer, WaitFor parks it, Close   *)
(* flushes the RAM tail so that a replay daemon finds the whole stream.    *)
(*                                                                         *)
(* Every method runs under b.mu, so one action is one method call; only    *)
(* WaitFor releases the lock, between its check and its sleep.             *)
(*                                                                         *)
(* A segment file is a record: the in-memory startOff and endOff, and the  *)
(* bytes really in the file, which a failed write leaves longer than       *)
(* endOff - startOff.  The segments are a set: their order is that of      *)
(* startOff, the number in the file name.                                  *)
(***************************************************************************)
EXTENDS ByteStream, FiniteSets

CONSTANTS
  Disk,         \* TRUE: diskPrefix # "" (daemon); FALSE: RAM only (client)
  DiskMayFail,  \* TRUE: a write or a rotation may fail (ENOSPC, EIO)
  RamTail, ChunkSize, SegmentSize,
  MaxTotal,     \* bound: length of the stream
  MaxAppend,    \* bound: bytes in one Append (32 KiB in pumpPTY)
  MaxRead       \* bound: bytes asked of one ReadAt (64 KiB in streamLoop)

ASSUME BufferAssumption ==
  /\ Disk \in BOOLEAN
  /\ DiskMayFail \in BOOLEAN
  /\ RamTail \in Nat \ {0}
  /\ ChunkSize \in Nat \ {0}
  /\ SegmentSize \in Nat \ {0}
  /\ MaxTotal \in Nat
  /\ MaxAppend \in Nat
  /\ MaxRead \in Nat

VARIABLES
  mem, memOffset,   \* the RAM tail and the offset of its first byte
  total,            \* bytes ever appended
  segments,         \* open segment files
  chunkHashes,      \* hashes of the held complete chunks, oldest first
  firstChunkIndex,  \* absolute index of chunkHashes[1]
  curHasher,        \* bytes hashed so far of the trailing partial chunk
  trimOffset,       \* lowest offset logically held
  notify,           \* identity of the current notify channel
  sealed,
  persisted,        \* segment files left on disk by Close
  closeErr,         \* the error Close returned
  phase,            \* "open", or how the buffer was closed
  failed,           \* history: an Append returned a spill error
  reply,            \* what the last ReadAt returned
  waiter            \* the goroutine inside WaitFor

disk == <<segments, persisted>>
hashes == <<chunkHashes, firstChunkIndex, curHasher>>
ram == <<mem, memOffset>>
lifecycle == <<persisted, closeErr, phase>>
vars == <<mem, memOffset, total, segments, chunkHashes, firstChunkIndex,
          curHasher, trimOffset, notify, sealed, persisted, closeErr, phase,
          failed, reply, waiter>>

Offsets == 0..MaxTotal

Segment == [startOff : Nat, endOff : Nat, file : Seq(Nat)]

NoReply == [off |-> 0, bytes |-> <<>>, err |-> "none"]

-----------------------------------------------------------------------------
(* Spilling *)

\* The active segment: the newest one, or the empty one rotate would create.
Active(segs, base) ==
  IF segs = {} THEN [startOff |-> base, endOff |-> base, file |-> <<>>]
  ELSE CHOOSE s \in segs : \A t \in segs : t.startOff <= s.startOff

\* The segments after the bytes p have been spilled: the active one is filled
\* up, and a new one is started every SegmentSize bytes.  The closed form of
\* the loop of spillToDisk and of the rotations inside it.
Spill(segs, base, p) ==
  LET act == Active(segs, base)
      end == act.endOff + Len(p)
      Filled(x) ==
        [ startOff |-> x,
          endOff   |-> Lesser(x + SegmentSize, end),
          file     |-> (IF x = act.startOff THEN act.file ELSE <<>>) \o
                       SubSeq(p, Greater(x, act.endOff) - act.endOff + 1,
                                 Lesser(x + SegmentSize, end) - act.endOff) ]
  IN IF p = <<>> THEN segs
     ELSE (segs \ {act}) \cup
          {Filled(x) : x \in {y \in act.startOff..(end - 1) :
                                (y - act.startOff) % SegmentSize = 0}}

\* The prefixes of p whose writes succeeded when a later step of the loop
\* fails: they end on a segment boundary.
SpillCuts(segs, base, p) ==
  LET act == Active(segs, base)
  IN {w \in 0..(Len(p) - 1) :
        w = 0 \/ (act.endOff + w - act.startOff) % SegmentSize = 0}

\* The write that follows the first w bytes fails and leaves k bytes behind
\* the file position; endOff is not advanced.
SpillTorn(segs, base, p, w, k) ==
  LET done == Spill(segs, base, SubSeq(p, 1, w))
      last == Active(done, base)
      tgt  == IF done = {} \/ last.endOff - last.startOff >= SegmentSize
              THEN [startOff |-> last.endOff, endOff |-> last.endOff,
                    file |-> <<>>]
              ELSE last
  IN (done \ {tgt}) \cup {[tgt EXCEPT !.file = @ \o SubSeq(p, w + 1, w + k)]}

\* What spillToDisk may leave when it returns an error: a rotation fails and
\* creates no file, or a write fails short of the bytes asked for.
SpillFailures(segs, base, p) ==
  LET act == Active(segs, base)
      Asked(w) == Lesser(Len(p) - w,
                    SegmentSize -
                      ((act.endOff + w - act.startOff) % SegmentSize))
  IN {Spill(segs, base, SubSeq(p, 1, w)) : w \in SpillCuts(segs, base, p)}
     \cup UNION {{SpillTorn(segs, base, p, w, k) : k \in 0..(Asked(w) - 1)} :
                   w \in SpillCuts(segs, base, p)}

-----------------------------------------------------------------------------
Init ==
  /\ mem = <<>> /\ memOffset = 0 /\ total = 0
  /\ segments = {} /\ persisted = {}
  /\ chunkHashes = <<>> /\ firstChunkIndex = 0 /\ curHasher = <<>>
  /\ trimOffset = 0
  /\ notify = 0 /\ sealed = FALSE
  /\ closeErr = FALSE /\ phase = "open" /\ failed = FALSE
  /\ reply = NoReply
  /\ waiter = [state |-> "idle", offset |-> 0, ch |-> 0]

\* Chunks completed once `all` is the content of the open chunk.
CompleteChunks(all) == Len(all) \div ChunkSize

\* Hash p incrementally: every ChunkSize bytes complete a chunk.  A hash is
\* modelled by the bytes hashed (no collisions).
HashIn(p) ==
  LET all == curHasher \o p
      k   == CompleteChunks(all)
  IN /\ chunkHashes' = chunkHashes \o
          [i \in 1..k |-> SubSeq(all, (i - 1) * ChunkSize + 1, i * ChunkSize)]
     /\ curHasher' = SubSeq(all, k * ChunkSize + 1, Len(all))
     /\ UNCHANGED firstChunkIndex

\* How far sliding the RAM window by spill bytes moves the trim point: in
\* no-disk mode the bytes are gone.
Dropped(spill) == IF Disk THEN 0 ELSE spill

\* Append of the next n bytes of the stream.
BufAppend(n) ==
  LET p     == Slice(total, total + n)
      m     == mem \o p
      spill == Greater(Len(m) - RamTail, 0)
  IN /\ phase = "open" /\ ~sealed /\ ~failed
     /\ total + n <= MaxTotal
     /\ HashIn(p)
     /\ total' = total + n
     /\ segments' = IF Disk THEN Spill(segments, memOffset, SubSeq(m, 1, spill))
                    ELSE segments
     /\ trimOffset' = trimOffset + Dropped(spill)
     /\ memOffset' = memOffset + spill
     /\ mem' = SubSeq(m, spill + 1, Len(m))
     /\ notify' = notify + 1
     /\ UNCHANGED <<sealed, lifecycle, failed, reply, waiter>>

\* Append whose spill fails: the bytes are hashed, counted and in mem, the
\* RAM window is not slid, part of the spill may be on disk, and nobody is
\* notified.  pumpPTY appends nothing after it.
AppendFails(n) ==
  LET p     == Slice(total, total + n)
      m     == mem \o p
      spill == Len(m) - RamTail
  IN /\ DiskMayFail /\ Disk
     /\ phase = "open" /\ ~sealed /\ ~failed
     /\ total + n <= MaxTotal
     /\ spill > 0
     /\ HashIn(p)
     /\ total' = total + n
     /\ mem' = m
     /\ segments' \in SpillFailures(segments, memOffset, SubSeq(m, 1, spill))
     /\ failed' = TRUE
     /\ UNCHANGED <<memOffset, trimOffset, notify, sealed, lifecycle, reply,
                    waiter>>

\* Mutants of Acked, StillHeld and WholeChunks: no clamp to the stream's end,
\* no file is unlinked, the file the trim point lies in is unlinked, a chunk
\* cut by the trim point counts as trimmed.
UnclampedAck(ack) == ack
NeverUnlinked(s, off) == TRUE
StraddlerUnlinked(s, off) == s.startOff >= off
StartedChunks(off) == (off + ChunkSize - 1) \div ChunkSize

\* An acknowledged offset may lie beyond the end of the stream.
Acked(ack) == Lesser(ack, total)

\* The file of segment s survives a trim to off.
StillHeld(s, off) == s.endOff > off

\* Chunks that lie wholly below off.
WholeChunks(off) == off \div ChunkSize

\* TrimTo: only an offset beyond the trim point has an effect.
TrimTo(ack) ==
  LET off       == Acked(ack)
      drop      == Lesser(off - memOffset, Len(mem))
      threshold == WholeChunks(off)
      hdrop     == Lesser(threshold - firstChunkIndex, Len(chunkHashes))
  IN /\ phase = "open"
     /\ ack > trimOffset
     /\ trimOffset' = off
     /\ segments' = {s \in segments : StillHeld(s, off)}
     /\ IF off > memOffset
        THEN /\ mem' = SubSeq(mem, drop + 1, Len(mem))
             /\ memOffset' = off
        ELSE UNCHANGED ram
     /\ IF threshold > firstChunkIndex
        THEN /\ chunkHashes' = SubSeq(chunkHashes, hdrop + 1, Len(chunkHashes))
             /\ firstChunkIndex' = firstChunkIndex + hdrop
             /\ UNCHANGED curHasher
        ELSE UNCHANGED hashes
     /\ UNCHANGED <<total, notify, sealed, lifecycle, failed, reply, waiter>>

\* Mutant of Containing: the half-open interval is read the wrong way round.
ContainingAfterStart(off) == {s \in segments : s.startOff < off /\ off <= s.endOff}

\* segmentContaining: the segments that claim to cover off.
Containing(off) == {s \in segments : s.startOff <= off /\ off < s.endOff}

\* The byte ReadAt copies for offset off: from the RAM tail, else from the
\* file of the covering segment.
ByteAt(off) ==
  IF off >= memOffset THEN mem[off - memOffset + 1]
  ELSE LET s == CHOOSE s \in Containing(off) :
                  \A t \in Containing(off) : s.startOff <= t.startOff
       IN s.file[off - s.startOff + 1]

\* ReadAt stops in front of the first offset below memOffset that no segment
\* covers.  (That a segment file cannot be opened or read, or is shorter than
\* its segment, is left out.)
ReadResult(off, n) ==
  LET want   == Lesser(off + n, total) - off
      Gap(i) == off + i - 1 < memOffset /\ Containing(off + i - 1) = {}
      gaps   == {i \in 1..want : Gap(i)}
  IN IF off >= total THEN [off |-> off, bytes |-> <<>>, err |-> "EOF"]
     ELSE IF off < trimOffset
     THEN [off |-> off, bytes |-> <<>>, err |-> "trimmed"]
     ELSE IF gaps = {}
     THEN [off |-> off, bytes |-> [i \in 1..want |-> ByteAt(off + i - 1)],
           err |-> "nil"]
     ELSE LET g == CHOOSE i \in gaps : \A j \in gaps : i <= j
          IN [off |-> off, bytes |-> [i \in 1..(g - 1) |-> ByteAt(off + i - 1)],
              err |-> "gap"]

ReadAt(off, n) ==
  /\ phase = "open"
  /\ reply' = ReadResult(off, n)
  /\ UNCHANGED <<ram, total, segments, hashes, trimOffset, notify, sealed,
                 lifecycle, failed, waiter>>

\* Seal closes the current notify channel without replacing it.
Seal ==
  /\ phase = "open" /\ ~sealed
  /\ sealed' = TRUE
  /\ UNCHANGED <<ram, total, segments, hashes, trimOffset, notify, lifecycle,
                 failed, reply, waiter>>

\* Mutant of Flushes: Close leaves the RAM tail where it is.
NeverFlushes(removeFile) == FALSE

\* Close writes the RAM tail out unless the files are to be removed.
Flushes(removeFile) == ~removeFile /\ mem # <<>> /\ Disk

\* Close, called once by the daemon after pump and attaches have ended.
\* removeFile unlinks the segments, else the RAM tail is flushed first.
Close(removeFile) ==
  LET flush == Flushes(removeFile)
  IN /\ phase = "open" /\ waiter.state = "idle"
     /\ sealed' = TRUE
     /\ phase' = IF removeFile THEN "removed" ELSE "kept"
     /\ segments' = {}
     /\ \/ /\ persisted' = IF removeFile THEN {}
                           ELSE IF flush THEN Spill(segments, memOffset, mem)
                           ELSE segments
           /\ closeErr' = FALSE
           /\ mem' = IF flush THEN <<>> ELSE mem
           /\ memOffset' = IF flush THEN memOffset + Len(mem) ELSE memOffset
        \/ /\ DiskMayFail /\ flush
           /\ persisted' \in SpillFailures(segments, memOffset, mem)
           /\ closeErr' = TRUE
           /\ UNCHANGED ram
     /\ UNCHANGED <<total, hashes, trimOffset, notify, failed, reply, waiter>>

-----------------------------------------------------------------------------
(* WaitFor: check under the lock, sleep on the channel seen, check again *)

\* Mutant of ChannelClosed: Seal sets the flag and closes no channel.
ClosedByAppendOnly(ch) == ch < notify

\* Every append replaces the channel; Seal closes the last one.
ChannelClosed(ch) == ch < notify \/ sealed

WaitFor(off) ==
  /\ phase = "open" /\ waiter.state = "idle"
  /\ off <= total
  /\ waiter' = [state |-> "check", offset |-> off, ch |-> 0]
  /\ UNCHANGED <<ram, total, segments, hashes, trimOffset, notify, sealed,
                 lifecycle, failed, reply>>

WaitCheck ==
  /\ waiter.state = "check"
  /\ waiter' = IF total > waiter.offset \/ sealed
               THEN [waiter EXCEPT !.state = "idle"]
               ELSE [waiter EXCEPT !.state = "asleep", !.ch = notify]
  /\ UNCHANGED <<ram, total, segments, hashes, trimOffset, notify, sealed,
                 lifecycle, failed, reply>>

WaitWake ==
  /\ waiter.state = "asleep"
  /\ ChannelClosed(waiter.ch)
  /\ waiter' = [waiter EXCEPT !.state = "check"]
  /\ UNCHANGED <<ram, total, segments, hashes, trimOffset, notify, sealed,
                 lifecycle, failed, reply>>

\* ctx.Done: the attach that owns the streamer was cancelled.
WaitCancel ==
  /\ waiter.state = "asleep"
  /\ waiter' = [waiter EXCEPT !.state = "idle"]
  /\ UNCHANGED <<ram, total, segments, hashes, trimOffset, notify, sealed,
                 lifecycle, failed, reply>>

Next ==
  \/ \E n \in 1..MaxAppend : BufAppend(n) \/ AppendFails(n)
  \/ \E off \in Offsets : TrimTo(off)
  \/ \E off \in Offsets, n \in 1..MaxRead : ReadAt(off, n)
  \/ Seal
  \/ \E removeFile \in BOOLEAN : Close(removeFile)
  \/ \E off \in Offsets : WaitFor(off)
  \/ WaitCheck \/ WaitWake \/ WaitCancel

Spec == Init /\ [][Next]_vars

\* Goroutines in WaitFor are scheduled; after a failed Append pumpPTY seals.
FairSpec ==
  /\ Spec
  /\ WF_vars(WaitCheck)
  /\ WF_vars(WaitWake)
  /\ WF_vars(failed /\ Seal)

-----------------------------------------------------------------------------
(* Properties *)

TypeOK ==
  /\ mem \in Seq(Nat) /\ memOffset \in Offsets /\ total \in Offsets
  /\ segments \subseteq Segment
  /\ ~failed => persisted \subseteq Segment
  /\ chunkHashes \in Seq(Seq(Nat))
  /\ firstChunkIndex \in Nat /\ curHasher \in Seq(Nat)
  /\ trimOffset \in Offsets
  /\ notify \in Nat /\ sealed \in BOOLEAN
  /\ closeErr \in BOOLEAN /\ phase \in {"open", "kept", "removed"}
  /\ failed \in BOOLEAN
  /\ reply \in [off : Offsets, bytes : Seq(Nat),
                err : {"none", "nil", "EOF", "trimmed", "gap"}]
  /\ waiter \in [state : {"idle", "check", "asleep"}, offset : Offsets,
                 ch : Nat]

\* The RAM tail holds exactly the newest bytes of the stream.
RamExact == mem = Slice(memOffset, total)

\* A file holds the bytes its segment claims, from the start of the file.
FileExact(s) ==
  /\ s.startOff <= s.endOff
  /\ s.endOff - s.startOff <= SegmentSize
  /\ Len(s.file) >= s.endOff - s.startOff
  /\ \A i \in 1..(s.endOff - s.startOff) : s.file[i] = s.startOff + i - 1

\* No held offset is lost between the segment files and the RAM tail, none is
\* in two files, and nothing below the trim point keeps a file alive.  This is
\* what ReadAt and the rotation arithmetic of spillToDisk rely on after any
\* mix of Append, TrimTo and a failed spill.
SegmentsTileHeldRange ==
  phase = "open" =>
    /\ RamExact
    /\ \A s \in segments : FileExact(s)
    /\ trimOffset <= memOffset
    /\ Disk => \A off \in trimOffset..(memOffset - 1) :
                  \E s \in segments : s.startOff <= off /\ off < s.endOff
    /\ \A s, t \in segments :
          s # t => s.endOff <= t.startOff \/ t.endOff <= s.startOff
    /\ ~failed => \A s \in segments : trimOffset < s.endOff
                                      /\ s.endOff <= memOffset

\* The manifest a HELLO_ACK is built from: the hash at position i is that of
\* the absolute chunk firstChunkIndex + i - 1, every complete chunk above the
\* trim point is there, and on disk (where only TrimTo trims) no fully trimmed
\* chunk is: the manifest stays as small as what is held.
ManifestAligned ==
  /\ \A i \in DOMAIN chunkHashes :
       LET c == firstChunkIndex + i - 1
       IN chunkHashes[i] = Slice(c * ChunkSize, (c + 1) * ChunkSize)
  /\ firstChunkIndex + Len(chunkHashes) = total \div ChunkSize
  /\ Len(curHasher) = total % ChunkSize
  /\ Disk => firstChunkIndex = trimOffset \div ChunkSize

\* The bytes in segment files, each by its segment and its place in the file.
StoredBytes == UNION {{s} \X (1..Len(s.file)) : s \in segments}

\* Package comment: disk usage is bounded by the held bytes plus at most one
\* segment of trim waste at the front of the oldest segment, whatever the
\* offsets TrimTo is called with.
TrimWasteBounded ==
  phase = "open" /\ ~failed =>
    Cardinality(StoredBytes) <= (memOffset - trimOffset) + SegmentSize

\* ScanSegments takes startOff + size as a segment's end: read back that way
\* the files tile lo..hi-1 with the right bytes.
ScannedExactly(segs, lo, hi) ==
  /\ \A s \in segs : s.file = Slice(s.startOff, s.startOff + Len(s.file))
  /\ \A off \in lo..(hi - 1) :
       \E s \in segs : s.startOff <= off /\ off < s.startOff + Len(s.file)
  /\ \A s, t \in segs :
       s.startOff < t.startOff => s.startOff + Len(s.file) <= t.startOff

\* After Close(false) returned no error the files hold what a replay needs,
\* provided no Append failed before it.
PersistedComplete ==
  Disk /\ phase = "kept" /\ ~closeErr /\ ~failed
    => ScannedExactly(persisted, trimOffset, total)

\* The buffer implements the window contract: seen through total, trimOffset,
\* sealed and the replies of ReadAt it is an exact, append-only window, also
\* when spills fail.
Window == INSTANCE StreamWindow

ImplementsWindow == Window!WindowSpec

\* No lost wakeup: a WaitFor whose condition has come true returns, although
\* the lock is released between its check and its sleep.
WaiterReturns ==
  (waiter.state # "idle" /\ (total > waiter.offset \/ sealed))
    ~> (waiter.state = "idle")

=============================================================================
