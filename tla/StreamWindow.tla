---------------------------- MODULE StreamWindow ----------------------------
(***************************************************************************)
(* What internal/buffer promises its callers, with no RAM tail, segment    *)
(* file or hash in sight: an append-only byte stream of which the window   *)
(* trimOffset..total-1 is held, a read that returns exactly the bytes at   *)
(* the offset asked for, and a seal after which nothing is appended.       *)
(*                                                                         *)
(* Bytes are named by their position (ByteStream), so "the bytes at offset *)
(* off" is Slice(off, off + n).                                            *)
(***************************************************************************)
EXTENDS ByteStream

CONSTANTS
  Disk,       \* diskPrefix # "": nothing is dropped by an append
  MaxTotal,   \* bound on the length of the stream
  MaxAppend,  \* longest slice one Append adds
  MaxRead     \* longest slice one ReadAt asks for

VARIABLES
  total,       \* bytes appended so far
  trimOffset,  \* lowest offset still held
  sealed,      \* no append is accepted any more
  reply        \* what the last ReadAt returned

wvars == <<total, trimOffset, sealed, reply>>

NoReply == [off |-> 0, bytes |-> <<>>, err |-> "none"]

\* The answer the contract gives to a read of up to n bytes at off.
ReadReply(off, n) ==
  [ off   |-> off,
    bytes |-> IF off >= total \/ off < trimOffset THEN <<>>
              ELSE Slice(off, Lesser(off + n, total)),
    err   |-> IF off >= total THEN "EOF"
              ELSE IF off < trimOffset THEN "trimmed" ELSE "nil" ]

WindowInit ==
  /\ total = 0
  /\ trimOffset = 0
  /\ sealed = FALSE
  /\ reply = NoReply

\* Without a disk the oldest bytes fall off the window as new ones arrive.
WindowAppend ==
  /\ ~sealed
  /\ \E n \in 1..MaxAppend : total' = total + n
  /\ trimOffset' \in trimOffset..total'
  /\ Disk => trimOffset' = trimOffset
  /\ UNCHANGED <<sealed, reply>>

WindowTrim ==
  /\ trimOffset' \in trimOffset..total
  /\ UNCHANGED <<total, sealed, reply>>

WindowRead ==
  /\ \E off \in 0..MaxTotal, n \in 1..MaxRead : reply' = ReadReply(off, n)
  /\ UNCHANGED <<total, trimOffset, sealed>>

WindowSeal ==
  /\ sealed' = TRUE
  /\ UNCHANGED <<total, trimOffset, reply>>

WindowNext ==
  WindowAppend \/ WindowTrim \/ WindowRead \/ WindowSeal

WindowSpec == WindowInit /\ [][WindowNext]_wvars

=============================================================================
