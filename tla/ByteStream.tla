----------------------------- MODULE ByteStream -----------------------------
(***************************************************************************)
(* The data abstraction shared by the modules: a byte is named by its      *)
(* position in the stream the remote shell wrote, so the byte at offset k  *)
(* is the number k.  A byte delivered twice, skipped or displaced is then  *)
(* visible as a wrong number, whatever its value was.                      *)
(***************************************************************************)
EXTENDS Integers, Sequences

\* The bytes of the stream from offset lo up to, not including, hi.
Slice(lo, hi) == [i \in 1..(hi - lo) |-> lo + i - 1]

Lesser(a, b) == IF a <= b THEN a ELSE b

Greater(a, b) == IF a >= b THEN a ELSE b

=============================================================================
