------------------------------ MODULE Delivery ------------------------------
(***************************************************************************)
(* What the wrapper promises of the output stream, with no connection,     *)
(* frame or goroutine in sight: the terminal shows the bytes the remote    *)
(* shell wrote, in order and each once, and the daemon frees a byte only   *)
(* after the terminal has shown it.                                        *)
(***************************************************************************)
EXTENDS ByteStream

VARIABLES
  total,   \* bytes the remote shell has written
  sealed,  \* it will write no more
  shown,   \* what has been written to the local terminal
  trim     \* bytes below this offset have been freed

dvars == <<total, sealed, shown, trim>>

DeliveryInit ==
  /\ total = 0
  /\ sealed = FALSE
  /\ shown = <<>>
  /\ trim = 0

Write ==
  /\ ~sealed
  /\ total' \in Nat /\ total' > total
  /\ UNCHANGED <<sealed, shown, trim>>

Finish ==
  /\ sealed' = TRUE
  /\ UNCHANGED <<total, shown, trim>>

Show ==
  /\ \E n \in (Len(shown) + 1)..total : shown' = shown \o Slice(Len(shown), n)
  /\ UNCHANGED <<total, sealed, trim>>

Free ==
  /\ trim' \in (trim + 1)..Len(shown)
  /\ UNCHANGED <<total, sealed, shown>>

DeliveryNext == Write \/ Finish \/ Show \/ Free

DeliverySpec == DeliveryInit /\ [][DeliveryNext]_dvars

=============================================================================
