---------------------------- MODULE PacketReader ----------------------------
(***************************************************************************)
(* What usb_ep0_prepare_descriptor promises its callers: call by call, the *)
(* bytes of an answer, in packets that are full except the last, and empty *)
(* packets when there is nothing left.                                     *)
(***************************************************************************)
EXTENDS Naturals, Sequences

CONSTANT PacketSize

VARIABLES rest,        \* the bytes that are still to be delivered
          packet       \* the packet delivered last

pvars == <<rest, packet>>

PInit == packet = <<>>

Deliver == LET n == IF Len(rest) < PacketSize THEN Len(rest) ELSE PacketSize IN
           /\ packet' = SubSeq(rest, 1, n)
           /\ rest' = SubSeq(rest, n + 1, Len(rest))

PSpec == PInit /\ [][Deliver]_pvars
=============================================================================
