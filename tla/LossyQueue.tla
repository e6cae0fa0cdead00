----------------------------- MODULE LossyQueue -----------------------------
(***************************************************************************)
(* What the two receive rings of the firmware promise their users: a FIFO  *)
(* of bounded capacity that an interrupt handler fills without waiting and *)
(* the main program empties.  An item offered to a full queue is refused   *)
(* (usb_setup_fifo_push_isr returns false, the UART handler discards the   *)
(* byte); an item that was accepted is delivered once, whole and in order. *)
(***************************************************************************)
EXTENDS Naturals, Sequences

CONSTANTS Item,        \* what the queue holds
          Capacity     \* how many it can hold

VARIABLES q,           \* accepted and not yet delivered, oldest first
          accepted,    \* whether the last item offered was accepted
          received     \* the last item delivered

qvars == <<q, accepted, received>>

QInit == /\ q = <<>>
         /\ accepted \in BOOLEAN
         /\ received \in Item

Offer(x) == /\ Len(q) < Capacity
            /\ q' = Append(q, x)
            /\ accepted' = TRUE
            /\ UNCHANGED received

Refuse == /\ Len(q) = Capacity
          /\ accepted' = FALSE
          /\ UNCHANGED <<q, received>>

Deliver == /\ q # <<>>
           /\ received' = Head(q)
           /\ q' = Tail(q)
           /\ UNCHANGED accepted

QNext == (\E x \in Item : Offer(x)) \/ Refuse \/ Deliver

QSpec == QInit /\ [][QNext]_qvars
=============================================================================
