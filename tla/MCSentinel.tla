----------------------------- MODULE MCSentinel -----------------------------
(***************************************************************************)
(* An interface with 31 dependent descriptors, as many as leave the five   *)
(* bit child index at its largest value, which marks the configuration     *)
(* descriptor; and a second interface after it.                            *)
(***************************************************************************)
EXTENDS ControlTransfer

MCLayouts ==
    { [device |-> 18, config |-> 9, total |-> 89,
       interfaces |-> << [length |-> 9, children |-> [c \in 1 .. 31 |-> 2]],
                         [length |-> 9, children |-> <<>>] >>] }

MCPacket == { [bmRequestType |-> 128, bRequest |-> 6, wValue |-> 512,
               wIndex |-> 0, wLength |-> 255] }
=============================================================================
