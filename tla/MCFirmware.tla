----------------------------- MODULE MCFirmware -----------------------------
(***************************************************************************)
(* Control transfers at the firmware's own sizes: a 64-byte endpoint and   *)
(* the bit fields of three and five bits.  The layouts are the descriptors *)
(* of main.c, and a larger configuration of two full packets (two          *)
(* interfaces, the first with three children) that needs the final         *)
(* zero-length packet.                                                     *)
(***************************************************************************)
EXTENDS ControlTransfer

Interface(n, children) == [length |-> n, children |-> children]

MainLayout == [device |-> 18, config |-> 9, total |-> 18,
               interfaces |-> <<Interface(9, <<>>)>>]

TwoPacketLayout ==
    [device |-> 18, config |-> 9, total |-> 128,
     interfaces |-> <<Interface(9, <<7, 50, 34>>), Interface(9, <<10>>)>>]

MCLayouts == {MainLayout, TwoPacketLayout}

Request(type, request, value, length) ==
    [bmRequestType |-> type, bRequest |-> request, wValue |-> value,
     wIndex |-> 0, wLength |-> length]

(* What a host sends to enumerate the device, and a read of nothing.       *)
MCPacket ==
    { Request(0, 5, 1, 0), Request(0, 9, 1, 0),
      Request(128, 6, 256, 64), Request(128, 6, 256, 18),
      Request(128, 6, 512, 0), Request(128, 6, 512, 9), Request(128, 6, 512, 18),
      Request(128, 6, 512, 64), Request(128, 6, 512, 128), Request(128, 6, 512, 255) }
=============================================================================
