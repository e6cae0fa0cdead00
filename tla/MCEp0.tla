-------------------------------- MODULE MCEp0 --------------------------------
(***************************************************************************)
(* Endpoint 0 under every order of host packets and bus resets, with a     *)
(* four-byte buffer.  The layouts are one interface that fits a packet;    *)
(* two interfaces with children (one of them empty) that end on a packet   *)
(* boundary; a configuration whose wTotalLength promises more bytes than   *)
(* the hooks deliver; three interfaces, one more than the index can name,  *)
(* with empty descriptors before, between and after the others; and an     *)
(* interface with ChildSentinel children, which the walk repeats until     *)
(* wTotalLength is used up.                                                *)
(***************************************************************************)
EXTENDS Ep0

Interface(n, children) == [length |-> n, children |-> children]

MCLayouts ==
    { [device |-> 3, config |-> 1, total |-> 3, interfaces |-> <<Interface(2, <<>>)>>],
      [device |-> 3, config |-> 2, total |-> 8,
       interfaces |-> <<Interface(2, <<0, 3>>), Interface(1, <<>>)>>],
      [device |-> 3, config |-> 3, total |-> 9, interfaces |-> <<Interface(2, <<>>)>>],
      [device |-> 3, config |-> 1, total |-> 9,
       interfaces |-> <<Interface(0, <<0>>), Interface(2, <<0, 0>>), Interface(1, <<>>)>>],
      [device |-> 3, config |-> 1, total |-> 6,
       interfaces |-> <<Interface(0, <<0, 1, 0>>), Interface(1, <<>>)>>] }

Request(type, request, value, length) ==
    [bmRequestType |-> type, bRequest |-> request, wValue |-> value,
     wIndex |-> 0, wLength |-> length]

(* Requests the device accepts, with wLength none, short and long, and     *)
(* an address of 128, which it rejects.                                    *)
MCPacket ==
    { Request(0, 5, 1, 0), Request(0, 5, 127, 0), Request(0, 5, 128, 0),
      Request(0, 9, 1, 0), Request(128, 6, 256, 2),
      Request(128, 6, 512, 0), Request(128, 6, 512, 5), Request(128, 6, 512, 255) }
=============================================================================
