-------------------------- MODULE MCControlTransfer --------------------------
(***************************************************************************)
(* Control transfers over a four-byte endpoint, with every kind of layout: *)
(* one packet or several, ends on and off a packet boundary, children      *)
(* (one empty), and a wTotalLength below and above what the hooks deliver. *)
(***************************************************************************)
EXTENDS ControlTransfer

Interface(n, children) == [length |-> n, children |-> children]

MCLayouts ==
    { [device |-> 3, config |-> 1, total |-> 3, interfaces |-> <<Interface(2, <<>>)>>],
      [device |-> 3, config |-> 2, total |-> 8,
       interfaces |-> <<Interface(2, <<0, 3>>), Interface(1, <<>>)>>],
      [device |-> 3, config |-> 3, total |-> 9, interfaces |-> <<Interface(5, <<>>)>>],
      [device |-> 3, config |-> 5, total |-> 6, interfaces |-> <<Interface(2, <<1>>)>>] }

Request(type, request, value, length) ==
    [bmRequestType |-> type, bRequest |-> request, wValue |-> value,
     wIndex |-> 0, wLength |-> length]

(* GET_DESCRIPTOR of the configuration asks for nothing, for less than a   *)
(* packet, for a packet, for two, and for more than there is.              *)
MCPacket ==
    { Request(0, 5, 1, 0), Request(0, 5, 2, 0), Request(0, 9, 1, 0),
      Request(128, 6, 256, 64), Request(128, 6, 256, 0), Request(0, 5, 128, 0),
      Request(128, 6, 512, 0), Request(128, 6, 512, 2), Request(128, 6, 512, 4), Request(128, 6, 512, 8),
      Request(128, 6, 512, 255) }
=============================================================================
