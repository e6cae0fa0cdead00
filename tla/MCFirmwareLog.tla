---------------------------- MODULE MCFirmwareLog ----------------------------
(* Firmware with two members of a packet, a byte and a word.  The packets  *)
(* differ in both, and the garbage in the FIFO looks like a torn packet.   *)
EXTENDS Firmware

MCPacket == {[bRequest |-> v, wValue |-> v] : v \in Value}
MCGarbage == [f \in Field |-> CHOOSE v \in Value : (f = "bRequest") = (v = "v1")]
=============================================================================
