--------------------------- MODULE DeviceRequests ---------------------------
(***************************************************************************)
(* What the requests that change the device promise the host.  An address  *)
(* or a configuration takes effect only after the host has acknowledged    *)
(* the status stage of the request that asked for it, with the value of    *)
(* that request; once acknowledged, only a bus reset can keep it from      *)
(* taking effect.  A request that a new SETUP or a bus reset cuts off      *)
(* before has no effect.  A bus reset that the bus has signalled is over   *)
(* only with both values at zero and no request open.                      *)
(***************************************************************************)
EXTENDS Naturals

CONSTANTS Packet,
          AsksForAddress(_), AsksForConfiguration(_)   \* kinds of request

VARIABLES
    address, configured,  \* in effect now
    last,                 \* the last SETUP packet the device received
    stage,                \* how far device and host are with it: "received";
                          \* "open", its status stage is due; "acknowledged"
                          \* by the host; or "none", it is over
    resetting             \* the bus has signalled a reset

rvars == <<address, configured, last, stage, resetting>>

RInit == /\ address = 0 /\ configured = 0 /\ last \in Packet
         /\ stage = "none" /\ resetting = FALSE

(* The host.                                                               *)
ReceiveSetup(p) == /\ stage \in {"none", "open"}
                   /\ stage' = "received" /\ last' = p
                   /\ UNCHANGED <<address, configured, resetting>>

Acknowledge == /\ stage = "open" /\ stage' = "acknowledged"
               /\ UNCHANGED <<address, configured, last, resetting>>

SignalReset == /\ ~resetting /\ resetting' = TRUE
               /\ UNCHANGED <<address, configured, last, stage>>

(* The device.                                                             *)
Accept == /\ stage = "received" /\ (AsksForAddress(last) \/ AsksForConfiguration(last))
          /\ stage' = "open"
          /\ UNCHANGED <<address, configured, last, resetting>>

(* The request is refused, or is one that does not change the device.      *)
Decline == /\ stage = "received" /\ stage' = "none"
           /\ UNCHANGED <<address, configured, last, resetting>>

Commit == /\ stage = "acknowledged" /\ stage' = "none"
          /\ IF AsksForAddress(last)
             THEN address' = last.wValue /\ UNCHANGED configured
             ELSE configured' = last.wValue /\ UNCHANGED address
          /\ UNCHANGED <<last, resetting>>

(* A SETUP that has come meanwhile is still to be handled.                 *)
Reset == /\ resetting /\ resetting' = FALSE
         /\ address' = 0 /\ configured' = 0
         /\ stage' = IF stage = "received" THEN "received" ELSE "none"
         /\ UNCHANGED last

RNext == \/ (\E p \in Packet : ReceiveSetup(p)) \/ Acknowledge \/ SignalReset
         \/ Accept \/ Decline \/ Commit \/ Reset

RSpec == RInit /\ [][RNext]_rvars
=============================================================================
