--------------------------- MODULE ControlTransfer ---------------------------
(***************************************************************************)
(* Endpoint 0 and a host that follows the protocol of control transfers:   *)
(* a SETUP, for a read the IN packets of the data stage, and the status    *)
(* stage in the other direction.  Data packets alternate their toggle,     *)
(* beginning with DATA1; a packet with the wrong toggle is acknowledged    *)
(* and dropped; a packet shorter than the endpoint's size ends the data.   *)
(*                                                                         *)
(* Faults: the host's ACK of an IN packet is lost, so that the host moves  *)
(* on and the device does not; the device's ACK of the status stage's OUT  *)
(* is lost, so that the host repeats it; the host ends a data stage before *)
(* it has all the data; it gives a transfer up and starts another; it      *)
(* resets the bus.  MaxFaults bounds their number.                         *)
(***************************************************************************)
EXTENDS Ep0, DescriptorBytes

CONSTANT MaxFaults

ASSUME HostAssumption == MaxFaults \in Nat /\ 0 \in OutLength

VARIABLES
    stage,             \* where the host is: "idle", "data", "statusIn",
                       \* "statusOut", "done", "failed"
    received,          \* the data the host has taken in this transfer
    toggle,            \* the toggle it expects next
    address,           \* the address it talks to
    mishap,            \* what may have set host and device apart in this
                       \* transfer: "none", "ackLost", "endedEarly" or "noData"
    faults             \* faults so far

host == <<stage, received, toggle, address, mishap, faults>>
allvars == <<vars, host>>

InTransfer == stage \in {"data", "statusIn", "statusOut"}

(* The host's transactions reach the device: it answers to its address,    *)
(* and has had time to see a bus reset (the standard grants 10 ms).        *)
Reachable == dev_ad = address /\ ~uif_bus_rst /\ ~uif_transfer

HostInit == /\ Init
            /\ stage = "idle" /\ received = <<>> /\ toggle = 1
            /\ address = 0 /\ mishap = "none" /\ faults = 0

-----------------------------------------------------------------------------
HasDataStage(p) == p.bmRequestType = 128 /\ p.wLength > 0

(* A read of no data at all: the host goes on with an IN for its status,   *)
(* while usb_ep0_handle_setup waits for an OUT.                            *)
ReadsNothing(p) == IsGetConfigurationDescriptor(p) /\ p.wLength = 0

(* A SETUP: when no transfer goes on, instead of one that hangs after a    *)
(* mishap, or giving one up (a fault).                                     *)
HostSetup(p) == /\ Reachable
                /\ \/ (~InTransfer \/ mishap # "none") /\ UNCHANGED faults
                   \/ /\ InTransfer /\ mishap = "none"
                      /\ faults < MaxFaults /\ faults' = faults + 1
                /\ BusSetup(p, 8)
                /\ stage' = IF HasDataStage(p) THEN "data" ELSE "statusIn"
                /\ received' = <<>> /\ toggle' = 1
                /\ mishap' = IF ReadsNothing(p) THEN "noData" ELSE "none"
                /\ UNCHANGED address

(* The packet the device sends in an IN transaction.                       *)
Data == SubSeq([i \in BufferIndex |-> buffer[i]], 1, t_len)

(* The host takes a packet, unless it is a repetition.                     *)
TakeData == /\ stage = "data" /\ ctrl.t_res = "ACK"
            /\ IF ctrl.t_tog # toggle
               THEN UNCHANGED <<received, toggle, stage>>
               ELSE /\ received' = received \o Data
                    /\ toggle' = 1 - toggle
                    /\ stage' = IF \/ t_len < BufSize
                                   \/ Len(received) + t_len >= setup.wLength
                                THEN "statusOut" ELSE "data"
            /\ UNCHANGED address

(* The empty DATA1 packet of the status stage.  A host that has it uses    *)
(* the address it has set.                                                 *)
TakeStatus == /\ stage = "statusIn" /\ ctrl.t_res = "ACK"
              /\ IF t_len = 0 /\ ctrl.t_tog = 1
                 THEN /\ stage' = "done"
                      /\ address' = IF IsSetAddress(setup) THEN setup.wValue ELSE address
                 ELSE /\ stage' = "failed" /\ UNCHANGED address
              /\ UNCHANGED <<received, toggle>>

HostIn == /\ Reachable /\ (TakeData \/ TakeStatus)
          /\ BusIn
          /\ UNCHANGED <<mishap, faults>>

HostInAckLost == /\ Reachable /\ faults < MaxFaults /\ (TakeData \/ TakeStatus)
                 /\ faults' = faults + 1 /\ mishap' = "ackLost"
                 /\ UNCHANGED vars

HostStatusOut == /\ Reachable /\ stage = "statusOut"
                 /\ BusOut(0)
                 /\ stage' = "done"
                 /\ UNCHANGED <<received, toggle, address, mishap, faults>>

(* The device has the OUT, but the host does not see its ACK.              *)
HostStatusOutAckLost == /\ Reachable /\ stage = "statusOut" /\ faults < MaxFaults
                        /\ BusOut(0)
                        /\ faults' = faults + 1
                        /\ UNCHANGED <<stage, received, toggle, address, mishap>>

(* The host has read enough and goes to the status stage.                  *)
HostEndsEarly == /\ stage = "data" /\ faults < MaxFaults
                 /\ stage' = "statusOut"
                 /\ mishap' = "endedEarly" /\ faults' = faults + 1
                 /\ UNCHANGED <<vars, received, toggle, address>>

(* The device answers STALL: the request has failed.                       *)
HostSeesStall == /\ Reachable
                 /\ \/ stage \in {"data", "statusIn"} /\ ctrl.t_res = "STALL"
                    \/ stage = "statusOut" /\ ctrl.r_res = "STALL"
                 /\ stage' = "failed"
                 /\ UNCHANGED <<vars, received, toggle, address, mishap, faults>>

(* The host resets the bus: as a fault, or since it has lost the device.   *)
HostReset == /\ BusReset
             /\ \/ faults < MaxFaults /\ faults' = faults + 1
                \/ dev_ad # address /\ ~uif_transfer /\ UNCHANGED faults
             /\ stage' = "idle" /\ address' = 0
             /\ UNCHANGED <<received, toggle, mishap>>

HostTransaction == HostIn \/ HostStatusOut \/ HostSeesStall

Host == \/ \E p \in Packet : HostSetup(p)
        \/ HostTransaction \/ HostReset
        \/ HostInAckLost \/ HostStatusOutAckLost \/ HostEndsEarly

Device == (UsbIsr \/ PopSetup) /\ UNCHANGED host

HostNext == Host \/ Device

HostSpec == HostInit /\ [][HostNext]_allvars

(* The interrupt handler runs, and a host in a transfer tries again until  *)
(* the device answers.                                                     *)
FairHostSpec == HostSpec /\ WF_allvars(UsbIsr /\ UNCHANGED host)
                         /\ WF_allvars(HostTransaction)

-----------------------------------------------------------------------------
(* What the host should read.                                              *)
Answer ==
    IF IsGetDeviceDescriptor(setup)
    THEN Upto(BytesOf(DeviceDescriptor, layout.device), setup.wLength)
    ELSE Upto(ConfigurationBytes(layout), setup.wLength)

HostTypeOK ==
    /\ stage \in {"idle", "data", "statusIn", "statusOut", "done", "failed"}
    /\ received \in Seq(Byte) /\ toggle \in {0, 1} /\ address \in 0 .. 127
    /\ mishap \in {"none", "ackLost", "endedEarly", "noData"} /\ faults \in 0 .. MaxFaults

(* Packet by packet, through lost acknowledgements, abandoned transfers    *)
(* and resets, the host takes the descriptors in order, once each byte,    *)
(* and no byte of an earlier request; and it takes all it asked for before *)
(* it goes to the status stage, unless it has not waited for that.         *)
DataIsDescriptors ==
    /\ stage \in {"data", "statusOut"} => IsPrefix(received, Answer)
    /\ stage = "statusOut" => received = Answer \/ mishap = "endedEarly"

(* A request the device supports is never answered with STALL, and the     *)
(* status stage of one without data is an empty DATA1 packet.              *)
Supported(p) == \/ IsSetAddress(p) \/ IsSetConfiguration(p)
                \/ IsGetDeviceDescriptor(p) \/ IsGetConfigurationDescriptor(p)

SupportedNeverFails == Supported(setup) => stage # "failed"

(* Once a transfer is over that met no mishap, the device has done         *)
(* what the host believes: it answers to the address it was given, and the *)
(* endpoint is quiet, with no IN packet of the old request armed.          *)
DoneAgrees ==
    stage = "done" /\ mishap = "none" /\ ~uif_transfer =>
        /\ dev_ad = address
        /\ IsSetConfiguration(setup) => configuration = setup.wValue
        /\ ctrl.t_res # "ACK"

(* Every transfer ends, if only it meets no mishap.                        *)
TransferEnds == InTransfer ~> (~InTransfer \/ mishap # "none")
=============================================================================
