--------------------------------- MODULE Ep0 ---------------------------------
(***************************************************************************)
(* Endpoint 0 of the device: the USB interrupt handler (isr.c), its packet *)
(* dispatcher (ep0.c) and the handlers of SETUP, IN and OUT, with the      *)
(* registers through which they command the USB engine.                    *)
(*                                                                         *)
(* The USB engine and the host are the environment.  The host may do       *)
(* anything at any time.  The engine completes an IN or an OUT only when   *)
(* UEP0_CTRL says ACK for it, always accepts a SETUP, and (bUC_INT_BUSY)   *)
(* completes nothing while UIF_TRANSFER is set.                            *)
(*                                                                         *)
(* The handler is not interrupted by main or by another interrupt, but the *)
(* bus goes on beside it.  So it is a step up to where it can see the bus  *)
(* again: the dispatch, each iteration of the copy loop, the clearing of   *)
(* UIF_TRANSFER, and the bus reset part.                                   *)
(***************************************************************************)
EXTENDS DescriptorStream

CONSTANTS Layouts,     \* the descriptor sets that applications may supply
          Packet,      \* the SETUP packets the host sends
          ShortLength, \* lengths of malformed SETUP packets
          OutLength,   \* lengths of OUT packets
          LogCapacity  \* how many packets the SETUP FIFO holds

UInt8 == 0 .. 255
UInt16 == 0 .. 65535

(* usb_setup_packet_t.                                                     *)
SetupPacket == [bmRequestType : UInt8, bRequest : UInt8,
                wValue : UInt16, wIndex : UInt16, wLength : UInt16]

ASSUME Ep0Assumption ==
    /\ Layouts \subseteq Layout /\ Packet \subseteq SetupPacket
    /\ ShortLength \subseteq Nat \ {8} /\ OutLength \subseteq Nat
    /\ LogCapacity \in Nat

VARIABLES
    layout,            \* what the hooks return: fixed by the application
    state,             \* usb_ep0_ctx.state
    pending,           \* the union of usb_ep0_ctx, with the member last written
    configuration,     \* usb_ep0_ctx.configuration
    ctrl,              \* UEP0_CTRL
    t_len,             \* UEP0_T_LEN
    dev_ad,            \* USB_DEV_AD
    buffer,            \* ep0_buffer
    led,               \* P1_4
    logged,            \* how many packets the SETUP FIFO holds (SetupFifo.tla)
    uif_transfer,      \* UIF_TRANSFER
    uif_bus_rst,       \* UIF_BUS_RST
    token,             \* the token field of USB_INT_ST
    rx_len,            \* USB_RX_LEN
    setup,             \* the SETUP packet that the engine received last
    isr,               \* where the interrupt handler is
    filled             \* filled_bytes of the copy loop

context == <<state, pending, configuration>>
endpoint == <<ctrl, t_len>>
bus == <<uif_transfer, uif_bus_rst, token, rx_len, setup>>
vars == <<layout, context, endpoint, dev_ad, buffer, led, logged, bus, isr, filled>>

State == {"INIT", "WAIT_DEVICE_ADDRESS", "WAIT_SET_CONFIGURATION",
          "SEND_DEVICE_DESCRIPTOR", "SEND_CONFIGURATION_DESCRIPTOR",
          "SEND_CONFIGURATION_ZLP", "WAIT_STATUS_OUT", "IDLE"}

Response == {"ACK", "NAK", "STALL"}

Control == [t_tog : {0, 1}, r_tog : {0, 1}, r_res : Response, t_res : Response]

Ctrl(tt, rt, rr, tr) == [t_tog |-> tt, r_tog |-> rt, r_res |-> rr, t_res |-> tr]

Pending == [member : {"none"}]
           \cup [member : {"address", "configuration"}, candidate : UInt8]
           \cup [member : {"stream"}, stream : Stream]

(* A byte of the buffer: a byte of a descriptor, or one the bus wrote.     *)
Byte == [desc : Descriptor, offset : Nat]
BusByte == [desc |-> NoDescriptor, offset |-> 0]

BufferIndex == 1 .. BufSize

(* usb_ep0_reset.                                                          *)
ResetEp0 == /\ state' = "INIT"
            /\ configuration' = 0
            /\ ctrl' = Ctrl(0, 0, "ACK", "NAK")
            /\ t_len' = 0
            /\ dev_ad' = 0
            /\ UNCHANGED pending

(* After usb_init, which clears the interrupt flags.  The receive length   *)
(* and the packet are read only after a SETUP has set them.                *)
Init == /\ layout \in Layouts
        /\ state = "INIT" /\ pending = [member |-> "none"] /\ configuration = 0
        /\ ctrl = Ctrl(0, 0, "ACK", "NAK") /\ t_len = 0 /\ dev_ad = 0
        /\ buffer = [i \in BufferIndex |-> BusByte]
        /\ led = 0 /\ logged = 0
        /\ uif_transfer = FALSE /\ uif_bus_rst = FALSE
        /\ token = "SETUP" /\ rx_len = 0 /\ setup \in Packet
        /\ isr = "idle" /\ filled = 0

-----------------------------------------------------------------------------
(* The USB engine.  A received packet is written to the start of           *)
(* ep0_buffer.                                                             *)

Received(n) == buffer' = [i \in BufferIndex |-> IF i <= n THEN BusByte ELSE buffer[i]]

device == <<layout, context, endpoint, dev_ad, led, logged, isr, filled>>

BusSetup(p, n) == /\ ~uif_transfer
                  /\ uif_transfer' = TRUE
                  /\ token' = "SETUP" /\ setup' = p /\ rx_len' = n
                  /\ Received(n)
                  /\ UNCHANGED <<uif_bus_rst, device>>

BusIn == /\ ~uif_transfer /\ ctrl.t_res = "ACK"
         /\ uif_transfer' = TRUE
         /\ token' = "IN"
         /\ UNCHANGED <<uif_bus_rst, rx_len, setup, buffer, device>>

BusOut(n) == /\ ~uif_transfer /\ ctrl.r_res = "ACK"
             /\ uif_transfer' = TRUE
             /\ token' = "OUT" /\ rx_len' = n
             /\ Received(n)
             /\ UNCHANGED <<uif_bus_rst, setup, device>>

BusReset == /\ ~uif_bus_rst
            /\ uif_bus_rst' = TRUE
            /\ UNCHANGED <<uif_transfer, token, rx_len, setup, buffer, device>>

Bus == \/ \E p \in Packet, n \in {8} \cup ShortLength : BusSetup(p, n)
       \/ BusIn
       \/ \E n \in OutLength : BusOut(n)
       \/ BusReset

-----------------------------------------------------------------------------
(* SETUP: usb_ep0_handle_packet logs the packet, then                      *)
(* usb_ep0_handle_setup takes the first request that matches.              *)

High(w) == w \div 256
Low(w) == w % 256

IsGetDescriptor(p, type) == /\ p.bmRequestType = 128 /\ p.bRequest = 6
                            /\ p.wIndex = 0
                            /\ Low(p.wValue) = 0 /\ High(p.wValue) = type

IsGetDeviceDescriptor(p) == IsGetDescriptor(p, 1)
IsGetConfigurationDescriptor(p) == IsGetDescriptor(p, 2)

(* Mutant: the range of the address is not checked.                        *)
IsSetAnyAddress(p) == /\ p.bmRequestType = 0 /\ p.bRequest = 5
                      /\ p.wIndex = 0 /\ p.wLength = 0

IsSetAddress(p) == /\ p.bmRequestType = 0 /\ p.bRequest = 5
                   /\ p.wIndex = 0 /\ p.wLength = 0
                   /\ p.wValue <= 127

IsSetConfiguration(p) == /\ p.bmRequestType = 0 /\ p.bRequest = 9
                         /\ p.wIndex = 0 /\ p.wLength = 0
                         /\ p.wValue \in {0, 1}

(* usb_setup_fifo_push_isr; its result is ignored.                         *)
LogSetup == logged' = IF logged < LogCapacity THEN logged + 1 ELSE logged

(* Mutant: stall only refuses OUT packets.                                 *)
StallOutOnly == /\ t_len' = 0
                /\ ctrl' = [ctrl EXCEPT !.r_res = "STALL"]
                /\ led' = 1

(* usb_ep0_stall.  It leaves usb_ep0_ctx as it is.                         *)
Stall == /\ t_len' = 0
         /\ ctrl' = Ctrl(0, 0, "STALL", "STALL")
         /\ led' = 1

Handling(tok) == isr = "idle" /\ uif_transfer /\ token = tok

(* The handler returns to isr.c.                                           *)
Handled == isr' = "clear" /\ UNCHANGED <<layout, bus, filled>>

HandleShortSetup == /\ Handling("SETUP") /\ rx_len # 8
                    /\ Stall
                    /\ Handled /\ UNCHANGED <<context, dev_ad, buffer, logged>>

HandlingRequest == Handling("SETUP") /\ rx_len = 8 /\ LogSetup

AcceptSetAddress ==
    /\ HandlingRequest /\ IsSetAddress(setup)
    /\ state' = "WAIT_DEVICE_ADDRESS"
    /\ pending' = [member |-> "address", candidate |-> Low(setup.wValue)]
    /\ t_len' = 0 /\ ctrl' = Ctrl(1, 1, "ACK", "ACK")
    /\ Handled /\ UNCHANGED <<configuration, dev_ad, buffer, led>>

AcceptGetDevice ==
    /\ HandlingRequest /\ IsGetDeviceDescriptor(setup)
    /\ state' = "SEND_DEVICE_DESCRIPTOR"
    /\ buffer' = [i \in BufferIndex |-> IF i <= layout.device
                                        THEN [desc |-> DeviceDescriptor, offset |-> i - 1]
                                        ELSE buffer[i]]
    /\ t_len' = Least(layout.device, setup.wLength)
    /\ ctrl' = Ctrl(1, 1, "ACK", "ACK")
    /\ Handled /\ UNCHANGED <<pending, configuration, dev_ad, led>>

(* GET_DESCRIPTOR(configuration) opens the stream.  With wLength = 0 there *)
(* is no data stage; otherwise the copy loop fills the first packet.       *)
AcceptGetConfiguration ==
    /\ HandlingRequest /\ IsGetConfigurationDescriptor(setup)
    /\ pending' = [member |-> "stream", stream |-> OpenStream(layout, setup.wLength)]
    /\ \/ /\ setup.wLength = 0
          /\ state' = "WAIT_STATUS_OUT"
          /\ t_len' = 0 /\ ctrl' = Ctrl(0, 1, "ACK", "NAK")
          /\ isr' = "clear"
       \/ /\ setup.wLength # 0
          /\ state' = "SEND_CONFIGURATION_DESCRIPTOR"
          /\ isr' = "fill"
          /\ UNCHANGED endpoint
    /\ filled' = 0
    /\ UNCHANGED <<layout, configuration, dev_ad, buffer, led, bus>>

(* Mutant: the status stage is sent as DATA0.                              *)
AcceptSetConfigurationData0 ==
    /\ HandlingRequest /\ IsSetConfiguration(setup)
    /\ state' = "WAIT_SET_CONFIGURATION"
    /\ pending' = [member |-> "configuration", candidate |-> Low(setup.wValue)]
    /\ t_len' = 0 /\ ctrl' = Ctrl(0, 1, "ACK", "ACK")
    /\ Handled /\ UNCHANGED <<configuration, dev_ad, buffer, led>>

(* Mutant: the candidate is not stored.                                    *)
AcceptSetConfigurationNoCandidate ==
    /\ HandlingRequest /\ IsSetConfiguration(setup)
    /\ state' = "WAIT_SET_CONFIGURATION"
    /\ t_len' = 0 /\ ctrl' = Ctrl(1, 1, "ACK", "ACK")
    /\ Handled /\ UNCHANGED <<pending, configuration, dev_ad, buffer, led>>

AcceptSetConfiguration ==
    /\ HandlingRequest /\ IsSetConfiguration(setup)
    /\ state' = "WAIT_SET_CONFIGURATION"
    /\ pending' = [member |-> "configuration", candidate |-> Low(setup.wValue)]
    /\ t_len' = 0 /\ ctrl' = Ctrl(1, 1, "ACK", "ACK")
    /\ Handled /\ UNCHANGED <<configuration, dev_ad, buffer, led>>

RejectSetup ==
    /\ HandlingRequest
    /\ ~ (\/ IsSetAddress(setup) \/ IsGetDeviceDescriptor(setup)
          \/ IsGetConfigurationDescriptor(setup) \/ IsSetConfiguration(setup))
    /\ Stall
    /\ Handled /\ UNCHANGED <<context, dev_ad, buffer>>

HandleSetup == \/ HandleShortSetup \/ RejectSetup
               \/ AcceptSetAddress \/ AcceptSetConfiguration
               \/ AcceptGetDevice \/ AcceptGetConfiguration

-----------------------------------------------------------------------------
(* IN: usb_ep0_handle_in, called when the host has acknowledged a packet.  *)

AwaitStatusOut == /\ state' = "WAIT_STATUS_OUT"
                  /\ t_len' = 0 /\ ctrl' = Ctrl(0, 1, "ACK", "NAK")

Quiet == t_len' = 0 /\ ctrl' = Ctrl(0, 0, "ACK", "NAK")

HandlingIn(s) == Handling("IN") /\ state = s /\ UNCHANGED <<buffer, led, logged>>

CommitAddress == /\ HandlingIn("WAIT_DEVICE_ADDRESS")
                 /\ dev_ad' = pending.candidate
                 /\ state' = "IDLE" /\ Quiet
                 /\ Handled /\ UNCHANGED <<pending, configuration>>

DeviceDescriptorSent == /\ HandlingIn("SEND_DEVICE_DESCRIPTOR")
                        /\ AwaitStatusOut
                        /\ Handled /\ UNCHANGED <<pending, configuration, dev_ad>>

RequestSatisfied == /\ HandlingIn("SEND_CONFIGURATION_DESCRIPTOR")
                    /\ pending.stream.request_remaining = 0
                    /\ AwaitStatusOut
                    /\ Handled /\ UNCHANGED <<pending, configuration, dev_ad>>

ContinueConfiguration == /\ HandlingIn("SEND_CONFIGURATION_DESCRIPTOR")
                         /\ pending.stream.request_remaining # 0
                         /\ isr' = "fill" /\ filled' = 0
                         /\ UNCHANGED <<layout, context, endpoint, dev_ad, bus>>

ZlpSent == /\ HandlingIn("SEND_CONFIGURATION_ZLP")
           /\ AwaitStatusOut
           /\ Handled /\ UNCHANGED <<pending, configuration, dev_ad>>

(* Mutant: the transmitter is left armed.                                  *)
CommitConfigurationArmed == /\ HandlingIn("WAIT_SET_CONFIGURATION")
                            /\ configuration' = pending.candidate
                            /\ state' = "IDLE" /\ UNCHANGED endpoint
                            /\ Handled /\ UNCHANGED <<pending, dev_ad>>

CommitConfiguration == /\ HandlingIn("WAIT_SET_CONFIGURATION")
                       /\ configuration' = pending.candidate
                       /\ state' = "IDLE" /\ Quiet
                       /\ Handled /\ UNCHANGED <<pending, dev_ad>>

IgnoreIn == /\ Handling("IN") /\ state \in {"INIT", "WAIT_STATUS_OUT", "IDLE"}
            /\ Handled /\ UNCHANGED <<context, endpoint, dev_ad, buffer, led, logged>>

HandleIn == \/ CommitAddress \/ CommitConfiguration \/ DeviceDescriptorSent
            \/ RequestSatisfied \/ ContinueConfiguration \/ ZlpSent \/ IgnoreIn

-----------------------------------------------------------------------------
(* The copy loop of usb_ep0_prepare_descriptor, an iteration at a time,    *)
(* and what its two callers do with the number of bytes it filled.         *)

Filling == isr = "fill" /\ UNCHANGED <<layout, configuration, dev_ad, led, logged, bus>>

FillMore == /\ state = "SEND_CONFIGURATION_DESCRIPTOR"
            /\ LoopContinues(pending.stream, filled)

(* Mutant: each iteration writes from the start of the buffer.             *)
FillChunkAtStart ==
    LET s == pending.stream
        n == ChunkSize(s, filled) IN
    /\ Filling /\ FillMore
    /\ buffer' = [i \in BufferIndex |-> IF i <= n
                                        THEN [desc |-> s.desc, offset |-> s.offset + i - 1]
                                        ELSE buffer[i]]
    /\ pending' = [pending EXCEPT !.stream = Advance(layout, s, n)]
    /\ filled' = filled + n
    /\ UNCHANGED <<isr, state, endpoint>>

FillChunk ==
    LET s == pending.stream
        n == ChunkSize(s, filled) IN
    /\ Filling /\ FillMore
    /\ buffer' = [i \in BufferIndex |->
                    IF i > filled /\ i <= filled + n
                    THEN [desc |-> s.desc, offset |-> s.offset + (i - filled - 1)]
                    ELSE buffer[i]]
    /\ pending' = [pending EXCEPT !.stream = Advance(layout, s, n)]
    /\ filled' = filled + n
    /\ UNCHANGED <<isr, state, endpoint>>

FillDone == /\ Filling /\ ~FillMore
            /\ isr' = "clear" /\ filled' = 0
            /\ UNCHANGED <<pending, buffer>>

FirstPacket == /\ FillDone /\ token = "SETUP"
               /\ t_len' = filled /\ ctrl' = Ctrl(1, 1, "ACK", "ACK")
               /\ UNCHANGED state

(* Mutant: the data toggle is not alternated.                              *)
NextPacketSameToggle == /\ FillDone /\ token = "IN" /\ filled # 0
                        /\ t_len' = filled
                        /\ ctrl' = Ctrl(ctrl.t_tog, 1, "NAK", "ACK")
                        /\ UNCHANGED state

NextPacket == /\ FillDone /\ token = "IN" /\ filled # 0
              /\ t_len' = filled
              /\ ctrl' = Ctrl(1 - ctrl.t_tog, 1, "NAK", "ACK")
              /\ UNCHANGED state

(* Mutant: the data stage ends without the zero-length packet.             *)
NoZlp == /\ FillDone /\ token = "IN" /\ filled = 0 /\ t_len = BufSize
         /\ AwaitStatusOut

Zlp == /\ FillDone /\ token = "IN" /\ filled = 0 /\ t_len = BufSize
       /\ state' = "SEND_CONFIGURATION_ZLP"
       /\ t_len' = 0 /\ ctrl' = Ctrl(1 - ctrl.t_tog, 1, "NAK", "ACK")

LastPacketSent == /\ FillDone /\ token = "IN" /\ filled = 0 /\ t_len # BufSize
                  /\ AwaitStatusOut

Fill == FillChunk \/ FirstPacket \/ NextPacket \/ Zlp \/ LastPacketSent

-----------------------------------------------------------------------------
(* OUT: usb_ep0_handle_out.                                                *)

HandlingOut == Handling("OUT") /\ UNCHANGED <<pending, configuration, dev_ad, buffer, logged>>

StatusOut == /\ HandlingOut /\ state = "WAIT_STATUS_OUT" /\ rx_len = 0
             /\ state' = "IDLE" /\ Quiet
             /\ Handled /\ UNCHANGED led

StatusOutWithData == /\ HandlingOut /\ state = "WAIT_STATUS_OUT" /\ rx_len # 0
                     /\ Stall
                     /\ Handled /\ UNCHANGED state

(* Mutant: the address is taken on an OUT, before the status stage.        *)
IgnoreOutCommits == /\ Handling("OUT") /\ state # "WAIT_STATUS_OUT"
                    /\ dev_ad' = IF state = "WAIT_DEVICE_ADDRESS" THEN pending.candidate
                                 ELSE dev_ad
                    /\ Handled /\ UNCHANGED <<context, endpoint, buffer, led, logged>>

IgnoreOut == /\ HandlingOut /\ state # "WAIT_STATUS_OUT"
             /\ Handled /\ UNCHANGED <<state, endpoint, led>>

HandleOut == StatusOut \/ StatusOutWithData \/ IgnoreOut

-----------------------------------------------------------------------------
(* isr.c around the handler: the transfer first, then the bus reset.       *)

(* Mutant: a stalled endpoint is opened again at the end of the handler.   *)
ClearTransferRearms ==
    /\ isr = "clear"
    /\ uif_transfer' = FALSE
    /\ isr' = "reset"
    /\ ctrl' = IF ctrl.t_res = "STALL" THEN Ctrl(0, 0, "ACK", "NAK") ELSE ctrl
    /\ UNCHANGED <<layout, context, t_len, dev_ad, buffer, led, logged,
                   uif_bus_rst, token, rx_len, setup, filled>>

ClearTransfer == /\ isr = "clear"
                 /\ uif_transfer' = FALSE
                 /\ isr' = "reset"
                 /\ UNCHANGED <<layout, context, endpoint, dev_ad, buffer, led, logged,
                                uif_bus_rst, token, rx_len, setup, filled>>

EnterForReset == /\ isr = "idle" /\ ~uif_transfer /\ uif_bus_rst
                 /\ isr' = "reset"
                 /\ UNCHANGED <<layout, context, endpoint, dev_ad, buffer, led, logged,
                                bus, filled>>

HandleReset == /\ isr = "reset" /\ uif_bus_rst
               /\ ResetEp0
               /\ uif_bus_rst' = FALSE
               /\ isr' = "idle"
               /\ UNCHANGED <<layout, buffer, led, logged, uif_transfer, token, rx_len,
                              setup, filled>>

LeaveIsr == /\ isr = "reset" /\ ~uif_bus_rst
            /\ isr' = "idle"
            /\ UNCHANGED <<layout, context, endpoint, dev_ad, buffer, led, logged, bus, filled>>

UsbIsr == \/ HandleSetup \/ HandleIn \/ HandleOut \/ Fill
          \/ ClearTransfer \/ EnterForReset \/ HandleReset \/ LeaveIsr

-----------------------------------------------------------------------------
(* main takes a packet from the FIFO to print it (SetupFifo.tla).          *)
PopSetup == /\ logged > 0
            /\ logged' = logged - 1
            /\ UNCHANGED <<layout, context, endpoint, dev_ad, buffer, led, bus, isr, filled>>

Next == Bus \/ UsbIsr \/ PopSetup

Spec == Init /\ [][Next]_vars
(* The handler is entered while a flag is up and runs to its end.          *)
FairSpec == Spec /\ WF_vars(UsbIsr)

-----------------------------------------------------------------------------
TypeOK ==
    /\ layout \in Layouts
    /\ state \in State /\ pending \in Pending /\ configuration \in UInt8
    /\ ctrl \in Control /\ t_len \in 0 .. BufSize /\ dev_ad \in UInt8
    /\ buffer \in [BufferIndex -> Byte]
    /\ led \in {0, 1} /\ logged \in 0 .. LogCapacity
    /\ uif_transfer \in BOOLEAN /\ uif_bus_rst \in BOOLEAN
    /\ token \in {"SETUP", "IN", "OUT"} /\ rx_len \in Nat /\ setup \in Packet
    /\ isr \in {"idle", "fill", "clear", "reset"} /\ filled \in 0 .. BufSize

(* States in which the next acknowledged IN packet moves the request on.   *)
Serving == {"WAIT_DEVICE_ADDRESS", "WAIT_SET_CONFIGURATION",
            "SEND_DEVICE_DESCRIPTOR", "SEND_CONFIGURATION_DESCRIPTOR",
            "SEND_CONFIGURATION_ZLP"}

(* The three pending requests share a union.  Whatever order SETUP, IN,    *)
(* stalls and resets come in, the member a state reads is the one last     *)
(* written: no address is taken from a stream's cursor.                    *)
PendingMatchesState ==
    /\ state = "WAIT_DEVICE_ADDRESS" => pending.member = "address"
    /\ state = "WAIT_SET_CONFIGURATION" => pending.member = "configuration"
    /\ state = "SEND_CONFIGURATION_DESCRIPTOR" \/ isr = "fill" => pending.member = "stream"

(* UEP0_CTRL and usb_ep0_ctx.state, written apart, agree: IN is armed in   *)
(* the serving states and only there, unless the endpoint is stalled both  *)
(* ways, and OUT is refused only while IN is armed, so that the endpoint   *)
(* is never deaf in both directions without saying STALL.                  *)
EndpointMatchesState ==
    /\ ctrl.t_res = "ACK" => state \in Serving
    /\ ctrl.t_res = "NAK" /\ isr # "fill" => state \notin Serving
    /\ ctrl.r_res = "NAK" => ctrl.t_res = "ACK"
    /\ ctrl.r_res = "STALL" <=> ctrl.t_res = "STALL"

(* An IN packet that the host can fetch now answers the last SETUP packet  *)
(* it sent, never an earlier one that was cut off: the state is the one    *)
(* for that request, the value pending is the value it carried, and the    *)
(* reply is no longer than it allowed.                                     *)
CanFetch == ctrl.t_res = "ACK" /\ ~uif_transfer

AnswersLastSetup ==
    CanFetch =>
        /\ state = "WAIT_DEVICE_ADDRESS" =>
             IsSetAddress(setup) /\ pending.candidate = setup.wValue /\ t_len = 0
        /\ state = "WAIT_SET_CONFIGURATION" =>
             IsSetConfiguration(setup) /\ pending.candidate = setup.wValue /\ t_len = 0
        /\ state = "SEND_DEVICE_DESCRIPTOR" =>
             IsGetDeviceDescriptor(setup) /\ t_len <= setup.wLength
        /\ state = "SEND_CONFIGURATION_DESCRIPTOR" =>
             /\ IsGetConfigurationDescriptor(setup)
             /\ t_len + pending.stream.request_remaining <= setup.wLength
        /\ state = "SEND_CONFIGURATION_ZLP" =>
             IsGetConfigurationDescriptor(setup) /\ t_len = 0

(* A stalled endpoint stays stalled until a SETUP packet is handled or the *)
(* bus is reset, although usb_ep0_stall leaves the state machine where it  *)
(* was and the interrupted transfer could go on from there.                *)
StallHolds ==
    [][ctrl.t_res = "STALL" /\ ctrl'.t_res # "STALL"
         => uif_bus_rst \/ (uif_transfer /\ token = "SETUP")]_vars

(* A request to change the device is open from the moment the bus may      *)
(* complete its status stage until the handler has acted on that, or a     *)
(* SETUP or a reset ended it.  BusIn is the host's acknowledgement.        *)
Open == ctrl.t_res = "ACK" /\ state \in {"WAIT_DEVICE_ADDRESS", "WAIT_SET_CONFIGURATION"}

Completed(tok) == uif_transfer /\ token = tok

RequestStage == CASE Completed("SETUP") -> "received"
                  [] Open /\ Completed("IN") -> "acknowledged"
                  [] Open /\ ~Completed("SETUP") /\ ~Completed("IN") -> "open"
                  [] OTHER -> "none"

DR == INSTANCE DeviceRequests
      WITH address <- dev_ad, configured <- configuration, last <- setup,
           stage <- RequestStage, resetting <- uif_bus_rst,
           AsksForAddress <- IsSetAddress, AsksForConfiguration <- IsSetConfiguration

(* prepare.c:52: "child index 31" (the largest of the bit field) means     *)
(* that the configuration descriptor is being sent.  A stream at that      *)
(* index is indeed at the configuration descriptor, or at its end.         *)
SentinelMeansConfig ==
    pending.member = "stream" /\ pending.stream.child = ChildSentinel
        => pending.stream.desc \in {ConfigDescriptor, NoDescriptor}

(* SET_ADDRESS and SET_CONFIGURATION take effect only after the host has   *)
(* acknowledged their status stage (not on an OUT, not while the bus is    *)
(* quiet), with the value of the last SETUP; one that was acknowledged is  *)
(* never dropped but by a bus reset; and the bus reset part, the only one  *)
(* to clear UIF_BUS_RST, leaves both values zero and nothing open.         *)
ImplementsRequests == DR!RSpec

(* The handler ends and lets the engine go on: the copy loop does not spin *)
(* on an empty descriptor, a missing one, or at the last interface that    *)
(* the index can name.  It is false of a layout in which an interface of   *)
(* length zero begins with ChildSentinel empty children: after them the    *)
(* walk is at that interface again (SentinelMeansConfig), and no byte ever *)
(* uses up wTotalLength.  The layouts of a run have no such interface.     *)
HandlerReturns == uif_transfer ~> ~uif_transfer
=============================================================================
