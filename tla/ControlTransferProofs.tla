------------------------ MODULE ControlTransferProofs ------------------------
(***************************************************************************)
(* Endpoint 0, for every set of descriptors, buffer size and set of SETUP  *)
(* packets: first with every behaviour of the host that the hardware lets  *)
(* through, then with the host of ControlTransfer, which is a case of it.  *)
(*                                                                         *)
(* IInv is the inductive invariant of Ep0.  It adds to the invariants of   *)
(* Ep0 what the handler is at (Phase), that a transaction which completed  *)
(* was not stalled (NotStalled), and the reply that is armed or being      *)
(* filled, also while UIF_TRANSFER hides it from the host (Reply,          *)
(* FillReply).                                                             *)
(*                                                                         *)
(* HInv adds what ties the endpoint to the stage the host is at: host and  *)
(* device agree at the end of a control transfer, and a supported request  *)
(* never fails, for every number of faults.                                *)
(*                                                                         *)
(* And the host reads the descriptors and nothing else, as long as no      *)
(* interface has as many children as the value of the child index that the *)
(* code uses as a mark.  DataInv follows the bytes from the stream through *)
(* ep0_buffer to the host.                                                 *)
(***************************************************************************)
EXTENDS ControlTransfer, DescriptorStreamProofs

-----------------------------------------------------------------------------
(* Endpoint 0 alone.                                                       *)

Phase == /\ isr \in {"fill", "clear"} => uif_transfer
         /\ isr = "fill" => token \in {"SETUP", "IN"}
         /\ isr = "fill" => state = "SEND_CONFIGURATION_DESCRIPTOR"
         /\ isr # "fill" => filled = 0

NotStalled == uif_transfer /\ isr # "clear" /\ token # "SETUP" => ctrl.t_res # "STALL"

(* A SETUP packet that is not answered yet.                                *)
SetupDue == uif_transfer /\ token = "SETUP" /\ isr # "clear"

ReplyMatches ==
    /\ state = "WAIT_DEVICE_ADDRESS" =>
         IsSetAddress(setup) /\ pending.candidate = setup.wValue /\ t_len = 0
    /\ state = "WAIT_SET_CONFIGURATION" =>
         IsSetConfiguration(setup) /\ pending.candidate = setup.wValue /\ t_len = 0
    /\ state = "SEND_DEVICE_DESCRIPTOR" =>
         IsGetDeviceDescriptor(setup) /\ t_len <= setup.wLength
    /\ state = "SEND_CONFIGURATION_DESCRIPTOR" =>
         /\ IsGetConfigurationDescriptor(setup)
         /\ t_len + pending.stream.request_remaining <= setup.wLength
    /\ state = "SEND_CONFIGURATION_ZLP" =>
         IsGetConfigurationDescriptor(setup) /\ t_len = 0

Reply == ctrl.t_res = "ACK" /\ ~SetupDue => ReplyMatches

FillReply == isr = "fill" =>
                /\ IsGetConfigurationDescriptor(setup)
                /\ filled + pending.stream.request_remaining <= setup.wLength

Agrees == /\ PendingMatchesState /\ EndpointMatchesState
          /\ Phase /\ NotStalled /\ Reply /\ FillReply

IInv == TypeOK /\ Agrees

-----------------------------------------------------------------------------
(* Typing.                                                                 *)

LEMMA Widths == 0 \in UInt8 /\ (\A n \in UInt16 : n \in Nat)
BY DEF UInt8, UInt16

LEMMA LowByte == \A n \in UInt16 : Low(n) \in UInt8 /\ (n <= 127 => Low(n) = n)
<1>1. \A n \in Nat : n % 256 \in UInt8
  BY DEF UInt8
<1>2. \A n \in Nat : n <= 127 => n % 256 = n
  OBVIOUS
<1> QED BY <1>1, <1>2, Widths DEF Low

LEMMA PacketType ==
    ASSUME TypeOK
    PROVE  /\ setup.wLength \in Nat /\ setup.wValue \in UInt16
           /\ Low(setup.wValue) \in UInt8
           /\ IsSetAddress(setup) => Low(setup.wValue) = setup.wValue
           /\ IsSetConfiguration(setup) => Low(setup.wValue) = setup.wValue
<1>1. setup \in SetupPacket
  BY Ep0Assumption DEF TypeOK
<1>2. setup.wLength \in Nat /\ setup.wValue \in UInt16
  BY <1>1, Widths DEF SetupPacket
<1>3. IsSetAddress(setup) \/ IsSetConfiguration(setup) => setup.wValue <= 127
  BY DEF IsSetAddress, IsSetConfiguration
<1> QED BY <1>2, <1>3, LowByte

LEMMA PendingStream ==
    ASSUME TypeOK, pending.member = "stream"
    PROVE  /\ pending.stream \in Stream
           /\ \A s \in Stream : [pending EXCEPT !.stream = s] \in Pending
           /\ \A s : [pending EXCEPT !.stream = s].stream = s
           /\ \A s : [pending EXCEPT !.stream = s].member = "stream"
<1>1. pending \in [member : {"stream"}, stream : Stream]
  BY DEF TypeOK, Pending
<1> QED BY <1>1 DEF Pending

LEMMA PendingCandidate ==
    ASSUME TypeOK, pending.member \in {"address", "configuration"}
    PROVE  pending.candidate \in UInt8
BY DEF TypeOK, Pending

LEMMA CtrlType ==
    /\ \A tt \in {0, 1}, rt \in {0, 1}, rr \in Response, tr \in Response :
          Ctrl(tt, rt, rr, tr) \in Control
    /\ \A tt, rt, rr, tr : /\ Ctrl(tt, rt, rr, tr).t_tog = tt
                           /\ Ctrl(tt, rt, rr, tr).r_res = rr
                           /\ Ctrl(tt, rt, rr, tr).t_res = tr
BY DEF Ctrl, Control

LEMMA ResponseHas == "ACK" \in Response /\ "NAK" \in Response /\ "STALL" \in Response
BY DEF Response

LEMMA FillBytes ==
    ASSUME NEW s \in Stream, NEW n \in Nat, NEW i \in BufferIndex, i > n
    PROVE  [desc |-> s.desc, offset |-> s.offset + (i - n - 1)] \in Byte
<1>1. s.desc \in Descriptor /\ s.offset \in Nat
  BY DEF Stream
<1>2. s.offset + (i - n - 1) \in Nat
  BY <1>1 DEF BufferIndex
<1> QED BY <1>1, <1>2 DEF Byte

LEMMA InitTyped == Init => TypeOK
<1> SUFFICES ASSUME Init PROVE TypeOK
  OBVIOUS
<1>1. BusByte \in Byte
  BY DEF BusByte, Byte, NoDescriptor, Descriptor
<1>2. buffer \in [BufferIndex -> Byte]
  BY <1>1 DEF Init
<1>3. ctrl \in Control
  BY CtrlType, ResponseHas DEF Init
<1>4. 0 \in 0 .. BufSize /\ 0 \in 0 .. LogCapacity /\ 0 \in Nat
  BY StreamAssumption, Ep0Assumption
<1>5. layout \in Layouts /\ setup \in Packet /\ state \in State
      /\ pending \in Pending
  BY DEF Init, State, Pending
<1> QED BY <1>2, <1>3, <1>4, <1>5, Widths DEF Init, TypeOK

LEMMA BusTyped == TypeOK /\ Bus => TypeOK'
<1> SUFFICES ASSUME TypeOK, Bus PROVE TypeOK'
  OBVIOUS
<1> USE DEF TypeOK, device, context, endpoint
<1>1. BusByte \in Byte
  BY DEF BusByte, Byte, NoDescriptor, Descriptor
<1>2. ASSUME NEW n, Received(n) PROVE buffer' \in [BufferIndex -> Byte]
  BY <1>1, <1>2 DEF Received
<1>3. ASSUME NEW p \in Packet, NEW n \in {8} \cup ShortLength, BusSetup(p, n)
      PROVE  TypeOK'
  <2>1. n \in Nat
    BY Ep0Assumption
  <2> QED BY <1>2, <1>3, <2>1 DEF BusSetup
<1>4. CASE BusIn
  BY <1>4 DEF BusIn
<1>5. ASSUME NEW n \in OutLength, BusOut(n) PROVE TypeOK'
  <2>1. n \in Nat
    BY Ep0Assumption
  <2> QED BY <1>2, <1>5, <2>1 DEF BusOut
<1>6. CASE BusReset
  BY <1>6 DEF BusReset
<1> QED BY <1>3, <1>4, <1>5, <1>6 DEF Bus

LEMMA SetupTyped == TypeOK /\ HandleSetup => TypeOK'
<1> SUFFICES ASSUME TypeOK, HandleSetup PROVE TypeOK'
  OBVIOUS
<1> USE DEF Handled, bus, context, endpoint, Stall, State
<1>1. Ctrl(0, 0, "STALL", "STALL") \in Control /\ Ctrl(1, 1, "ACK", "ACK") \in Control
      /\ Ctrl(0, 1, "ACK", "NAK") \in Control
  BY CtrlType, ResponseHas
<1>2. 0 \in 0 .. BufSize
  BY StreamAssumption
<1>3. HandlingRequest => logged' \in 0 .. LogCapacity
  BY Ep0Assumption DEF HandlingRequest, LogSetup, TypeOK
<1>4. CASE HandleShortSetup
  BY <1>1, <1>2, <1>4 DEF HandleShortSetup, TypeOK
<1>5. CASE RejectSetup
  BY <1>1, <1>2, <1>3, <1>5 DEF RejectSetup, TypeOK
<1>6. CASE AcceptSetAddress
  <2>1. pending' \in Pending
    BY <1>6, PacketType DEF AcceptSetAddress, Pending
  <2> QED BY <1>1, <1>2, <1>3, <1>6, <2>1 DEF AcceptSetAddress, TypeOK
<1>7. CASE AcceptSetConfiguration
  <2>1. pending' \in Pending
    BY <1>7, PacketType DEF AcceptSetConfiguration, Pending
  <2> QED BY <1>1, <1>2, <1>3, <1>7, <2>1 DEF AcceptSetConfiguration, TypeOK
<1>8. CASE AcceptGetDevice
  <2>1. layout.device \in 0 .. BufSize
    BY Ep0Assumption, StreamAssumption DEF TypeOK, Layout
  <2>2. Least(layout.device, setup.wLength) \in 0 .. BufSize
    <3>1. setup.wLength \in Nat
      BY PacketType
    <3> QED BY <2>1, <3>1, StreamAssumption DEF Least
  <2>3. \A i \in BufferIndex : [desc |-> DeviceDescriptor, offset |-> i - 1] \in Byte
    BY DEF BufferIndex, Byte, DeviceDescriptor, Descriptor
  <2>4. buffer' \in [BufferIndex -> Byte]
    BY <1>8, <2>3 DEF AcceptGetDevice, TypeOK
  <2> QED BY <1>1, <1>3, <1>8, <2>2, <2>4 DEF AcceptGetDevice, TypeOK
<1>9. CASE AcceptGetConfiguration
  <2>1. OpenStream(layout, setup.wLength) \in Stream
    BY OpenStreamType, PacketType, Ep0Assumption DEF TypeOK
  <2>2. pending' \in Pending
    BY <1>9, <2>1 DEF AcceptGetConfiguration, Pending
  <2> QED BY <1>1, <1>2, <1>3, <1>9, <2>2 DEF AcceptGetConfiguration, TypeOK
<1> QED BY <1>4, <1>5, <1>6, <1>7, <1>8, <1>9 DEF HandleSetup

LEMMA InTyped == TypeOK /\ PendingMatchesState /\ HandleIn => TypeOK'
<1> SUFFICES ASSUME TypeOK, PendingMatchesState, HandleIn PROVE TypeOK'
  OBVIOUS
<1> USE DEF Handled, bus, context, endpoint, HandlingIn
<1>1. Ctrl(0, 0, "ACK", "NAK") \in Control /\ Ctrl(0, 1, "ACK", "NAK") \in Control
  BY CtrlType, ResponseHas
<1>2. 0 \in 0 .. BufSize
  BY StreamAssumption
<1>3. "IDLE" \in State /\ "WAIT_STATUS_OUT" \in State
  BY DEF State
<1>4. CASE CommitAddress
  <2>1. pending.candidate \in UInt8
    BY <1>4, PendingCandidate DEF CommitAddress, PendingMatchesState
  <2> QED BY <1>1, <1>2, <1>3, <1>4, <2>1 DEF CommitAddress, Quiet, TypeOK
<1>5. CASE CommitConfiguration
  <2>1. pending.candidate \in UInt8
    BY <1>5, PendingCandidate DEF CommitConfiguration, PendingMatchesState
  <2> QED BY <1>1, <1>2, <1>3, <1>5, <2>1 DEF CommitConfiguration, Quiet, TypeOK
<1>6. CASE DeviceDescriptorSent \/ RequestSatisfied \/ ZlpSent
  BY <1>1, <1>2, <1>3, <1>6
     DEF DeviceDescriptorSent, RequestSatisfied, ZlpSent, AwaitStatusOut, TypeOK
<1>7. CASE ContinueConfiguration
  BY <1>2, <1>7 DEF ContinueConfiguration, TypeOK
<1>8. CASE IgnoreIn
  BY <1>8 DEF IgnoreIn, TypeOK
<1> QED BY <1>4, <1>5, <1>6, <1>7, <1>8 DEF HandleIn

(* One iteration of the copy loop keeps the sum of the bytes filled and    *)
(* the bytes still requested.                                              *)
LEMMA FillChunkStep ==
    ASSUME TypeOK, PendingMatchesState, FillChunk
    PROVE  /\ pending' \in Pending /\ pending'.member = "stream"
           /\ buffer' \in [BufferIndex -> Byte]
           /\ filled' \in 0 .. BufSize
           /\ filled' + pending'.stream.request_remaining
                = filled + pending.stream.request_remaining
<1> DEFINE s == pending.stream
           n == ChunkSize(s, filled)
           next == Advance(layout, s, n)
<1>1. pending.member = "stream"
  BY DEF FillChunk, Filling, PendingMatchesState
<1>2. s \in Stream /\ layout \in Layout /\ filled \in 0 .. BufSize
  BY <1>1, PendingStream, Ep0Assumption DEF TypeOK
<1>3. /\ n \in Nat /\ n <= s.remaining /\ n <= BufSize - filled
      /\ n <= s.request_remaining /\ n <= s.total_remaining
  BY <1>2, ChunkFits
<1>4. next \in Stream /\ next.request_remaining = s.request_remaining - n
  <2> HIDE DEF s, n
  <2> QED BY <1>2, <1>3, AdvanceType DEF next
<1>5. pending' = [pending EXCEPT !.stream = next] /\ filled' = filled + n
  BY DEF FillChunk
<1>6. pending' \in Pending /\ pending'.member = "stream" /\ pending'.stream = next
  <2> HIDE DEF s, next
  <2> QED BY <1>1, <1>4, <1>5, PendingStream
<1>7. buffer' \in [BufferIndex -> Byte]
  <2>1. ASSUME NEW i \in BufferIndex, i > filled
        PROVE  [desc |-> s.desc, offset |-> s.offset + (i - filled - 1)] \in Byte
    BY <1>2, <2>1, FillBytes
  <2>2. buffer' = [i \in BufferIndex |->
                    IF i > filled /\ i <= filled + n
                    THEN [desc |-> s.desc, offset |-> s.offset + (i - filled - 1)]
                    ELSE buffer[i]]
    BY DEF FillChunk
  <2> HIDE DEF s, n
  <2> QED BY <2>1, <2>2 DEF TypeOK
<1>8. s.request_remaining \in Nat
  BY <1>2 DEF Stream
<1>9. filled' \in 0 .. BufSize
      /\ filled' + next.request_remaining = filled + s.request_remaining
  <2> HIDE DEF s, n, next
  <2> QED BY <1>2, <1>3, <1>4, <1>5, <1>8, StreamAssumption
<1> QED BY <1>6, <1>7, <1>9

LEMMA FillTyped == TypeOK /\ PendingMatchesState /\ Fill => TypeOK'
<1> SUFFICES ASSUME TypeOK, PendingMatchesState, Fill PROVE TypeOK'
  OBVIOUS
<1> USE DEF Filling, bus, context, endpoint
<1>1. CASE FillChunk
  BY <1>1, FillChunkStep DEF FillChunk, TypeOK
<1>2. 0 \in 0 .. BufSize
  BY StreamAssumption
<1>3. Ctrl(1, 1, "ACK", "ACK") \in Control /\ Ctrl(0, 1, "ACK", "NAK") \in Control
      /\ Ctrl(1 - ctrl.t_tog, 1, "NAK", "ACK") \in Control
  <2>1. 1 - ctrl.t_tog \in {0, 1}
    BY DEF TypeOK, Control
  <2> QED BY <2>1, CtrlType, ResponseHas
<1>4. CASE FirstPacket
  BY <1>2, <1>3, <1>4 DEF FirstPacket, FillDone, TypeOK
<1>5. CASE NextPacket
  BY <1>2, <1>3, <1>5 DEF NextPacket, FillDone, TypeOK
<1>6. CASE Zlp
  BY <1>2, <1>3, <1>6 DEF Zlp, FillDone, TypeOK, State
<1>7. CASE LastPacketSent
  BY <1>2, <1>3, <1>7 DEF LastPacketSent, AwaitStatusOut, FillDone, TypeOK, State
<1> QED BY <1>1, <1>4, <1>5, <1>6, <1>7 DEF Fill

LEMMA OutTyped == TypeOK /\ HandleOut => TypeOK'
<1> SUFFICES ASSUME TypeOK, HandleOut PROVE TypeOK'
  OBVIOUS
<1> USE DEF Handled, bus, context, endpoint, HandlingOut, TypeOK
<1>1. Ctrl(0, 0, "ACK", "NAK") \in Control /\ Ctrl(0, 0, "STALL", "STALL") \in Control
  BY CtrlType, ResponseHas
<1>2. 0 \in 0 .. BufSize /\ "IDLE" \in State
  BY StreamAssumption DEF State
<1>3. CASE StatusOut
  BY <1>1, <1>2, <1>3 DEF StatusOut, Quiet
<1>4. CASE StatusOutWithData
  BY <1>1, <1>2, <1>4 DEF StatusOutWithData, Stall
<1>5. CASE IgnoreOut
  BY <1>5 DEF IgnoreOut
<1> QED BY <1>3, <1>4, <1>5 DEF HandleOut

LEMMA IsrTyped ==
    TypeOK /\ (ClearTransfer \/ EnterForReset \/ HandleReset \/ LeaveIsr \/ PopSetup) => TypeOK'
<1> USE DEF bus, context, endpoint, TypeOK
<1>1. TypeOK /\ ClearTransfer => TypeOK'
  BY DEF ClearTransfer
<1>2. TypeOK /\ EnterForReset => TypeOK'
  BY DEF EnterForReset
<1>3. TypeOK /\ HandleReset => TypeOK'
  <2>1. Ctrl(0, 0, "ACK", "NAK") \in Control
    BY CtrlType, ResponseHas
  <2>2. 0 \in 0 .. BufSize /\ "INIT" \in State
    BY StreamAssumption DEF State
  <2> QED BY <2>1, <2>2, Widths DEF HandleReset, ResetEp0
<1>4. TypeOK /\ LeaveIsr => TypeOK'
  BY DEF LeaveIsr
<1>5. TypeOK /\ PopSetup => TypeOK'
  BY Ep0Assumption DEF PopSetup
<1> QED BY <1>1, <1>2, <1>3, <1>4, <1>5

LEMMA NextTyped == TypeOK /\ PendingMatchesState /\ [Next]_vars => TypeOK'
<1>1. TypeOK /\ UNCHANGED vars => TypeOK'
  BY DEF vars, context, endpoint, bus, TypeOK
<1> QED BY <1>1, BusTyped, SetupTyped, InTyped, FillTyped, OutTyped, IsrTyped
        DEF Next, UsbIsr

-----------------------------------------------------------------------------
(* The parts of Agrees, one group of actions at a time.                    *)

LEMMA NumbersOK ==
    ASSUME TypeOK
    PROVE  t_len \in Nat /\ filled \in Nat /\ setup.wLength \in Nat
BY PacketType, StreamAssumption DEF TypeOK

LEMMA RemainingOK ==
    ASSUME TypeOK, pending.member = "stream"
    PROVE  pending.stream.request_remaining \in Nat
BY PendingStream DEF Stream

(* In the handler of IN or OUT, a serving state means an armed endpoint,   *)
(* and the armed reply matches.                                            *)
LEMMA ServingIsArmed ==
    ASSUME IInv, isr = "idle", uif_transfer, token # "SETUP"
    PROVE  /\ ctrl.t_res # "STALL" /\ ctrl.r_res # "STALL"
           /\ ctrl.t_res = "ACK" \/ state \notin Serving
           /\ ctrl.t_res = "ACK" => ReplyMatches
<1>1. ctrl.t_res \in Response
  BY DEF IInv, TypeOK, Control
<1> QED BY <1>1 DEF IInv, Agrees, EndpointMatchesState, NotStalled, Reply, SetupDue, Response

LEMMA BusAgrees == IInv /\ Bus => Agrees'
<1> SUFFICES ASSUME IInv, Bus PROVE Agrees'
  OBVIOUS
<1> USE DEF device, context, endpoint, IInv, Agrees, PendingMatchesState, EndpointMatchesState,
            Phase, NotStalled, Reply, FillReply, SetupDue
<1>1. ASSUME NEW p, NEW n, BusSetup(p, n) PROVE Agrees'
  BY <1>1 DEF BusSetup
<1>2. CASE BusIn
  BY <1>2 DEF BusIn, ReplyMatches
<1>3. ASSUME NEW n, BusOut(n) PROVE Agrees'
  BY <1>3 DEF BusOut, ReplyMatches
<1>4. CASE BusReset
  BY <1>4 DEF BusReset, ReplyMatches
<1> QED BY <1>1, <1>2, <1>3, <1>4 DEF Bus

LEMMA SetupAgrees == IInv /\ HandleSetup => Agrees'
<1> SUFFICES ASSUME IInv, HandleSetup PROVE Agrees'
  OBVIOUS
<1> USE DEF Handled, bus, context, endpoint, IInv, Agrees, PendingMatchesState,
            EndpointMatchesState, Phase, NotStalled, Reply, FillReply, SetupDue, Serving
<1>1. CASE HandleShortSetup
  BY <1>1, CtrlType DEF HandleShortSetup, Stall, Handling
<1>2. CASE RejectSetup
  BY <1>2, CtrlType DEF RejectSetup, Stall, HandlingRequest, Handling
<1>3. CASE AcceptSetAddress
  BY <1>3, CtrlType, PacketType DEF AcceptSetAddress, HandlingRequest, Handling, ReplyMatches
<1>4. CASE AcceptSetConfiguration
  BY <1>4, CtrlType, PacketType
     DEF AcceptSetConfiguration, HandlingRequest, Handling, ReplyMatches
<1>5. CASE AcceptGetDevice
  <2>1. Least(layout.device, setup.wLength) <= setup.wLength
    <3>1. layout.device \in Nat
      BY Ep0Assumption, StreamAssumption DEF TypeOK, Layout
    <3> QED BY <3>1, NumbersOK DEF Least
  <2> QED BY <1>5, <2>1, CtrlType DEF AcceptGetDevice, HandlingRequest, Handling, ReplyMatches
<1>6. CASE AcceptGetConfiguration
  <2>1. layout \in Layout /\ setup.wLength \in Nat
    BY NumbersOK, Ep0Assumption DEF TypeOK
  <2>2. OpenStream(layout, setup.wLength).request_remaining = setup.wLength
    BY <2>1, OpenStreamType
  <2>3. CASE setup.wLength = 0
    BY <1>6, <2>3, CtrlType DEF AcceptGetConfiguration, HandlingRequest, Handling
  <2>4. CASE setup.wLength # 0
    BY <1>6, <2>1, <2>2, <2>4 DEF AcceptGetConfiguration, HandlingRequest, Handling
  <2> QED BY <2>3, <2>4
<1> QED BY <1>1, <1>2, <1>3, <1>4, <1>5, <1>6 DEF HandleSetup

LEMMA InAgrees == IInv /\ HandleIn => Agrees'
<1> SUFFICES ASSUME IInv, HandleIn PROVE Agrees'
  OBVIOUS
<1> USE DEF Handled, bus, context, endpoint, HandlingIn, Handling, IInv, Agrees,
            PendingMatchesState, EndpointMatchesState, Phase, NotStalled, Reply, FillReply,
            SetupDue, Serving
<1>1. CASE CommitAddress
  BY <1>1, CtrlType DEF CommitAddress, Quiet
<1>2. CASE CommitConfiguration
  BY <1>2, CtrlType DEF CommitConfiguration, Quiet
<1>3. CASE DeviceDescriptorSent \/ RequestSatisfied \/ ZlpSent
  BY <1>3, CtrlType DEF DeviceDescriptorSent, RequestSatisfied, ZlpSent, AwaitStatusOut
<1>4. CASE ContinueConfiguration
  <2>1. ctrl.t_res = "ACK" /\ ReplyMatches
    BY <1>4, ServingIsArmed DEF ContinueConfiguration
  <2>2. pending.member = "stream"
    BY <1>4 DEF ContinueConfiguration
  <2>3. pending.stream.request_remaining <= setup.wLength
    BY <1>4, <2>1, <2>2, NumbersOK, RemainingOK DEF ContinueConfiguration, ReplyMatches
  <2>4. 0 + pending.stream.request_remaining <= setup.wLength
    BY <2>2, <2>3, RemainingOK
  <2> QED BY <1>4, <2>1, <2>4 DEF ContinueConfiguration, ReplyMatches
<1>5. CASE IgnoreIn
  BY <1>5 DEF IgnoreIn
<1> QED BY <1>1, <1>2, <1>3, <1>4, <1>5 DEF HandleIn

LEMMA FillAgrees == IInv /\ Fill => Agrees'
<1> SUFFICES ASSUME IInv, Fill PROVE Agrees'
  OBVIOUS
<1> USE DEF Filling, bus, context, endpoint, IInv, Agrees, PendingMatchesState,
            EndpointMatchesState, Phase, NotStalled, Reply, FillReply, SetupDue, Serving
<1>1. CASE FillChunk
  <2>1. pending.member = "stream" /\ state = "SEND_CONFIGURATION_DESCRIPTOR" /\ isr = "fill"
    BY <1>1 DEF FillChunk, FillMore
  <2>2. pending'.stream.request_remaining <= pending.stream.request_remaining
    <3> DEFINE s == pending.stream
               n == ChunkSize(s, filled)
    <3>1. s \in Stream /\ layout \in Layout /\ filled \in 0 .. BufSize
      BY <2>1, PendingStream, Ep0Assumption DEF TypeOK
    <3>2. n \in Nat /\ n <= s.remaining /\ n <= s.request_remaining /\ n <= s.total_remaining
      BY <3>1, ChunkFits
    <3>3. pending'.stream = Advance(layout, s, n)
      BY <1>1, <2>1, PendingStream, AdvanceType, <3>1, <3>2 DEF FillChunk
    <3>4. Advance(layout, s, n).request_remaining = s.request_remaining - n
      BY <3>1, <3>2, AdvanceType
    <3> HIDE DEF s, n
    <3>5. s.request_remaining \in Nat
      BY <3>1 DEF Stream
    <3> QED BY <3>2, <3>3, <3>4, <3>5 DEF s
  <2>3. t_len + pending'.stream.request_remaining <= t_len + pending.stream.request_remaining
    <3>1. pending'.stream.request_remaining \in Nat
      BY <1>1, FillChunkStep DEF Pending, Stream
    <3> QED BY <2>1, <2>2, <3>1, NumbersOK, RemainingOK
  <2>4. /\ pending'.member = "stream"
        /\ filled' + pending'.stream.request_remaining
             = filled + pending.stream.request_remaining
    BY <1>1, FillChunkStep
  <2>5. Reply'
    <3>1. pending'.stream.request_remaining \in Nat /\ pending.stream.request_remaining \in Nat
      BY <1>1, <2>1, FillChunkStep, RemainingOK DEF Pending, Stream
    <3> QED BY <1>1, <2>1, <2>3, <3>1, NumbersOK DEF FillChunk, ReplyMatches
  <2> QED BY <1>1, <2>1, <2>4, <2>5 DEF FillChunk
<1>2. CASE FirstPacket
  BY <1>2, CtrlType DEF FirstPacket, FillDone, ReplyMatches
<1>3. CASE NextPacket
  BY <1>3, CtrlType DEF NextPacket, FillDone, ReplyMatches
<1>4. CASE Zlp
  BY <1>4, CtrlType DEF Zlp, FillDone, ReplyMatches
<1>5. CASE LastPacketSent
  BY <1>5, CtrlType DEF LastPacketSent, AwaitStatusOut, FillDone
<1> QED BY <1>1, <1>2, <1>3, <1>4, <1>5 DEF Fill

LEMMA OutAgrees == IInv /\ HandleOut => Agrees'
<1> SUFFICES ASSUME IInv, HandleOut PROVE Agrees'
  OBVIOUS
<1> USE DEF Handled, bus, context, endpoint, HandlingOut, Handling, IInv, Agrees,
            PendingMatchesState, EndpointMatchesState, Phase, NotStalled, Reply, FillReply,
            SetupDue, Serving
<1>1. CASE StatusOut
  BY <1>1, CtrlType DEF StatusOut, Quiet
<1>2. CASE StatusOutWithData
  BY <1>2, CtrlType DEF StatusOutWithData, Stall
<1>3. CASE IgnoreOut
  BY <1>3 DEF IgnoreOut, ReplyMatches
<1> QED BY <1>1, <1>2, <1>3 DEF HandleOut

LEMMA IsrAgrees ==
    IInv /\ (ClearTransfer \/ EnterForReset \/ HandleReset \/ LeaveIsr \/ PopSetup) => Agrees'
<1> USE DEF bus, context, endpoint, IInv, Agrees, PendingMatchesState,
            EndpointMatchesState, Phase, NotStalled, Reply, FillReply, SetupDue, ReplyMatches
<1>1. IInv /\ ClearTransfer => Agrees'
  BY DEF ClearTransfer
<1>2. IInv /\ EnterForReset => Agrees'
  BY DEF EnterForReset
<1>3. IInv /\ HandleReset => Agrees'
  BY CtrlType DEF HandleReset, ResetEp0, Serving
<1>4. IInv /\ LeaveIsr => Agrees'
  BY DEF LeaveIsr
<1>5. IInv /\ PopSetup => Agrees'
  BY DEF PopSetup
<1> QED BY <1>1, <1>2, <1>3, <1>4, <1>5

LEMMA NextAgrees == IInv /\ [Next]_vars => Agrees'
<1>1. IInv /\ UNCHANGED vars => Agrees'
  BY DEF vars, context, endpoint, bus, IInv, Agrees, PendingMatchesState,
         EndpointMatchesState, Phase, NotStalled, Reply, FillReply, SetupDue, ReplyMatches
<1> QED BY <1>1, BusAgrees, SetupAgrees, InAgrees, FillAgrees, OutAgrees, IsrAgrees
        DEF Next, UsbIsr

-----------------------------------------------------------------------------
LEMMA InitInv == Init => IInv
<1> SUFFICES ASSUME Init PROVE IInv
  OBVIOUS
<1>1. TypeOK
  BY InitTyped
<1>2. ctrl.t_res = "NAK" /\ ctrl.r_res = "ACK"
  BY CtrlType DEF Init
<1> QED BY <1>1, <1>2 DEF Init, IInv, Agrees, PendingMatchesState, EndpointMatchesState,
                          Phase, NotStalled, Reply, FillReply, Serving

LEMMA Invariance == Spec => []IInv
<1>1. IInv /\ [Next]_vars => IInv'
  BY NextTyped, NextAgrees DEF IInv, Agrees
<1> QED BY InitInv, <1>1, PTL DEF Spec

(* usb_ep0_ctx, the registers and the buffer keep their types and bounds:  *)
(* the copy loop of prepare.c never fills more than the buffer holds.      *)
THEOREM TypeCorrect == Spec => []TypeOK
<1>1. IInv => TypeOK
  BY DEF IInv
<1> QED BY Invariance, <1>1, PTL

(* Every handler reads the member of the union that was written last.      *)
THEOREM UnionReadAsWritten == Spec => []PendingMatchesState
<1>1. IInv => PendingMatchesState
  BY DEF IInv, Agrees
<1> QED BY Invariance, <1>1, PTL

(* UEP0_CTRL agrees with usb_ep0_ctx.state, whatever the host sends.       *)
THEOREM EndpointAgrees == Spec => []EndpointMatchesState
<1>1. IInv => EndpointMatchesState
  BY DEF IInv, Agrees
<1> QED BY Invariance, <1>1, PTL

(* What the host can fetch answers the SETUP packet that it sent last.     *)
THEOREM RepliesAreCurrent == Spec => []AnswersLastSetup
<1>1. IInv => AnswersLastSetup
  BY DEF IInv, Agrees, AnswersLastSetup, CanFetch, Reply, SetupDue, ReplyMatches
<1> QED BY Invariance, <1>1, PTL

(* Only a SETUP packet or a bus reset ends a stall.                        *)
THEOREM StallIsHeld == Spec => StallHolds
<1> DEFINE Held == ctrl.t_res = "STALL" /\ ctrl'.t_res # "STALL"
                     => uif_bus_rst \/ (uif_transfer /\ token = "SETUP")
<1>1. IInv /\ [Next]_vars => [Held]_vars
  <2> SUFFICES ASSUME IInv, Next, ctrl.t_res = "STALL", ctrl'.t_res # "STALL"
               PROVE  uif_bus_rst \/ (uif_transfer /\ token = "SETUP")
    BY DEF vars
  <2> USE DEF context, endpoint, device, bus
  <2>1. CASE Bus
    BY <2>1 DEF Bus, BusSetup, BusIn, BusOut, BusReset
  <2>2. CASE HandleSetup
    BY <2>2 DEF HandleSetup, HandleShortSetup, RejectSetup, AcceptSetAddress,
                AcceptSetConfiguration, AcceptGetDevice, AcceptGetConfiguration,
                HandlingRequest, Handling
  <2>3. CASE HandleIn \/ HandleOut
    <3>1. isr = "idle" /\ uif_transfer /\ token # "SETUP"
      BY <2>3 DEF HandleIn, CommitAddress, CommitConfiguration, DeviceDescriptorSent,
                  RequestSatisfied, ContinueConfiguration, ZlpSent, IgnoreIn, HandlingIn,
                  HandleOut, StatusOut, StatusOutWithData, IgnoreOut, HandlingOut, Handling
    <3> QED BY <3>1, ServingIsArmed
  <2>4. CASE Fill
    <3>1. isr = "fill"
      BY <2>4 DEF Fill, FillChunk, FirstPacket, NextPacket, Zlp, LastPacketSent, FillDone, Filling
    <3> QED BY <3>1 DEF IInv, Agrees, Phase, NotStalled
  <2>5. CASE HandleReset
    BY <2>5 DEF HandleReset
  <2>6. CASE ClearTransfer \/ EnterForReset \/ LeaveIsr \/ PopSetup
    BY <2>6 DEF ClearTransfer, EnterForReset, LeaveIsr, PopSetup
  <2> QED BY <2>1, <2>2, <2>3, <2>4, <2>5, <2>6 DEF Next, UsbIsr
<1>2. Spec => [][Held]_vars
  BY Invariance, <1>1, PTL DEF Spec
<1> QED BY <1>2 DEF StallHolds

-----------------------------------------------------------------------------
(* The refinement.  What RequestStage is, here and in the next state.      *)

LEMMA StageIs ==
    /\ Completed("SETUP") => RequestStage = "received"
    /\ ~Completed("SETUP") /\ ~Open => RequestStage = "none"
    /\ Open /\ Completed("IN") => RequestStage = "acknowledged"
    /\ Open /\ ~Completed("SETUP") /\ ~Completed("IN") => RequestStage = "open"
BY DEF RequestStage, Completed

LEMMA StageWillBe ==
    /\ Completed("SETUP")' => RequestStage' = "received"
    /\ ~Completed("SETUP")' /\ ~Open' => RequestStage' = "none"
    /\ Open' /\ Completed("IN")' => RequestStage' = "acknowledged"
    /\ Open' /\ ~Completed("SETUP")' /\ ~Completed("IN")' => RequestStage' = "open"
BY DEF RequestStage, Completed

(* After the handler of IN no status stage is armed: it has been acted on. *)
Acted == isr = "clear" /\ token = "IN" => ~Open

LEMMA StepActs == IInv /\ Acted /\ [Next]_vars => Acted'
<1> SUFFICES ASSUME IInv, Acted, [Next]_vars PROVE Acted'
  OBVIOUS
<1> USE DEF Acted, Open, context, endpoint, bus
<1>1. CASE UNCHANGED vars
  BY <1>1 DEF vars
<1>2. CASE Bus
  BY <1>2 DEF Bus, BusSetup, BusIn, BusOut, BusReset, device, IInv, Agrees, Phase
<1>3. CASE HandleSetup
  BY <1>3 DEF HandleSetup, HandleShortSetup, RejectSetup, AcceptSetAddress, AcceptSetConfiguration,
         AcceptGetDevice, AcceptGetConfiguration, HandlingRequest, Handling, Handled
<1>4. CASE HandleIn
  BY <1>4 DEF HandleIn, CommitAddress, CommitConfiguration, DeviceDescriptorSent, RequestSatisfied,
         ContinueConfiguration, ZlpSent, IgnoreIn, HandlingIn, Handling, Quiet, AwaitStatusOut
<1>5. CASE HandleOut
  BY <1>5 DEF HandleOut, StatusOut, StatusOutWithData, IgnoreOut, HandlingOut, Handling, Handled
<1>6. CASE Fill
  <2>1. state' \in {"SEND_CONFIGURATION_DESCRIPTOR", "SEND_CONFIGURATION_ZLP", "WAIT_STATUS_OUT"}
    BY <1>6 DEF Fill, FillChunk, FirstPacket, NextPacket, Zlp, LastPacketSent, FillDone, Filling,
           AwaitStatusOut, IInv, Agrees, Phase
  <2> QED BY <2>1
<1>7. CASE ClearTransfer \/ EnterForReset \/ HandleReset \/ LeaveIsr \/ PopSetup
  BY <1>7 DEF ClearTransfer, EnterForReset, HandleReset, LeaveIsr, PopSetup
<1> QED BY <1>1, <1>2, <1>3, <1>4, <1>5, <1>6, <1>7 DEF Next, UsbIsr

LEMMA AlwaysActed == Spec => [](IInv /\ Acted)
<1>1. Init => Acted
  BY DEF Init, Acted
<1> QED BY Invariance, <1>1, StepActs, PTL DEF Spec

(* One lemma per group of actions: the step of the abstract requests that  *)
(* it is, or Same, a stuttering step of them.                              *)

Same == UNCHANGED <<dev_ad, configuration, setup, uif_bus_rst>> /\ RequestStage' = RequestStage

LEMMA BusMaps ==
    Bus => \/ \E p \in Packet : DR!ReceiveSetup(p)
           \/ DR!Acknowledge \/ DR!SignalReset \/ Same
<1> USE DEF device, context, endpoint
<1>1. ASSUME NEW p \in Packet, NEW n, BusSetup(p, n) PROVE DR!ReceiveSetup(p)
  <2>1. RequestStage \in {"none", "open"} /\ RequestStage' = "received"
    BY <1>1, StageIs, StageWillBe DEF BusSetup, Completed
  <2> QED BY <1>1, <2>1 DEF BusSetup, DR!ReceiveSetup
<1>2. ASSUME BusIn PROVE DR!Acknowledge \/ Same
  <2>1. ~Completed("SETUP") /\ ~Completed("IN") /\ ~Completed("SETUP")' /\ Completed("IN")'
    BY <1>2 DEF BusIn, Completed
  <2>2. Open' = Open /\ UNCHANGED <<dev_ad, configuration, setup, uif_bus_rst>>
    BY <1>2 DEF BusIn, Open
  <2>3. CASE Open
    BY <2>1, <2>2, <2>3, StageIs, StageWillBe DEF DR!Acknowledge
  <2>4. CASE ~Open
    BY <2>1, <2>2, <2>4, StageIs, StageWillBe DEF Same
  <2> QED BY <2>3, <2>4
<1>3. ASSUME NEW n, BusOut(n) PROVE Same
  <2>1. ~Completed("SETUP") /\ ~Completed("IN") /\ ~Completed("SETUP")' /\ ~Completed("IN")'
    BY <1>3 DEF BusOut, Completed
  <2>2. Open' = Open /\ UNCHANGED <<dev_ad, configuration, setup, uif_bus_rst>>
    BY <1>3 DEF BusOut, Open
  <2> QED BY <2>1, <2>2, StageIs, StageWillBe DEF Same
<1>4. ASSUME BusReset PROVE DR!SignalReset
  <2>1. RequestStage' = RequestStage
    BY <1>4 DEF BusReset, RequestStage, Open, Completed
  <2> QED BY <1>4, <2>1 DEF BusReset, DR!SignalReset
<1> QED BY <1>1, <1>2, <1>3, <1>4 DEF Bus

LEMMA SetupMaps == HandleSetup => Same
<1> SUFFICES ASSUME HandleSetup PROVE Same
  OBVIOUS
<1>1. uif_transfer /\ token = "SETUP" /\ UNCHANGED <<bus, dev_ad, configuration>>
  BY DEF HandleSetup, HandleShortSetup, RejectSetup, AcceptSetAddress, AcceptSetConfiguration,
         AcceptGetDevice, AcceptGetConfiguration, HandlingRequest, Handling, Handled, context
<1>2. Completed("SETUP") /\ Completed("SETUP")'
  BY <1>1 DEF bus, Completed
<1> QED BY <1>1, <1>2, StageIs, StageWillBe DEF Same, bus

LEMMA InMaps == IInv /\ HandleIn => DR!Commit \/ Same
<1> SUFFICES ASSUME IInv, HandleIn PROVE DR!Commit \/ Same
  OBVIOUS
<1> USE DEF Handled, bus, context, endpoint, HandlingIn, Handling
<1>1. /\ Completed("IN") /\ ~Completed("SETUP") /\ ~Completed("SETUP")'
      /\ UNCHANGED <<setup, uif_bus_rst>>
  BY DEF HandleIn, CommitAddress, CommitConfiguration, DeviceDescriptorSent, RequestSatisfied,
         ContinueConfiguration, ZlpSent, IgnoreIn, Completed
<1>2. ~Open'
  BY DEF HandleIn, CommitAddress, CommitConfiguration, DeviceDescriptorSent, RequestSatisfied,
         ContinueConfiguration, ZlpSent, IgnoreIn, Quiet, AwaitStatusOut, Open
<1>3. RequestStage' = "none" /\ (Open => RequestStage = "acknowledged")
      /\ (~Open => RequestStage = "none")
  BY <1>1, <1>2, StageIs, StageWillBe
<1>4. CASE CommitAddress
  <2>1. ctrl.t_res = "ACK" /\ ReplyMatches
    BY <1>4, ServingIsArmed DEF CommitAddress, Serving
  <2>2. IsSetAddress(setup) /\ dev_ad' = setup.wValue /\ Open
    BY <1>4, <2>1 DEF CommitAddress, ReplyMatches, Open
  <2> QED BY <1>1, <1>3, <1>4, <2>2 DEF CommitAddress, DR!Commit
<1>5. CASE CommitConfiguration
  <2>1. ctrl.t_res = "ACK" /\ ReplyMatches
    BY <1>5, ServingIsArmed DEF CommitConfiguration, Serving
  <2>2. IsSetConfiguration(setup) /\ configuration' = setup.wValue /\ Open
    BY <1>5, <2>1 DEF CommitConfiguration, ReplyMatches, Open
  <2>3. ~IsSetAddress(setup)
    BY <2>2 DEF IsSetAddress, IsSetConfiguration
  <2> QED BY <1>1, <1>3, <1>5, <2>2, <2>3 DEF CommitConfiguration, DR!Commit
<1>6. CASE DeviceDescriptorSent \/ RequestSatisfied \/ ZlpSent \/ ContinueConfiguration \/ IgnoreIn
  <2>1. ~Open /\ UNCHANGED <<dev_ad, configuration>>
    BY <1>6 DEF DeviceDescriptorSent, RequestSatisfied, ZlpSent, ContinueConfiguration, IgnoreIn, Open
  <2> QED BY <1>1, <1>3, <2>1 DEF Same
<1> QED BY <1>4, <1>5, <1>6 DEF HandleIn

LEMMA FillMaps == IInv /\ Fill => Same
<1> SUFFICES ASSUME IInv, Fill PROVE Same
  OBVIOUS
<1>1. state = "SEND_CONFIGURATION_DESCRIPTOR" /\ UNCHANGED <<bus, dev_ad, configuration>>
  BY DEF Fill, FillChunk, FirstPacket, NextPacket, Zlp, LastPacketSent, FillDone, Filling,
         IInv, Agrees, Phase
<1>2. state' \in {"SEND_CONFIGURATION_DESCRIPTOR", "SEND_CONFIGURATION_ZLP", "WAIT_STATUS_OUT"}
  BY <1>1 DEF Fill, FillChunk, FirstPacket, NextPacket, Zlp, LastPacketSent, AwaitStatusOut
<1>3. ~Open /\ ~Open' /\ Completed("SETUP")' = Completed("SETUP")
  BY <1>1, <1>2 DEF Open, Completed, bus
<1> QED BY <1>1, <1>3, StageIs, StageWillBe DEF Same, bus

LEMMA OutMaps == HandleOut => Same
<1> SUFFICES ASSUME HandleOut PROVE Same
  OBVIOUS
<1>1. Handling("OUT") /\ UNCHANGED <<dev_ad, configuration, bus>>
  BY DEF HandleOut, StatusOut, StatusOutWithData, IgnoreOut, HandlingOut, Handled
<1>2. Open' = Open
  BY DEF HandleOut, StatusOut, StatusOutWithData, IgnoreOut, HandlingOut, Quiet, Open, endpoint
<1>3. RequestStage' = RequestStage
  BY <1>1, <1>2 DEF RequestStage, Completed, bus
<1> QED BY <1>1, <1>3 DEF Same, bus

LEMMA IsrMaps ==
    IInv /\ Acted /\ (ClearTransfer \/ EnterForReset \/ HandleReset \/ LeaveIsr \/ PopSetup)
      => DR!Accept \/ DR!Decline \/ DR!Reset \/ Same
<1> USE DEF bus, context, endpoint
<1>1. ASSUME IInv, Acted, ClearTransfer PROVE DR!Accept \/ DR!Decline \/ Same
  <2>1. /\ UNCHANGED <<dev_ad, configuration, setup, uif_bus_rst, state, ctrl, token>>
        /\ ~uif_transfer' /\ isr = "clear" /\ uif_transfer
    BY <1>1 DEF ClearTransfer, IInv, Agrees, Phase
  <2>2. Open' = Open /\ ~Completed("SETUP")' /\ ~Completed("IN")'
    BY <2>1 DEF Open, Completed
  <2>3. RequestStage' = IF Open THEN "open" ELSE "none"
    BY <2>2, StageWillBe
  <2>4. CASE token = "SETUP" /\ Open
    <3>1. ReplyMatches
      BY <1>1, <2>1, <2>4 DEF Open, IInv, Agrees, Reply, SetupDue
    <3>2. IsSetAddress(setup) \/ IsSetConfiguration(setup)
      BY <2>4, <3>1 DEF ReplyMatches, Open
    <3>3. RequestStage = "received"
      BY <2>1, <2>4, StageIs DEF Completed
    <3> QED BY <2>1, <2>3, <2>4, <3>2, <3>3 DEF DR!Accept
  <2>5. CASE token = "SETUP" /\ ~Open
    <3>1. RequestStage = "received"
      BY <2>1, <2>5, StageIs DEF Completed
    <3> QED BY <2>1, <2>3, <2>5, <3>1 DEF DR!Decline
  <2>6. CASE token # "SETUP"
    <3>1. RequestStage = IF Open THEN "open" ELSE "none"
      BY <1>1, <2>1, <2>6, StageIs DEF Acted, Completed
    <3> QED BY <2>1, <2>3, <3>1 DEF Same
  <2> QED BY <2>4, <2>5, <2>6
<1>2. EnterForReset => Same
  BY DEF EnterForReset, Same, RequestStage, Open, Completed
<1>3. ASSUME HandleReset PROVE DR!Reset
  <2>1. ~Open' /\ Completed("SETUP")' = Completed("SETUP")
    BY <1>3 DEF HandleReset, ResetEp0, Ctrl, Open, Completed
  <2>2. RequestStage' = IF RequestStage = "received" THEN "received" ELSE "none"
    BY <2>1, StageIs, StageWillBe
  <2> QED BY <1>3, <2>2 DEF HandleReset, ResetEp0, DR!Reset
<1>4. LeaveIsr => Same
  BY DEF LeaveIsr, Same, RequestStage, Open, Completed
<1>5. PopSetup => Same
  BY DEF PopSetup, Same, RequestStage, Open, Completed
<1> QED BY <1>1, <1>2, <1>3, <1>4, <1>5

(* Endpoint 0 implements the requests that change the device: an address   *)
(* or a configuration takes effect only after the host has acknowledged    *)
(* its status stage, with the value of the last SETUP packet; only a bus   *)
(* reset keeps one that was acknowledged from taking effect; and a bus     *)
(* reset leaves both zero.                                                 *)
THEOREM Refinement == Spec => ImplementsRequests
<1>1. Init => DR!RInit
  <2>1. Init => ~Open /\ ~Completed("SETUP")
    BY CtrlType DEF Init, Open, Completed
  <2> QED BY <2>1, StageIs DEF Init, DR!RInit
<1>2. IInv /\ Acted /\ [Next]_vars => [DR!RNext]_(DR!rvars)
  <2>1. Same => UNCHANGED DR!rvars
    BY DEF Same, DR!rvars
  <2>2. UNCHANGED vars => Same
    BY DEF vars, context, endpoint, bus, Same, RequestStage, Open, Completed
  <2> QED BY <2>1, <2>2, BusMaps, SetupMaps, InMaps, FillMaps, OutMaps, IsrMaps
          DEF Next, UsbIsr, DR!RNext
<1> QED BY AlwaysActed, <1>1, <1>2, PTL DEF Spec, ImplementsRequests, DR!RSpec

-----------------------------------------------------------------------------
(* Endpoint 0 and its host.                                                *)

(* A completed IN that the handler has still to act on.                    *)
InDue == uif_transfer /\ token = "IN" /\ isr # "clear"

HostAtReset == uif_bus_rst => stage = "idle"

Lengths == uif_transfer => /\ token = "SETUP" => rx_len = 8
                           /\ token = "OUT" => rx_len = 0

Stages == /\ stage \in {"data", "statusOut"} => HasDataStage(setup)
          /\ stage = "statusIn" => ~HasDataStage(setup)

StallMeansUnsupported == ctrl.t_res = "STALL" /\ ~SetupDue => ~Supported(setup)

(* The replies that are not descriptors go out as DATA1.                   *)
Toggles == ctrl.t_res = "ACK" /\ ~SetupDue =>
             /\ state \in {"WAIT_DEVICE_ADDRESS", "WAIT_SET_CONFIGURATION",
                           "SEND_DEVICE_DESCRIPTOR"} => ctrl.t_tog = 1
             /\ state \in {"SEND_CONFIGURATION_DESCRIPTOR", "SEND_CONFIGURATION_ZLP"}
                  => setup.wLength # 0

FillHasData == isr = "fill" => setup.wLength # 0

(* The host has its data: the device arms no more than the status stage.   *)
ReadOver == stage = "statusOut" /\ mishap = "none" =>
              /\ uif_transfer => token # "SETUP"
              /\ ctrl.t_res = "ACK" /\ ctrl.r_res # "NAK" => InDue

(* The host is done: the handler has at most the last packet to act on.    *)
LastIn == /\ ctrl.t_res = "ACK" /\ isr # "fill"
          /\ state \notin {"SEND_CONFIGURATION_DESCRIPTOR", "SEND_CONFIGURATION_ZLP"}
          /\ IF IsSetAddress(setup) THEN address = setup.wValue ELSE dev_ad = address

Agreed == /\ dev_ad = address /\ ctrl.t_res # "ACK"
          /\ IsSetConfiguration(setup) => configuration = setup.wValue

TransferOver == stage = "done" /\ mishap = "none" =>
                  /\ uif_transfer => token # "SETUP"
                  /\ IF InDue THEN LastIn ELSE Agreed

Coupled == /\ HostAtReset /\ Lengths /\ Stages
           /\ StallMeansUnsupported /\ Toggles /\ FillHasData
           /\ ReadOver /\ TransferOver

HInv == IInv /\ HostTypeOK /\ Coupled

-----------------------------------------------------------------------------
(* The host is a case of the environment of Ep0.                           *)

LEMMA HostIsBus == HostNext => [Next]_vars
<1> SUFFICES ASSUME HostNext PROVE [Next]_vars
  OBVIOUS
<1>1. 0 \in OutLength
  BY HostAssumption
<1>2. CASE \E p \in Packet : HostSetup(p)
  BY <1>2 DEF HostSetup, Next, Bus
<1>3. CASE HostIn \/ HostStatusOut \/ HostStatusOutAckLost
  BY <1>1, <1>3 DEF HostIn, HostStatusOut, HostStatusOutAckLost, Next, Bus
<1>4. CASE HostReset
  BY <1>4 DEF HostReset, Next, Bus
<1>5. CASE HostSeesStall \/ HostInAckLost \/ HostEndsEarly
  BY <1>5 DEF HostSeesStall, HostInAckLost, HostEndsEarly
<1>6. CASE Device
  BY <1>6 DEF Device, Next
<1> QED BY <1>2, <1>3, <1>4, <1>5, <1>6 DEF HostNext, Host, HostTransaction

LEMMA HostStepInv == IInv /\ [HostNext]_allvars => IInv'
<1>1. [HostNext]_allvars => [Next]_vars
  BY HostIsBus DEF allvars
<1> QED BY <1>1, NextTyped, NextAgrees DEF IInv, Agrees

(* What endpoint 0 does with such a host, it does with any.                *)
THEOREM HostIsEnvironment == HostSpec => Spec
<1>1. HostInit => Init
  BY DEF HostInit
<1>2. [HostNext]_allvars => [Next]_vars
  BY HostIsBus DEF allvars
<1> QED BY <1>1, <1>2, PTL DEF HostSpec, Spec

-----------------------------------------------------------------------------
(* The host's variables keep their types.                                  *)

LEMMA PacketData ==
    ASSUME TypeOK
    PROVE  Data \in Seq(Byte)
<1> DEFINE b == [i \in BufferIndex |-> buffer[i]]
<1>1. BufSize \in Nat /\ t_len \in 0 .. BufSize
  BY StreamAssumption DEF TypeOK
<1>2. b \in [1 .. BufSize -> Byte]
  BY DEF TypeOK, BufferIndex
<1>3. b \in Seq(Byte) /\ Len(b) = BufSize
  <2> HIDE DEF b
  <2> QED BY <1>1, <1>2
<1>4. SubSeq(b, 1, t_len) \in Seq(Byte)
  <2> HIDE DEF b
  <2> QED BY <1>1, <1>3, SubSeqProperties
<1> QED BY <1>4 DEF Data

LEMMA TakeTyped ==
    ASSUME TypeOK, HostTypeOK
    PROVE  /\ TakeData => /\ received' \in Seq(Byte) /\ toggle' \in {0, 1}
                          /\ stage' \in {"data", "statusOut"} /\ address' = address
           /\ TakeStatus => /\ received' = received /\ toggle' = toggle
                            /\ stage' \in {"done", "failed"} /\ address' \in 0 .. 127
<1>1. TakeData => received' \in Seq(Byte)
  <2>1. received \in Seq(Byte)
    BY DEF HostTypeOK
  <2>2. received \o Data \in Seq(Byte)
    BY <2>1, PacketData, ConcatProperties
  <2> QED BY <2>1, <2>2 DEF TakeData
<1>2. TakeData => /\ toggle' \in {0, 1} /\ address' = address
                  /\ stage' \in {"data", "statusOut"}
  <2>1. toggle \in {0, 1}
    BY DEF HostTypeOK
  <2> QED BY <2>1 DEF TakeData
<1>3. TakeStatus => /\ received' = received /\ toggle' = toggle
                    /\ stage' \in {"done", "failed"}
  BY DEF TakeStatus
<1>4. TakeStatus => address' \in 0 .. 127
  <2>1. IsSetAddress(setup) => setup.wValue \in 0 .. 127
    <3>1. setup.wValue \in Nat
      BY PacketType, Widths
    <3> QED BY <3>1 DEF IsSetAddress
  <2>2. address \in 0 .. 127
    BY DEF HostTypeOK
  <2> QED BY <2>1, <2>2 DEF TakeStatus
<1> QED BY <1>1, <1>2, <1>3, <1>4

LEMMA HostTyped == TypeOK /\ HostTypeOK /\ [HostNext]_allvars => HostTypeOK'
<1> SUFFICES ASSUME TypeOK, HostTypeOK, [HostNext]_allvars PROVE HostTypeOK'
  OBVIOUS
<1>1. faults < MaxFaults => faults + 1 \in 0 .. MaxFaults
  BY HostAssumption DEF HostTypeOK
<1>2. CASE \E p \in Packet : HostSetup(p)
  BY <1>1, <1>2 DEF HostSetup, HostTypeOK
<1>3. CASE HostIn
  BY <1>3, TakeTyped DEF HostIn, HostTypeOK
<1>4. CASE HostInAckLost
  BY <1>1, <1>4, TakeTyped DEF HostInAckLost, HostTypeOK
<1>5. CASE HostStatusOut \/ HostStatusOutAckLost
  BY <1>1, <1>5 DEF HostStatusOut, HostStatusOutAckLost, HostTypeOK
<1>6. CASE HostEndsEarly \/ HostSeesStall
  BY <1>1, <1>6 DEF HostEndsEarly, HostSeesStall, HostTypeOK
<1>7. CASE HostReset
  BY <1>1, <1>7 DEF HostReset, HostTypeOK
<1>8. CASE Device \/ UNCHANGED allvars
  BY <1>8 DEF Device, host, allvars, HostTypeOK
<1> QED BY <1>2, <1>3, <1>4, <1>5, <1>6, <1>7, <1>8 DEF HostNext, Host, HostTransaction

-----------------------------------------------------------------------------
(* The steps of the host keep Coupled.                                     *)

LEMMA RequestKinds ==
    ASSUME TypeOK
    PROVE  /\ IsSetAddress(setup) => ~IsSetConfiguration(setup)
           /\ HasDataStage(setup) => ~IsSetAddress(setup) /\ ~IsSetConfiguration(setup)
           /\ setup.wLength \in Nat
           /\ IsGetDeviceDescriptor(setup) \/ IsGetConfigurationDescriptor(setup)
                => /\ ~IsSetAddress(setup) /\ ~IsSetConfiguration(setup)
                   /\ ~HasDataStage(setup) => setup.wLength = 0
<1>1. setup.wLength \in Nat
  BY PacketType
<1> QED BY <1>1 DEF IsSetAddress, IsSetConfiguration, HasDataStage, IsGetDeviceDescriptor,
                    IsGetConfigurationDescriptor, IsGetDescriptor

(* What an IN packet that the host takes is an answer to.                  *)
LEMMA FetchedReply ==
    ASSUME HInv, Reachable, ctrl.t_res = "ACK"
    PROVE  /\ state \in Serving /\ ReplyMatches /\ ~SetupDue /\ isr \notin {"fill", "clear"}
           /\ stage = "statusIn" =>
                /\ t_len = 0 /\ ctrl.t_tog = 1
                /\ state \notin {"SEND_CONFIGURATION_DESCRIPTOR", "SEND_CONFIGURATION_ZLP"}
<1>1. ~uif_transfer /\ ~SetupDue
  BY DEF Reachable, SetupDue
<1>2. state \in Serving /\ ReplyMatches /\ isr \notin {"fill", "clear"}
  BY <1>1 DEF HInv, IInv, Agrees, EndpointMatchesState, Phase, Reply
<1>3. ASSUME stage = "statusIn"
      PROVE  /\ t_len = 0 /\ ctrl.t_tog = 1
             /\ state \notin {"SEND_CONFIGURATION_DESCRIPTOR", "SEND_CONFIGURATION_ZLP"}
  <2>1. ~HasDataStage(setup) /\ TypeOK
    BY <1>3 DEF HInv, Coupled, Stages, IInv
  <2>2. t_len \in Nat /\ setup.wLength \in Nat
    BY <2>1, NumbersOK
  <2>3. state \notin {"SEND_CONFIGURATION_DESCRIPTOR", "SEND_CONFIGURATION_ZLP"}
    BY <1>1, <1>2, <2>1, RequestKinds DEF HInv, Coupled, Toggles, ReplyMatches
  <2>4. state \in {"WAIT_DEVICE_ADDRESS", "WAIT_SET_CONFIGURATION", "SEND_DEVICE_DESCRIPTOR"}
    BY <1>2, <2>3 DEF Serving
  <2>5. ctrl.t_tog = 1
    BY <1>1, <2>4 DEF HInv, Coupled, Toggles
  <2>6. t_len = 0
    BY <1>2, <2>1, <2>2, <2>4, RequestKinds DEF ReplyMatches
  <2> QED BY <2>3, <2>5, <2>6
<1> QED BY <1>1, <1>2, <1>3

LEMMA SetupCouples == HInv /\ (\E p \in Packet : HostSetup(p)) => Coupled'
<1> SUFFICES ASSUME HInv, NEW p \in Packet, HostSetup(p) PROVE Coupled'
  OBVIOUS
<1>1. /\ ~uif_transfer /\ ~uif_bus_rst /\ ~uif_bus_rst' /\ uif_transfer' /\ token' = "SETUP"
      /\ setup' = p /\ rx_len' = 8 /\ isr' = isr /\ isr \notin {"fill", "clear"}
      /\ stage' = IF HasDataStage(p) THEN "data" ELSE "statusIn"
  BY DEF HostSetup, Reachable, BusSetup, device, HInv, IInv, Agrees, Phase
<1>2. SetupDue'
  BY <1>1 DEF SetupDue
<1>3. HostAtReset' /\ Lengths' /\ Stages'
  BY <1>1 DEF HostAtReset, Lengths, Stages
<1>4. StallMeansUnsupported' /\ Toggles' /\ FillHasData'
  BY <1>1, <1>2 DEF StallMeansUnsupported, Toggles, FillHasData
<1>5. ReadOver' /\ TransferOver'
  BY <1>1 DEF ReadOver, TransferOver
<1> QED BY <1>3, <1>4, <1>5 DEF Coupled

LEMMA InCouples == HInv /\ HostIn => Coupled'
<1> SUFFICES ASSUME HInv, HostIn PROVE Coupled'
  OBVIOUS
<1>1. /\ Reachable /\ (TakeData \/ TakeStatus) /\ ~uif_bus_rst /\ ~uif_transfer
      /\ uif_transfer' /\ token' = "IN" /\ ctrl.t_res = "ACK" /\ dev_ad = address
      /\ UNCHANGED <<uif_bus_rst, rx_len, setup, ctrl, state, dev_ad, isr, mishap>>
  BY DEF HostIn, Reachable, BusIn, device, endpoint, context
<1>2. /\ state \in Serving /\ ReplyMatches /\ ~SetupDue /\ isr \notin {"fill", "clear"}
      /\ stage = "statusIn" =>
           /\ t_len = 0 /\ ctrl.t_tog = 1
           /\ state \notin {"SEND_CONFIGURATION_DESCRIPTOR", "SEND_CONFIGURATION_ZLP"}
  BY <1>1, FetchedReply
<1>3. ~SetupDue' /\ InDue'
  BY <1>1, <1>2 DEF SetupDue, InDue
<1>4. HostAtReset' /\ Lengths'
  BY <1>1 DEF HostAtReset, Lengths
<1>5. Stages'
  BY <1>1 DEF HInv, Coupled, Stages, TakeData, TakeStatus
<1>6. StallMeansUnsupported' /\ Toggles' /\ FillHasData'
  BY <1>1, <1>2, <1>3 DEF HInv, Coupled, StallMeansUnsupported, Toggles, FillHasData
<1>7. ReadOver'
  BY <1>1, <1>3 DEF ReadOver
<1>8. TransferOver'
  <2>1. CASE TakeData
    BY <2>1 DEF TakeData, TransferOver
  <2>2. CASE TakeStatus
    BY <1>1, <1>2, <1>3, <2>2 DEF TakeStatus, TransferOver, LastIn
  <2> QED BY <1>1, <2>1, <2>2
<1> QED BY <1>4, <1>5, <1>6, <1>7, <1>8 DEF Coupled

LEMMA StatusOutCouples == HInv /\ (HostStatusOut \/ HostStatusOutAckLost) => Coupled'
<1> SUFFICES ASSUME HInv, HostStatusOut \/ HostStatusOutAckLost PROVE Coupled'
  OBVIOUS
<1>1. /\ ~uif_bus_rst /\ ~uif_transfer /\ uif_transfer' /\ token' = "OUT" /\ rx_len' = 0
      /\ ctrl.r_res = "ACK" /\ dev_ad = address /\ stage = "statusOut"
      /\ stage' \in {"statusOut", "done"}
      /\ UNCHANGED <<uif_bus_rst, setup, ctrl, state, configuration, dev_ad, isr, mishap, address>>
  BY DEF HostStatusOut, HostStatusOutAckLost, Reachable, BusOut, device, endpoint, context
<1>2. ~InDue /\ ~InDue' /\ ~SetupDue /\ ~SetupDue'
  BY <1>1 DEF InDue, SetupDue
<1>3. mishap = "none" => ctrl.t_res # "ACK"
  BY <1>1, <1>2 DEF HInv, Coupled, ReadOver
<1>4. HasDataStage(setup) /\ ~IsSetConfiguration(setup)
  BY <1>1, RequestKinds DEF HInv, IInv, Coupled, Stages
<1>5. HostAtReset' /\ Lengths' /\ Stages'
  BY <1>1, <1>4 DEF HostAtReset, Lengths, Stages
<1>6. StallMeansUnsupported' /\ Toggles' /\ FillHasData'
  BY <1>1, <1>2 DEF HInv, Coupled, StallMeansUnsupported, Toggles, FillHasData
<1>7. ReadOver' /\ TransferOver'
  BY <1>1, <1>2, <1>3, <1>4 DEF ReadOver, TransferOver, Agreed
<1> QED BY <1>5, <1>6, <1>7 DEF Coupled

(* Steps in which the bus carries nothing.                                 *)
LEMMA QuietCouples ==
    HInv /\ (HostInAckLost \/ HostEndsEarly \/ HostSeesStall \/ UNCHANGED allvars) => Coupled'
<1> SUFFICES ASSUME HInv, HostInAckLost \/ HostEndsEarly \/ HostSeesStall \/ UNCHANGED allvars
             PROVE  Coupled'
  OBVIOUS
<1>1. UNCHANGED <<uif_bus_rst, uif_transfer, token, rx_len, setup, ctrl, state, configuration,
                  dev_ad, isr>>
  BY DEF HostInAckLost, HostEndsEarly, HostSeesStall, allvars, vars, context, endpoint, bus
<1>2. (SetupDue' <=> SetupDue) /\ (InDue' <=> InDue)
  BY <1>1 DEF SetupDue, InDue
<1>3. \/ ~uif_bus_rst \/ stage = "data" \/ UNCHANGED <<stage, mishap, address>>
  BY DEF HostInAckLost, HostEndsEarly, HostSeesStall, Reachable, allvars, host
<1>4. \/ mishap' # "none" \/ stage' = "failed" \/ UNCHANGED <<stage, mishap, address>>
  BY DEF HostInAckLost, HostEndsEarly, HostSeesStall, allvars, host
<1>5. HostAtReset'
  BY <1>1, <1>3 DEF HInv, Coupled, HostAtReset
<1>6. Stages'
  BY <1>1 DEF HInv, Coupled, Stages, HostInAckLost, TakeData, TakeStatus, HostEndsEarly,
              HostSeesStall, allvars, host
<1>7. Lengths' /\ StallMeansUnsupported' /\ Toggles' /\ FillHasData'
  BY <1>1, <1>2 DEF HInv, Coupled, Lengths, StallMeansUnsupported, Toggles, FillHasData
<1>8. ReadOver' /\ TransferOver'
  BY <1>1, <1>2, <1>4 DEF HInv, Coupled, ReadOver, TransferOver, LastIn, Agreed
<1> QED BY <1>5, <1>6, <1>7, <1>8 DEF Coupled

LEMMA ResetCouples == HInv /\ HostReset => Coupled'
<1> SUFFICES ASSUME HInv, HostReset PROVE Coupled'
  OBVIOUS
<1>1. /\ stage' = "idle"
      /\ UNCHANGED <<uif_transfer, token, rx_len, setup, ctrl, state, isr>>
  BY DEF HostReset, BusReset, device, endpoint, context
<1>2. SetupDue' <=> SetupDue
  BY <1>1 DEF SetupDue
<1>3. HostAtReset' /\ Stages' /\ ReadOver' /\ TransferOver'
  BY <1>1 DEF HostAtReset, Stages, ReadOver, TransferOver
<1>4. Lengths' /\ StallMeansUnsupported' /\ Toggles' /\ FillHasData'
  BY <1>1, <1>2 DEF HInv, Coupled, Lengths, StallMeansUnsupported, Toggles, FillHasData
<1> QED BY <1>3, <1>4 DEF Coupled

-----------------------------------------------------------------------------
(* The steps of the device keep Coupled.                                   *)

LEMMA HandleSetupCouples == HInv /\ HandleSetup /\ UNCHANGED host => Coupled'
<1> SUFFICES ASSUME HInv, HandleSetup, UNCHANGED host PROVE Coupled'
  OBVIOUS
<1>1. Handling("SETUP") /\ UNCHANGED <<bus, host>>
  BY DEF HandleSetup, HandleShortSetup, RejectSetup, AcceptSetAddress, AcceptSetConfiguration,
         AcceptGetDevice, AcceptGetConfiguration, HandlingRequest, Handled
<1>2. uif_transfer /\ token = "SETUP" /\ rx_len = 8 /\ isr = "idle"
  BY <1>1 DEF Handling, HInv, Coupled, Lengths
<1>3. HostAtReset' /\ Lengths' /\ Stages' /\ ReadOver' /\ TransferOver'
  BY <1>1, <1>2 DEF HInv, Coupled, HostAtReset, Lengths, Stages, ReadOver, TransferOver, bus, host
<1>4. StallMeansUnsupported' /\ Toggles' /\ FillHasData'
  <2> USE DEF StallMeansUnsupported, Toggles, FillHasData, SetupDue, Handled, bus
  <2>1. ~HandleShortSetup
    BY <1>2 DEF HandleShortSetup
  <2>2. CASE RejectSetup
    BY <2>2, CtrlType DEF RejectSetup, Stall, Supported
  <2>3. CASE AcceptSetAddress \/ AcceptSetConfiguration \/ AcceptGetDevice
    BY <2>3, CtrlType DEF AcceptSetAddress, AcceptSetConfiguration, AcceptGetDevice
  <2>4. CASE AcceptGetConfiguration
    BY <1>2, <2>4, CtrlType DEF AcceptGetConfiguration
  <2> QED BY <2>1, <2>2, <2>3, <2>4 DEF HandleSetup
<1> QED BY <1>3, <1>4 DEF Coupled

LEMMA HandleInCouples == HInv /\ HandleIn /\ UNCHANGED host => Coupled'
<1> SUFFICES ASSUME HInv, HandleIn, UNCHANGED host PROVE Coupled'
  OBVIOUS
<1>1. Handling("IN") /\ UNCHANGED <<bus, host>>
  BY DEF HandleIn, CommitAddress, CommitConfiguration, DeviceDescriptorSent,
         RequestSatisfied, ContinueConfiguration, ZlpSent, IgnoreIn, HandlingIn, Handled
<1>2. uif_transfer /\ token = "IN" /\ isr = "idle"
  BY <1>1 DEF Handling
<1>3. ~SetupDue /\ ~SetupDue' /\ InDue
  BY <1>1, <1>2 DEF SetupDue, InDue, bus
<1>4. /\ ctrl.t_res # "STALL"
      /\ ctrl.t_res = "ACK" \/ state \notin Serving
      /\ ctrl.t_res = "ACK" => ReplyMatches
  BY <1>2, ServingIsArmed DEF HInv
<1>5. ctrl.t_res = "ACK" => state \in Serving
  BY DEF HInv, IInv, Agrees, EndpointMatchesState
<1>6. HostAtReset' /\ Lengths' /\ Stages'
  BY <1>1 DEF HInv, Coupled, HostAtReset, Lengths, Stages, bus, host
<1>7. \/ isr' = "clear" /\ ctrl'.t_res = "NAK"
      \/ UNCHANGED <<state, ctrl>> /\ isr' = "clear" /\ ctrl.t_res # "ACK"
      \/ /\ UNCHANGED <<state, ctrl>> /\ isr' = "fill"
         /\ state = "SEND_CONFIGURATION_DESCRIPTOR" /\ ctrl.t_res = "ACK"
  <2>1. CASE IgnoreIn
    BY <1>5, <2>1 DEF IgnoreIn, Handled, context, endpoint, Serving
  <2>2. CASE ContinueConfiguration
    BY <1>4, <2>2 DEF ContinueConfiguration, HandlingIn, context, endpoint, Serving
  <2>3. CASE CommitAddress \/ CommitConfiguration
    BY <2>3, CtrlType DEF CommitAddress, CommitConfiguration, Quiet, Handled
  <2>4. CASE DeviceDescriptorSent \/ RequestSatisfied \/ ZlpSent
    BY <2>4, CtrlType DEF DeviceDescriptorSent, RequestSatisfied, ZlpSent, AwaitStatusOut, Handled
  <2> QED BY <2>1, <2>2, <2>3, <2>4 DEF HandleIn
<1>8. StallMeansUnsupported' /\ Toggles' /\ FillHasData'
  BY <1>1, <1>3, <1>4, <1>7
     DEF HInv, Coupled, StallMeansUnsupported, Toggles, FillHasData, bus
<1>9. ReadOver'
  BY <1>1, <1>2, <1>7 DEF ReadOver, InDue, bus
<1>10. TransferOver'
  <2> SUFFICES ASSUME stage = "done", mishap = "none"
               PROVE  token # "SETUP" /\ Agreed' /\ ~InDue'
    BY <1>1 DEF TransferOver, bus, host
  <2>1. LastIn
    BY <1>3 DEF HInv, Coupled, TransferOver
  <2>2. isr' = "clear" /\ ctrl'.t_res # "ACK"
    BY <1>7, <2>1 DEF LastIn
  <2>3. ReplyMatches /\ TypeOK
    BY <1>4, <2>1 DEF LastIn, HInv, IInv
  <2>4. dev_ad' = address'
        /\ (IsSetConfiguration(setup') => configuration' = setup'.wValue)
    <3>1. CASE CommitAddress
      BY <1>1, <2>1, <2>3, <3>1, RequestKinds
         DEF CommitAddress, HandlingIn, ReplyMatches, LastIn, bus, host
    <3>2. CASE CommitConfiguration
      BY <1>1, <2>1, <2>3, <3>2, RequestKinds
         DEF CommitConfiguration, HandlingIn, ReplyMatches, LastIn, bus, host
    <3>3. CASE DeviceDescriptorSent
      BY <1>1, <2>1, <2>3, <3>3, RequestKinds
         DEF DeviceDescriptorSent, HandlingIn, ReplyMatches, LastIn, bus, host
    <3>4. ~RequestSatisfied /\ ~ContinueConfiguration /\ ~ZlpSent
      BY <2>1 DEF RequestSatisfied, ContinueConfiguration, ZlpSent, HandlingIn, LastIn
    <3>5. ~IgnoreIn
      BY <1>5, <2>1 DEF IgnoreIn, LastIn, Serving
    <3> QED BY <3>1, <3>2, <3>3, <3>4, <3>5 DEF HandleIn
  <2> QED BY <1>2, <2>2, <2>4 DEF Agreed, InDue
<1> QED BY <1>6, <1>8, <1>9, <1>10 DEF Coupled

LEMMA FillCouples == HInv /\ Fill /\ UNCHANGED host => Coupled'
<1> SUFFICES ASSUME HInv, Fill, UNCHANGED host PROVE Coupled'
  OBVIOUS
<1>1. isr = "fill" /\ UNCHANGED <<bus, host>>
  BY DEF Fill, FillChunk, FirstPacket, NextPacket, Zlp, LastPacketSent, FillDone, Filling
<1>2. uif_transfer /\ token \in {"SETUP", "IN"} /\ state = "SEND_CONFIGURATION_DESCRIPTOR"
  BY <1>1 DEF HInv, IInv, Agrees, Phase
<1>3. setup.wLength # 0
  BY <1>1 DEF HInv, Coupled, FillHasData
<1>4. HostAtReset' /\ Lengths' /\ Stages' /\ FillHasData'
  BY <1>1, <1>3 DEF HInv, Coupled, HostAtReset, Lengths, Stages, FillHasData, bus, host
<1>5. ~(stage = "done" /\ mishap = "none")
  BY <1>1, <1>2 DEF HInv, Coupled, TransferOver, InDue, LastIn
<1>6. stage = "statusOut" /\ mishap = "none" => token = "IN"
  BY <1>2 DEF HInv, Coupled, ReadOver
<1>7. \/ UNCHANGED <<state, ctrl, isr>>
      \/ token = "SETUP" /\ isr' = "clear" /\ ctrl'.t_res = "ACK" /\ state' = state
      \/ /\ isr' = "clear" /\ ctrl'.t_res = "ACK" /\ ctrl'.r_res = "NAK"
         /\ state' \in {"SEND_CONFIGURATION_DESCRIPTOR", "SEND_CONFIGURATION_ZLP"}
      \/ isr' = "clear" /\ ctrl'.t_res = "NAK"
  BY <1>2, CtrlType DEF Fill, FillChunk, FirstPacket, NextPacket, Zlp, LastPacketSent,
                        FillDone, AwaitStatusOut, endpoint
<1>8. StallMeansUnsupported' /\ Toggles'
  BY <1>1, <1>2, <1>3, <1>7
     DEF HInv, Coupled, StallMeansUnsupported, Toggles, SetupDue, bus
<1>9. ReadOver' /\ TransferOver'
  BY <1>1, <1>2, <1>5, <1>6, <1>7 DEF ReadOver, TransferOver, InDue, bus, host
<1> QED BY <1>4, <1>8, <1>9 DEF Coupled

LEMMA HandleOutCouples == HInv /\ HandleOut /\ UNCHANGED host => Coupled'
<1> SUFFICES ASSUME HInv, HandleOut, UNCHANGED host PROVE Coupled'
  OBVIOUS
<1>1. Handling("OUT") /\ isr' = "clear" /\ UNCHANGED <<bus, host, configuration, dev_ad>>
  BY DEF HandleOut, StatusOut, StatusOutWithData, IgnoreOut, HandlingOut, Handled
<1>2. uif_transfer /\ token = "OUT" /\ isr = "idle" /\ rx_len = 0
  BY <1>1 DEF Handling, HInv, Coupled, Lengths
<1>3. ~SetupDue /\ ~SetupDue' /\ ~InDue /\ ~InDue'
  BY <1>1, <1>2 DEF SetupDue, InDue, bus
<1>4. ctrl'.t_res = "NAK" \/ UNCHANGED <<state, ctrl>>
  BY <1>2, CtrlType DEF HandleOut, StatusOut, StatusOutWithData, IgnoreOut, Quiet, endpoint
<1>5. HostAtReset' /\ Lengths' /\ Stages' /\ FillHasData'
  BY <1>1 DEF HInv, Coupled, HostAtReset, Lengths, Stages, FillHasData, bus, host
<1>6. StallMeansUnsupported' /\ Toggles'
  BY <1>1, <1>3, <1>4 DEF HInv, Coupled, StallMeansUnsupported, Toggles, bus
<1>7. ReadOver' /\ TransferOver'
  BY <1>1, <1>3, <1>4 DEF HInv, Coupled, ReadOver, TransferOver, Agreed, bus, host
<1> QED BY <1>5, <1>6, <1>7 DEF Coupled

LEMMA IsrCouples ==
    /\ HInv /\ UNCHANGED host
    /\ ClearTransfer \/ EnterForReset \/ HandleReset \/ LeaveIsr \/ PopSetup
    => Coupled'
<1> SUFFICES ASSUME HInv, UNCHANGED host,
                    ClearTransfer \/ EnterForReset \/ HandleReset \/ LeaveIsr \/ PopSetup
             PROVE  Coupled'
  OBVIOUS
<1>1. CASE HandleReset
  <2>1. stage = "idle" /\ uif_bus_rst' = FALSE /\ ctrl'.t_res = "NAK" /\ isr' = "idle"
        /\ UNCHANGED <<uif_transfer, token, rx_len, setup, host>>
    BY <1>1, CtrlType DEF HandleReset, ResetEp0, HInv, Coupled, HostAtReset
  <2> QED BY <2>1 DEF HInv, Coupled, HostAtReset, Lengths, Stages, StallMeansUnsupported,
                      Toggles, FillHasData, ReadOver, TransferOver, host
<1>2. CASE ClearTransfer \/ EnterForReset \/ LeaveIsr \/ PopSetup
  <2>1. UNCHANGED <<uif_bus_rst, token, rx_len, setup, state, ctrl, configuration, dev_ad, host>>
    BY <1>2 DEF ClearTransfer, EnterForReset, LeaveIsr, PopSetup, bus, context, endpoint
  <2>2. (SetupDue' <=> SetupDue) /\ (InDue' <=> InDue)
    BY <1>2 DEF ClearTransfer, EnterForReset, LeaveIsr, PopSetup, SetupDue, InDue, bus
  <2>3. (uif_transfer' => uif_transfer) /\ (isr' = "fill" => isr = "fill")
    BY <1>2 DEF ClearTransfer, EnterForReset, LeaveIsr, PopSetup, bus
  <2> QED BY <2>1, <2>2, <2>3
          DEF HInv, Coupled, HostAtReset, Lengths, Stages, StallMeansUnsupported,
              Toggles, FillHasData, ReadOver, TransferOver, LastIn, Agreed, host
<1> QED BY <1>1, <1>2

LEMMA DeviceCouples == HInv /\ Device => Coupled'
BY HandleSetupCouples, HandleInCouples, FillCouples, HandleOutCouples, IsrCouples
   DEF Device, UsbIsr

LEMMA DeviceKeepsSetup == Device => setup' = setup
<1> USE DEF Handled, bus
<1>1. HandleSetup => setup' = setup
  BY DEF HandleSetup, HandleShortSetup, RejectSetup, AcceptSetAddress, AcceptSetConfiguration,
         AcceptGetDevice, AcceptGetConfiguration
<1>2. HandleIn => setup' = setup
  BY DEF HandleIn, CommitAddress, CommitConfiguration, DeviceDescriptorSent, RequestSatisfied,
         ContinueConfiguration, ZlpSent, IgnoreIn
<1>3. HandleOut => setup' = setup
  BY DEF HandleOut, StatusOut, StatusOutWithData, IgnoreOut
<1>4. Fill => setup' = setup
  BY DEF Fill, FillChunk, FirstPacket, NextPacket, Zlp, LastPacketSent, FillDone, Filling
<1>5. ClearTransfer \/ EnterForReset \/ HandleReset \/ LeaveIsr \/ PopSetup => setup' = setup
  BY DEF ClearTransfer, EnterForReset, HandleReset, LeaveIsr, PopSetup
<1> QED BY <1>1, <1>2, <1>3, <1>4, <1>5 DEF Device, UsbIsr

-----------------------------------------------------------------------------
LEMMA HostInvariance == HostSpec => []HInv
<1>1. HostInit => HInv
  <2> SUFFICES ASSUME HostInit PROVE HInv
    OBVIOUS
  <2>1. Init /\ IInv /\ ctrl.t_res = "NAK"
    BY InitInv, CtrlType DEF HostInit, Init
  <2>2. <<>> \in Seq(Byte) /\ 0 \in 0 .. MaxFaults /\ 0 \in 0 .. 127
    BY HostAssumption
  <2>3. HostTypeOK
    BY <2>2 DEF HostInit, HostTypeOK
  <2>4. Coupled
    BY <2>1 DEF HostInit, Init, Coupled, HostAtReset, Lengths, Stages, StallMeansUnsupported,
                Toggles, FillHasData, ReadOver, TransferOver
  <2> QED BY <2>1, <2>3, <2>4 DEF HInv
<1>2. HInv /\ [HostNext]_allvars => HInv'
  <2> SUFFICES ASSUME HInv, [HostNext]_allvars PROVE HInv'
    OBVIOUS
  <2>1. IInv' /\ HostTypeOK'
    BY HostStepInv, HostTyped DEF HInv, IInv
  <2>2. Coupled'
    BY SetupCouples, InCouples, StatusOutCouples, QuietCouples, ResetCouples, DeviceCouples
       DEF HostNext, Host, HostTransaction
  <2> QED BY <2>1, <2>2 DEF HInv
<1> QED BY <1>1, <1>2, PTL DEF HostSpec

(* What the host knows keeps its type: it never leaves the addresses that  *)
(* USB has, although a SETUP packet may carry any.                         *)
THEOREM HostTypeCorrect == HostSpec => []HostTypeOK
<1>1. HInv => HostTypeOK
  BY DEF HInv
<1> QED BY HostInvariance, <1>1, PTL

(* When a transfer without mishap is over, usb_ep0_handle_in and           *)
(* usb_ep0_handle_out have done what the host believes: they commit the    *)
(* address and the configuration, and leave no packet armed.               *)
THEOREM HostAndDeviceAgree == HostSpec => []DoneAgrees
<1>1. HInv => DoneAgrees
  BY DEF HInv, Coupled, TransferOver, Agreed, InDue, DoneAgrees
<1> QED BY HostInvariance, <1>1, PTL

(* A request the device supports is not answered with STALL by any path    *)
(* through usb_ep0_handle_packet, nor is its status stage anything but an  *)
(* empty DATA1 packet.                                                     *)
THEOREM SupportedSucceeds == HostSpec => []SupportedNeverFails
<1>1. HostInit => SupportedNeverFails
  BY DEF HostInit, SupportedNeverFails
<1>2. HInv /\ SupportedNeverFails /\ [HostNext]_allvars => SupportedNeverFails'
  <2> SUFFICES ASSUME HInv, SupportedNeverFails, [HostNext]_allvars
               PROVE  SupportedNeverFails'
    OBVIOUS
  <2>1. CASE \E p \in Packet : HostSetup(p)
    BY <2>1 DEF HostSetup, SupportedNeverFails
  <2>2. CASE HostIn \/ HostInAckLost
    <3>1. Reachable /\ (TakeData \/ TakeStatus)
      BY <2>2 DEF HostIn, HostInAckLost
    <3>2. stage = "statusIn" /\ ctrl.t_res = "ACK" => t_len = 0 /\ ctrl.t_tog = 1
      BY <3>1, FetchedReply
    <3>3. stage' \in {"data", "statusOut", "done"}
      BY <3>1, <3>2 DEF TakeData, TakeStatus
    <3> QED BY <3>3 DEF SupportedNeverFails
  <2>3. CASE HostSeesStall
    <3>1. ctrl.t_res = "STALL" /\ ~SetupDue /\ setup' = setup
      BY <2>3 DEF HostSeesStall, Reachable, SetupDue, HInv, IInv, Agrees, EndpointMatchesState,
                  vars, bus
    <3>2. ~Supported(setup)
      BY <3>1 DEF HInv, Coupled, StallMeansUnsupported
    <3> QED BY <3>1, <3>2 DEF SupportedNeverFails
  <2>4. CASE HostStatusOut \/ HostStatusOutAckLost \/ HostReset \/ HostEndsEarly
    BY <2>4 DEF HostStatusOut, HostStatusOutAckLost, BusOut, HostReset, BusReset, HostEndsEarly,
                vars, bus, SupportedNeverFails
  <2>5. CASE Device \/ UNCHANGED allvars
    <3>1. setup' = setup
      BY <2>5, DeviceKeepsSetup DEF allvars, vars, bus
    <3>2. stage' = stage
      BY <2>5 DEF Device, allvars, host
    <3> QED BY <3>1, <3>2 DEF SupportedNeverFails
  <2> QED BY <2>1, <2>2, <2>3, <2>4, <2>5 DEF HostNext, Host, HostTransaction
<1>3. HostSpec => [](HInv /\ SupportedNeverFails)
  BY <1>1, <1>2, HostInvariance, PTL DEF HostSpec
<1> QED BY <1>3, PTL

-----------------------------------------------------------------------------
(* The data stage.  DataInv follows the bytes of the answer from the       *)
(* stream through ep0_buffer to the host, while the data stage lasts.      *)

(* The host has the first bytes of the answer.                             *)
Took == /\ Len(received) <= Len(Answer)
        /\ \A j \in 1 .. Len(received) : received[j] = Answer[j]

(* The bytes of the answer that the copy loop has taken from the stream.   *)
Sent == setup.wLength - pending.stream.request_remaining

Streaming == /\ pending.member = "stream" /\ IsGetConfigurationDescriptor(setup)
             /\ Walks(layout, pending.stream, setup.wLength, Sent)

(* The first n bytes of the buffer are the last n of the first p of the    *)
(* answer.                                                                 *)
Holds(n, p) == /\ p \in Nat /\ n <= p /\ p <= Len(Answer)
               /\ \A j \in 1 .. n : buffer[j] = Answer[p - n + j]

(* The copy loop goes on: the host has all that was sent before, and knows *)
(* it, if it is not the first packet.                                      *)
FillData == /\ Streaming /\ Holds(filled, Sent)
            /\ Len(received) = Sent - filled
            /\ token = "IN" => toggle # ctrl.t_tog

(* A packet is armed, and the answer as far as that packet.  Its toggle    *)
(* tells whether the host has it already.                                  *)
Armed == ctrl.t_res = "ACK" /\ ~SetupDue /\ isr # "fill"

Position == IF state = "SEND_CONFIGURATION_DESCRIPTOR" THEN Sent
            ELSE IF state = "SEND_CONFIGURATION_ZLP" THEN Len(Answer) ELSE t_len

ArmedData == /\ state = "SEND_CONFIGURATION_DESCRIPTOR" => Streaming
             /\ Holds(t_len, Position)
             /\ t_len = BufSize \/ Position = Len(Answer)
             /\ Len(received) = IF toggle = ctrl.t_tog THEN Position - t_len ELSE Position
             /\ InDue => toggle # ctrl.t_tog

InData == stage = "data" =>
            /\ Took
            /\ SetupDue => received = <<>> /\ toggle = 1
            /\ isr = "fill" => FillData
            /\ Armed => ArmedData

AfterData == stage = "statusOut" => Took /\ (received = Answer \/ mishap = "endedEarly")

DataInv == InData /\ AfterData

LEMMA ByteIs == Byte = DescriptorByte
BY DEF Byte, DescriptorByte

LEMMA AnswerKept == UNCHANGED <<layout, setup>> => Answer' = Answer
BY DEF Answer

(* The two answers.                                                        *)
LEMMA AnswerIsConfiguration ==
    IsGetConfigurationDescriptor(setup)
      => ~IsGetDeviceDescriptor(setup) /\ Answer = ConfigurationAnswer(layout, setup.wLength)
<1>1. IsGetConfigurationDescriptor(setup) => ~IsGetDeviceDescriptor(setup)
  BY DEF IsGetConfigurationDescriptor, IsGetDeviceDescriptor, IsGetDescriptor
<1> QED BY <1>1 DEF Answer, ConfigurationAnswer

LEMMA AnswerIsDevice ==
    ASSUME TypeOK, IsGetDeviceDescriptor(setup)
    PROVE  /\ Answer \in Seq(Byte) /\ Len(Answer) = Least(layout.device, setup.wLength)
           /\ Len(Answer) \in Nat /\ Len(Answer) <= layout.device /\ Len(Answer) <= setup.wLength
           /\ \A j \in 1 .. Len(Answer) : Answer[j] = [desc |-> DeviceDescriptor, offset |-> j - 1]
<1> DEFINE b == BytesOf(DeviceDescriptor, layout.device)
<1>1. layout.device \in Nat /\ setup.wLength \in Nat
  <2>1. layout \in Layout /\ BufSize \in Nat
    BY Ep0Assumption, StreamAssumption DEF TypeOK
  <2> QED BY <2>1, NumbersOK DEF Layout
<1>2. /\ b \in Seq(Byte) /\ Len(b) = layout.device
      /\ \A j \in 1 .. layout.device : b[j] = [desc |-> DeviceDescriptor, offset |-> j - 1]
  <2>1. DeviceDescriptor \in Descriptor
    BY DEF DeviceDescriptor, Descriptor
  <2> QED BY <1>1, <2>1, BytesAre, ByteIs
<1>3. Answer = Upto(b, setup.wLength)
  BY DEF Answer
<1> HIDE DEF b
<1>4. /\ Answer \in Seq(Byte) /\ Len(Answer) = Least(layout.device, setup.wLength)
      /\ \A j \in 1 .. Len(Answer) : j \in 1 .. Len(b) /\ Answer[j] = b[j]
  BY <1>1, <1>2, <1>3, UptoIs
<1>5. Len(Answer) \in Nat /\ Len(Answer) <= layout.device /\ Len(Answer) <= setup.wLength
  BY <1>1, <1>4, LeastIs
<1> QED BY <1>2, <1>4, <1>5

LEMMA AnswerTyped ==
    ASSUME TypeOK
    PROVE  Answer \in Seq(Byte) /\ Len(Answer) \in Nat /\ Len(Answer) <= setup.wLength
<1>1. layout \in Layout /\ setup.wLength \in Nat
  BY Ep0Assumption, NumbersOK DEF TypeOK
<1>2. CASE IsGetDeviceDescriptor(setup)
  BY <1>2, AnswerIsDevice
<1>3. CASE ~IsGetDeviceDescriptor(setup)
  <2>1. Answer = ConfigurationAnswer(layout, setup.wLength)
    BY <1>3 DEF Answer, ConfigurationAnswer
  <2> QED BY <1>1, <2>1, AnswerIs, ByteIs
<1> QED BY <1>2, <1>3

(* What the types say, for the steps below.                                *)
LEMMA DataNumbers ==
    ASSUME HInv
    PROVE  /\ TypeOK /\ t_len \in Nat /\ t_len <= BufSize /\ filled \in Nat /\ filled <= BufSize
           /\ BufSize \in Nat \ {0} /\ setup.wLength \in Nat
           /\ received \in Seq(Byte) /\ Len(received) \in Nat
           /\ toggle \in {0, 1} /\ ctrl.t_tog \in {0, 1}
           /\ layout \in Layouts /\ layout \in Layout
           /\ Answer \in Seq(Byte) /\ Len(Answer) \in Nat /\ Len(Answer) <= setup.wLength
<1>1. TypeOK /\ HostTypeOK
  BY DEF HInv, IInv
<1>2. /\ t_len \in 0 .. BufSize /\ filled \in 0 .. BufSize /\ BufSize \in Nat \ {0}
      /\ received \in Seq(Byte) /\ toggle \in {0, 1}
      /\ layout \in Layouts /\ layout \in Layout
  BY <1>1, Ep0Assumption, StreamAssumption DEF TypeOK, HostTypeOK
<1>3. ctrl.t_tog \in {0, 1}
  BY <1>1 DEF TypeOK, Control
<1>4. Len(received) \in Nat
  BY <1>2
<1> QED BY <1>1, <1>2, <1>3, <1>4, NumbersOK, AnswerTyped

(* Steps that change nothing of the data stage.                            *)
LEMMA DataKept ==
    ASSUME DataInv,
           UNCHANGED <<layout, setup, state, pending, ctrl, t_len, buffer, filled, token>>,
           UNCHANGED <<received, toggle>>,
           SetupDue' <=> SetupDue, isr' = "fill" <=> isr = "fill", InDue' => InDue,
           stage' = "data" => stage = "data",
           stage' = "statusOut" => stage = "statusOut" /\ mishap' = mishap
    PROVE  DataInv'
<1>1. Answer' = Answer
  BY AnswerKept
<1>2. Took' <=> Took
  BY <1>1 DEF Took
<1>3. /\ Sent' = Sent /\ Position' = Position
      /\ (Streaming' <=> Streaming)
  BY <1>1 DEF Sent, Position, Streaming
<1>4. /\ (Holds(filled, Sent)' <=> Holds(filled, Sent))
      /\ (Holds(t_len, Position)' <=> Holds(t_len, Position))
  BY <1>1, <1>3 DEF Holds
<1>5. (FillData' <=> FillData) /\ (ArmedData => ArmedData') /\ (Armed' <=> Armed)
  BY <1>1, <1>3, <1>4 DEF FillData, ArmedData, Armed
<1> QED BY <1>1, <1>2, <1>5 DEF DataInv, InData, AfterData

(* Steps after which no packet is armed, nor is one being filled.          *)
LEMMA DataDisarmed ==
    ASSUME DataInv, UNCHANGED <<layout, setup, host>>,
           ~SetupDue', isr' # "fill", ctrl'.t_res # "ACK"
    PROVE  DataInv'
<1>1. UNCHANGED <<stage, received, toggle, mishap>> /\ Answer' = Answer
  BY AnswerKept DEF host
<1>2. Took' <=> Took
  BY <1>1 DEF Took
<1> QED BY <1>1, <1>2 DEF DataInv, InData, AfterData, Armed

LEMMA IsrKeepsData ==
    /\ HInv /\ DataInv /\ UNCHANGED host
    /\ ClearTransfer \/ EnterForReset \/ HandleReset \/ LeaveIsr \/ PopSetup
    => DataInv'
<1> SUFFICES ASSUME HInv, DataInv, UNCHANGED host,
                    ClearTransfer \/ EnterForReset \/ HandleReset \/ LeaveIsr \/ PopSetup
             PROVE  DataInv'
  OBVIOUS
<1>1. CASE HandleReset
  BY <1>1 DEF HandleReset, HInv, Coupled, HostAtReset, DataInv, InData, AfterData, host
<1>2. CASE ClearTransfer \/ EnterForReset \/ LeaveIsr \/ PopSetup
  <2>1. /\ UNCHANGED <<layout, setup, state, pending, ctrl, t_len, buffer, filled, token>>
        /\ UNCHANGED <<stage, received, toggle, mishap>>
    BY <1>2 DEF ClearTransfer, EnterForReset, LeaveIsr, PopSetup, context, endpoint, bus, host
  <2>2. /\ SetupDue' <=> SetupDue
        /\ InDue' => InDue
        /\ isr' = "fill" <=> isr = "fill"
    BY <1>2 DEF ClearTransfer, EnterForReset, LeaveIsr, PopSetup, SetupDue, InDue, bus
  <2> QED BY <2>1, <2>2, DataKept
<1> QED BY <1>1, <1>2

LEMMA HandleOutKeepsData == HInv /\ DataInv /\ HandleOut /\ UNCHANGED host => DataInv'
<1> SUFFICES ASSUME HInv, DataInv, HandleOut, UNCHANGED host PROVE DataInv'
  OBVIOUS
<1>1. Handling("OUT") /\ isr' = "clear" /\ UNCHANGED <<layout, bus, pending, buffer, filled>>
  BY DEF HandleOut, StatusOut, StatusOutWithData, IgnoreOut, HandlingOut, Handled
<1>2. ~SetupDue /\ ~SetupDue' /\ ~InDue' /\ isr # "fill" /\ isr' # "fill"
  BY <1>1 DEF Handling, SetupDue, InDue, bus
<1>3. ctrl'.t_res # "ACK" \/ UNCHANGED <<state, ctrl, t_len>>
  BY CtrlType DEF HandleOut, StatusOut, StatusOutWithData, IgnoreOut, Quiet, Stall, endpoint
<1>4. CASE ctrl'.t_res # "ACK"
  BY <1>1, <1>2, <1>4, DataDisarmed DEF bus
<1>5. CASE UNCHANGED <<state, ctrl, t_len>>
  BY <1>1, <1>2, <1>5, DataKept DEF bus, host
<1> QED BY <1>3, <1>4, <1>5

(* Steps of the host that take no data.                                    *)
LEMMA HostKeepsData ==
    /\ HInv /\ DataInv
    /\ \/ \E p \in Packet : HostSetup(p)
       \/ HostStatusOut \/ HostStatusOutAckLost \/ HostEndsEarly \/ HostSeesStall \/ HostReset
       \/ UNCHANGED allvars
    => DataInv'
<1> SUFFICES ASSUME HInv, DataInv PROVE
       /\ (\E p \in Packet : HostSetup(p)) => DataInv'
       /\ HostStatusOut \/ HostStatusOutAckLost => DataInv'
       /\ HostEndsEarly => DataInv'
       /\ HostSeesStall => DataInv'
       /\ HostReset => DataInv'
       /\ UNCHANGED allvars => DataInv'
  OBVIOUS
<1>1. ASSUME NEW p \in Packet, HostSetup(p) PROVE DataInv'
  <2>1. /\ uif_transfer' /\ token' = "SETUP" /\ isr' = isr /\ isr \notin {"fill", "clear"}
        /\ received' = <<>> /\ toggle' = 1 /\ stage' # "statusOut"
    BY <1>1 DEF HostSetup, Reachable, BusSetup, device, HInv, IInv, Agrees, Phase
  <2>2. SetupDue' /\ ~Armed' /\ Len(received') = 0
    BY <2>1 DEF SetupDue, Armed
  <2>3. TypeOK'
    <3>1. IInv'
      BY <1>1, HostStepInv DEF HInv, HostNext, Host
    <3> QED BY <3>1 DEF IInv
  <2>4. Len(Answer') \in Nat
    BY <2>3, AnswerTyped
  <2>5. Took'
    BY <2>2, <2>4 DEF Took
  <2> QED BY <2>1, <2>2, <2>5 DEF DataInv, InData, AfterData
<1>2. ASSUME HostStatusOut \/ HostStatusOutAckLost PROVE DataInv'
  <2>1. /\ stage = "statusOut" /\ stage' \in {"statusOut", "done"}
        /\ UNCHANGED <<layout, setup, received, mishap>>
    BY <1>2 DEF HostStatusOut, HostStatusOutAckLost, BusOut, device
  <2>2. Answer' = Answer /\ (Took' <=> Took)
    BY <2>1, AnswerKept DEF Took
  <2> QED BY <2>1, <2>2 DEF DataInv, InData, AfterData
<1>3. ASSUME HostEndsEarly PROVE DataInv'
  <2>1. /\ stage = "data" /\ stage' = "statusOut" /\ mishap' = "endedEarly"
        /\ UNCHANGED <<layout, setup, received>>
    BY <1>3 DEF HostEndsEarly, vars, bus
  <2>2. Answer' = Answer /\ (Took' <=> Took)
    BY <2>1, AnswerKept DEF Took
  <2> QED BY <2>1, <2>2 DEF DataInv, InData, AfterData
<1>4. ASSUME HostSeesStall \/ HostReset PROVE DataInv'
  BY <1>4 DEF HostSeesStall, HostReset, DataInv, InData, AfterData
<1>5. ASSUME UNCHANGED allvars PROVE DataInv'
  <2>1. /\ UNCHANGED <<layout, setup, state, pending, ctrl, t_len, buffer, filled, token>>
        /\ UNCHANGED <<stage, received, toggle, mishap, uif_transfer, isr>>
    BY <1>5 DEF allvars, vars, context, endpoint, bus, host
  <2>2. (SetupDue' <=> SetupDue) /\ (InDue' <=> InDue)
    BY <2>1 DEF SetupDue, InDue
  <2> QED BY <2>1, <2>2, DataKept
<1> QED BY <1>1, <1>2, <1>3, <1>4, <1>5

(* The host takes a packet.                                                *)
LEMMA PacketBytes ==
    ASSUME HInv
    PROVE  Data \in Seq(Byte) /\ Len(Data) = t_len /\ \A j \in 1 .. t_len : Data[j] = buffer[j]
<1> DEFINE b == [i \in BufferIndex |-> buffer[i]]
<1>1. BufSize \in Nat /\ t_len \in Nat /\ t_len <= BufSize
  BY DataNumbers
<1>2. b \in [1 .. BufSize -> Byte] /\ \A j \in 1 .. BufSize : b[j] = buffer[j]
  BY DEF HInv, IInv, TypeOK, BufferIndex
<1>3. b \in Seq(Byte) /\ Len(b) = BufSize
  <2> HIDE DEF b
  <2> QED BY <1>1, <1>2
<1>4. Data = SubSeq(b, 1, t_len)
  BY DEF Data
<1> HIDE DEF b
<1>5. Data \in Seq(Byte) /\ Len(Data) = t_len /\ \A j \in 1 .. t_len : Data[j] = b[j]
  BY <1>1, <1>3, <1>4, FirstPart
<1>6. \A j \in 1 .. t_len : j \in 1 .. BufSize
  BY <1>1
<1> QED BY <1>2, <1>5, <1>6

(* The received data grow by a packet that holds the bytes up to p.        *)
LEMMA TookMore ==
    ASSUME HInv, Took, NEW p, Holds(t_len, p), Len(received) = p - t_len,
           received' = received \o Data, Answer' = Answer
    PROVE  Took' /\ Len(received') = p
<1> DEFINE r == Len(received)
           n == t_len
           d == Data
<1>1. /\ r \in Nat /\ n \in Nat /\ received \in Seq(Byte)
      /\ p \in Nat /\ n <= p /\ p <= Len(Answer) /\ r = p - n
  BY DataNumbers DEF Holds
<1>2. d \in Seq(Byte) /\ Len(d) = n /\ \A j \in 1 .. n : d[j] = buffer[j]
  BY PacketBytes
<1>3. \A j \in 1 .. n : buffer[j] = Answer[p - n + j]
  BY DEF Holds
<1>4. \A j \in 1 .. r : received[j] = Answer[j]
  BY DEF Took
<1>5. received' = received \o d
  OBVIOUS
<1> HIDE DEF d
<1>6. /\ Len(received') = r + n
      /\ \A j \in 1 .. r + n : received'[j] = IF j <= r THEN received[j] ELSE d[j - r]
  <2> DEFINE e == received \o d
  <2>1. /\ Len(e) = Len(received) + Len(d)
        /\ \A j \in 1 .. Len(received) + Len(d) :
              e[j] = IF j <= Len(received) THEN received[j] ELSE d[j - Len(received)]
    BY <1>1, <1>2, ConcatProperties, Zenon
  <2> HIDE DEF e
  <2>2. received' = e /\ Len(d) = n
    BY <1>2, <1>5 DEF e
  <2> QED BY <2>1, <2>2
<1> HIDE DEF r, n
<1>7. r + n = p /\ p - n = r
  BY <1>1
<1>8. ASSUME NEW j \in 1 .. p PROVE received'[j] = Answer[j]
  <2>1. CASE j <= r
    <3>1. j \in 1 .. r
      BY <1>1, <2>1
    <3> QED BY <1>4, <1>6, <1>7, <2>1, <3>1
  <2>2. CASE ~(j <= r)
    <3> DEFINE m == j - r
    <3>1. m \in 1 .. n /\ r + m = j
      BY <1>1, <2>2
    <3>2. received'[j] = d[m]
      BY <1>6, <1>7, <2>2
    <3> HIDE DEF m
    <3>3. d[m] = buffer[m] /\ buffer[m] = Answer[p - n + m]
      BY <1>2, <1>3, <3>1
    <3> QED BY <1>7, <3>1, <3>2, <3>3
  <2> QED BY <2>1, <2>2
<1> QED BY <1>1, <1>6, <1>7, <1>8 DEF Took

LEMMA TakeKeepsData ==
    ASSUME HInv, DataInv, Reachable, TakeData \/ TakeStatus, BusIn \/ UNCHANGED vars
    PROVE  DataInv'
<1>1. /\ ~uif_transfer /\ ctrl.t_res = "ACK"
      /\ UNCHANGED <<layout, setup, state, pending, ctrl, t_len, buffer, isr>>
  BY DEF Reachable, TakeData, TakeStatus, BusIn, device, context, endpoint, vars, bus
<1>2. ~SetupDue /\ ~SetupDue' /\ isr \notin {"fill", "clear"} /\ isr' # "fill" /\ Armed
  <2>1. ~SetupDue /\ isr \notin {"fill", "clear"}
    BY <1>1, FetchedReply
  <2>2. ~SetupDue'
    BY <1>1 DEF BusIn, vars, bus, SetupDue
  <2> QED BY <1>1, <2>1, <2>2 DEF Armed
<1>3. Answer' = Answer /\ Sent' = Sent /\ Position' = Position /\ (Streaming' <=> Streaming)
      /\ (Holds(t_len, Position)' <=> Holds(t_len, Position))
  <2>1. Answer' = Answer
    BY <1>1, AnswerKept
  <2>2. Sent' = Sent /\ Position' = Position
    BY <1>1, <2>1 DEF Sent, Position
  <2> QED BY <1>1, <2>1, <2>2 DEF Streaming, Holds
<1>4. CASE TakeStatus
  BY <1>4 DEF TakeStatus, DataInv, InData, AfterData
<1>5. CASE TakeData
  <2>1. stage = "data" /\ Took /\ ArmedData
    BY <1>2, <1>5 DEF TakeData, DataInv, InData
  <2>2. /\ t_len \in Nat /\ t_len <= BufSize /\ BufSize \in Nat
        /\ Len(received) \in Nat /\ Len(Answer) \in Nat /\ Len(Answer) <= setup.wLength
        /\ setup.wLength \in Nat /\ toggle \in {0, 1} /\ ctrl.t_tog \in {0, 1}
    BY DataNumbers
  <2>3. CASE ctrl.t_tog # toggle
    <3>1. UNCHANGED <<received, toggle, stage>>
      BY <1>5, <2>3 DEF TakeData
    <3>2. Took' /\ stage' = "data"
      BY <1>3, <2>1, <3>1 DEF Took
    <3>3. ArmedData'
      BY <1>1, <1>3, <2>1, <2>3, <3>1 DEF ArmedData
    <3> QED BY <1>2, <3>2, <3>3 DEF DataInv, InData, AfterData
  <2>4. CASE ctrl.t_tog = toggle
    <3>1. /\ received' = received \o Data /\ toggle' = 1 - toggle
          /\ stage' = IF t_len < BufSize \/ Len(received) + t_len >= setup.wLength
                      THEN "statusOut" ELSE "data"
      BY <1>5, <2>4 DEF TakeData
    <3>2. /\ Holds(t_len, Position) /\ Len(received) = Position - t_len
          /\ t_len = BufSize \/ Position = Len(Answer)
      BY <2>1, <2>4 DEF ArmedData
    <3>3. Took' /\ Len(received') = Position
      BY <1>3, <2>1, <3>1, <3>2, TookMore
    <3>4. toggle' # ctrl'.t_tog
      BY <1>1, <2>2, <2>4, <3>1
    <3>5. ArmedData'
      BY <1>1, <1>3, <2>1, <3>2, <3>3, <3>4 DEF ArmedData
    <3>6. stage' = "statusOut" => received' = Answer'
      <4> SUFFICES ASSUME stage' = "statusOut" PROVE received' = Answer
        BY <1>3
      <4>1. Position \in Nat /\ t_len <= Position /\ Position <= Len(Answer)
        BY <3>2 DEF Holds
      <4>2. Position = Len(Answer)
        BY <2>2, <3>1, <3>2, <4>1
      <4>3. received' \in Seq(Byte) /\ Answer \in Seq(Byte)
        BY <2>2, <3>1, PacketBytes, DataNumbers, ConcatProperties
      <4>4. \A j \in 1 .. Len(received') : received'[j] = Answer[j]
        BY <1>3, <3>3 DEF Took
      <4> QED BY <3>3, <4>2, <4>3, <4>4, SeqEqual
    <3> QED BY <1>2, <3>3, <3>5, <3>6 DEF DataInv, InData, AfterData
  <2> QED BY <2>3, <2>4
<1> QED BY <1>4, <1>5

-----------------------------------------------------------------------------
(* The device serves the data stage.                                       *)

LEMMA HandleSetupKeepsData == HInv /\ DataInv /\ HandleSetup /\ UNCHANGED host => DataInv'
<1> SUFFICES ASSUME HInv, DataInv, HandleSetup, UNCHANGED host PROVE DataInv'
  OBVIOUS
<1>1. Handling("SETUP") /\ UNCHANGED <<layout, bus>>
  BY DEF HandleSetup, HandleShortSetup, RejectSetup, AcceptSetAddress, AcceptSetConfiguration,
         AcceptGetDevice, AcceptGetConfiguration, HandlingRequest, Handled
<1>2. /\ SetupDue /\ isr = "idle" /\ token = "SETUP" /\ token' = "SETUP"
      /\ ~InDue' /\ UNCHANGED <<stage, received, toggle, mishap, setup>>
  BY <1>1 DEF Handling, SetupDue, InDue, bus, host
<1>3. Answer' = Answer /\ (Took' <=> Took)
  BY <1>1, <1>2, AnswerKept DEF Took
<1>4. AfterData'
  BY <1>2, <1>3 DEF DataInv, AfterData
<1> SUFFICES ASSUME stage = "data" PROVE InData'
  BY <1>2, <1>4 DEF DataInv, InData
<1>5. Took /\ received = <<>> /\ Len(received) = 0 /\ toggle = 1
  BY <1>2 DEF DataInv, InData
<1>6. /\ TypeOK /\ layout \in Layout /\ setup.wLength \in Nat /\ filled = 0
      /\ ~IsSetAddress(setup) /\ ~IsSetConfiguration(setup)
  <2>1. HasDataStage(setup) /\ TypeOK /\ filled = 0
    BY <1>2 DEF HInv, Coupled, Stages, IInv, Agrees, Phase
  <2> QED BY <2>1, RequestKinds, DataNumbers
<1>7. CASE HandleShortSetup \/ RejectSetup
  <2>1. ~SetupDue' /\ isr' # "fill" /\ ctrl'.t_res # "ACK"
    BY <1>7, CtrlType DEF HandleShortSetup, RejectSetup, Stall, Handled, SetupDue
  <2> QED BY <1>1, <1>2, <2>1, DataDisarmed DEF DataInv
<1>8. ~AcceptSetAddress /\ ~AcceptSetConfiguration
  BY <1>6 DEF AcceptSetAddress, AcceptSetConfiguration
<1>9. CASE AcceptGetDevice
  <2>1. /\ IsGetDeviceDescriptor(setup) /\ state' = "SEND_DEVICE_DESCRIPTOR"
        /\ t_len' = Least(layout.device, setup.wLength) /\ ctrl'.t_tog = 1 /\ isr' = "clear"
        /\ buffer' = [i \in BufferIndex |-> IF i <= layout.device
                                            THEN [desc |-> DeviceDescriptor, offset |-> i - 1]
                                            ELSE buffer[i]]
    BY <1>9, CtrlType DEF AcceptGetDevice, Handled
  <2>2. /\ t_len' = Len(Answer) /\ Len(Answer) \in Nat /\ Len(Answer) <= layout.device
        /\ \A j \in 1 .. Len(Answer) :
              Answer[j] = [desc |-> DeviceDescriptor, offset |-> j - 1]
    BY <1>6, <2>1, AnswerIsDevice
  <2>3. Position' = Len(Answer)
    BY <2>1, <2>2 DEF Position
  <2>4. layout.device \in Nat /\ layout.device <= BufSize /\ BufSize \in Nat
    BY <1>6, StreamAssumption DEF Layout
  <2>5. ASSUME NEW j \in 1 .. Len(Answer) PROVE buffer'[j] = Answer[j]
    <3>1. j \in BufferIndex /\ j <= layout.device
      BY <2>2, <2>4 DEF BufferIndex
    <3> QED BY <2>1, <2>2, <3>1
  <2>6. Holds(t_len, Position)'
    <3> DEFINE a == Answer
               n == Len(a)
    <3>1. n \in Nat /\ Answer' = a /\ t_len' = n /\ Position' = n
      BY <1>3, <2>2, <2>3
    <3>2. \A j \in 1 .. n : buffer'[j] = a[n - n + j]
      <4> HIDE DEF n
      <4>1. \A j \in 1 .. n : n - n + j = j
        BY <3>1
      <4> QED BY <2>5, <4>1 DEF n
    <3>3. Len(Answer') = n /\ n <= n
      BY <3>1
    <3> HIDE DEF n, a
    <3> QED BY <3>1, <3>2, <3>3 DEF Holds
  <2>7. ArmedData'
    <3>1. Len(received') = Position' - t_len' /\ toggle' = ctrl'.t_tog
      BY <1>2, <1>5, <2>1, <2>2, <2>3
    <3> QED BY <1>2, <1>3, <2>1, <2>3, <2>6, <3>1 DEF ArmedData
  <2>8. ~SetupDue'
    BY <2>1 DEF SetupDue
  <2> QED BY <1>3, <1>5, <2>1, <2>7, <2>8 DEF InData
<1>10. CASE AcceptGetConfiguration
  <2>1. /\ IsGetConfigurationDescriptor(setup)
        /\ pending' = [member |-> "stream", stream |-> OpenStream(layout, setup.wLength)]
        /\ filled' = 0
        /\ isr' = "fill" \/ (isr' = "clear" /\ ctrl'.t_res # "ACK")
    BY <1>10, CtrlType DEF AcceptGetConfiguration
  <2>2. CASE isr' = "clear" /\ ctrl'.t_res # "ACK"
    <3>1. ~SetupDue'
      BY <2>2 DEF SetupDue
    <3> QED BY <1>1, <1>2, <2>2, <3>1, DataDisarmed DEF DataInv
  <2>3. CASE isr' = "fill"
    <3>1. /\ pending'.member = "stream" /\ Sent' = 0
          /\ Walks(layout, pending'.stream, setup.wLength, 0)
      <4>1. pending'.stream = OpenStream(layout, setup.wLength) /\ pending'.member = "stream"
        BY <2>1
      <4>2. pending'.stream.request_remaining = setup.wLength
        BY <4>1 DEF OpenStream
      <4> QED BY <1>2, <1>6, <4>1, <4>2, OpenWalks DEF Sent
    <3>2. Streaming'
      BY <1>1, <1>2, <2>1, <3>1 DEF Streaming
    <3>3. Holds(filled, Sent)'
      <4>1. Len(Answer) \in Nat
        BY DataNumbers
      <4> QED BY <1>3, <2>1, <3>1, <4>1 DEF Holds
    <3>4. FillData'
      BY <1>2, <1>5, <2>1, <3>1, <3>2, <3>3 DEF FillData
    <3> QED BY <1>2, <1>3, <1>5, <2>3, <3>4 DEF InData, Armed
  <2> QED BY <2>1, <2>2, <2>3
<1> QED BY <1>7, <1>8, <1>9, <1>10 DEF HandleSetup

LEMMA HandleInKeepsData == HInv /\ DataInv /\ HandleIn /\ UNCHANGED host => DataInv'
<1> SUFFICES ASSUME HInv, DataInv, HandleIn, UNCHANGED host PROVE DataInv'
  OBVIOUS
<1>1. Handling("IN") /\ UNCHANGED <<layout, bus>>
  BY DEF HandleIn, CommitAddress, CommitConfiguration, DeviceDescriptorSent,
         RequestSatisfied, ContinueConfiguration, ZlpSent, IgnoreIn, HandlingIn, Handled
<1>2. /\ ~SetupDue /\ ~SetupDue' /\ InDue /\ isr = "idle"
      /\ UNCHANGED <<stage, received, toggle, mishap, setup, token>>
  BY <1>1 DEF Handling, SetupDue, InDue, bus, host
<1>3. CASE ~ContinueConfiguration
  <2>1. isr' # "fill" /\ ctrl'.t_res # "ACK"
    <3>1. CASE IgnoreIn
      <4>1. ctrl' = ctrl /\ isr' = "clear" /\ state \notin Serving
        BY <3>1 DEF IgnoreIn, Handled, endpoint, Serving
      <4> QED BY <4>1 DEF HInv, IInv, Agrees, EndpointMatchesState
    <3>2. CASE CommitAddress \/ CommitConfiguration
      BY <3>2, CtrlType DEF CommitAddress, CommitConfiguration, Quiet, Handled
    <3>3. CASE DeviceDescriptorSent \/ RequestSatisfied \/ ZlpSent
      BY <3>3, CtrlType DEF DeviceDescriptorSent, RequestSatisfied, ZlpSent, AwaitStatusOut, Handled
    <3> QED BY <1>3, <3>1, <3>2, <3>3 DEF HandleIn
  <2> QED BY <1>1, <1>2, <2>1, DataDisarmed
<1>4. CASE ContinueConfiguration
  <2>1. /\ state = "SEND_CONFIGURATION_DESCRIPTOR" /\ isr' = "fill" /\ filled' = 0
        /\ UNCHANGED <<pending, ctrl, t_len, buffer, state>>
    BY <1>4 DEF ContinueConfiguration, HandlingIn, context, endpoint
  <2>2. Answer' = Answer /\ (Took' <=> Took) /\ Sent' = Sent /\ (Streaming' <=> Streaming)
    <3>1. Answer' = Answer /\ Sent' = Sent
      BY <1>1, <1>2, <2>1, AnswerKept DEF Sent
    <3> QED BY <1>1, <1>2, <2>1, <3>1 DEF Took, Streaming
  <2>3. AfterData'
    BY <1>2, <2>2 DEF DataInv, AfterData
  <2>4. CASE stage = "data"
    <3>1. ctrl.t_res = "ACK"
      BY <1>1, <2>1, ServingIsArmed DEF HInv, Handling, Serving
    <3>2. Took /\ ArmedData
      BY <1>2, <2>4, <3>1 DEF DataInv, InData, Armed
    <3>3. Streaming /\ Sent \in Nat /\ Sent <= Len(Answer) /\ Len(received) = Sent
          /\ toggle # ctrl.t_tog
      BY <1>2, <2>1, <3>2 DEF ArmedData, Holds, Position
    <3>4. Holds(filled, Sent)'
      BY <2>1, <2>2, <3>3 DEF Holds
    <3>5. FillData'
      BY <1>2, <2>1, <2>2, <3>3, <3>4 DEF FillData
    <3> QED BY <1>2, <2>1, <2>2, <2>3, <3>2, <3>5 DEF DataInv, InData, Armed
  <2> QED BY <1>2, <2>3, <2>4 DEF DataInv, InData
<1> QED BY <1>3, <1>4

(* An iteration of the copy loop: the next bytes of the answer follow      *)
(* those that the buffer holds.                                            *)
LEMMA ChunkKeepsData ==
    ASSUME \A l \in Layouts : ChildrenFit(l), HInv, FillChunk, FillData
    PROVE  Streaming' /\ Holds(filled, Sent)' /\ Sent' - filled' = Sent - filled
<1> DEFINE s == pending.stream
           n == ChunkSize(s, filled)
           w == setup.wLength
           k == Sent
<1>1. /\ LoopContinues(s, filled)
      /\ buffer' = [i \in BufferIndex |->
                      IF i > filled /\ i <= filled + n
                      THEN [desc |-> s.desc, offset |-> s.offset + (i - filled - 1)]
                      ELSE buffer[i]]
      /\ pending' = [pending EXCEPT !.stream = Advance(layout, s, n)]
      /\ filled' = filled + n /\ UNCHANGED <<layout, setup>>
  BY DEF FillChunk, FillMore, Filling, bus
<1>2. /\ TypeOK /\ layout \in Layout /\ ChildrenFit(layout) /\ w \in Nat
      /\ filled \in 0 .. BufSize /\ filled \in Nat /\ BufSize \in Nat
  BY DataNumbers DEF TypeOK
<1>3. /\ pending.member = "stream" /\ IsGetConfigurationDescriptor(setup)
      /\ Walks(layout, s, w, k) /\ k \in Nat /\ filled <= k
      /\ \A j \in 1 .. filled : buffer[j] = Answer[k - filled + j]
  BY DEF FillData, Streaming, Holds
<1>4. s \in Stream /\ pending'.stream = Advance(layout, s, n) /\ pending'.member = "stream"
  BY <1>1, <1>2, <1>3, PendingStream
<1>5. Answer = ConfigurationAnswer(layout, w) /\ Answer' = Answer
  BY <1>1, <1>3, AnswerIsConfiguration, AnswerKept
<1>6. s.desc \in Descriptor /\ s.offset \in Nat
  BY <1>4 DEF Stream
<1> HIDE DEF s, k, w
<1>7. /\ n \in Nat /\ filled + n <= BufSize
      /\ Walks(layout, Advance(layout, s, n), w, k + n)
      /\ \A j \in 1 .. n : Answer[k + j] = [desc |-> s.desc, offset |-> s.offset + j - 1]
  BY <1>1, <1>2, <1>3, <1>4, <1>5, ChunkWalks
<1> HIDE DEF n
<1>8. Sent' = k + n
  <2>1. pending'.stream.request_remaining + (k + n) = w
    BY <1>4, <1>7 DEF Walks
  <2>2. setup'.wLength = w /\ pending'.stream.request_remaining \in Nat
    <3>1. TypeOK'
      BY <1>2, FillTyped DEF HInv, IInv, Agrees, Fill
    <3>2. pending'.stream \in Stream
      BY <1>4, <3>1 DEF TypeOK, Pending
    <3> QED BY <1>1, <3>2, StreamNumbers DEF w
  <2> QED BY <1>2, <1>3, <1>7, <2>1, <2>2 DEF Sent
<1>9. Streaming'
  BY <1>1, <1>3, <1>4, <1>7, <1>8 DEF Streaming, w
<1>10. k + n <= Len(Answer)
  BY <1>5, <1>7 DEF Walks
<1>11. ASSUME NEW j \in 1 .. filled + n
       PROVE  buffer'[j] = Answer[k - filled + j]
  <2>1. j \in BufferIndex /\ j \in Nat
    BY <1>2, <1>7 DEF BufferIndex
  <2>2. CASE j <= filled
    <3>1. j \in 1 .. filled /\ ~(j > filled)
      BY <1>2, <2>1, <2>2
    <3> QED BY <1>1, <1>3, <2>1, <3>1
  <2>3. CASE j > filled
    <3> DEFINE m == j - filled
    <3>1. m \in 1 .. n /\ k + m = k - filled + j /\ j <= filled + n
      BY <1>2, <1>3, <1>7, <2>3
    <3>2. buffer'[j] = [desc |-> s.desc, offset |-> s.offset + (m - 1)]
      BY <1>1, <2>1, <2>3, <3>1
    <3>3. s.offset + (m - 1) = s.offset + m - 1
      BY <1>2, <1>6, <2>1
    <3> HIDE DEF m
    <3> QED BY <1>7, <3>1, <3>2, <3>3
  <2> QED BY <1>2, <2>1, <2>2, <2>3
<1>12. Holds(filled, Sent)'
  <2>1. k + n \in Nat /\ filled + n <= k + n /\ (k + n) - (filled + n) = k - filled
    BY <1>2, <1>3, <1>7
  <2> QED BY <1>1, <1>5, <1>8, <1>10, <1>11, <2>1 DEF Holds
<1>13. Sent' - filled' = k - filled
  BY <1>1, <1>2, <1>3, <1>7, <1>8
<1> QED BY <1>9, <1>12, <1>13 DEF k

LEMMA FillKeepsData ==
    ASSUME \A l \in Layouts : ChildrenFit(l), HInv, DataInv, Fill, UNCHANGED host
    PROVE  DataInv'
<1>1. isr = "fill" /\ UNCHANGED <<layout, bus>>
  BY DEF Fill, FillChunk, FirstPacket, NextPacket, Zlp, LastPacketSent, FillDone, Filling
<1>2. /\ UNCHANGED <<stage, received, toggle, mishap, setup, token, uif_transfer>>
      /\ uif_transfer /\ token \in {"SETUP", "IN"} /\ state = "SEND_CONFIGURATION_DESCRIPTOR"
  BY <1>1 DEF HInv, IInv, Agrees, Phase, bus, host
<1>3. Answer' = Answer /\ (Took' <=> Took)
  BY <1>1, <1>2, AnswerKept DEF Took
<1>4. AfterData'
  BY <1>2, <1>3 DEF DataInv, AfterData
<1> SUFFICES ASSUME stage = "data" PROVE InData'
  BY <1>2, <1>4 DEF DataInv, InData
<1>5. Took /\ FillData /\ (SetupDue => received = <<>> /\ toggle = 1)
  BY <1>1 DEF DataInv, InData
<1>6. CASE FillChunk
  <2>1. isr' = "fill" /\ ctrl' = ctrl
    BY <1>1, <1>6 DEF FillChunk, endpoint
  <2>2. Streaming' /\ Holds(filled, Sent)' /\ Sent' - filled' = Sent - filled
    BY <1>5, <1>6, ChunkKeepsData
  <2>3. FillData'
    BY <1>2, <1>5, <2>1, <2>2 DEF FillData
  <2>4. SetupDue' => SetupDue
    BY <1>1, <1>2 DEF SetupDue
  <2> QED BY <1>2, <1>3, <1>5, <2>1, <2>3, <2>4 DEF InData, Armed
<1>7. ASSUME ~FillChunk PROVE InData'
  <2>1. FillDone
    BY <1>7 DEF Fill, FirstPacket, NextPacket, Zlp, LastPacketSent
  <2>2. isr' = "clear" /\ UNCHANGED <<pending, buffer>> /\ ~SetupDue' /\ ~InDue'
    BY <2>1 DEF FillDone, SetupDue, InDue
  <2>3. /\ Streaming /\ Holds(filled, Sent) /\ Len(received) = Sent - filled
        /\ token = "IN" => toggle # ctrl.t_tog
    BY <1>5 DEF FillData
  <2>4. /\ filled \in Nat /\ BufSize \in Nat \ {0} /\ Len(Answer) \in Nat
        /\ toggle \in {0, 1} /\ ctrl.t_tog \in {0, 1}
    BY DataNumbers
  <2>5. Sent = Len(Answer) \/ filled = BufSize
    <3>1. ~LoopContinues(pending.stream, filled)
      BY <1>2, <2>1 DEF FillDone, FillMore
    <3>2. /\ layout \in Layout /\ setup.wLength \in Nat /\ filled \in 0 .. BufSize
          /\ pending.stream \in Stream /\ Answer = ConfigurationAnswer(layout, setup.wLength)
      BY <2>3, DataNumbers, PendingStream, AnswerIsConfiguration DEF Streaming, TypeOK
    <3> QED BY <2>3, <3>1, <3>2, LoopEnds DEF Streaming, Holds
  <2>6. Sent' = Sent /\ (Streaming' <=> Streaming)
    BY <1>1, <1>2, <2>2 DEF Sent, Streaming
  <2>7. CASE FirstPacket \/ NextPacket
    <3>1. /\ t_len' = filled /\ state' = state
          /\ toggle = ctrl'.t_tog
      <4>1. CASE FirstPacket
        <5>1. SetupDue
          BY <1>1, <1>2, <4>1 DEF FirstPacket, SetupDue
        <5> QED BY <1>5, <4>1, <5>1, CtrlType DEF FirstPacket
      <4>2. CASE NextPacket
        <5>1. ctrl'.t_tog = 1 - ctrl.t_tog /\ token = "IN" /\ t_len' = filled /\ state' = state
          BY <4>2, CtrlType DEF NextPacket
        <5> QED BY <2>3, <2>4, <5>1
      <4> QED BY <2>7, <4>1, <4>2
    <3>2. Position' = Sent
      BY <1>2, <2>6, <3>1 DEF Position
    <3>3. Holds(t_len, Position)'
      BY <1>3, <2>2, <2>3, <3>1, <3>2 DEF Holds
    <3>4. ArmedData'
      BY <1>2, <1>3, <2>2, <2>3, <2>5, <2>6, <3>1, <3>2, <3>3 DEF ArmedData
    <3> QED BY <1>2, <1>3, <1>5, <2>2, <3>4 DEF InData
  <2>8. CASE Zlp
    <3>1. /\ t_len' = 0 /\ state' = "SEND_CONFIGURATION_ZLP" /\ filled = 0
          /\ ctrl'.t_tog = 1 - ctrl.t_tog /\ token = "IN"
      BY <2>8, CtrlType DEF Zlp
    <3>2. Position' = Len(Answer) /\ Sent = Len(Answer) /\ toggle = ctrl'.t_tog
      BY <1>3, <2>3, <2>4, <2>5, <3>1 DEF Position
    <3>3. Holds(t_len, Position)'
      BY <1>3, <2>4, <3>1, <3>2 DEF Holds
    <3>4. Len(received) = Len(Answer) /\ Position' - t_len' = Len(Answer)
      BY <2>3, <2>4, <3>1, <3>2
    <3>5. ArmedData'
      BY <1>2, <1>3, <2>2, <3>1, <3>2, <3>3, <3>4 DEF ArmedData
    <3> QED BY <1>2, <1>3, <1>5, <2>2, <3>5 DEF InData
  <2>9. CASE LastPacketSent
    <3>1. ctrl'.t_res # "ACK"
      BY <2>9, CtrlType DEF LastPacketSent, AwaitStatusOut
    <3> QED BY <1>2, <1>3, <1>5, <2>2, <3>1 DEF InData, Armed
  <2> QED BY <1>7, <2>7, <2>8, <2>9 DEF Fill
<1> QED BY <1>6, <1>7

LEMMA DataStepInv ==
    ASSUME \A l \in Layouts : ChildrenFit(l), HInv, DataInv, [HostNext]_allvars
    PROVE  DataInv'
<1>1. CASE Device
  BY <1>1, HandleSetupKeepsData, HandleInKeepsData, FillKeepsData, HandleOutKeepsData,
     IsrKeepsData DEF Device, UsbIsr
<1>2. CASE HostIn \/ HostInAckLost
  BY <1>2, TakeKeepsData DEF HostIn, HostInAckLost
<1> QED BY <1>1, <1>2, HostKeepsData DEF HostNext, Host, HostTransaction

LEMMA TookIsPrefix ==
    ASSUME HInv, Took
    PROVE  IsPrefix(received, Answer)
<1> DEFINE n == Len(received)
           a == SubSeq(received, 1, n)
           b == SubSeq(Answer, 1, n)
<1>1. /\ received \in Seq(Byte) /\ Answer \in Seq(Byte) /\ n \in Nat /\ n <= Len(Answer)
      /\ \A j \in 1 .. n : received[j] = Answer[j]
  BY DataNumbers DEF Took
<1>2. /\ a \in Seq(Byte) /\ Len(a) = n /\ \A j \in 1 .. n : a[j] = received[j]
      /\ b \in Seq(Byte) /\ Len(b) = n /\ \A j \in 1 .. n : b[j] = Answer[j]
  <2>1. n <= n
    BY <1>1
  <2> QED BY <1>1, <2>1, FirstPart
<1> HIDE DEF n, a, b
<1>3. a = b
  BY <1>1, <1>2, SeqEqual
<1> QED BY <1>1, <1>3 DEF IsPrefix, n, a, b

(* DataIsDescriptors: if no interface has ChildSentinel children or more,  *)
(* the bytes that usb_ep0_prepare_descriptor copies and                    *)
(* usb_ep0_handle_in sends packet by packet, with the toggle of each, are  *)
(* to the host the descriptors in order, once each and all it asked for,   *)
(* through lost acknowledgements, abandoned transfers and resets.          *)
THEOREM HostReadsDescriptors ==
    ASSUME \A l \in Layouts : ChildrenFit(l)
    PROVE  HostSpec => []DataIsDescriptors
<1>1. HostInit => DataInv
  BY DEF HostInit, DataInv, InData, AfterData
<1>2. HInv /\ DataInv /\ [HostNext]_allvars => DataInv'
  BY DataStepInv
<1>3. HInv /\ DataInv => DataIsDescriptors
  BY TookIsPrefix DEF DataInv, InData, AfterData, DataIsDescriptors
<1> QED BY <1>1, <1>2, <1>3, HostInvariance, PTL DEF HostSpec
=============================================================================
