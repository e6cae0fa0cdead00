# Verification of the CH552E USB firmware

This directory holds TLA+ models of the firmware in `src/`: a USB device for
the CH552E microcontroller (an MCS-51 core) that answers the requests of
endpoint 0 and logs each SETUP packet on a serial line. TLC checks the models
on small instances, and TLAPS proves the central safety properties for every
value of the constants.

Paths below are relative to the repository.

## 1. The system

| part | code | state | operations |
|---|---|---|---|
| SETUP packet FIFO | `src/setup_fifo.c` | `head`, `tail`, `entries` in xRAM | `usb_setup_fifo_init`, `..._push_isr` (USB interrupt), `..._pop` (main) |
| USB interrupt | `src/hardware/usb/isr.c`, `usb.c` | the flags `UIF_TRANSFER`, `UIF_BUS_RST` | dispatch of a completed transaction, bus reset |
| endpoint 0 | `src/hardware/usb/ep0/{ep0,setup,in,out}.c` | `usb_ep0_ctx`, `ep0_buffer`, `UEP0_CTRL`, `UEP0_T_LEN`, `USB_DEV_AD` | handlers of SETUP, IN, OUT; stall; reset |
| descriptor stream | `src/hardware/usb/ep0/prepare.c` | `usb_ep0_ctx.config_stream` | fill the next packet of the configuration descriptor |
| UART1 driver | `src/hardware/uart1/*` | two rings in xRAM, `tx_busy` | `uart_write`, `uart_read`, `uart_available`, the UART1 interrupt |
| main | `src/main.c` | the packet it prints | set-up, loop: pop a packet, print it |
| xRAM layout | `usb_setup_fifo.h`, `uart1/context.h`, `ep0/internal.h` | four arrays at absolute addresses (those of the rings are defaults), with sizes set at build time | every write of the parts above |

How they interact:

- The USB engine completes a transaction, sets `UIF_TRANSFER`, and answers NAK
  to everything until software clears it (`bUC_INT_BUSY`, `usb.c:23`). The USB
  interrupt reads the token and calls endpoint 0.
- Endpoint 0 copies a SETUP packet out of `ep0_buffer`, pushes it to the FIFO,
  and answers it by arming the endpoint: registers and one shared 64-byte
  buffer. Later IN and OUT transactions move the request on.
- A request for the configuration descriptor opens a stream over the
  descriptors that the application's hooks return; each packet of the data
  stage is filled from it, in the interrupt.
- main pops packets from the FIFO and prints them with `uart_write`, which waits
  while the transmit ring is full; the UART1 interrupt empties that ring.

There are no locks. What is hard to test is therefore: main interrupted between
any two accesses to a ring; the host sending any transaction, or a bus reset, at
any moment of a request, with the state machine and a union of three pending
requests left from the one before; the ACK of a packet lost; the boundaries of
the descriptor walk (a descriptor that ends on a packet boundary, empty
descriptors, the limits of the bit fields). `PROJECT.json` lists these hazards
at their lines. Nothing is stored across a restart, so there is no recovery to
model.

What makes each part correct:

- FIFO: it is a FIFO queue. A packet is refused when it is full and else delivered
  once, unaltered, in order, whatever the interrupts.
- Endpoint 0: a reply answers the last SETUP packet; address and configuration
  take effect after the host has acknowledged the status stage or not at all, and are zero after
  a bus reset; the member of the union that is read is the one that was written; a stall holds;
  the handler returns.
- Control transfers: the host reads the descriptors, byte for byte, and no
  transfer hangs.
- UART: each byte is sent once and in order; no wake-up is lost.
- Descriptor stream: packet by packet, the bytes of the descriptors in order, all of them,
  and no short packet before the last.
- The program: the serial line carries the greeting and a whole line for each SETUP
  packet in order; main always comes back to the FIFO.
- xRAM: no part writes into the array of another.

## 2. The modules

| module | models | kind |
|---|---|---|
| `LossyQueue` | what a bounded FIFO that may refuse promises | abstract |
| `SetupFifo` | `setup_fifo.c` | detailed, refines `LossyQueue` |
| `DescriptorStream` | the walk of `prepare.c`, as operators | pure |
| `DescriptorBytes` | the bytes a host should read | reference |
| `PacketReader` | what `usb_ep0_prepare_descriptor` promises its callers | abstract |
| `DescriptorWalk` | one configuration read, for any layout | detailed, refines `PacketReader` |
| `DeviceRequests` | what SET_ADDRESS and SET_CONFIGURATION promise | abstract |
| `Ep0` | `isr.c` and endpoint 0, with an unrestricted host | detailed, refines `DeviceRequests` |
| `ControlTransfer` | `Ep0` with a host that follows the protocol, and faults | composition |
| `Uart1` | `uart1.c` and its interrupt | detailed, refines `LossyQueue` twice |
| `SetupLog` | what the firmware promises to the reader of its serial line | abstract |
| `Firmware` | `main.c` with `SetupFifo` and `Uart1` | composition, refines `SetupLog` |
| `XramLayout` | addresses, sizes, and who writes where | detailed |
| `SetupFifoProofs`, `DescriptorStreamProofs`, `DescriptorWalkProofs`, `ControlTransferProofs`, `Uart1Proofs`, `FirmwareProofs`, `XramLayoutProofs` | | proofs |
| `SequenceLemmas` | induction, and what a concatenation of sequences holds at each place and at its two ends | lemmas |
| `MCEp0`, `MCControlTransfer`, `MCFirmware`, `MCSentinel`, `MCFirmwareLog`, `MCDescriptorWalk` | instances for TLC | |

### SetupFifo

The push runs inside the interrupt and is one step. The pop is a step per
access to the shared structure: it reads `tail`, compares `head`, copies the
entry member by member in any order (it is the compiler's struct copy), writes
`tail`. `accepted` and `received` record what the two functions returned last;
they are what `LossyQueue` talks about.

### DescriptorStream and Ep0

A descriptor is its kind and its indices, and a byte of it is its offset. A
`Layout` gives the lengths the hooks would return. `Advance` is the end of one
iteration of the copy loop of `usb_ep0_prepare_descriptor`: the cursor and the
remainders, and the move to the next descriptor. `LastInterface` and
`ChildSentinel` are the largest values of the two bit fields (7 and 31).

`Ep0` has a variable per register and per member of `usb_ep0_ctx`; `pending` is
the union, with the member written last. The handler is not interrupted, but the
bus goes on beside it. So the handler is cut where it can see the bus again:
dispatch and handler (one step), each iteration of the copy loop, the clearing of
`UIF_TRANSFER`, the bus reset part. `isr` says where it is. Each branch of the C
code is an action; `HandleSetup`, `HandleIn`, `Fill` and `HandleOut` are the four
functions.

The engine and the host are the actions `BusSetup`, `BusIn`, `BusOut`,
`BusReset`. They are not under `src/`; they follow from how the code uses them: a
SETUP is always accepted, IN and OUT complete only with ACK in `UEP0_CTRL`,
nothing completes while `UIF_TRANSFER` is set, and received bytes go to the start
of `ep0_buffer`. `BusIn` means that the host has acknowledged the packet.

`logged` is the number of packets in the SETUP FIFO, whose content endpoint 0
never reads.

`ImplementsRequests` maps endpoint 0 to `DeviceRequests`, in which a request for an address or a
configuration is received, opened (its status stage is due), acknowledged by the host, and then
committed; no other step changes the two values but a reset, which zeroes them. `RequestStage`
reads this off the state: a SETUP packet nobody has handled yet is "received"; with
`WAIT_DEVICE_ADDRESS` or `WAIT_CONFIGURATION` the request is "open" until an IN has been
completed, which is the host's acknowledgement, and "acknowledged" until the handler has acted on
it. So a commit on an OUT, or while the bus is quiet, is no step of `DeviceRequests`. A reset is
signalled by `UIF_BUS_RST`, and what clears that flag must zero both values.

### ControlTransfer

The host is a second process: SETUP, data stage, status stage. It
accepts a data packet with the toggle it expects and drops another, ends the
data at a short packet or at `wLength`, and uses the new address after the status
stage of SET_ADDRESS. Its faults, at most `MaxFaults`, are: an ACK of an IN packet is
lost (the host moves on, the device does not); the device's ACK of the status OUT is
lost, so that the host repeats it; the host has read enough and goes to the status stage
while the device has data armed; it gives a transfer up; it resets the bus.

`mishap` names what may have set host and device apart in the current transfer. Of such
a transfer only the data is checked, and that the next one is not disturbed. A
configuration read with `wLength = 0` is one of them (`"noData"`), although nothing has failed
on the bus: it does not end in this code (finding 4), and the runs check that the next transfer does.

### DescriptorWalk

`Ep0` works on a few layouts, as it has the whole endpoint beside the walk.
`DescriptorWalk` has only the stream and the copy loop of
`usb_ep0_prepare_descriptor`, an iteration per step, for thousands of layouts. Its refinement mapping
is a reading position: the bytes of `DescriptorBytes` that are not yet in a packet. The
reference stops at the last interface that the index can name (`prepare.c:61`) and at
`wTotalLength`.

### Uart1

`uart_write` and `uart_read` are a step per access to what they share with the
interrupt, which is one step. A byte that arrives while the handler is between reading
`SBUF1` and clearing `U1RI` is lost with its flag (`Overtaken`). `shift` is the transmitter's shift register, and
`line` the byte sent last. `Arriving` is the bytes that the other side sends.

`uart_write` between `uart1.c:54` (publishing `tx_head`) and its end is right only
if the transmitter does not finish a byte there: `young` marks a byte loaded in
that window, and with `HoldOff = FALSE` it is not shifted out before the window
ends. A byte takes 6250 cycles at the default 9600 baud and 6 MHz, the window a few
tens, so that the assumption is about other interrupts holding main. It is not
granted by the code; see the findings.

### Firmware

The program from power on. `Init` has EA clear, `uart1` initialised by the start-up code and the FIFO's
indices arbitrary, since xRAM is not cleared. The steps of the start-up are actions in the
order of `main.c`; the loop is the steps of `SetupFifo`'s pop and `Uart1`'s write, by INSTANCE, of which
main is in one at a time. `text` is what is left of the text that main prints; the bytes of one
piece of text between which nothing is decided are one symbol, and a `uart_print_hex` of one value another.
Both handlers have the same priority and do not interrupt each other. `LogIsTranscript` maps
everything on its way (transmitter, transmit ring, the argument of `uart_write`, `text`, the
FIFO) to the text that is still to come. `Firmware` has `Uart1` with `HoldOff = FALSE`: USB
interrupts that hold main in the start window for the time of a byte are left out (finding 2).

### XramLayout

The behaviours are sequences of writes, each an address and the part that writes. The
sizes are those of one build: chosen in `Init` from the sets that the constants give.

## 3. The runs

| run | what it checks | shows |
|---|---|---|
| `setup_fifo` | `TypeOK`, `NoTornPacket`, `ImplementsQueue`, `EveryPacketPopped` | the ring is a queue, for a producer that interrupts the consumer anywhere |
| `ep0` | `TypeOK`, `PendingMatchesState`, `EndpointMatchesState`, `AnswersLastSetup`, `StallHolds`, `ImplementsRequests`, `HandlerReturns` | endpoint 0 under any host |
| `control_transfer` | `HostTypeOK`, `DataIsDescriptors`, `SupportedNeverFails`, `DoneAgrees`, `TransferEnds` | what a host gets, with two faults |
| `firmware` | `DataIsDescriptors`, `TransferEnds` | the same with the real sizes and the descriptors of `main.c` |
| `uart_send` | `TypeOK`, `NoLostWakeup`, `SendsInOrder`, `EveryByteSent`, `WriteReturns` | the transmit ring is a queue, every byte in it is sent, `uart_write` returns (`HoldOff = FALSE`) |
| `uart_receive` | `ReadsInOrder` | the receive ring is a queue |
| `firmware_log` | `LogIsTranscript`, `EveryPacketLogged` | the whole program (`HoldOff = FALSE`): the log is the transcript of the SETUP packets |
| `descriptor_walk` | `DeliversAnswer`, `AnswerEnds` | the walk delivers each byte of the answer once, in packets that are full |
| `xram_layout` | `NoWriteAstray` | the parts keep to their arrays |
| `xram_accepted` | `NoWriteAstray`, violated | finding 3 |
| `child_sentinel` | `SentinelMeansConfig`, violated | finding 1 |
| `uart_hold_off` | `SendsInOrder` with `HoldOff = TRUE`, violated | finding 2 |

Every property of a passing run has a mutant of the code in `PROJECT.json` that
breaks it; the mutants stand before the definitions they replace, marked as such.

### Bounds

- `setup_fifo`: four entries (two turns of wrap-around, a full ring holds three),
  packets of two members with two values each, so that a torn packet can be told
  from a whole one. The proofs hold for every size.
- `ep0`: a four-byte buffer, bit fields of largest value 1 and 3. The five layouts: one that
  fits a packet; one of two full packets, with an empty child; one that promises more bytes than
  its descriptors have; three interfaces, one more than the index can name, with empty
  descriptors before, between and after the others; and an interface of length zero with `ChildSentinel`
  children, one of them not empty, which the walk repeats until `wTotalLength` is used up (finding 1). The
  layout with which the copy loop does not end, where all of these are empty, is not among
  them: `HandlerReturns` is false there. The packets are one of each request the device
  accepts, two addresses (with 127), a rejected one (128), and lengths of none, less
  than the descriptor and more than it. `ShortLength = {7}` is a malformed SETUP and
  `OutLength = {0, 1}` an empty and a non-empty OUT. One place in the FIFO
  (`LogCapacity`) is enough to see it full and not.
- `control_transfer`: the same sizes, requests for less than a packet, one packet,
  two packets, and all. Two faults allow one fault in the recovery from another.
- `firmware`: 64-byte packets, three and five bits. One fault.
  The configuration is also read with `wLength` 0 (`Request(128, 6, 512, 0)` of `MCFirmware`).
- `firmware_log`: a FIFO of two entries holds one packet, so that it is full most of the
  time main prints; a transmit ring of two makes main wait in each byte. A packet has a byte and a word (one and
  two calls of `uart_print_hex`). A FIFO of four is beyond five minutes of TLC; `FirmwareProofs` proves
  `LogIsTranscript` for every size.
- `descriptor_walk`: every layout of up to three interfaces (the index names two), with up to two
  children of none, one or three bytes, a configuration descriptor of one or four bytes, four
  values of `wTotalLength` and four of `wLength`, packets of four bytes: 5,624 layouts. With 255 for
  `wLength` the answer ends in packets of every length, the empty one included. No layout has
  `ChildSentinel` children, and none the walk must repeat.
- `xram_layout`: sizes that are powers of two, up to the largest that fit; device descriptors of
  18 and 64 bytes. The addresses are those the headers give when a build defines none.
- `uart_send`: a transmit ring of four (three bytes waiting and one in the transmitter), two byte
  values. The receive ring has two places and one value arrives: they are there for the
  handler's other half.
- `uart_receive`: a receive ring of four, three bytes in order, and two values that arrive; a transmit
  ring of two.

The MC instances check deadlock. The models have none: the environment can always act.

### Fairness

- `WF(UsbIsr)`: the interrupt is entered while a flag is up (`UIF_TRANSFER`
  and `UIF_BUS_RST` are level signals, enabled by `usb_init` for good), nothing in it waits.
- `WF(HostTransaction)` in `ControlTransfer`: a host in a transfer tries again
  until the device answers. It need not be patient with a device that never does: `TransferEnds`
  is then what would be violated.
- `WF(Pop)`: main's loop never leaves the FIFO, and interrupts return to it.
- `WF(ShiftOut)`, `WF(UartIsr)`: the transmitter sends what it holds, and its
  interrupt stays enabled. `WF(Write)`: main goes on with a `uart_write` it has begun.
  Nothing says that main calls it.
- In `Firmware`: `WF(Main)` (interrupts leave main time to run), `WF(UsbIsr)`, `WF(UartIsr)` (level
  flags, enabled for good after the start-up), `WF(ShiftOut)`. Nothing is assumed of the host.
- `WF(Next)` in `DescriptorWalk`: the handler runs to its end and the host reads on.

## 4. Findings

1. **The child index that marks the configuration descriptor**
   (`prepare.c:53`). The code takes `indices.child = 31` for "sending the configuration
   descriptor" (`prepare.c:52`, `setup.c:73`), but the index is also 31 after the 31st
   child of an interface. `move_to_next_descriptor` then points at the same interface again,
   and the next one is never sent: the interface and its children are repeated until `wTotalLength` is used
   up. If the interface and its 31 children are all of length zero, nothing is ever used up, and the copy loop, and
   with it the USB interrupt, does not end. Nothing limits the children to 30.
2. **Starting the transmitter** (`uart1.c:54-60`). Interrupts are enabled
   while `uart_write` loads `SBUF1` and advances `tx_tail`. If other interrupts hold main there for a
   byte time, the UART1 interrupt sends the same byte again, or it empties the ring first and
   main pushes `tx_tail` past `tx_head`, against "sends a single byte"
   (`include/hardware/uart1.h:51`). At 9600 baud that takes 6250 cycles of USB
   interrupts in a row; at the rates that `UART1_BAUD_RATE` admits, a single one.

3. **Sizes that overlap** (`context.h:9-17`, `usb_setup_fifo.h:12-16`). The arrays in xRAM are
   absolute variables; the FIFO is at 0x0040, and the rings at 0x0100 and 0x0120 unless a build
   redefines these. Each size is checked by itself: at the default addresses `uart1.h:19` accepts a receive ring of 64 or 128 bytes,
   which covers `tx_buffer` at 0x0120, and `usb_setup_fifo.h:14` a FIFO of 32 entries, which
   covers both rings. The sizes that the repository uses are right.

4. **A configuration read with `wLength` 0** (`setup.c:76-81`). The code arms an OUT as status
   stage and answers IN with NAK. A request without a data stage has an IN as status
   stage, so that a host that reads nothing polls an endpoint that answers NAK until the host gives up; the next SETUP
   is answered as usual. This needs no fault on the bus. No line of the repository says what such a
   request should do, so there is no run that is expected to fail: `ControlTransfer` has the case as
   the mishap `"noData"`, without which `TransferEnds` is violated.

## 5. The proofs

All theorems hold for every value of the constants under the named assumptions
(`SizeAssumption`, `StreamAssumption`, `Ep0Assumption`, `WalkAssumption`, `HostAssumption`, `UartAssumption`,
`SizesAssumption`, `FirmwareAssumption`), which only give the constants
their types (and `HostAssumption` that an empty OUT packet is among the OUT packets, `UartAssumption` that the
bytes that arrive are bytes). `Layout` includes that a device descriptor is shorter than the buffer, since the
code copies it by its length alone (`setup.c:56`). Two theorems, `WalkDelivers` and `HostReadsDescriptors`, have
one more hypothesis, `ChildrenFit` for every layout: no interface has `ChildSentinel` children or more. Without it they
are false (finding 1), and the descriptors of `main.c` satisfy it.

- **SequenceLemmas**: `FlattenSeq` of the community modules is a recursive function, so a fact about it for every
  length needs induction. The induction theorems of the library take a predicate; `SetInduction` takes the set of the
  numbers for which the predicate holds and follows from the well-foundedness of `<` on `Nat` (`WFMin`, which has no
  operator parameter). From it: the concatenation of `q` has, from the offset of `q[i]` on, the elements
  of `q[i]`, where the offsets are those that add up the lengths (`OffsetsOf`, `FlattenPlaces`); a sequence joined at the
end of `q` is joined at the end of the whole, and the first of `q` begins it (`FlattenAppend`, `FlattenHead`); and if each of
`q` ends in `e`, the whole holds `e` at least `Len(q)` times (`EndsCounted`).

- **SetupFifoProofs**: `TypeCorrect`, `NeverTorn`, `Refinement`. The invariant adds to
  typing and `NoTornPacket` that main's local copy of `tail` is never stale, as only main
  writes `tail`. The refinement's lemmas say what push and pop do to the sequence of
  packets in the ring, with the index arithmetic modulo its size.
- **DescriptorStreamProofs**: `AdvanceType`, from a lemma per operator: whatever the
  descriptors, a chunk no longer than the four remainders leaves a stream with no remainder
  below zero and its indices within their bit fields; and `ChunkFits` says that the code's
  chunk is such a chunk. The second part ties the cursor to the bytes the host should read: `At(l, s, k)` says that
  the stream is at byte `k` of the concatenated descriptors, by the kind of the descriptor it is at
  (`AtConfig`, `AtInterface`, `AtChild`, `AtEnd`). `AdvanceAt` keeps it, with a case per move of
  `move_to_next_descriptor`; the case of the last child needs `ChildrenFit`. `ChunkWalks` and `LoopEnds` add the two
  remainders (`Walks`): a chunk is the next bytes of the answer, and the loop ends at a full packet or
  at the end of the answer.
- **DescriptorWalkProofs**: `WalkDelivers`, the refinement of `PacketReader`, with `Walks` as the invariant.
- **ControlTransferProofs**, first part (endpoint 0 with an unrestricted host): `TypeCorrect`, `UnionReadAsWritten`, `EndpointAgrees`,
  `RepliesAreCurrent`, `StallIsHeld`, `Refinement`. `IInv` is the inductive
  invariant. `PendingMatchesState`, `EndpointMatchesState` and `AnswersLastSetup` are
  not inductive by themselves: the last speaks only of what the host can fetch now, and a
  reply is also armed while `UIF_TRANSFER` hides it, or half filled in the copy loop. `Reply` and
  `FillReply` say that these, too, match the last SETUP packet, unless the handler has still to
  answer it. `NotStalled` says that a completed IN or OUT transaction
  was not stalled, so that its handler never finds a stalled endpoint; that gives
  `StallHolds`. `Phase` ties `isr` to the flag
  and the state. There is a lemma per group of actions for typing (`...Typed`), for
  the rest (`...Agrees`) and for the refinement. `Refinement` says that each step of endpoint 0, with any host, is one step of `DeviceRequests` or
  changes none of its variables: `StageIs` writes `RequestStage` out case by case, `Acted` (with `IInv`
  the invariant of the refinement) says that once the handler of an IN is done, no request that it
  should have committed is still open, and the lemmas `...Maps` say which step each action is. TLC checks `IInv` on the
  instance of `MCEp0` without error.

- **ControlTransferProofs**, second part (with the host of `ControlTransfer`): `HostIsEnvironment`, `HostTypeCorrect`, `HostAndDeviceAgree`,
  `SupportedSucceeds`, `HostReadsDescriptors`. Every step of the protocol's host is a bus step of `Ep0` or none of its
  variables changes, so `IInv` holds here too. `HInv` adds `Coupled`. `DoneAgrees` is not inductive:
  when the host is done, the handler has still to act on the last packet. `TransferOver` says
  what is then so (`LastIn`: the reply in flight is one without data, and the host may
  already use the new address), `ReadOver` that a host which has its data finds nothing armed but
  the status stage, `Toggles` that the short replies are DATA1, `StallMeansUnsupported` that a stall is the
  answer to a SETUP packet nobody supports, and `HostAtReset` that a host does not start a
  transfer before the device has seen its reset. One lemma per kind of step of the host and of the
  handler (`...Couples`). TLC checks each part of `HInv` on the instance of `control_transfer`.
  `DataIsDescriptors` needs a second invariant beside `HInv`: `DataInv` follows the bytes of the answer while the data stage lasts. While
  the copy loop runs (`FillData`), the buffer holds the last `filled` of the bytes taken from the stream and the host
  has exactly the rest. While a packet is armed (`ArmedData`), the packet holds the answer up to
  `Position`, is full or the last, and its toggle says whether the host has it already: a host
  that lost only the acknowledgement expects the other toggle. It is checked by TLC on the same instance. The lemmas
  (`...KeepsData`) are one per kind of step; the copy loop's uses `ChunkWalks` and `LoopEnds`.
- **Uart1Proofs**: `TypeCorrect`, and under `~HoldOff` (finding 2) `WakeupKept`, `SendRefines`,
  `ReadRefines`. `Inv` is typing, `Handshake` and `Locals`. `NoLostWakeup` is not inductive: it does not say
  who owns the transmitter at each place of `uart_write`. `Handshake` does: one that is not busy is idle
  and has no interrupt pending; in the start window from `setBusy` on the ring is not empty and the
  handler has nothing to say; at `test` either the byte just published is still in the ring or
  a byte is being sent that cannot end before main has looked. `Locals` says that `next_head`,
  the copy of `tx_tail` and the byte of `uart_read` are not stale. The refinements rest on
  four lemmas about a ring as a sequence (`RingStore`, `RingAppend`, `RingTake`, `RingEmpty`), for
  any buffer and size, and on a lemma per kind of step: a byte that goes from the ring to the shift
  register leaves what is unsent as it is (`LoadKeeps`), the write of an entry that is not
  published as well (`StoreKeeps`). TLC checks `Inv` on the instances of `uart_send` and `uart_receive`.
- **XramLayoutProofs**: `PartsKeepApart`, for all sizes within `Fits`, the bounds that the
  addresses give. The invariant says that a write is in the array of its part; each of the two
  bounds that finding 3 breaks is needed.

- **FirmwareProofs**: `RingsStaySound` and `SerialLineIsLog`, the refinement of `SetupLog` by the whole program. `IInv` is the
  invariants of the two rings, from `SetupFifoProofs` and `Uart1Proofs` by INSTANCE (`FP`, `UP`), with `Control`: before
  its loop main prints and pops nothing, and the interrupts are off. `Control` is needed because the FIFO's indices are
  arbitrary until `usb_setup_fifo_init`: a push or a pop before it would be of a ring nobody has initialised. It also gives that what is
  in the FIFO then does not count (`Waiting`). The refinement follows the parts of `ToCome`: main's steps move a symbol or a line
  from one part to the next and leave the whole as it is (`...Keeps`: the greeting, a packet's line, a symbol into `uart_write`, a byte
  into the ring), a push that is accepted adds its line at the end (`FlattenAppend`), `ShiftOut` takes the first symbol, which
  is in the transmitter (`ShiftOutSends`, `HeadOfConcat`). A push that is refused finds `FifoSize - 1` packets, whose lines each
  have an end of line (`EndsCounted`, `LineEnds`). The rings' own lemmas say what a step does to their sequences.
  `Firmware` takes `Uart1` with `HoldOff` FALSE, so both theorems are for builds without finding 2.

Only model-checked: the liveness properties, with their fairness, and the three violations of section 4. Liveness is out of the prover's
reach. Every safety property of a passing run is the subject of a theorem.

## 6. What is not modelled

- Register and interrupt headers, compiler helpers, build files: no behaviour.
- Clock and pin set-up; `uart_begin`'s baud rate; the characters of the log.
- Suspend (the interrupt is not enabled) and endpoints 1 to 4 (a TODO in `isr.c:18`).
- The bit instruction that clears `UIF_TRANSFER` is modelled as clearing that flag only.
  `control.h` warns of read-modify-write there; what the chip does is not in the repository.
- That the compiler's struct copies in the interrupt and in main do not disturb each other.
- A SETUP packet between the enabling of the port and the clearing of `USB_INT_FG` in `usb_init`: a host
  waits for many milliseconds after it sees a device.
- `Firmware` has of endpoint 0 only the push of the packet: `Ep0` and the rest share nothing
  but the FIFO and the interrupt's priority.

## 7. Plan

Every part of the program that has behaviour is modelled, and every safety property that the runs check is proved. What
could follow: `Ep0` in `Firmware` instead of the bare push.
