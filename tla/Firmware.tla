------------------------------ MODULE Firmware ------------------------------
(***************************************************************************)
(* The whole program of src/main.c: it initialises the serial line, the    *)
(* SETUP FIFO and USB with the interrupts disabled, enables them, greets,  *)
(* and then takes packets from the FIFO and writes a line of text for each.*)
(*                                                                         *)
(* Composes SetupFifo and Uart1, which share main: it is in at most one of *)
(* usb_setup_fifo_pop and uart_write.  The two interrupt handlers have one *)
(* priority, so that neither interrupts the other.  Of endpoint 0 only the *)
(* call of usb_setup_fifo_push_isr is here.                                *)
(*                                                                         *)
(* A piece of text that main writes without a decision between its bytes   *)
(* is one symbol; every uart_write is a write of a symbol.                 *)
(*                                                                         *)
(* HoldOff of Uart1 is FALSE here: of the interleavings of the program,    *)
(* those are left out in which the USB interrupt holds main for the time   *)
(* of a byte within uart1.c:54-62.  The code does not exclude them, and    *)
(* in them a byte may be sent twice or skipped (the run of Uart1 with      *)
(* HoldOff TRUE).                                                          *)
(***************************************************************************)
EXTENDS SequencesExt

CONSTANTS
    FifoSize, TxSize, RxSize,
    Field, Value,          \* of usb_setup_fifo_item_t
    Packet,                \* the SETUP packets that the host sends
    Garbage,               \* what an entry of the FIFO holds at power on
    NoByte

VARIABLES
    ea, enabled,           \* EA, and which of IE_UART1 and IE_USB are set
    at,                    \* where main is
    text,                  \* what is left of the text main is printing
    arrived,               \* the SETUP packet that UIF_TRANSFER announces
    head, tail, entries, accepted, pop_pc, l_tail, todo, packet, received,
    tx_head, tx_tail, tx_busy, tx_buffer, rx_head, rx_tail, rx_buffer,
    u1ti, u1ri, shift, young, sbuf, line, kept, write_pc, data, index, result

fifo == <<head, tail, entries, accepted, pop_pc, l_tail, todo, packet, received>>
uart == <<tx_head, tx_tail, tx_busy, tx_buffer, rx_head, rx_tail, rx_buffer,
          u1ti, u1ri, shift, young, sbuf, line, kept, write_pc, data, index, result>>
control == <<ea, enabled, at>>
vars == <<control, text, arrived, fifo, uart>>

-----------------------------------------------------------------------------
(* The text.                                                               *)
Greeting == <<"Initialized.\r\n">>
EndOfLine == <<"\r\n">>
Label(f) == <<"label", f>>
Hex(f, half, v) == <<"hex", f, half, v>>

PrintOrder == <<"bmRequestType", "bRequest", "wValue", "wIndex", "wLength">>

(* The calls of uart_print_hex for a member: one, or two for a word.       *)
Halves(f) == IF f \in {"bmRequestType", "bRequest"} THEN <<"low">> ELSE <<"high", "low">>

FieldText(f, v) == <<Label(f)>> \o [h \in DOMAIN Halves(f) |-> Hex(f, Halves(f)[h], v)]

(* The structure's members in this order; a model may leave some out.      *)
MemberText(p, f) == IF f \in Field THEN FieldText(f, p[f]) ELSE <<>>

Line(p) == FlattenSeq([i \in DOMAIN PrintOrder |-> MemberText(p, PrintOrder[i])])
           \o <<EndOfLine>>

LineOf == [p \in [Field -> Value] |-> Line(p)]

Symbol == {Greeting, EndOfLine} \cup {Label(f) : f \in Field}
          \cup {Hex(f, half, v) : f \in Field, half \in {"high", "low"}, v \in Value}

ASSUME FirmwareAssumption ==
    /\ FifoSize \in Nat \ {0} /\ TxSize \in Nat \ {0, 1} /\ RxSize \in Nat \ {0, 1}
    /\ Packet \subseteq [Field -> Value] /\ Garbage \in [Field -> Value]
    /\ NoByte \notin Symbol

F == INSTANCE SetupFifo WITH Size <- FifoSize, pc <- pop_pc
U == INSTANCE Uart1 WITH
         Byte <- Symbol, Arriving <- {EndOfLine}, HoldOff <- FALSE, pc <- write_pc

(* Power on: EA is clear.  The C start-up code has initialised uart1; the  *)
(* buffers in xRAM and the FIFO's indices hold anything.                   *)
Init == /\ ea = FALSE /\ enabled = {} /\ at = "uart_begin"
        /\ text = <<>> /\ arrived = {}
        /\ head \in F!Index /\ tail \in F!Index
        /\ entries = [i \in F!Index |-> Garbage]
        /\ accepted = FALSE
        /\ pop_pc = "read" /\ l_tail = 0 /\ todo = {}
        /\ packet = Garbage /\ received = packet
        /\ tx_buffer = [i \in U!TxIndex |-> EndOfLine]
        /\ rx_buffer = [i \in U!RxIndex |-> EndOfLine]
        /\ U!Init

-----------------------------------------------------------------------------
(* main before its loop.  irq_disable has been called: EA is clear.        *)

(* Mutant: uart_begin does not enable the interrupt.                       *)
UartBeginNoInterrupt == /\ at = "uart_begin" /\ at' = "fifo_init"
                        /\ UNCHANGED <<ea, enabled, text, arrived, fifo, uart>>

UartBegin == /\ at = "uart_begin" /\ at' = "fifo_init"
             /\ enabled' = enabled \cup {"uart"}
             /\ UNCHANGED <<ea, text, arrived, fifo, uart>>

(* Mutant: the indices are left as they are.                               *)
FifoInitForgotten == /\ at = "fifo_init" /\ at' = "usb_init"
                     /\ UNCHANGED <<ea, enabled, text, arrived, fifo, uart>>

FifoInit == /\ at = "fifo_init" /\ at' = "usb_init"
            /\ head' = 0 /\ tail' = 0
            /\ UNCHANGED <<ea, enabled, text, arrived, entries, accepted,
                           pop_pc, l_tail, todo, packet, received, uart>>

(* The port is enabled a few instructions before IE_USB; no host sends a   *)
(* SETUP packet so soon after it sees a device.                            *)
UsbInit == /\ at = "usb_init" /\ at' = "irq_enable"
           /\ ea' = FALSE
           /\ enabled' = enabled \cup {"usb"}
           /\ UNCHANGED <<text, arrived, fifo, uart>>

(* irq_enable, and the call uart_print("Initialized.\r\n").                *)
IrqEnable == /\ at = "irq_enable" /\ at' = "loop"
             /\ ea' = TRUE
             /\ text' = <<Greeting>>
             /\ UNCHANGED <<enabled, arrived, fifo, uart>>

Boot == UartBegin \/ FifoInit \/ UsbInit \/ IrqEnable

-----------------------------------------------------------------------------
(* The loop of main.                                                       *)
Printing == text # <<>> \/ write_pc # "ready"

(* uart_print and uart_print_hex: the next byte, when the last is written. *)
PrintNext == /\ text # <<>>
             /\ U!CallWrite(Head(text))
             /\ text' = Tail(text)
             /\ UNCHANGED <<control, arrived, fifo>>

WriteStep == /\ U!Write
             /\ UNCHANGED <<control, text, arrived, fifo>>

PopStep == /\ at = "loop" /\ ~Printing
           /\ F!ReadTail \/ F!TestEmpty \/ F!TestAvailable \/ \E f \in Field : F!CopyField(f)
           /\ UNCHANGED <<control, text, arrived, uart>>

(* usb_setup_fifo_pop returns true: the line of the packet.                *)
PopReturns == /\ at = "loop" /\ ~Printing
              /\ F!AdvanceTail
              /\ text' = LineOf[packet]
              /\ UNCHANGED <<control, arrived, uart>>

Main == Boot \/ PrintNext \/ WriteStep \/ PopStep \/ PopReturns

-----------------------------------------------------------------------------
(* The interrupt handlers, and what raises their flags.                    *)

(* A SETUP packet is received.  UIF_TRANSFER keeps the next one out.       *)
ReceiveSetup(p) == /\ "usb" \in enabled /\ arrived = {}
                   /\ arrived' = {p}
                   /\ UNCHANGED <<control, text, fifo, uart>>

UsbIsr == /\ ea /\ "usb" \in enabled
          /\ \E p \in arrived : F!Push(p)
          /\ arrived' = {}
          /\ UNCHANGED <<control, text, uart>>

UartIsr == /\ ea /\ "uart" \in enabled
           /\ U!UartIsr
           /\ UNCHANGED <<control, text, arrived, fifo>>

(* Under HoldOff = FALSE: a byte that the transmitter began while main was *)
(* in uart1.c:54-62 does not end before main has left these lines.         *)
ShiftOut == /\ U!ShiftOut
            /\ UNCHANGED <<control, text, arrived, fifo>>

(* A byte from the other side: main never reads it.                        *)
ReceiveByte == /\ "uart" \in enabled
               /\ U!Arrive(EndOfLine)
               /\ UNCHANGED <<control, text, arrived, fifo>>

Next == \/ Main \/ UsbIsr \/ UartIsr
        \/ ShiftOut \/ ReceiveByte
        \/ \E p \in Packet : ReceiveSetup(p)

Spec == Init /\ [][Next]_vars

(* The interrupts leave main time to run, and the line sends what it has.  *)
FairSpec == Spec /\ WF_vars(Main) /\ WF_vars(UartIsr) /\ WF_vars(UsbIsr)
                 /\ WF_vars(ShiftOut)

-----------------------------------------------------------------------------
(* The text that is still to come: the bytes that uart_write has published *)
(* or is about to, the rest of the text that main is printing, and a line  *)
(* for each packet in the FIFO.                                            *)
InWrite == IF write_pc \in {"wait", "store", "publish"} THEN <<data>> ELSE <<>>

Waiting == IF at \in {"uart_begin", "fifo_init"} THEN <<>> ELSE F!Queue

ToCome == U!Unsent \o InWrite \o text
          \o (IF at = "loop" THEN <<>> ELSE <<Greeting>>)
          \o FlattenSeq([i \in DOMAIN Waiting |-> LineOf[Waiting[i]]])

Log == INSTANCE SetupLog WITH
           Greeting <- <<Greeting>>, Capacity <- FifoSize - 1, log <- ToCome

(* From power on, through both rings and both handlers, the serial line    *)
(* carries the greeting and then the lines of the SETUP packets, each      *)
(* whole, once and in the order of arrival; a packet has no line only if   *)
(* FifoSize - 1 others were waiting (usb_ep0_handle_packet ignores the     *)
(* result of the push).  Of the behaviours that HoldOff = FALSE leaves.    *)
LogIsTranscript == Log!LSpec

(* main comes back to the FIFO, though it waits for room in the transmit   *)
(* ring in each line it prints: a packet in the FIFO is taken out of it.   *)
EveryPacketLogged ==
    \A i \in F!Index : (at = "loop" /\ tail = i /\ head # i) ~> (tail # i)
=============================================================================
