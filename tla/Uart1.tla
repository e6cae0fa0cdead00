-------------------------------- MODULE Uart1 --------------------------------
(***************************************************************************)
(* The serial driver of src/hardware/uart1: uart_write, uart_read and      *)
(* uart_available, called by main, and the UART1 interrupt handler.  The   *)
(* two rings are shared by main and the handler without a lock.            *)
(*                                                                         *)
(* The handler is one step: main cannot run beside it, and of the line     *)
(* only the end of a byte that is being received can fall into it.  The    *)
(* functions of main are a step per access to what they share with it.     *)
(*                                                                         *)
(* HoldOff says whether other interrupts may keep main, between publishing *)
(* tx_head and the end of uart_write (uart1.c:54-60), for as long as a     *)
(* byte takes on the line.  uart_write is right only if they may not.      *)
(***************************************************************************)
EXTENDS Naturals, Sequences

CONSTANTS TxSize, RxSize,   \* UART1_TX_BUFSIZE, UART1_RX_BUFSIZE
          Byte,
          Arriving,         \* the bytes that the other side sends
          NoByte,           \* not a byte: nothing in the shift register
          HoldOff

ASSUME UartAssumption == /\ TxSize \in Nat \ {0, 1} /\ RxSize \in Nat \ {0, 1}
                         /\ Arriving \subseteq Byte /\ NoByte \notin Byte
                         /\ HoldOff \in BOOLEAN

VARIABLES
    tx_head, tx_tail, tx_busy, tx_buffer,
    rx_head, rx_tail, rx_buffer,      \* read at rx_head, written at rx_tail
    u1ti, u1ri,        \* the interrupt flags
    shift,             \* the byte that the transmitter is sending
    young,             \* it was loaded while main was in that part of uart_write
    sbuf,              \* the byte received last
    line,              \* the byte that was sent last
    kept,              \* whether the handler kept the byte received last
    pc,                \* where main is
    data,              \* the local variable data of uart_write or uart_read
    index,             \* next_head in uart_write, then the tx_tail it has read;
                       \* zero when it has no use any more
    result             \* what uart_read returned last

tx == <<tx_head, tx_tail, tx_busy, tx_buffer>>
rx == <<rx_head, rx_tail, rx_buffer>>
transmitter == <<u1ti, shift, young, line>>
receiver == <<u1ri, sbuf, kept>>
main == <<pc, data, index, result>>
vars == <<tx, rx, transmitter, receiver, main>>

TxIndex == 0 .. TxSize - 1
RxIndex == 0 .. RxSize - 1

(* Mutant: the mask is forgotten.                                          *)
WrapUnmasked(i, size) == i + 1

(* (i + 1) & (UART1_xX_BUFSIZE - 1)                                        *)
Wrap(i, size) == IF i + 1 = size THEN 0 ELSE i + 1

(* uart1 is initialised; the buffers are not.                              *)
Init == /\ tx_head = 0 /\ tx_tail = 0 /\ tx_busy = FALSE
        /\ tx_buffer \in [TxIndex -> Byte]
        /\ rx_head = 0 /\ rx_tail = 0 /\ rx_buffer \in [RxIndex -> Byte]
        /\ u1ti = FALSE /\ u1ri = FALSE
        /\ shift = NoByte /\ young = FALSE /\ sbuf \in Arriving /\ line = sbuf /\ kept = TRUE
        /\ pc = "ready" /\ data = sbuf /\ index = 0 /\ result = sbuf

-----------------------------------------------------------------------------
(* The line.                                                               *)

(* Between publishing tx_head and the end of uart_write.                   *)
Starting == pc \in {"test", "setBusy", "load", "readTail", "writeTail"}

ShiftOut == /\ shift # NoByte
            /\ young => HoldOff
            /\ line' = shift /\ shift' = NoByte /\ young' = FALSE
            /\ u1ti' = TRUE
            /\ UNCHANGED <<tx, rx, receiver, main>>

(* A byte arrives.  It replaces one the handler has not fetched.           *)
Arrive(b) == /\ sbuf' = b /\ u1ri' = TRUE
             /\ UNCHANGED <<tx, rx, transmitter, kept, main>>

Line == ShiftOut \/ \E b \in Arriving : Arrive(b)

-----------------------------------------------------------------------------
(* The interrupt handler: what was received, then what was sent.           *)

(* Mutant: the handler does not look whether the ring is full.             *)
IsrReceiveUnchecked ==
    IF u1ri
    THEN /\ u1ri' = FALSE
         /\ kept' = TRUE
         /\ rx_buffer' = [rx_buffer EXCEPT ![rx_tail] = sbuf]
         /\ rx_tail' = Wrap(rx_tail, RxSize)
    ELSE UNCHANGED <<u1ri, kept, rx_buffer, rx_tail>>

IsrReceive ==
    IF u1ri
    THEN /\ u1ri' = FALSE
         /\ kept' = (Wrap(rx_tail, RxSize) # rx_head)
         /\ IF Wrap(rx_tail, RxSize) # rx_head
            THEN /\ rx_buffer' = [rx_buffer EXCEPT ![rx_tail] = sbuf]
                 /\ rx_tail' = Wrap(rx_tail, RxSize)
            ELSE UNCHANGED <<rx_buffer, rx_tail>>
    ELSE UNCHANGED <<u1ri, kept, rx_buffer, rx_tail>>

(* Mutant: the transmitter stays marked busy when there is nothing to send.*)
IsrTransmitBusy ==
    IF u1ti
    THEN /\ u1ti' = FALSE
         /\ IF tx_head # tx_tail
            THEN /\ shift' = tx_buffer[tx_tail] /\ young' = Starting
                 /\ tx_tail' = Wrap(tx_tail, TxSize)
            ELSE UNCHANGED <<shift, young, tx_tail>>
         /\ UNCHANGED tx_busy
    ELSE UNCHANGED <<u1ti, shift, young, tx_tail, tx_busy>>

(* Mutant: the handler leaves it to main to send the next byte.            *)
IsrTransmitOnce ==
    IF u1ti
    THEN /\ u1ti' = FALSE /\ tx_busy' = FALSE
         /\ UNCHANGED <<shift, young, tx_tail>>
    ELSE UNCHANGED <<u1ti, shift, young, tx_tail, tx_busy>>

IsrTransmit ==
    IF u1ti
    THEN /\ u1ti' = FALSE
         /\ IF tx_head # tx_tail
            THEN /\ shift' = tx_buffer[tx_tail] /\ young' = Starting
                 /\ tx_tail' = Wrap(tx_tail, TxSize)
                 /\ UNCHANGED tx_busy
            ELSE /\ tx_busy' = FALSE
                 /\ UNCHANGED <<shift, young, tx_tail>>
    ELSE UNCHANGED <<u1ti, shift, young, tx_tail, tx_busy>>

(* The handler fetches SBUF1 first and clears U1RI last.  The flag of a    *)
(* byte that arrives between the two is cleared with it: that byte is lost.*)
Overtaken == IF u1ri THEN sbuf' \in Arriving ELSE UNCHANGED sbuf

UartIsr == /\ u1ri \/ u1ti
           /\ IsrReceive /\ IsrTransmit /\ Overtaken
           /\ UNCHANGED <<tx_head, tx_buffer, rx_head, line, main>>

-----------------------------------------------------------------------------
(* main: uart_write(b).                                                    *)

CallWrite(b) == /\ pc = "ready"
                /\ data' = b /\ index' = Wrap(tx_head, TxSize)
                /\ pc' = "wait"
                /\ UNCHANGED <<tx, rx, transmitter, receiver, result>>

(* Mutant: uart_write does not wait for room.                              *)
RoomUnchecked == /\ pc = "wait"
                 /\ pc' = "store"
                 /\ UNCHANGED <<tx, rx, transmitter, receiver, data, index, result>>

(* The loop on a full ring is left when the handler has made room.         *)
RoomInRing == /\ pc = "wait" /\ index # tx_tail
              /\ pc' = "store"
              /\ UNCHANGED <<tx, rx, transmitter, receiver, data, index, result>>

StoreByte == /\ pc = "store"
             /\ tx_buffer' = [tx_buffer EXCEPT ![tx_head] = data]
             /\ pc' = "publish"
             /\ UNCHANGED <<tx_head, tx_tail, tx_busy, rx, transmitter, receiver,
                            data, index, result>>

PublishHead == /\ pc = "publish"
               /\ tx_head' = index
               /\ pc' = "test"
               /\ UNCHANGED <<tx_tail, tx_busy, tx_buffer, rx, transmitter, receiver,
                              data, index, result>>

TestBusy == /\ pc = "test"
            /\ pc' = IF tx_busy THEN "ready" ELSE "setBusy"
            /\ young' = (young /\ ~tx_busy)
            /\ index' = 0
            /\ UNCHANGED <<tx, rx, u1ti, shift, line, receiver, data, result>>

SetBusy == /\ pc = "setBusy"
           /\ tx_busy' = TRUE
           /\ pc' = "load"
           /\ UNCHANGED <<tx_head, tx_tail, tx_buffer, rx, transmitter, receiver,
                          data, index, result>>

LoadSbuf == /\ pc = "load"
            /\ shift' = tx_buffer[tx_tail] /\ young' = TRUE
            /\ pc' = "readTail"
            /\ UNCHANGED <<tx, rx, u1ti, line, receiver, data, index, result>>

ReadTail == /\ pc = "readTail"
            /\ index' = tx_tail
            /\ pc' = "writeTail"
            /\ UNCHANGED <<tx, rx, transmitter, receiver, data, result>>

WriteTail == /\ pc = "writeTail"
             /\ tx_tail' = Wrap(index, TxSize)
             /\ young' = FALSE
             /\ index' = 0
             /\ pc' = "ready"
             /\ UNCHANGED <<tx_head, tx_busy, tx_buffer, rx, u1ti, shift, line, receiver,
                            data, result>>

Write == \/ RoomInRing \/ StoreByte \/ PublishHead \/ TestBusy
         \/ SetBusy \/ LoadSbuf \/ ReadTail \/ WriteTail

(* main: uart_read(), which waits for a byte that uart_available() would   *)
(* report.                                                                 *)
Available == rx_head # rx_tail

CallRead == /\ pc = "ready"
            /\ pc' = "receive"
            /\ UNCHANGED <<tx, rx, transmitter, receiver, data, index, result>>

ReadByte == /\ pc = "receive" /\ Available
            /\ data' = rx_buffer[rx_head]
            /\ pc' = "release"
            /\ UNCHANGED <<tx, rx, transmitter, receiver, index, result>>

ReleaseByte == /\ pc = "release"
               /\ rx_head' = Wrap(rx_head, RxSize)
               /\ pc' = "ready"
               /\ result' = data
               /\ UNCHANGED <<tx, rx_tail, rx_buffer, transmitter, receiver,
                              data, index>>

Main == \/ \E b \in Byte : CallWrite(b)
        \/ Write
        \/ CallRead \/ ReadByte \/ ReleaseByte

Next == Line \/ UartIsr \/ Main

Spec == Init /\ [][Next]_vars

(* The line sends what it has, the handler answers its flags, and main     *)
(* goes on with a uart_write it has begun.                                 *)
FairSpec == Spec /\ WF_vars(ShiftOut) /\ WF_vars(UartIsr) /\ WF_vars(Write)

-----------------------------------------------------------------------------
TypeOK ==
    /\ tx_head \in TxIndex /\ tx_tail \in TxIndex /\ tx_busy \in BOOLEAN
    /\ tx_buffer \in [TxIndex -> Byte]
    /\ rx_head \in RxIndex /\ rx_tail \in RxIndex /\ rx_buffer \in [RxIndex -> Byte]
    /\ u1ti \in BOOLEAN /\ u1ri \in BOOLEAN
    /\ young \in BOOLEAN /\ shift \in Byte \cup {NoByte}
    /\ sbuf \in Byte /\ line \in Byte /\ kept \in BOOLEAN
    /\ pc \in {"ready", "wait", "store", "publish", "test", "setBusy", "load",
               "readTail", "writeTail", "receive", "release"}
    /\ data \in Byte /\ result \in Byte /\ index \in TxIndex

(* tx_busy tells main whether it must start the transmitter.  The flag is  *)
(* never wrong when main relies on it: bytes in the ring are never left    *)
(* with nobody to send them, a busy transmitter is one that will interrupt,*)
(* and SBUF1 is never loaded over a byte that is still being sent.         *)
NoLostWakeup ==
    /\ tx_head # tx_tail /\ ~Starting => tx_busy
    /\ tx_busy => shift # NoByte \/ u1ti \/ pc = "load"
    /\ pc \in {"setBusy", "load"} => shift = NoByte /\ ~u1ti

(* The bytes of a ring between two indices, oldest first.                  *)
Waiting(from, to, size) == IF from <= to THEN to - from ELSE to + size - from
Place(from, i, size) == IF from + i < size THEN from + i ELSE from + i - size
Ring(buffer, from, to, size) ==
    [i \in 1 .. Waiting(from, to, size) |-> buffer[Place(from, i - 1, size)]]

Shifting == IF shift = NoByte THEN <<>> ELSE <<shift>>

(* What uart_write has published and the line has not sent.  In the start  *)
(* window the byte at tx_tail is in the shift register already.            *)
FirstUnsent == IF pc = "readTail" THEN Wrap(tx_tail, TxSize)
               ELSE IF pc = "writeTail" THEN Wrap(index, TxSize)
               ELSE tx_tail

Unsent == Shifting \o Ring(tx_buffer, FirstUnsent, tx_head, TxSize)

TxQ == INSTANCE LossyQueue WITH
           q <- Unsent, Item <- Byte, Capacity <- TxSize, accepted <- TRUE, received <- line

(* The line carries each byte given to uart_write once and in order.       *)
SendsInOrder == TxQ!QSpec

(* What the handler has kept and uart_read has not returned.               *)
Unread == Ring(rx_buffer, rx_head, rx_tail, RxSize)

RxQ == INSTANCE LossyQueue WITH
           q <- Unread, Item <- Byte, Capacity <- RxSize - 1, accepted <- kept,
           received <- result

(* uart_read returns each byte the handler kept once and in order, and the *)
(* handler discards a byte only when RxSize - 1 are waiting.               *)
ReadsInOrder == RxQ!QSpec

(* A byte in the ring is sent: the transmitter does not fall asleep on it. *)
EveryByteSent == \A i \in TxIndex : (tx_tail = i /\ tx_head # i) ~> (tx_tail # i)

(* uart_write returns, however long it has to wait for room.               *)
WriteReturns == pc = "wait" ~> pc = "ready"
=============================================================================
