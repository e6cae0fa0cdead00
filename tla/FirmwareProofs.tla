--------------------------- MODULE FirmwareProofs ---------------------------
(***************************************************************************)
(* The whole program implements SetupLog: for rings of every size, every   *)
(* set of packets, and any interleaving of main with the two handlers, the *)
(* serial line carries the greeting and then a whole line for each packet  *)
(* that found room in the FIFO, in the order of arrival.                   *)
(*                                                                         *)
(* IInv joins the inductive invariants of the two rings, taken from their  *)
(* own proofs, with Control: main prints nothing, pops nothing and is not  *)
(* interrupted before its loop.                                            *)
(***************************************************************************)
EXTENDS Firmware, SequenceLemmas

FP == INSTANCE SetupFifoProofs WITH Size <- FifoSize, pc <- pop_pc
UP == INSTANCE Uart1Proofs WITH
          Byte <- Symbol, Arriving <- {EndOfLine}, HoldOff <- FALSE, pc <- write_pc

Item == [Field -> Value]

Control ==
    /\ at \in {"uart_begin", "fifo_init", "usb_init", "irq_enable", "loop"}
    /\ ea => at = "loop"
    /\ at # "loop" => text = <<>> /\ write_pc = "ready" /\ pop_pc = "read"
    /\ text \in Seq(Symbol)
    /\ arrived \subseteq Packet

IInv == Control /\ FP!Inv /\ UP!Inv

-----------------------------------------------------------------------------
(* The modules of the rings and those of their proofs have the same        *)
(* definitions.                                                            *)
LEMMA SameFifo ==
    /\ F!PushFull = FP!PushFull
    /\ \A p : F!PushStore(p) = FP!PushStore(p) /\ F!Push(p) = FP!Push(p)
    /\ F!AdvanceTail = FP!AdvanceTail
    /\ F!Queue = FP!Queue /\ F!Queue' = FP!Queue'
    /\ F!Index = FP!Index
BY DEF F!PushFull, FP!PushFull, F!PushStore, FP!PushStore, F!Push, FP!Push,
       F!AdvanceTail, FP!AdvanceTail, F!NextIndex, FP!NextIndex,
       F!Queue, FP!Queue, F!Occupancy, FP!Occupancy, F!Slot, FP!Slot, F!Index, FP!Index

LEMMA SamePop ==
    F!ReadTail \/ F!TestEmpty \/ F!TestAvailable \/ (\E f \in Field : F!CopyField(f))
    => /\ FP!Pop
       /\ UNCHANGED <<head, tail, entries, accepted, received>>
BY DEF F!ReadTail, F!TestEmpty, F!TestAvailable, F!CopyField, FP!Pop,
       FP!ReadTail, FP!TestEmpty, FP!TestAvailable, FP!CopyField

LEMMA SameUart ==
    /\ U!Init = UP!Init
    /\ U!ShiftOut = UP!ShiftOut
    /\ U!UartIsr = UP!UartIsr
    /\ \A b : U!Arrive(b) = UP!Arrive(b) /\ U!CallWrite(b) = UP!CallWrite(b)
    /\ U!Unsent = UP!Unsent /\ U!Unsent' = UP!Unsent'
BY DEF U!Init, UP!Init, U!ShiftOut, UP!ShiftOut, U!UartIsr, UP!UartIsr,
       U!IsrReceive, UP!IsrReceive, U!IsrTransmit, UP!IsrTransmit,
       U!Overtaken, UP!Overtaken, U!Starting, UP!Starting,
       U!Arrive, UP!Arrive, U!CallWrite, UP!CallWrite, U!Wrap, UP!Wrap,
       U!tx, UP!tx, U!rx, UP!rx, U!transmitter, UP!transmitter,
       U!receiver, UP!receiver, U!main, UP!main, U!TxIndex, UP!TxIndex, U!RxIndex, UP!RxIndex,
       U!Unsent, UP!Unsent, U!Shifting, UP!Shifting, U!Ring, UP!Ring,
       U!FirstUnsent, UP!FirstUnsent, U!Waiting, UP!Waiting, U!Place, UP!Place

LEMMA SameWrite ==
    /\ U!Write = UP!Write
    /\ U!RoomInRing = UP!RoomInRing /\ U!StoreByte = UP!StoreByte
    /\ U!PublishHead = UP!PublishHead
BY DEF U!Write, UP!Write, U!RoomInRing, UP!RoomInRing, U!StoreByte, UP!StoreByte,
       U!PublishHead, UP!PublishHead, U!TestBusy, UP!TestBusy, U!SetBusy, UP!SetBusy,
       U!LoadSbuf, UP!LoadSbuf, U!ReadTail, UP!ReadTail, U!WriteTail, UP!WriteTail,
       U!tx, UP!tx, U!rx, UP!rx, U!transmitter, UP!transmitter,
       U!receiver, UP!receiver, U!main, UP!main, U!Wrap, UP!Wrap,
       U!Starting, UP!Starting

-----------------------------------------------------------------------------
(* The text.                                                               *)
LEMMA SymbolsOfText ==
    /\ Greeting \in Symbol /\ EndOfLine \in Symbol
    /\ \A f \in Field : Label(f) \in Symbol
    /\ \A f \in Field, v \in Value, half \in {"high", "low"} : Hex(f, half, v) \in Symbol
BY DEF Symbol

(* What Uart1 assumes of its constants, for those it has here.             *)
LEMMA UartAssumed ==
    /\ TxSize \in Nat \ {0, 1} /\ RxSize \in Nat \ {0, 1}
    /\ {EndOfLine} \subseteq Symbol /\ NoByte \notin Symbol
BY FirmwareAssumption, SymbolsOfText

LEMMA FieldTextTyped ==
    ASSUME NEW f \in Field, NEW v \in Value
    PROVE  FieldText(f, v) \in Seq(Symbol)
<1> DEFINE hex == [h \in DOMAIN Halves(f) |-> Hex(f, Halves(f)[h], v)]
<1>1. hex \in Seq(Symbol)
  <2>1. CASE f \in {"bmRequestType", "bRequest"}
    <3>1. Halves(f) = <<"low">>
      BY <2>1 DEF Halves
    <3>2. DOMAIN Halves(f) = 1 .. 1 /\ \A h \in 1 .. 1 : Halves(f)[h] \in {"high", "low"}
      BY <3>1
    <3>3. hex = [h \in 1 .. 1 |-> Hex(f, Halves(f)[h], v)]
      BY <3>2
    <3>4. hex \in [1 .. 1 -> Symbol]
      BY <3>2, <3>3, SymbolsOfText
    <3> QED BY <3>4
  <2>2. CASE f \notin {"bmRequestType", "bRequest"}
    <3>1. Halves(f) = <<"high", "low">>
      BY <2>2 DEF Halves
    <3>2. DOMAIN Halves(f) = 1 .. 2 /\ \A h \in 1 .. 2 : Halves(f)[h] \in {"high", "low"}
      BY <3>1
    <3>3. hex = [h \in 1 .. 2 |-> Hex(f, Halves(f)[h], v)]
      BY <3>2
    <3>4. hex \in [1 .. 2 -> Symbol]
      BY <3>2, <3>3, SymbolsOfText
    <3> QED BY <3>4
  <2> QED BY <2>1, <2>2
<1> HIDE DEF hex
<1>2. <<Label(f)>> \in Seq(Symbol)
  BY SymbolsOfText
<1>3. <<Label(f)>> \o hex \in Seq(Symbol)
  BY <1>1, <1>2, ConcatProperties
<1> QED BY <1>3 DEF FieldText, hex

(* The line of a packet ends in EndOfLine.                                 *)
LEMMA LineEnds ==
    ASSUME NEW p \in Item
    PROVE  /\ LineOf[p] \in Seq(Symbol)
           /\ Len(LineOf[p]) > 0 /\ LineOf[p][Len(LineOf[p])] = EndOfLine
<1> DEFINE q == [i \in DOMAIN PrintOrder |-> MemberText(p, PrintOrder[i])]
           s == FlattenSeq(q)
<1>1. \A f : MemberText(p, f) \in Seq(Symbol)
  <2> TAKE f
  <2>1. CASE f \in Field
    <3>1. p[f] \in Value
      BY <2>1 DEF Item
    <3> QED BY <2>1, <3>1, FieldTextTyped DEF MemberText
  <2>2. CASE f \notin Field
    BY <2>2 DEF MemberText
  <2> QED BY <2>1, <2>2
<1>2. DOMAIN PrintOrder = 1 .. 5
  BY DEF PrintOrder
<1>3. q \in [1 .. 5 -> Seq(Symbol)]
  BY <1>1, <1>2
<1>4. q \in Seq(Seq(Symbol))
  BY <1>3
<1> HIDE DEF q
<1>5. s \in Seq(Symbol)
  BY <1>4, FlattenPlaces
<1>6. LineOf[p] = s \o <<EndOfLine>>
  BY DEF LineOf, Line, Item, q
<1> HIDE DEF s
<1> DEFINE w == s \o <<EndOfLine>>
<1>7. /\ w \in Seq(Symbol) /\ Len(w) = Len(s) + 1 /\ w[Len(s) + 1] = EndOfLine
      /\ Len(s) \in Nat
  BY <1>5, SymbolsOfText
<1> HIDE DEF w
<1>8. Len(w) > 0 /\ w[Len(w)] = EndOfLine
  BY <1>7
<1> QED BY <1>6, <1>7, <1>8 DEF w

(* The lines of the packets of a queue.                                    *)
Lines(q) == [i \in DOMAIN q |-> LineOf[q[i]]]

LEMMA LinesTyped ==
    ASSUME NEW q \in Seq(Item)
    PROVE  /\ Lines(q) \in Seq(Seq(Symbol)) /\ Len(Lines(q)) = Len(q)
           /\ \A i \in 1 .. Len(q) : Lines(q)[i] = LineOf[q[i]]
<1> DEFINE n == Len(q)
<1>1. n \in Nat /\ DOMAIN q = 1 .. n /\ \A i \in 1 .. n : q[i] \in Item
  BY LenProperties, ElementOfSeq
<1>2. Lines(q) = [i \in 1 .. n |-> LineOf[q[i]]]
  BY <1>1 DEF Lines
<1> HIDE DEF n
<1>3. Lines(q) \in [1 .. n -> Seq(Symbol)]
  BY <1>1, <1>2, LineEnds
<1> QED BY <1>1, <1>2, <1>3 DEF n

LEMMA LinesAppend ==
    ASSUME NEW q \in Seq(Item), NEW p \in Item
    PROVE  Lines(Append(q, p)) = Append(Lines(q), LineOf[p])
<1> DEFINE n == Len(q)
           s == Append(q, p)
           l == Lines(q)
           x == LineOf[p]
           r == Append(l, x)
<1>1. /\ n \in Nat /\ s \in Seq(Item) /\ Len(s) = n + 1 /\ s[n + 1] = p
      /\ \A i \in 1 .. n : s[i] = q[i]
  BY AppendProperties, LenProperties
<1>2. l \in Seq(Seq(Symbol)) /\ Len(l) = n /\ \A i \in 1 .. n : l[i] = LineOf[q[i]]
  BY LinesTyped
<1>3. x \in Seq(Symbol)
  BY LineEnds
<1> HIDE DEF n, s, l, x
<1>4. /\ r \in Seq(Seq(Symbol)) /\ Len(r) = n + 1 /\ r[n + 1] = x
      /\ \A i \in 1 .. n : r[i] = l[i]
  BY <1>2, <1>3, AppendProperties
<1>5. /\ Lines(s) \in Seq(Seq(Symbol)) /\ Len(Lines(s)) = n + 1
      /\ \A i \in 1 .. n + 1 : Lines(s)[i] = LineOf[s[i]]
  BY <1>1, LinesTyped
<1> HIDE DEF r
<1>6. ASSUME NEW i \in 1 .. n + 1 PROVE Lines(s)[i] = r[i]
  <2>1. CASE i = n + 1
    BY <1>1, <1>4, <1>5, <2>1 DEF x
  <2>2. CASE i \in 1 .. n
    <3>1. Lines(s)[i] = LineOf[s[i]]
      BY <1>5
    <3>2. s[i] = q[i] /\ r[i] = l[i] /\ l[i] = LineOf[q[i]]
      BY <1>1, <1>2, <1>4, <2>2
    <3> QED BY <3>1, <3>2, Zenon
  <2>3. i = n + 1 \/ i \in 1 .. n
    BY <1>1
  <2> QED BY <2>1, <2>2, <2>3
<1>7. Lines(s) = r
  BY <1>4, <1>5, <1>6, SeqEqual
<1> QED BY <1>7 DEF r, s, l, x

LEMMA LinesTail ==
    ASSUME NEW q \in Seq(Item), q # <<>>
    PROVE  /\ Lines(q) # <<>> /\ Head(Lines(q)) = LineOf[Head(q)]
           /\ Tail(Lines(q)) = Lines(Tail(q))
<1> DEFINE n == Len(q)
           s == Tail(q)
           l == Lines(q)
           r == Tail(l)
<1>1. /\ n \in Nat \ {0} /\ s \in Seq(Item) /\ Len(s) = n - 1
      /\ \A i \in 1 .. n - 1 : s[i] = q[i + 1]
  BY HeadTailProperties, EmptySeq
<1>2. Head(q) = q[1]
  OBVIOUS
<1>3. l \in Seq(Seq(Symbol)) /\ Len(l) = n /\ \A i \in 1 .. n : l[i] = LineOf[q[i]]
  BY LinesTyped
<1> HIDE DEF n, s, l
<1>4. l # <<>> /\ Head(l) = l[1] /\ l[1] = LineOf[q[1]]
  BY <1>1, <1>3
<1>5. /\ r \in Seq(Seq(Symbol)) /\ Len(r) = n - 1
      /\ \A i \in 1 .. n - 1 : r[i] = l[i + 1]
  BY <1>3, <1>4, HeadTailProperties
<1>6. /\ Lines(s) \in Seq(Seq(Symbol)) /\ Len(Lines(s)) = n - 1
      /\ \A i \in 1 .. n - 1 : Lines(s)[i] = LineOf[s[i]]
  BY <1>1, LinesTyped
<1> HIDE DEF r
<1>7. ASSUME NEW i \in 1 .. n - 1 PROVE Lines(s)[i] = r[i]
  <2>1. i + 1 \in 1 .. n
    BY <1>1
  <2>2. Lines(s)[i] = LineOf[s[i]]
    BY <1>6
  <2>3. s[i] = q[i + 1] /\ r[i] = l[i + 1]
    BY <1>1, <1>5
  <2>4. l[i + 1] = LineOf[q[i + 1]]
    BY <1>3, <2>1
  <2> QED BY <2>2, <2>3, <2>4, Zenon
<1>8. Lines(s) = r
  BY <1>5, <1>6, <1>7, SeqEqual
<1> QED BY <1>2, <1>4, <1>8 DEF r, s, l

-----------------------------------------------------------------------------
(* The invariant.                                                          *)
LEMMA InitInv == Init => IInv
<1> SUFFICES ASSUME Init PROVE IInv
  OBVIOUS
<1>1. Control
  BY DEF Init, U!Init, Control
<1>2. FP!Inv
  <2>1. 0 \in FP!Index /\ Garbage \in FP!Item
    BY FirmwareAssumption DEF FP!Index, FP!Item
  <2>2. head \in FP!Index /\ tail \in FP!Index /\ entries \in [FP!Index -> FP!Item]
    BY <2>1, SameFifo DEF Init
  <2> QED BY <2>1, <2>2
          DEF Init, FP!Inv, FP!TypeOK, FP!LocalTailFresh, FP!NoTornPacket
<1>3. UP!Inv
  <2>1. UP!Init
    BY SameUart DEF Init
  <2>2. UP!TypeOK
    BY <2>1, UP!InitTyped, UartAssumed
  <2>3. UP!Handshake /\ UP!Locals
    BY <2>1, UP!InitShakes, UartAssumed
  <2> QED BY <2>2, <2>3 DEF UP!Inv
<1> QED BY <1>1, <1>2, <1>3 DEF IInv

LEMMA FifoStays == FP!Inv /\ UNCHANGED fifo => FP!Inv'
BY DEF FP!Inv, FP!TypeOK, FP!LocalTailFresh, FP!NoTornPacket, fifo

LEMMA UartStays == UP!Inv /\ UNCHANGED uart => UP!Inv'
BY DEF UP!Inv, UP!TypeOK, UP!Handshake, UP!Locals, UP!Starting, uart

LEMMA UartMoves == UP!Inv /\ UP!Next => UP!Inv'
<1> SUFFICES ASSUME UP!Inv, UP!Next PROVE UP!Inv'
  OBVIOUS
<1>1. [UP!Next]_(UP!vars)
  OBVIOUS
<1> QED BY <1>1, UP!StepInv, UartAssumed

LEMMA BootInv ==
    ASSUME IInv, Boot
    PROVE  IInv'
<1>1. CASE UartBegin
  BY <1>1, FifoStays, UartStays DEF IInv, UartBegin, Control, fifo, uart
<1>2. CASE FifoInit
  <2>1. UP!Inv' /\ Control'
    BY <1>2, UartStays DEF IInv, FifoInit, Control, uart
  <2>2. 0 \in FP!Index
    BY FirmwareAssumption DEF FP!Index
  <2>3. FP!Inv /\ pop_pc = "read"
    BY <1>2 DEF IInv, Control, FifoInit
  <2>4. FP!Inv'
    BY <1>2, <2>2, <2>3
       DEF FifoInit, FP!Inv, FP!TypeOK, FP!LocalTailFresh, FP!NoTornPacket
  <2> QED BY <2>1, <2>4 DEF IInv
<1>3. CASE UsbInit
  BY <1>3, FifoStays, UartStays DEF IInv, UsbInit, Control, fifo, uart
<1>4. CASE IrqEnable
  <2>1. text' \in Seq(Symbol)
    BY <1>4, SymbolsOfText DEF IrqEnable
  <2> QED BY <1>4, <2>1, FifoStays, UartStays DEF IInv, IrqEnable, Control
<1> QED BY <1>1, <1>2, <1>3, <1>4 DEF Boot

(* main is in its loop when it prints, writes or pops.                     *)
LEMMA MainInv ==
    ASSUME IInv, PrintNext \/ WriteStep \/ PopStep \/ PopReturns
    PROVE  IInv' /\ at = "loop"
<1>1. CASE PrintNext
  <2>1. at = "loop" /\ Head(text) \in Symbol /\ Tail(text) \in Seq(Symbol)
    BY <1>1 DEF IInv, Control, PrintNext
  <2>2. UP!CallWrite(Head(text))
    BY <1>1, SameUart DEF PrintNext
  <2>3. UP!Inv'
    BY <2>1, <2>2, UartMoves DEF IInv, UP!Next, UP!Main
  <2>4. Control'
    BY <1>1, <2>1 DEF IInv, Control, PrintNext, control
  <2> QED BY <1>1, <2>1, <2>3, <2>4, FifoStays DEF IInv, PrintNext
<1>2. CASE WriteStep
  <2>1. UP!Write
    BY <1>2, SameWrite DEF WriteStep
  <2>2. UP!Inv'
    BY <2>1, UartMoves DEF IInv, UP!Next, UP!Main
  <2>3. at = "loop"
    <3>1. write_pc # "ready"
      BY <2>1 DEF UP!Write, UP!RoomInRing, UP!StoreByte, UP!PublishHead, UP!TestBusy,
                  UP!SetBusy, UP!LoadSbuf, UP!ReadTail, UP!WriteTail
    <3> QED BY <3>1 DEF IInv, Control
  <2>4. Control'
    BY <1>2, <2>3 DEF IInv, Control, WriteStep, control
  <2> QED BY <1>2, <2>2, <2>3, <2>4, FifoStays DEF IInv, WriteStep
<1>3. CASE PopStep
  <2>1. FP!Pop
    BY <1>3, SamePop DEF PopStep
  <2>2. FP!Inv'
    BY <2>1, FP!PopInv, FirmwareAssumption DEF IInv
  <2>3. Control' /\ at = "loop"
    BY <1>3 DEF IInv, Control, PopStep, control
  <2> QED BY <1>3, <2>2, <2>3, UartStays DEF IInv, PopStep
<1>4. CASE PopReturns
  <2>1. FP!Pop
    BY <1>4, SameFifo DEF PopReturns, FP!Pop
  <2>2. FP!Inv'
    BY <2>1, FP!PopInv, FirmwareAssumption DEF IInv
  <2>3. LineOf[packet] \in Seq(Symbol)
    <3>1. packet \in Item
      BY DEF IInv, FP!Inv, FP!TypeOK, FP!Item, Item
    <3> QED BY <3>1, LineEnds
  <2>4. Control' /\ at = "loop"
    BY <1>4, <2>3 DEF IInv, Control, PopReturns, control
  <2> QED BY <1>4, <2>2, <2>4, UartStays DEF IInv, PopReturns
<1> QED BY <1>1, <1>2, <1>3, <1>4

LEMMA UsbIsrInv ==
    ASSUME IInv, UsbIsr
    PROVE  IInv'
<1>1. PICK p \in arrived : FP!Push(p)
  BY SameFifo DEF UsbIsr
<1>2. p \in FP!Item
  BY FirmwareAssumption DEF IInv, Control, FP!Item
<1>3. FP!Inv'
  BY <1>1, <1>2, FP!PushInv, FirmwareAssumption DEF IInv
<1>4. Control'
  <2>1. pop_pc' = pop_pc
    BY <1>1 DEF FP!Push
  <2> QED BY <2>1 DEF IInv, Control, UsbIsr, control, uart
<1> QED BY <1>3, <1>4, UartStays DEF IInv, UsbIsr

LEMMA SerialInv ==
    ASSUME IInv, UartIsr \/ ShiftOut \/ ReceiveByte
    PROVE  IInv'
<1>1. UP!Next /\ write_pc' = write_pc
  <2>1. CASE UartIsr
    BY <2>1, SameUart DEF UartIsr, UP!Next, UP!UartIsr, UP!main
  <2>2. CASE ShiftOut
    BY <2>2, SameUart DEF ShiftOut, UP!Next, UP!Line, UP!ShiftOut, UP!main
  <2>3. CASE ReceiveByte
    BY <2>3, SameUart, SymbolsOfText DEF ReceiveByte, UP!Next, UP!Line, UP!Arrive, UP!main
  <2> QED BY <2>1, <2>2, <2>3
<1>2. UP!Inv'
  BY <1>1, UartMoves DEF IInv
<1>3. UNCHANGED <<control, text, arrived, fifo>>
  BY DEF UartIsr, ShiftOut, ReceiveByte
<1>4. Control'
  BY <1>1, <1>3 DEF IInv, Control, control, fifo
<1> QED BY <1>2, <1>3, <1>4, FifoStays DEF IInv

LEMMA StepInv == IInv /\ [Next]_vars => IInv'
<1> SUFFICES ASSUME IInv, [Next]_vars PROVE IInv'
  OBVIOUS
<1>1. ASSUME NEW p \in Packet, ReceiveSetup(p) PROVE IInv'
  BY <1>1, FifoStays, UartStays DEF IInv, Control, ReceiveSetup, control, fifo, uart
<1>2. CASE UNCHANGED vars
  BY <1>2, FifoStays, UartStays DEF IInv, Control, vars, control, fifo, uart
<1> QED BY <1>1, <1>2, BootInv, MainInv, UsbIsrInv, SerialInv DEF Next, Main

(* In the whole program, too, no packet is torn and no byte is left in the *)
(* ring with nobody to send it: the FIFO, whose indices hold anything at   *)
(* power on, is initialised before the first interrupt, and main is in one *)
(* of pop and uart_write at a time.  HoldOff is FALSE in Firmware.         *)
THEOREM RingsStaySound == Spec => [](F!NoTornPacket /\ U!NoLostWakeup)
<1>1. IInv => F!NoTornPacket
  BY DEF IInv, FP!Inv, FP!NoTornPacket, F!NoTornPacket
<1>2. IInv => U!NoLostWakeup
  BY DEF IInv, UP!Inv, UP!Handshake, UP!Starting, U!NoLostWakeup, U!Starting
<1> QED BY <1>1, <1>2, InitInv, StepInv, PTL DEF Spec

-----------------------------------------------------------------------------
(* ToCome, part by part.                                                   *)
Greet == IF at = "loop" THEN <<>> ELSE <<Greeting>>

Queued == FlattenSeq(Lines(Waiting))

LEMMA QueueIs ==
    ASSUME IInv
    PROVE  /\ F!Queue \in Seq(Item)
           /\ FlattenSeq(Lines(F!Queue)) \in Seq(Symbol)
<1>1. F!Queue \in Seq(Item)
  BY FP!QueueType, SameFifo, FirmwareAssumption DEF IInv, FP!Item, Item
<1> QED BY <1>1, LinesTyped, FlattenPlaces

LEMMA PartsTyped ==
    ASSUME IInv
    PROVE  /\ U!Unsent \in Seq(Symbol) /\ InWrite \in Seq(Symbol) /\ text \in Seq(Symbol)
           /\ Greet \in Seq(Symbol) /\ Queued \in Seq(Symbol)
<1>1. U!Unsent \in Seq(Symbol)
  <2>1. UP!Rest \in Seq(Symbol)
    BY UP!RestTyped, UartAssumed DEF IInv
  <2>2. UP!Shifting \in Seq(Symbol)
    BY UP!ShiftingTyped, UartAssumed DEF IInv
  <2>3. UP!Unsent = UP!Shifting \o UP!Rest
    BY DEF UP!Unsent, UP!Rest
  <2> QED BY <2>1, <2>2, <2>3, SameUart, ConcatProperties
<1>2. InWrite \in Seq(Symbol)
  <2>1. data \in Symbol
    BY DEF IInv, UP!Inv, UP!TypeOK
  <2> QED BY <2>1 DEF InWrite
<1>3. Greet \in Seq(Symbol)
  BY SymbolsOfText DEF Greet
<1>4. Queued \in Seq(Symbol)
  <2>1. CASE at \in {"uart_begin", "fifo_init"}
    <3>1. Waiting = <<>>
      BY <2>1 DEF Waiting
    <3>2. Lines(<<>>) = <<>>
      BY DEF Lines
    <3>3. Queued = <<>>
      BY <3>1, <3>2, FlattenEmpty, Zenon DEF Queued
    <3> QED BY <3>3
  <2>2. CASE at \notin {"uart_begin", "fifo_init"}
    BY <2>2, QueueIs DEF Queued, Waiting
  <2> QED BY <2>1, <2>2
<1> QED BY <1>1, <1>2, <1>3, <1>4 DEF IInv, Control

(* The parts in their order, in a state and in the next one.               *)
LEMMA ToComeIs ==
    /\ ToCome = (((U!Unsent \o InWrite) \o text) \o Greet) \o Queued
    /\ ToCome' = (((U!Unsent' \o InWrite') \o text') \o Greet') \o Queued'
BY DEF ToCome, Greet, Queued, Lines

LEMMA PartsStay ==
    ASSUME UNCHANGED <<U!Unsent, InWrite, text, Greet, Queued>>
    PROVE  ToCome' = ToCome
BY ToComeIs

(* Only Queued depends on the FIFO, only the bytes in the driver on uart.  *)
LEMMA QueuedStays ==
    ASSUME UNCHANGED <<head, tail, entries, at>>
    PROVE  Queued' = Queued
BY DEF Queued, Lines, Waiting, F!Queue, F!Occupancy, F!Slot

LEMMA DriverStays ==
    ASSUME UNCHANGED uart
    PROVE  U!Unsent' = U!Unsent /\ InWrite' = InWrite
BY DEF U!Unsent, U!Shifting, U!Ring, U!FirstUnsent, U!Waiting, U!Place, U!Wrap, InWrite, uart

-----------------------------------------------------------------------------
(* The steps of main before its loop: the greeting goes from Greet to text.*)
LEMMA BootKeeps ==
    ASSUME IInv, Boot
    PROVE  ToCome' = ToCome /\ UNCHANGED <<accepted, line>>
<1>1. UNCHANGED <<uart, accepted>>
  BY DEF Boot, UartBegin, FifoInit, UsbInit, IrqEnable, fifo
<1>2. U!Unsent' = U!Unsent /\ InWrite' = InWrite /\ line' = line
  BY <1>1, DriverStays DEF uart
<1>3. CASE UartBegin
  <2>1. Queued' = Queued
    BY <1>3 DEF UartBegin, Queued, Waiting, Lines
  <2>2. text' = text /\ Greet' = Greet
    BY <1>3 DEF UartBegin, Greet
  <2> QED BY <1>1, <1>2, <2>1, <2>2, PartsStay
<1>4. CASE FifoInit
  <2>1. F!Queue' = <<>>
    <3>1. F!Occupancy' = 0
      BY <1>4 DEF FifoInit, F!Occupancy
    <3> QED BY <3>1 DEF F!Queue
  <2>2. Waiting = <<>> /\ Waiting' = <<>>
    BY <1>4, <2>1 DEF FifoInit, Waiting
  <2>3. Queued' = Queued
    BY <2>2 DEF Queued, Lines
  <2>4. text' = text /\ Greet' = Greet
    BY <1>4 DEF FifoInit, Greet
  <2> QED BY <1>1, <1>2, <2>3, <2>4, PartsStay
<1>5. ASSUME at \in {"usb_init", "irq_enable"}, at' \in {"irq_enable", "loop"}, UNCHANGED fifo
      PROVE  Queued' = Queued
  <2>1. F!Queue' = F!Queue
    BY <1>5 DEF fifo, F!Queue, F!Occupancy, F!Slot
  <2> QED BY <1>5, <2>1 DEF Queued, Lines, Waiting
<1>6. CASE UsbInit
  <2>1. Queued' = Queued
    BY <1>5, <1>6 DEF UsbInit
  <2>2. text' = text /\ Greet' = Greet
    BY <1>6 DEF UsbInit, Greet
  <2> QED BY <1>1, <1>2, <2>1, <2>2, PartsStay
<1>7. CASE IrqEnable
  <2>1. Queued' = Queued
    BY <1>5, <1>7 DEF IrqEnable
  <2>2. text = <<>> /\ text' = <<Greeting>> /\ Greet = <<Greeting>> /\ Greet' = <<>>
    BY <1>7 DEF IInv, Control, IrqEnable, Greet
  <2> DEFINE p == U!Unsent \o InWrite
  <2>3. p \in Seq(Symbol)
    BY PartsTyped, ConcatProperties
  <2>4. ToCome = ((p \o <<>>) \o <<Greeting>>) \o Queued
        /\ ToCome' = ((p \o <<Greeting>>) \o <<>>) \o Queued
    BY <1>2, <2>1, <2>2, ToComeIs
  <2> HIDE DEF p
  <2>5. p \o <<>> = p /\ (p \o <<Greeting>>) \o <<>> = p \o <<Greeting>>
    <3>1. <<Greeting>> \in Seq(Symbol)
      BY SymbolsOfText
    <3> QED BY <2>3, <3>1
  <2> QED BY <1>1, <1>2, <2>4, <2>5
<1> QED BY <1>3, <1>4, <1>6, <1>7 DEF Boot

(* The next symbol goes from the text into uart_write.                     *)
LEMMA PrintKeeps ==
    ASSUME IInv, PrintNext
    PROVE  ToCome' = ToCome /\ UNCHANGED <<accepted, line>>
<1>1. /\ write_pc = "ready" /\ write_pc' = "wait" /\ data' = Head(text)
      /\ text' = Tail(text) /\ text # <<>>
      /\ UNCHANGED <<tx_head, tx_tail, tx_buffer, shift, line, accepted,
                     control, fifo>>
  BY DEF PrintNext, U!CallWrite, U!tx, U!transmitter, fifo
<1>2. U!Unsent' = U!Unsent
  BY <1>1 DEF U!Unsent, U!Shifting, U!Ring, U!FirstUnsent, U!Waiting, U!Place, U!Wrap
<1>3. InWrite = <<>> /\ InWrite' = <<Head(text)>>
  BY <1>1 DEF InWrite
<1>4. Queued' = Queued /\ Greet' = Greet
  BY <1>1, QueuedStays DEF Greet, control, fifo
<1> DEFINE u == U!Unsent
           h == Head(text)
           r == Tail(text)
<1>5. u \in Seq(Symbol) /\ h \in Symbol /\ r \in Seq(Symbol) /\ text = <<h>> \o r
  <2>1. text \in Seq(Symbol) /\ u \in Seq(Symbol)
    BY PartsTyped
  <2> QED BY <1>1, <2>1
<1>6. /\ ToCome = (((u \o <<>>) \o text) \o Greet) \o Queued
      /\ ToCome' = (((u \o <<h>>) \o r) \o Greet) \o Queued
  BY <1>1, <1>2, <1>3, <1>4, ToComeIs
<1> HIDE DEF u, h, r
<1>7. (u \o <<>>) \o text = (u \o <<h>>) \o r
  <2>1. u \o <<>> = u
    BY <1>5
  <2>2. <<h>> \in Seq(Symbol)
    BY <1>5
  <2>3. (u \o <<h>>) \o r = u \o (<<h>> \o r)
    BY <1>5, <2>2, SMT
  <2> QED BY <1>5, <2>1, <2>3
<1> QED BY <1>1, <1>6, <1>7

(* uart_write publishes the symbol, and sends nothing itself.              *)
LEMMA WriteKeeps ==
    ASSUME IInv, WriteStep
    PROVE  ToCome' = ToCome /\ UNCHANGED <<accepted, line>>
<1>1. UP!Write /\ UNCHANGED <<control, text, arrived, fifo>>
  BY SameWrite DEF WriteStep
<1>2. Queued' = Queued /\ Greet' = Greet /\ text' = text /\ accepted' = accepted
  BY <1>1, QueuedStays DEF Greet, control, fifo
<1>3. line' = line /\ data' = data
  BY <1>1 DEF UP!Write, UP!RoomInRing, UP!StoreByte, UP!PublishHead, UP!TestBusy,
              UP!SetBusy, UP!LoadSbuf, UP!ReadTail, UP!WriteTail, UP!transmitter
<1>4. CASE UP!PublishHead
  <2>1. UP!TxQ!Offer(data)
    BY <1>4, UP!PublishOffers, UartAssumed DEF IInv
  <2>2. U!Unsent' = Append(U!Unsent, data)
    <3>1. UP!Unsent' = Append(UP!Unsent, data)
      BY <2>1 DEF UP!TxQ!Offer
    <3> QED BY <3>1, SameUart
  <2>3. InWrite = <<data>> /\ InWrite' = <<>>
    BY <1>4 DEF UP!PublishHead, InWrite
  <2> DEFINE u == U!Unsent
  <2>4. u \in Seq(Symbol) /\ data \in Symbol
    BY PartsTyped DEF IInv, UP!Inv, UP!TypeOK
  <2>5. /\ ToCome = (((u \o <<data>>) \o text) \o Greet) \o Queued
        /\ ToCome' = (((Append(u, data) \o <<>>) \o text) \o Greet) \o Queued
    BY <1>2, <2>2, <2>3, ToComeIs
  <2> HIDE DEF u
  <2>6. Append(u, data) \o <<>> = u \o <<data>>
    BY <2>4
  <2> QED BY <1>2, <1>3, <2>5, <2>6
<1>5. CASE ~UP!PublishHead
  <2>1. UP!Unsent' = UP!Unsent
    <3>1. CASE UP!StoreByte
      BY <3>1, UP!StoreKeeps, UartAssumed DEF IInv
    <3>2. CASE UP!RoomInRing \/ UP!TestBusy \/ UP!SetBusy
      BY <3>2, UP!UnsentUnchanged, UartAssumed
         DEF UP!RoomInRing, UP!TestBusy, UP!SetBusy, UP!FirstUnsent, UP!tx, UP!transmitter
    <3>3. CASE UP!LoadSbuf
      <4>1. shift = NoByte /\ tx_head # tx_tail
        BY <3>3 DEF IInv, UP!Inv, UP!Handshake, UP!LoadSbuf
      <4>2. UP!FirstUnsent = tx_tail /\ UP!FirstUnsent' = UP!Wrap(tx_tail, TxSize)
        BY <3>3 DEF UP!LoadSbuf, UP!FirstUnsent, UP!tx
      <4>3. shift' = tx_buffer[tx_tail] /\ UNCHANGED <<tx_buffer, tx_head>>
        BY <3>3 DEF UP!LoadSbuf, UP!tx
      <4> QED BY <4>1, <4>2, <4>3, UP!LoadKeeps, UartAssumed DEF IInv
    <3>4. CASE UP!ReadTail \/ UP!WriteTail
      BY <3>4, UP!UnsentUnchanged, UartAssumed
         DEF UP!ReadTail, UP!WriteTail, UP!FirstUnsent, UP!tx, UP!transmitter
    <3> QED BY <1>1, <1>5, <3>1, <3>2, <3>3, <3>4 DEF UP!Write
  <2>2. InWrite' = InWrite
    BY <1>1, <1>3, <1>5
       DEF InWrite, UP!Write, UP!RoomInRing, UP!StoreByte, UP!TestBusy,
           UP!SetBusy, UP!LoadSbuf, UP!ReadTail, UP!WriteTail
  <2>3. U!Unsent' = U!Unsent
    BY <2>1, SameUart
  <2> QED BY <1>2, <1>3, <2>2, <2>3, PartsStay
<1> QED BY <1>4, <1>5

LEMMA PopKeeps ==
    ASSUME IInv, PopStep
    PROVE  ToCome' = ToCome /\ UNCHANGED <<accepted, line>>
<1>1. /\ UNCHANGED <<head, tail, entries, accepted>>
      /\ UNCHANGED <<control, text, arrived, uart>>
  BY SamePop DEF PopStep
<1>2. Queued' = Queued /\ Greet' = Greet
  BY <1>1, QueuedStays DEF Greet, control
<1>3. line' = line
  BY <1>1 DEF uart
<1> QED BY <1>1, <1>2, <1>3, DriverStays, PartsStay

(* The oldest packet's line goes from the queue to the text.               *)
LEMMA PopReturnsKeeps ==
    ASSUME IInv, PopReturns
    PROVE  ToCome' = ToCome /\ UNCHANGED <<accepted, line>>
<1>1. /\ at = "loop" /\ at' = "loop" /\ text = <<>> /\ text' = LineOf[packet]
      /\ UNCHANGED uart /\ FP!AdvanceTail
  BY SameFifo DEF PopReturns, Printing, control
<1>2. accepted' = accepted /\ received' = packet /\ line' = line
  BY <1>1 DEF FP!AdvanceTail, uart
<1>3. FP!Inv'
  <2>1. FP!Pop
    BY <1>1 DEF FP!Pop
  <2> QED BY <2>1, FP!PopInv, FirmwareAssumption DEF IInv
<1>4. F!Queue # <<>> /\ Head(F!Queue) = packet /\ F!Queue' = Tail(F!Queue)
  <2>1. FP!Queue # <<>> /\ received' = Head(FP!Queue) /\ FP!Queue' = Tail(FP!Queue)
    BY <1>1, <1>3, FP!AdvanceDelivers, FirmwareAssumption DEF IInv
  <2> QED BY <1>2, <2>1, SameFifo
<1> DEFINE q == F!Queue
           first == LineOf[packet]
           rest == FlattenSeq(Lines(Tail(q)))
<1>5. q \in Seq(Item) /\ Lines(q) \in Seq(Seq(Symbol))
  BY QueueIs, LinesTyped
<1>6. Lines(q) # <<>> /\ Head(Lines(q)) = first /\ Tail(Lines(q)) = Lines(Tail(q))
  BY <1>4, <1>5, LinesTail
<1>7. FlattenSeq(Lines(q)) = first \o rest
  BY <1>5, <1>6, FlattenHead
<1>8. Queued = first \o rest /\ Queued' = rest
  <2>1. Waiting = q /\ Waiting' = Tail(q)
    BY <1>1, <1>4 DEF Waiting
  <2>2. Queued' = FlattenSeq(Lines(Waiting'))
    BY DEF Queued, Lines
  <2> QED BY <1>7, <2>1, <2>2 DEF Queued
<1>9. first \in Seq(Symbol) /\ rest \in Seq(Symbol)
  <2>1. Head(q) \in Item /\ Tail(q) \in Seq(Item)
    BY <1>4, <1>5
  <2>2. first \in Seq(Symbol)
    BY <1>4, <2>1, LineEnds
  <2>3. Lines(Tail(q)) \in Seq(Seq(Symbol))
    BY <2>1, LinesTyped
  <2> QED BY <2>2, <2>3, FlattenPlaces
<1>10. Greet = <<>> /\ Greet' = <<>>
  BY <1>1 DEF Greet
<1> DEFINE p == U!Unsent \o InWrite
<1>11. p \in Seq(Symbol)
  BY PartsTyped, ConcatProperties
<1>12. /\ ToCome = ((p \o <<>>) \o <<>>) \o (first \o rest)
       /\ ToCome' = ((p \o first) \o <<>>) \o rest
  BY <1>1, <1>8, <1>10, DriverStays, ToComeIs
<1> HIDE DEF p, first, rest
<1>13. ((p \o <<>>) \o <<>>) \o (first \o rest) = ((p \o first) \o <<>>) \o rest
  <2>1. p \o <<>> = p
    BY <1>11
  <2>2. (p \o first) \o <<>> = p \o first
    BY <1>9, <1>11
  <2>3. (p \o first) \o rest = p \o (first \o rest)
    BY <1>9, <1>11
  <2> QED BY <2>1, <2>2, <2>3
<1> QED BY <1>2, <1>12, <1>13

-----------------------------------------------------------------------------
(* The handlers and the line.                                              *)

LEMMA SameCardinality == \A M : Log!Cardinality(M) = Cardinality(M)
BY DEF Cardinality, Log!Cardinality

(* A packet that the FIFO accepts has its line behind all the others; one  *)
(* that it refuses found FifoSize - 1 lines before it, each with its end.  *)
LEMMA UsbIsrLogs ==
    ASSUME IInv, UsbIsr
    PROVE  (\E p \in Packet : Log!Accept(p)) \/ Log!Refuse
<1>1. PICK p \in arrived : FP!Push(p)
  BY SameFifo DEF UsbIsr
<1>2. p \in Packet /\ p \in Item /\ p \in FP!Item
  BY FirmwareAssumption DEF IInv, Control, FP!Item, Item
<1>3. at = "loop" /\ at' = "loop" /\ text' = text /\ UNCHANGED uart /\ line' = line
  BY DEF UsbIsr, IInv, Control, control, uart
<1> DEFINE q == F!Queue
           a == ((U!Unsent \o InWrite) \o text) \o Greet
           s == FlattenSeq(Lines(q))
<1>4. q \in Seq(Item) /\ Lines(q) \in Seq(Seq(Symbol)) /\ Len(Lines(q)) = Len(q)
  BY QueueIs, LinesTyped
<1>5. a \in Seq(Symbol) /\ s \in Seq(Symbol)
  <2>1. a \in Seq(Symbol)
    BY PartsTyped, ConcatProperties
  <2> QED BY <2>1, QueueIs
<1>6. ToCome = a \o s
  BY <1>3, ToComeIs DEF Queued, Waiting
<1>7. Greet' = Greet
  BY <1>3 DEF Greet
<1>8. CASE FP!PushStore(p)
  <2>1. FP!Inv' /\ tail' = tail
    BY <1>1, <1>2, FP!PushInv, FirmwareAssumption DEF IInv, FP!Push
  <2>2. F!Queue' = Append(q, p)
    <3>1. FP!Queue' = Append(FP!Queue, p)
      BY <1>2, <1>8, <2>1, FP!PushAppends, FirmwareAssumption DEF IInv
    <3> QED BY <3>1, SameFifo
  <2>3. Lines(Append(q, p)) = Append(Lines(q), LineOf[p])
    BY <1>2, <1>4, LinesAppend
  <2>4. LineOf[p] \in Seq(Symbol)
    BY <1>2, LineEnds
  <2>5. FlattenSeq(Append(Lines(q), LineOf[p])) = s \o LineOf[p]
    BY <1>4, <2>4, FlattenAppend
  <2>6. Queued' = s \o LineOf[p]
    <3>1. Waiting' = Append(q, p)
      BY <1>3, <2>2 DEF Waiting
    <3>2. Queued' = FlattenSeq(Lines(Waiting'))
      BY DEF Queued, Lines
    <3> QED BY <2>3, <2>5, <3>1, <3>2
  <2>7. ToCome' = a \o (s \o LineOf[p])
    BY <1>3, <1>7, <2>6, DriverStays, ToComeIs
  <2>8. ToCome' = ToCome \o LineOf[p]
    <3> DEFINE l == LineOf[p]
    <3> HIDE DEF a, s, l
    <3>1. l \in Seq(Symbol)
      BY <2>4 DEF l
    <3>2. (a \o s) \o l = a \o (s \o l)
      BY <1>5, <3>1
    <3> QED BY <1>6, <2>7, <3>2 DEF l
  <2>9. accepted' = TRUE
    BY <1>8 DEF FP!PushStore
  <2> QED BY <1>2, <1>3, <2>8, <2>9 DEF Log!Accept
<1>9. CASE FP!PushFull
  <2>1. accepted' = FALSE /\ UNCHANGED <<head, tail, entries>>
    BY <1>1, <1>9 DEF FP!Push, FP!PushFull
  <2>2. ToCome' = ToCome
    <3>1. Queued' = Queued
      BY <1>3, <2>1, QueuedStays
    <3> QED BY <1>3, <1>7, <3>1, DriverStays, PartsStay
  <2>3. Len(q) = FifoSize - 1
    <3>1. FP!Occupancy = FifoSize - 1
      BY <1>9, FP!FullWhen, FirmwareAssumption DEF IInv, FP!PushFull
    <3>2. Len(FP!Queue) = FP!Occupancy
      BY FP!QueueType, FirmwareAssumption DEF IInv
    <3> QED BY <3>1, <3>2, SameFifo
  <2>4. EachEndsIn(Lines(q), EndOfLine)
    <3> SUFFICES ASSUME NEW i \in 1 .. Len(Lines(q))
                 PROVE  /\ Len(Lines(q)[i]) > 0
                        /\ Lines(q)[i][Len(Lines(q)[i])] = EndOfLine
      BY DEF EachEndsIn
    <3>1. i \in 1 .. Len(q) /\ q[i] \in Item
      BY <1>4, ElementOfSeq
    <3>2. Lines(q)[i] = LineOf[q[i]]
      BY <1>4, <3>1, LinesTyped
    <3> QED BY <3>1, <3>2, LineEnds
  <2> DEFINE c == Count(a \o s, EndOfLine)
  <2>5. FifoSize - 1 <= c /\ c \in Nat
    <3>1. a \o s \in Seq(Symbol)
      BY <1>5, ConcatProperties
    <3>2. Len(Lines(q)) <= c
      <4> DEFINE l == Lines(q)
      <4>1. l \in Seq(Seq(Symbol)) /\ EachEndsIn(l, EndOfLine)
        BY <1>4, <2>4
      <4> HIDE DEF l, a
      <4>2. Len(l) <= Count(a \o FlattenSeq(l), EndOfLine)
        BY <1>5, <4>1, EndsCounted
      <4> QED BY <4>2 DEF l
    <3> QED BY <1>4, <2>3, <3>1, <3>2, CountIsNat
  <2>6. Log!LinesWaiting >= FifoSize - 1
    <3>1. Log!LinesWaiting = c
      BY <1>6, SameCardinality DEF Log!LinesWaiting, Count
    <3> HIDE DEF c
    <3>2. FifoSize \in Int
      BY FirmwareAssumption
    <3> QED BY <2>5, <3>1, <3>2
  <2> QED BY <1>3, <2>1, <2>2, <2>6 DEF Log!Refuse
<1> QED BY <1>1, <1>8, <1>9 DEF FP!Push

LEMMA UartIsrKeeps ==
    ASSUME IInv, UartIsr \/ ReceiveByte
    PROVE  ToCome' = ToCome /\ UNCHANGED <<accepted, line>>
<1>1. UNCHANGED <<control, text, arrived, fifo>>
  BY DEF UartIsr, ReceiveByte
<1>2. Queued' = Queued /\ Greet' = Greet /\ accepted' = accepted
  BY <1>1, QueuedStays DEF Greet, control, fifo
<1>3. U!Unsent' = U!Unsent /\ line' = line /\ InWrite' = InWrite
  <2>1. CASE UartIsr
    <3>1. UP!UartIsr
      BY <2>1, SameUart DEF UartIsr
    <3>2. UP!Unsent' = UP!Unsent /\ line' = line
      BY <3>1, UP!IsrSends, UartAssumed DEF IInv
    <3>3. InWrite' = InWrite
      BY <3>1 DEF UP!UartIsr, UP!main, InWrite
    <3> QED BY <3>2, <3>3, SameUart
  <2>2. CASE ReceiveByte
    <3>1. UP!Arrive(EndOfLine)
      BY <2>2, SameUart DEF ReceiveByte
    <3>2. UP!Unsent' = UP!Unsent
      BY <3>1, UP!UnsentUnchanged, UartAssumed
         DEF UP!Arrive, UP!FirstUnsent, UP!tx, UP!transmitter, UP!main
    <3> QED BY <3>1, <3>2, SameUart DEF UP!Arrive, UP!transmitter, UP!main, InWrite
  <2> QED BY <2>1, <2>2
<1> QED BY <1>1, <1>2, <1>3, PartsStay

LEMMA HeadOfConcat ==
    ASSUME NEW S, NEW u \in Seq(S), NEW v \in Seq(S), u # <<>>
    PROVE  u \o v # <<>> /\ Head(u \o v) = Head(u) /\ Tail(u \o v) = Tail(u) \o v
<1> DEFINE w == u \o v
           n == Len(u)
           m == Len(v)
           r == Tail(u)
           x == r \o v
           y == Tail(w)
<1>1. /\ w \in Seq(S) /\ Len(w) = n + m /\ n \in Nat \ {0} /\ m \in Nat
      /\ \A i \in 1 .. n + m : w[i] = IF i <= n THEN u[i] ELSE v[i - n]
  BY ConcatProperties, EmptySeq, LenProperties
<1>2. r \in Seq(S) /\ Len(r) = n - 1 /\ \A i \in 1 .. n - 1 : r[i] = u[i + 1]
  BY HeadTailProperties
<1> HIDE DEF w, n, m, r
<1>3. /\ x \in Seq(S) /\ Len(x) = (n - 1) + m
      /\ \A i \in 1 .. (n - 1) + m : x[i] = IF i <= n - 1 THEN r[i] ELSE v[i - (n - 1)]
  <2>1. /\ x \in Seq(S) /\ Len(x) = Len(r) + Len(v)
        /\ \A i \in 1 .. Len(r) + Len(v) : x[i] = IF i <= Len(r) THEN r[i] ELSE v[i - Len(r)]
    BY <1>2, ConcatProperties, Zenon
  <2>2. Len(r) = n - 1 /\ Len(v) = m
    BY <1>2 DEF m
  <2> HIDE DEF x
  <2> QED BY <2>1, <2>2, Zenon
<1>4. w # <<>> /\ Head(w) = w[1] /\ w[1] = u[1] /\ Head(u) = u[1]
  BY <1>1
<1>5. y \in Seq(S) /\ Len(y) = (n + m) - 1 /\ \A i \in 1 .. Len(y) : y[i] = w[i + 1]
  BY <1>1, <1>4, HeadTailProperties
<1> HIDE DEF x, y
<1>6. ASSUME NEW i \in 1 .. Len(y) PROVE y[i] = x[i]
  <2>1. y[i] = w[i + 1] /\ i + 1 \in 1 .. n + m /\ i \in 1 .. (n - 1) + m
    BY <1>1, <1>5
  <2>2. CASE i <= n - 1
    <3>1. i + 1 <= n /\ i \in 1 .. n - 1
      BY <1>1, <2>2
    <3>2. w[i + 1] = u[i + 1] /\ x[i] = r[i] /\ r[i] = u[i + 1]
      BY <1>1, <1>2, <1>3, <2>1, <2>2, <3>1
    <3> QED BY <2>1, <3>2
  <2>3. CASE ~(i <= n - 1)
    <3>1. ~(i + 1 <= n) /\ (i + 1) - n = i - (n - 1)
      BY <1>1, <2>3
    <3>2. w[i + 1] = v[(i + 1) - n] /\ x[i] = v[i - (n - 1)]
      BY <1>1, <1>3, <2>1, <2>3, <3>1
    <3> QED BY <2>1, <3>1, <3>2
  <2> QED BY <2>2, <2>3
<1>7. Len(y) = Len(x)
  BY <1>1, <1>3, <1>5
<1>8. y = x
  BY <1>3, <1>5, <1>6, <1>7, SeqEqual
<1> QED BY <1>4, <1>8 DEF w, x, y, r

LEMMA ShiftOutSends ==
    ASSUME IInv, ShiftOut
    PROVE  Log!Send
<1>1. UP!ShiftOut /\ UNCHANGED <<control, text, arrived, fifo>>
  BY SameUart DEF ShiftOut
<1>2. /\ Queued' = Queued /\ Greet' = Greet /\ text' = text /\ accepted' = accepted
      /\ InWrite' = InWrite
  BY <1>1, QueuedStays DEF Greet, control, fifo, UP!ShiftOut, UP!main, InWrite
<1> DEFINE u == U!Unsent
           r == Tail(u)
           b == InWrite
           d == Greet
           e == Queued
<1>3. u # <<>> /\ line' = Head(u) /\ U!Unsent' = r
  <2>1. UP!TxQ!Deliver
    BY <1>1, UP!ShiftOutDelivers, UartAssumed DEF IInv
  <2>2. UP!Unsent # <<>> /\ line' = Head(UP!Unsent) /\ UP!Unsent' = Tail(UP!Unsent)
    BY <2>1 DEF UP!TxQ!Deliver
  <2> QED BY <2>2, SameUart
<1>4. /\ ToCome = (((u \o b) \o text) \o d) \o e
      /\ ToCome' = (((r \o b) \o text) \o d) \o e
  BY <1>2, <1>3, ToComeIs
<1>5. /\ u \in Seq(Symbol) /\ b \in Seq(Symbol) /\ text \in Seq(Symbol)
      /\ d \in Seq(Symbol) /\ e \in Seq(Symbol)
  BY PartsTyped
<1>6. /\ u \o b \in Seq(Symbol) /\ (u \o b) \o text \in Seq(Symbol)
      /\ ((u \o b) \o text) \o d \in Seq(Symbol)
  BY <1>5, ConcatProperties
<1> HIDE DEF u, b, d, e
<1>7. u \o b # <<>> /\ Head(u \o b) = Head(u) /\ Tail(u \o b) = r \o b
  BY <1>3, <1>5, HeadOfConcat
<1> DEFINE p == u \o b
<1>8. p \o text # <<>> /\ Head(p \o text) = Head(p) /\ Tail(p \o text) = Tail(p) \o text
  BY <1>5, <1>6, <1>7, HeadOfConcat
<1> DEFINE q == p \o text
<1>9. q \o d # <<>> /\ Head(q \o d) = Head(q) /\ Tail(q \o d) = Tail(q) \o d
  BY <1>5, <1>6, <1>8, HeadOfConcat
<1> DEFINE s == q \o d
<1>10. s \o e # <<>> /\ Head(s \o e) = Head(s) /\ Tail(s \o e) = Tail(s) \o e
  BY <1>5, <1>6, <1>9, HeadOfConcat
<1>11. ToCome # <<>> /\ Head(ToCome) = Head(u) /\ Tail(ToCome) = ToCome'
  BY <1>4, <1>7, <1>8, <1>9, <1>10, Zenon
<1> QED BY <1>2, <1>3, <1>11 DEF Log!Send

-----------------------------------------------------------------------------
LEMMA InitMaps == Init => Log!LInit
<1> SUFFICES ASSUME Init PROVE Log!LInit
  OBVIOUS
<1>1. at = "uart_begin" /\ text = <<>> /\ accepted = FALSE /\ U!Init
  BY DEF Init
<1>2. U!Unsent = <<>>
  <2>1. tx_head = 0 /\ tx_tail = 0 /\ shift = NoByte /\ write_pc = "ready"
    BY <1>1 DEF U!Init
  <2>2. U!Waiting(U!FirstUnsent, tx_head, TxSize) = 0
    BY <2>1 DEF U!Waiting, U!FirstUnsent
  <2>3. U!Ring(tx_buffer, U!FirstUnsent, tx_head, TxSize) = <<>>
    BY <2>2 DEF U!Ring
  <2>4. U!Shifting = <<>>
    BY <2>1 DEF U!Shifting
  <2> QED BY <2>3, <2>4 DEF U!Unsent
<1>3. InWrite = <<>>
  BY <1>1 DEF InWrite, U!Init
<1>4. Greet = <<Greeting>>
  BY <1>1 DEF Greet
<1>5. Queued = <<>>
  <2>1. Waiting = <<>>
    BY <1>1 DEF Waiting
  <2>2. Lines(<<>>) = <<>>
    BY DEF Lines
  <2> QED BY <2>1, <2>2, FlattenEmpty, Zenon DEF Queued
<1>6. ToCome = <<Greeting>>
  <2>1. ToCome = (((<<>> \o <<>>) \o <<>>) \o <<Greeting>>) \o <<>>
    BY <1>1, <1>2, <1>3, <1>4, <1>5, ToComeIs
  <2>2. (((<<>> \o <<>>) \o <<>>) \o <<Greeting>>) \o <<>> = <<Greeting>>
    <3> HIDE DEF Greeting
    <3> QED OBVIOUS
  <2> QED BY <2>1, <2>2
<1> QED BY <1>1, <1>6 DEF Log!LInit

LEMMA StepMaps ==
    ASSUME IInv, [Next]_vars
    PROVE  [Log!LNext]_(Log!lvars)
<1> USE DEF Log!LNext, Log!lvars
<1>1. ASSUME ToCome' = ToCome, UNCHANGED <<accepted, line>>
      PROVE  [Log!LNext]_(Log!lvars)
  BY <1>1
<1>2. CASE Main
  BY <1>1, <1>2, BootKeeps, PrintKeeps, WriteKeeps, PopKeeps, PopReturnsKeeps DEF Main
<1>3. CASE UsbIsr
  BY <1>3, UsbIsrLogs
<1>4. CASE UartIsr \/ ReceiveByte
  BY <1>1, <1>4, UartIsrKeeps
<1>5. CASE ShiftOut
  BY <1>5, ShiftOutSends
<1>6. ASSUME UNCHANGED <<control, text, fifo, uart>> PROVE [Log!LNext]_(Log!lvars)
  <2>1. Queued' = Queued /\ Greet' = Greet
    BY <1>6, QueuedStays DEF Greet, control, fifo
  <2>2. UNCHANGED <<accepted, line>>
    BY <1>6 DEF fifo, uart
  <2>3. ToCome' = ToCome
    BY <1>6, <2>1, DriverStays, PartsStay
  <2> QED BY <1>1, <2>2, <2>3
<1>7. ASSUME NEW p \in Packet, ReceiveSetup(p) PROVE [Log!LNext]_(Log!lvars)
  BY <1>6, <1>7 DEF ReceiveSetup
<1>8. CASE UNCHANGED vars
  BY <1>6, <1>8 DEF vars
<1> QED BY <1>2, <1>3, <1>4, <1>5, <1>7, <1>8 DEF Next

(* For rings of every size and every set of packets, the program from its  *)
(* start to the line implements SetupLog: no symbol is lost, repeated or   *)
(* out of its order on the way from the host to the serial line.           *)
THEOREM SerialLineIsLog == Spec => LogIsTranscript
<1>1. IInv /\ [Next]_vars => [Log!LNext]_(Log!lvars)
  BY StepMaps
<1> QED BY <1>1, InitInv, StepInv, InitMaps, PTL DEF Spec, LogIsTranscript, Log!LSpec
=============================================================================
