----------------------------- MODULE Uart1Proofs -----------------------------
(***************************************************************************)
(* The serial driver for rings of every size, as long as no other          *)
(* interrupt holds main in the start window for the time of a byte         *)
(* (HoldOff is FALSE).  Inv is the inductive invariant: Handshake says who *)
(* owns the transmitter at each place of main, Locals that main's local    *)
(* copies of indices and bytes are not stale.                              *)
(***************************************************************************)
EXTENDS Uart1, SequenceTheorems, TLAPS

(* A transmitter that is not marked busy is idle, a busy one is sending or *)
(* about to interrupt; and while main starts it, it has nothing to say.    *)
Handshake ==
    /\ u1ti => shift = NoByte /\ tx_busy
    /\ ~tx_busy => shift = NoByte
    /\ tx_busy => shift # NoByte \/ u1ti \/ pc = "load"
    /\ pc = "setBusy" => ~tx_busy
    /\ pc = "load" => tx_busy /\ shift = NoByte /\ ~u1ti
    /\ pc \in {"readTail", "writeTail"} => tx_busy /\ shift # NoByte /\ young
    /\ pc \in {"setBusy", "load", "readTail", "writeTail"} => tx_head # tx_tail
    /\ pc = "test" => tx_head # tx_tail \/ (shift # NoByte /\ young)
    /\ tx_head # tx_tail /\ ~Starting => tx_busy

Locals ==
    /\ pc \in {"wait", "store", "publish"} => index = Wrap(tx_head, TxSize)
    /\ pc \in {"store", "publish"} => index # tx_tail
    /\ pc = "publish" => tx_buffer[tx_head] = data
    /\ pc = "writeTail" => index = tx_tail
    /\ pc = "release" => rx_head # rx_tail /\ data = rx_buffer[rx_head]

Inv == TypeOK /\ Handshake /\ Locals

LEMMA WrapInRing ==
    ASSUME NEW size \in Nat \ {0}, NEW i \in 0 .. size - 1
    PROVE  Wrap(i, size) \in 0 .. size - 1
BY DEF Wrap

LEMMA WrapInjective ==
    ASSUME NEW size \in Nat \ {0}, NEW i \in 0 .. size - 1, NEW j \in 0 .. size - 1,
           Wrap(i, size) = Wrap(j, size)
    PROVE  i = j
BY DEF Wrap

(* The same for the two rings, whose index sets are then left unexpanded.  *)
LEMMA WrapInRings ==
    /\ \A i \in TxIndex : Wrap(i, TxSize) \in TxIndex
    /\ \A i \in RxIndex : Wrap(i, RxSize) \in RxIndex
    /\ \A i, j \in TxIndex : Wrap(i, TxSize) = Wrap(j, TxSize) => i = j
    /\ 0 \in TxIndex /\ 0 \in RxIndex
BY UartAssumption, WrapInRing, WrapInjective DEF TxIndex, RxIndex

-----------------------------------------------------------------------------
(* Typing.                                                                 *)
LEMMA InitTyped == Init => TypeOK
BY WrapInRings, UartAssumption DEF Init, TypeOK

LEMMA LineTyped == TypeOK /\ Line => TypeOK'
BY UartAssumption DEF TypeOK, Line, ShiftOut, Arrive, tx, rx, transmitter, receiver, main

LEMMA IsrTyped == TypeOK /\ UartIsr => TypeOK'
<1> SUFFICES ASSUME TypeOK, UartIsr PROVE TypeOK'
  OBVIOUS
<1>1. /\ rx_tail' \in RxIndex /\ rx_buffer' \in [RxIndex -> Byte]
      /\ u1ri' \in BOOLEAN /\ kept' \in BOOLEAN
  BY WrapInRings DEF TypeOK, UartIsr, IsrReceive
<1>2. Starting \in BOOLEAN
  BY DEF Starting
<1>3. tx_tail' \in TxIndex
  BY WrapInRings DEF TypeOK, UartIsr, IsrTransmit
<1>4. u1ti' \in BOOLEAN /\ young' \in BOOLEAN /\ tx_busy' \in BOOLEAN
  BY <1>2, Zenon DEF TypeOK, UartIsr, IsrTransmit
<1>5. shift' \in Byte \cup {NoByte}
  <2>1. tx_tail \in TxIndex => tx_buffer[tx_tail] \in Byte
    BY DEF TypeOK
  <2> QED BY <2>1 DEF TypeOK, UartIsr, IsrTransmit
<1>6. sbuf' \in Byte
  BY UartAssumption DEF TypeOK, UartIsr, Overtaken
<1> QED BY <1>1, <1>3, <1>4, <1>5, <1>6 DEF TypeOK, UartIsr, main

LEMMA WriteTyped == TypeOK /\ Write => TypeOK'
<1> SUFFICES ASSUME TypeOK, Write PROVE TypeOK'
  OBVIOUS
<1> USE DEF TypeOK, tx, rx, transmitter, receiver, main
<1>1. CASE RoomInRing
  BY <1>1 DEF RoomInRing
<1>2. CASE StoreByte
  BY <1>2 DEF StoreByte
<1>3. CASE PublishHead
  BY <1>3 DEF PublishHead
<1>4. CASE TestBusy
  BY <1>4, WrapInRings DEF TestBusy
<1>5. CASE SetBusy
  BY <1>5 DEF SetBusy
<1>6. CASE LoadSbuf
  BY <1>6 DEF LoadSbuf
<1>7. CASE ReadTail
  BY <1>7 DEF ReadTail
<1>8. CASE WriteTail
  BY <1>8, WrapInRings DEF WriteTail
<1> QED BY <1>1, <1>2, <1>3, <1>4, <1>5, <1>6, <1>7, <1>8 DEF Write

LEMMA MainTyped == TypeOK /\ Main => TypeOK'
<1> SUFFICES ASSUME TypeOK, Main PROVE TypeOK'
  OBVIOUS
<1> USE DEF TypeOK, tx, rx, transmitter, receiver, main
<1>1. ASSUME NEW b \in Byte, CallWrite(b) PROVE TypeOK'
  BY <1>1, WrapInRings DEF CallWrite
<1>2. CASE CallRead
  BY <1>2 DEF CallRead
<1>3. CASE ReadByte
  BY <1>3 DEF ReadByte
<1>4. CASE ReleaseByte
  BY <1>4, WrapInRings DEF ReleaseByte
<1> QED BY <1>1, <1>2, <1>3, <1>4, WriteTyped DEF Main

LEMMA StepTyped == TypeOK /\ [Next]_vars => TypeOK'
<1>1. TypeOK /\ UNCHANGED vars => TypeOK'
  BY DEF TypeOK, vars, tx, rx, transmitter, receiver, main
<1> QED BY <1>1, LineTyped, IsrTyped, MainTyped DEF Next

(* The indices stay in their rings and the buffers hold bytes, for every   *)
(* size of the rings.                                                      *)
THEOREM TypeCorrect == Spec => []TypeOK
BY InitTyped, StepTyped, PTL DEF Spec

-----------------------------------------------------------------------------
(* The handshake.                                                          *)
LEMMA InitShakes == Init => Handshake /\ Locals
BY DEF Init, Handshake, Locals, Starting

(* A byte is not sent while main is in the start window, so that main is   *)
(* elsewhere, or waits to test a busy transmitter.                         *)
LEMMA ShiftOutShakes ==
    ASSUME Inv, ~HoldOff, ShiftOut
    PROVE  Handshake' /\ Locals'
<1>1. Handshake
  BY DEF Inv
<1>2. shift # NoByte /\ ~young
  BY DEF ShiftOut
<1>3. tx_busy /\ pc \notin {"setBusy", "load", "readTail", "writeTail"}
  BY <1>1, <1>2 DEF Handshake
<1>4. UNCHANGED <<tx, rx, main>> /\ shift' = NoByte /\ u1ti' /\ ~young'
  BY DEF ShiftOut
<1>5. Handshake'
  BY <1>1, <1>2, <1>3, <1>4 DEF Handshake, Starting, tx, main
<1>6. Locals'
  BY <1>4 DEF Inv, Locals, tx, rx, main
<1> QED BY <1>5, <1>6

LEMMA ArriveShakes ==
    ASSUME Inv, NEW b \in Arriving, Arrive(b)
    PROVE  Handshake' /\ Locals'
BY DEF Inv, Arrive, Handshake, Locals, Starting, tx, rx, transmitter, main

(* The handler frees the transmitter or gives it the oldest byte; neither  *)
(* happens while main starts it.                                           *)
LEMMA IsrShakes ==
    ASSUME Inv, UartIsr
    PROVE  Handshake'
<1>1. TypeOK /\ Handshake
  BY DEF Inv
<1>2. UNCHANGED <<tx_head, pc>>
  BY DEF UartIsr, main
<1>3. CASE ~u1ti
  BY <1>1, <1>2, <1>3 DEF UartIsr, IsrTransmit, Handshake, Starting
<1>4. CASE u1ti /\ tx_head = tx_tail
  <2>1. /\ ~u1ti' /\ ~tx_busy' /\ shift' = shift /\ tx_tail' = tx_tail
    BY <1>4 DEF UartIsr, IsrTransmit
  <2>2. shift = NoByte /\ pc \notin {"test", "setBusy", "load", "readTail", "writeTail"}
    BY <1>1, <1>4 DEF Handshake
  <2> QED BY <1>2, <1>4, <2>1, <2>2 DEF Handshake
<1>5. CASE u1ti /\ tx_head # tx_tail
  <2>1. /\ ~u1ti' /\ tx_busy' = tx_busy
        /\ shift' = tx_buffer[tx_tail] /\ young' = Starting
    BY <1>5 DEF UartIsr, IsrTransmit
  <2>2. shift' # NoByte
    BY <1>1, <2>1, UartAssumption DEF TypeOK
  <2>3. tx_busy /\ pc \notin {"setBusy", "load", "readTail", "writeTail"}
    BY <1>1, <1>5 DEF Handshake
  <2>4. pc = "test" => young'
    BY <2>1 DEF Starting
  <2> QED BY <1>2, <2>1, <2>2, <2>3, <2>4 DEF Handshake
<1> QED BY <1>3, <1>4, <1>5

(* The handler moves tx_tail towards tx_head and rx_tail away from rx_head,*)
(* and writes no entry that main has its eyes on.                          *)
LEMMA IsrLocals ==
    ASSUME Inv, UartIsr
    PROVE  Locals'
<1>1. TypeOK /\ Handshake /\ Locals
  BY DEF Inv
<1>2. UNCHANGED <<tx_head, tx_buffer, rx_head, pc, data, index>>
  BY DEF UartIsr, main
<1>3. \/ tx_tail' = tx_tail
      \/ u1ti /\ tx_head # tx_tail /\ tx_tail' = Wrap(tx_tail, TxSize)
  BY DEF UartIsr, IsrTransmit
<1>4. index = Wrap(tx_head, TxSize) /\ index # tx_tail => index # tx_tail'
  BY <1>1, <1>3, WrapInRings DEF TypeOK
<1>5. pc = "writeTail" => tx_tail' = tx_tail
  BY <1>1, <1>3 DEF Handshake
<1>6. pc = "release" => rx_head # rx_tail' /\ data = rx_buffer'[rx_head]
  BY <1>1 DEF UartIsr, IsrReceive, Locals, TypeOK
<1> QED BY <1>1, <1>2, <1>4, <1>5, <1>6 DEF Locals

LEMMA IsrAgrees ==
    ASSUME Inv, UartIsr
    PROVE  Handshake' /\ Locals'
BY IsrShakes, IsrLocals

LEMMA WriteShakes ==
    ASSUME Inv, Write
    PROVE  Handshake'
<1>1. TypeOK /\ Handshake /\ Locals
  BY DEF Inv
<1> USE <1>1 DEF Handshake, Starting, tx, rx, transmitter, receiver, main
<1>2. CASE RoomInRing
  BY <1>2 DEF RoomInRing
<1>3. CASE StoreByte
  BY <1>3 DEF StoreByte
<1>4. CASE PublishHead
  BY <1>4 DEF PublishHead, Locals
<1>5. CASE TestBusy
  <2>1. CASE tx_busy
    BY <1>5, <2>1 DEF TestBusy
  <2>2. CASE ~tx_busy
    BY <1>5, <2>2 DEF TestBusy
  <2> QED BY <2>1, <2>2
<1>6. CASE SetBusy
  BY <1>6 DEF SetBusy
<1>7. CASE LoadSbuf
  <2>1. tx_buffer[tx_tail] # NoByte
    BY UartAssumption DEF TypeOK
  <2> QED BY <1>7, <2>1 DEF LoadSbuf
<1>8. CASE ReadTail
  BY <1>8 DEF ReadTail
<1>9. CASE WriteTail
  BY <1>9 DEF WriteTail
<1> QED BY <1>2, <1>3, <1>4, <1>5, <1>6, <1>7, <1>8, <1>9 DEF Write

LEMMA WriteLocals ==
    ASSUME Inv, Write
    PROVE  Locals'
<1>1. TypeOK /\ Locals
  BY DEF Inv
<1> USE <1>1 DEF Locals, tx, rx, transmitter, receiver, main
<1>2. CASE RoomInRing
  BY <1>2 DEF RoomInRing
<1>3. CASE StoreByte
  BY <1>3 DEF StoreByte, TypeOK
<1>4. CASE PublishHead
  BY <1>4 DEF PublishHead
<1>5. CASE TestBusy
  BY <1>5 DEF TestBusy
<1>6. CASE SetBusy
  BY <1>6 DEF SetBusy
<1>7. CASE LoadSbuf
  BY <1>7 DEF LoadSbuf
<1>8. CASE ReadTail
  BY <1>8 DEF ReadTail
<1>9. CASE WriteTail
  BY <1>9 DEF WriteTail
<1> QED BY <1>2, <1>3, <1>4, <1>5, <1>6, <1>7, <1>8, <1>9 DEF Write

LEMMA MainAgrees ==
    ASSUME Inv, Main
    PROVE  Handshake' /\ Locals'
<1>1. TypeOK /\ Handshake /\ Locals
  BY DEF Inv
<1> USE <1>1 DEF Handshake, Locals, Starting, tx, rx, transmitter, receiver, main
<1>2. ASSUME NEW b \in Byte, CallWrite(b) PROVE Handshake' /\ Locals'
  BY <1>2 DEF CallWrite
<1>3. CASE CallRead
  BY <1>3 DEF CallRead
<1>4. CASE ReadByte
  BY <1>4 DEF ReadByte, Available
<1>5. CASE ReleaseByte
  BY <1>5 DEF ReleaseByte
<1>6. CASE Write
  BY <1>6, WriteShakes, WriteLocals
<1> QED BY <1>2, <1>3, <1>4, <1>5, <1>6 DEF Main

LEMMA StepInv ==
    ASSUME Inv, ~HoldOff, [Next]_vars
    PROVE  Inv'
<1>1. TypeOK'
  BY StepTyped DEF Inv
<1>2. CASE Line
  BY <1>1, <1>2, ShiftOutShakes, ArriveShakes DEF Line, Inv
<1>3. CASE UartIsr
  BY <1>1, <1>3, IsrAgrees DEF Inv
<1>4. CASE Main
  BY <1>1, <1>4, MainAgrees DEF Inv
<1>5. CASE UNCHANGED vars
  BY <1>1, <1>5
     DEF Inv, Handshake, Locals, Starting, vars, tx, rx, transmitter, receiver, main
<1> QED BY <1>2, <1>3, <1>4, <1>5 DEF Next

LEMMA Invariance == ~HoldOff => (Spec => []Inv)
<1> SUFFICES ASSUME ~HoldOff PROVE Spec => []Inv
  OBVIOUS
<1>1. Init => Inv
  BY InitTyped, InitShakes DEF Inv
<1>2. Inv /\ [Next]_vars => Inv'
  BY StepInv
<1> QED BY <1>1, <1>2, PTL DEF Spec

(* tx_busy is never wrong when main or the handler relies on it, for every *)
(* size of the rings.                                                      *)
THEOREM WakeupKept == ~HoldOff => (Spec => []NoLostWakeup)
<1> SUFFICES ASSUME ~HoldOff PROVE Spec => []NoLostWakeup
  OBVIOUS
<1>1. Inv => NoLostWakeup
  BY DEF Inv, Handshake, NoLostWakeup
<1> QED BY <1>1, Invariance, PTL

-----------------------------------------------------------------------------
(* A ring as a sequence: what adding and taking an entry does to it.       *)
(* r holds the n entries of buffer from the index from on.                 *)
Holds(r, S, buffer, from, n, size) ==
    /\ r \in Seq(S) /\ Len(r) = n
    /\ \A i \in 1 .. n : r[i] = buffer[Place(from, i - 1, size)]

LEMMA RingTyped ==
    ASSUME NEW S, NEW size \in Nat \ {0}, NEW buffer \in [0 .. size - 1 -> S],
           NEW from \in 0 .. size - 1, NEW to \in 0 .. size - 1
    PROVE  /\ Waiting(from, to, size) \in 0 .. size - 1
           /\ \A i \in 0 .. size - 1 : Place(from, i, size) \in 0 .. size - 1
           /\ Holds(Ring(buffer, from, to, size), S, buffer, from,
                    Waiting(from, to, size), size)
<1> DEFINE n == Waiting(from, to, size)
           r == Ring(buffer, from, to, size)
<1>1. n \in 0 .. size - 1
  BY DEF Waiting
<1>2. \A i \in 0 .. size - 1 : Place(from, i, size) \in 0 .. size - 1
  BY DEF Place
<1>3. \A i \in 1 .. n : buffer[Place(from, i - 1, size)] \in S
  <2> TAKE i \in 1 .. n
  <2>1. i - 1 \in 0 .. size - 1
    BY <1>1
  <2> QED BY <2>1, <1>2
<1>4. r = [i \in 1 .. n |-> buffer[Place(from, i - 1, size)]]
  BY DEF Ring
<1> HIDE DEF n, r
<1>5. r \in [1 .. n -> S]
  BY <1>3, <1>4
<1>6. r \in Seq(S) /\ Len(r) = n
  BY <1>1, <1>5
<1>7. Holds(r, S, buffer, from, n, size)
  BY <1>4, <1>6 DEF Holds
<1> QED BY <1>1, <1>2, <1>7 DEF n, r

LEMMA RingEmpty ==
    ASSUME NEW size \in Nat \ {0}, NEW buffer, NEW i \in 0 .. size - 1
    PROVE  Ring(buffer, i, i, size) = <<>>
<1>1. Waiting(i, i, size) = 0
  BY DEF Waiting
<1> QED BY <1>1 DEF Ring

(* The entry at to is the one that is free: writing it changes nothing.    *)
LEMMA RingStore ==
    ASSUME NEW size \in Nat \ {0}, NEW from \in 0 .. size - 1, NEW to \in 0 .. size - 1,
           NEW buffer, NEW other,
           \A j \in (0 .. size - 1) \ {to} : other[j] = buffer[j]
    PROVE  Ring(other, from, to, size) = Ring(buffer, from, to, size)
<1> DEFINE n == Waiting(from, to, size)
<1>1. n \in 0 .. size - 1 /\ \A i \in 0 .. size - 1 : Place(from, i, size) \in 0 .. size - 1
  BY DEF Place, Waiting
<1>2. \A i \in 0 .. n - 1 : Place(from, i, size) # to
  BY DEF Place, Waiting
<1>3. \A j \in 0 .. size - 1 : j # to => other[j] = buffer[j]
  OBVIOUS
<1> HIDE DEF n
<1>4. \A i \in 1 .. n : other[Place(from, i - 1, size)] = buffer[Place(from, i - 1, size)]
  <2> TAKE i \in 1 .. n
  <2>1. i - 1 \in 0 .. n - 1 /\ i - 1 \in 0 .. size - 1
    BY <1>1
  <2> QED BY <2>1, <1>1, <1>2, <1>3
<1> QED BY <1>4 DEF Ring, n

LEMMA RingAppend ==
    ASSUME NEW S, NEW size \in Nat \ {0}, NEW buffer \in [0 .. size - 1 -> S],
           NEW from \in 0 .. size - 1, NEW to \in 0 .. size - 1,
           Wrap(to, size) # from
    PROVE  /\ Waiting(from, to, size) < size - 1
           /\ Ring(buffer, from, Wrap(to, size), size)
                  = Append(Ring(buffer, from, to, size), buffer[to])
<1> DEFINE n == Waiting(from, to, size)
           r == Ring(buffer, from, to, size)
           next == Ring(buffer, from, Wrap(to, size), size)
           s == Append(r, buffer[to])
<1>1. n \in 0 .. size - 1 /\ n < size - 1 /\ Waiting(from, Wrap(to, size), size) = n + 1
  BY DEF Waiting, Wrap
<1>2. Place(from, n, size) = to
  BY DEF Place, Waiting
<1>3. Holds(r, S, buffer, from, n, size)
  BY RingTyped
<1>4. Holds(next, S, buffer, from, n + 1, size)
  <2>1. Wrap(to, size) \in 0 .. size - 1
    BY WrapInRing
  <2>2. Holds(next, S, buffer, from, Waiting(from, Wrap(to, size), size), size)
    BY <2>1, RingTyped
  <2> QED BY <1>1, <2>2
<1>5. buffer[to] \in S
  OBVIOUS
<1> HIDE DEF n, r, next
<1>6. s \in Seq(S) /\ Len(s) = n + 1 /\ s[n + 1] = buffer[to] /\ \A i \in 1 .. n : s[i] = r[i]
  BY <1>1, <1>3, <1>5 DEF Holds
<1>7. ASSUME NEW i \in 1 .. n + 1 PROVE next[i] = s[i]
  <2>1. CASE i = n + 1
    BY <1>1, <1>2, <1>4, <1>6, <2>1 DEF Holds
  <2>2. CASE i \in 1 .. n
    BY <1>1, <1>3, <1>4, <1>6, <2>2 DEF Holds
  <2>3. i = n + 1 \/ i \in 1 .. n
    BY <1>1
  <2> QED BY <2>1, <2>2, <2>3
<1> HIDE DEF s
<1>8. next = s
  BY <1>1, <1>4, <1>6, <1>7, SeqEqual DEF Holds
<1> QED BY <1>1, <1>8 DEF n, r, next, s

LEMMA RingTake ==
    ASSUME NEW S, NEW size \in Nat \ {0}, NEW buffer \in [0 .. size - 1 -> S],
           NEW from \in 0 .. size - 1, NEW to \in 0 .. size - 1, from # to
    PROVE  Ring(buffer, from, to, size)
               = <<buffer[from]>> \o Ring(buffer, Wrap(from, size), to, size)
<1> DEFINE n == Waiting(from, to, size)
           r == Ring(buffer, from, to, size)
           rest == Ring(buffer, Wrap(from, size), to, size)
           s == <<buffer[from]>> \o rest
<1>1. n \in 1 .. size - 1 /\ Waiting(Wrap(from, size), to, size) = n - 1
  BY DEF Waiting, Wrap
<1>2. /\ Place(from, 0, size) = from
      /\ \A i \in 0 .. size - 2 : Place(Wrap(from, size), i, size) = Place(from, i + 1, size)
  BY DEF Place, Wrap
<1>3. Holds(r, S, buffer, from, n, size)
  BY RingTyped
<1>4. Holds(rest, S, buffer, Wrap(from, size), n - 1, size)
  <2>1. Wrap(from, size) \in 0 .. size - 1
    BY WrapInRing
  <2>2. Holds(rest, S, buffer, Wrap(from, size), Waiting(Wrap(from, size), to, size), size)
    BY <2>1, RingTyped
  <2> QED BY <1>1, <2>2
<1>5. buffer[from] \in S
  OBVIOUS
<1> HIDE DEF n, r, rest
<1>6. /\ s \in Seq(S) /\ Len(s) = n /\ s[1] = buffer[from]
      /\ \A i \in 2 .. n : s[i] = rest[i - 1]
  BY <1>1, <1>4, <1>5 DEF Holds
<1>7. ASSUME NEW i \in 1 .. n PROVE r[i] = s[i]
  <2>1. CASE i = 1
    BY <1>1, <1>2, <1>3, <1>6, <2>1 DEF Holds
  <2>2. CASE i \in 2 .. n
    <3>1. i - 1 \in 1 .. n - 1 /\ i - 2 \in 0 .. size - 2 /\ (i - 1) - 1 = i - 2 /\ (i - 2) + 1 = i - 1
      BY <1>1, <2>2
    <3>2. s[i] = buffer[Place(Wrap(from, size), i - 2, size)]
      BY <3>1, <1>4, <1>6, <2>2 DEF Holds
    <3>3. Place(Wrap(from, size), i - 2, size) = Place(from, i - 1, size)
      BY <3>1, <1>2
    <3>4. r[i] = buffer[Place(from, i - 1, size)]
      BY <1>3 DEF Holds
    <3> QED BY <3>2, <3>3, <3>4
  <2>3. i = 1 \/ i \in 2 .. n
    BY <1>1
  <2> QED BY <2>1, <2>2, <2>3
<1> HIDE DEF s
<1>8. r = s
  BY <1>1, <1>3, <1>6, <1>7, SeqEqual DEF Holds
<1> QED BY <1>8 DEF r, rest, s

-----------------------------------------------------------------------------
(* Receiving.                                                              *)

(* The handler refuses a byte exactly when RxSize - 1 are waiting.         *)
LEMMA FullWhen ==
    ASSUME NEW size \in Nat \ {0}, NEW from \in 0 .. size - 1, NEW to \in 0 .. size - 1,
           Wrap(to, size) = from
    PROVE  Waiting(from, to, size) = size - 1
BY DEF Waiting, Wrap

LEMMA RxTyped ==
    ASSUME TypeOK
    PROVE  /\ RxSize \in Nat \ {0} /\ rx_buffer \in [0 .. RxSize - 1 -> Byte]
           /\ rx_head \in 0 .. RxSize - 1 /\ rx_tail \in 0 .. RxSize - 1
BY UartAssumption DEF TypeOK, RxIndex

LEMMA TxTyped ==
    ASSUME TypeOK
    PROVE  /\ TxSize \in Nat \ {0} /\ tx_buffer \in [0 .. TxSize - 1 -> Byte]
           /\ tx_head \in 0 .. TxSize - 1 /\ tx_tail \in 0 .. TxSize - 1
BY UartAssumption DEF TypeOK, TxIndex

LEMMA UnreadTyped ==
    ASSUME TypeOK
    PROVE  Unread \in Seq(Byte) /\ Len(Unread) = Waiting(rx_head, rx_tail, RxSize)
<1> DEFINE n == Waiting(rx_head, rx_tail, RxSize)
<1>1. Holds(Unread, Byte, rx_buffer, rx_head, n, RxSize)
  BY RxTyped, RingTyped DEF Unread
<1> HIDE DEF n
<1>2. Unread \in Seq(Byte) /\ Len(Unread) = n
  BY <1>1 DEF Holds
<1> QED BY <1>2 DEF n

LEMMA UnreadUnchanged ==
    ASSUME UNCHANGED rx
    PROVE  Unread' = Unread
BY DEF Unread, rx

LEMMA KeepAppends ==
    ASSUME TypeOK, UartIsr, u1ri, Wrap(rx_tail, RxSize) # rx_head
    PROVE  RxQ!Offer(sbuf)
<1> DEFINE filled == [rx_buffer EXCEPT ![rx_tail] = sbuf]
<1>1. /\ kept' /\ result' = result /\ rx_head' = rx_head
      /\ rx_buffer' = filled /\ rx_tail' = Wrap(rx_tail, RxSize)
  BY DEF UartIsr, IsrReceive, main
<1>2. sbuf \in Byte
  BY DEF TypeOK
<1>3. /\ filled \in [0 .. RxSize - 1 -> Byte] /\ filled[rx_tail] = sbuf
      /\ \A j \in (0 .. RxSize - 1) \ {rx_tail} : filled[j] = rx_buffer[j]
  BY <1>2, RxTyped
<1> HIDE DEF filled
<1>4. Ring(filled, rx_head, rx_tail, RxSize) = Unread
  <2>1. /\ RxSize \in Nat \ {0} /\ rx_buffer \in [0 .. RxSize - 1 -> Byte]
        /\ rx_head \in 0 .. RxSize - 1 /\ rx_tail \in 0 .. RxSize - 1
    BY RxTyped
  <2>2. Ring(filled, rx_head, rx_tail, RxSize) = Ring(rx_buffer, rx_head, rx_tail, RxSize)
    BY <1>3, <2>1, RingStore, Zenon
  <2> QED BY <2>2 DEF Unread
<1>5. /\ Waiting(rx_head, rx_tail, RxSize) < RxSize - 1
      /\ Ring(filled, rx_head, Wrap(rx_tail, RxSize), RxSize)
             = Append(Ring(filled, rx_head, rx_tail, RxSize), filled[rx_tail])
  <2>1. /\ RxSize \in Nat \ {0}
        /\ rx_head \in 0 .. RxSize - 1 /\ rx_tail \in 0 .. RxSize - 1
    BY RxTyped
  <2> QED BY <1>3, <2>1, RingAppend
<1>6. Unread' = Append(Unread, sbuf)
  BY <1>1, <1>3, <1>4, <1>5 DEF Unread
<1>7. kept' = TRUE
  BY DEF UartIsr, IsrReceive
<1> QED BY <1>1, <1>5, <1>6, <1>7, UnreadTyped DEF RxQ!Offer

LEMMA DiscardRefuses ==
    ASSUME TypeOK, UartIsr, u1ri, Wrap(rx_tail, RxSize) = rx_head
    PROVE  RxQ!Refuse
<1>1. UNCHANGED rx /\ kept' = FALSE /\ result' = result
  BY DEF UartIsr, IsrReceive, main, rx
<1>2. Len(Unread) = RxSize - 1
  BY UnreadTyped, RxTyped, FullWhen
<1> QED BY <1>1, <1>2, UnreadUnchanged DEF RxQ!Refuse

LEMMA ReleaseDelivers ==
    ASSUME Inv, ReleaseByte
    PROVE  RxQ!Deliver
<1>1. TypeOK /\ rx_head # rx_tail /\ data = rx_buffer[rx_head]
  BY DEF Inv, Locals, ReleaseByte
<1>2. /\ rx_head' = Wrap(rx_head, RxSize) /\ result' = data
      /\ UNCHANGED <<rx_tail, rx_buffer, kept>>
  BY DEF ReleaseByte, receiver
<1>3. Unread = <<data>> \o Ring(rx_buffer, Wrap(rx_head, RxSize), rx_tail, RxSize)
  BY <1>1, RxTyped, RingTake DEF Unread
<1>4. Unread' = Ring(rx_buffer, Wrap(rx_head, RxSize), rx_tail, RxSize)
  BY <1>2 DEF Unread
<1> DEFINE rest == Ring(rx_buffer, Wrap(rx_head, RxSize), rx_tail, RxSize)
<1>5. rest \in Seq(Byte) /\ data \in Byte
  <2>1. Wrap(rx_head, RxSize) \in 0 .. RxSize - 1
    BY <1>1, RxTyped, WrapInRing
  <2>2. Holds(rest, Byte, rx_buffer, Wrap(rx_head, RxSize),
              Waiting(Wrap(rx_head, RxSize), rx_tail, RxSize), RxSize)
    BY <1>1, <2>1, RxTyped, RingTyped
  <2> QED BY <1>1, <2>2 DEF Holds, TypeOK
<1> HIDE DEF rest
<1>6. <<data>> \o rest # <<>> /\ Head(<<data>> \o rest) = data /\ Tail(<<data>> \o rest) = rest
  BY <1>5
<1> QED BY <1>2, <1>3, <1>4, <1>6 DEF RxQ!Deliver, rest

LEMMA ReceiveMaps ==
    ASSUME Inv, [Next]_vars
    PROVE  [RxQ!QNext]_(RxQ!qvars)
<1> USE DEF RxQ!QNext, RxQ!qvars
<1>1. ASSUME UNCHANGED <<rx, kept, result>> PROVE [RxQ!QNext]_(RxQ!qvars)
  BY <1>1, UnreadUnchanged
<1>2. CASE Line
  BY <1>1, <1>2 DEF Line, ShiftOut, Arrive, receiver, main
<1>3. CASE UartIsr
  <2>1. CASE ~u1ri
    BY <1>1, <1>3, <2>1 DEF UartIsr, IsrReceive, rx, main
  <2>2. CASE u1ri /\ Wrap(rx_tail, RxSize) # rx_head
    <3>1. sbuf \in Byte /\ RxQ!Offer(sbuf)
      BY <1>3, <2>2, KeepAppends DEF Inv, TypeOK
    <3> QED BY <3>1
  <2>3. CASE u1ri /\ Wrap(rx_tail, RxSize) = rx_head
    <3>1. RxQ!Refuse
      BY <1>3, <2>3, DiscardRefuses DEF Inv
    <3> QED BY <3>1
  <2> QED BY <2>1, <2>2, <2>3
<1>4. CASE Write
  BY <1>1, <1>4
     DEF Write, RoomInRing, StoreByte, PublishHead, TestBusy, SetBusy, LoadSbuf,
         ReadTail, WriteTail, receiver
<1>5. ASSUME NEW b \in Byte, CallWrite(b) PROVE [RxQ!QNext]_(RxQ!qvars)
  BY <1>1, <1>5 DEF CallWrite, receiver
<1>6. CASE CallRead \/ ReadByte
  BY <1>1, <1>6 DEF CallRead, ReadByte, receiver
<1>7. CASE ReleaseByte
  <2>1. RxQ!Deliver
    BY <1>7, ReleaseDelivers
  <2> QED BY <2>1
<1>8. CASE UNCHANGED vars
  BY <1>1, <1>8 DEF vars, receiver, main
<1> QED BY <1>2, <1>3, <1>4, <1>5, <1>6, <1>7, <1>8 DEF Next, Main

(* For every size of the ring, the handler that receives and uart_read     *)
(* together are a FIFO queue, which discards only what finds it full.      *)
THEOREM ReadRefines == ~HoldOff => (Spec => ReadsInOrder)
<1> SUFFICES ASSUME ~HoldOff PROVE Spec => ReadsInOrder
  OBVIOUS
<1>1. Init => RxQ!QInit
  <2> SUFFICES ASSUME Init PROVE RxQ!QInit
    OBVIOUS
  <2>1. 0 \in 0 .. RxSize - 1 /\ RxSize \in Nat \ {0}
    BY UartAssumption
  <2>2. Unread = <<>>
    BY <2>1, RingEmpty DEF Init, Unread
  <2> QED BY <2>2, UartAssumption DEF Init, RxQ!QInit
<1>2. Inv /\ [Next]_vars => [RxQ!QNext]_(RxQ!qvars)
  BY ReceiveMaps
<1> QED BY <1>1, <1>2, Invariance, PTL DEF Spec, ReadsInOrder, RxQ!QSpec

-----------------------------------------------------------------------------
(* Sending.  Rest is what of Unsent is still in the ring.                  *)
Rest == Ring(tx_buffer, FirstUnsent, tx_head, TxSize)

LEMMA RestTyped ==
    ASSUME Inv
    PROVE  /\ FirstUnsent \in 0 .. TxSize - 1
           /\ Rest \in Seq(Byte) /\ Len(Rest) = Waiting(FirstUnsent, tx_head, TxSize)
<1>1. TypeOK
  BY DEF Inv
<1>2. FirstUnsent \in TxIndex
  BY <1>1, WrapInRings DEF FirstUnsent, TypeOK
<1>3. FirstUnsent \in 0 .. TxSize - 1
  BY <1>2 DEF TxIndex
<1> DEFINE f == FirstUnsent
           n == Waiting(f, tx_head, TxSize)
<1> HIDE DEF f
<1>4. f \in 0 .. TxSize - 1
  BY <1>3 DEF f
<1>5. Holds(Ring(tx_buffer, f, tx_head, TxSize), Byte, tx_buffer, f, n, TxSize)
  BY <1>1, <1>4, TxTyped, RingTyped
<1>6. Holds(Rest, Byte, tx_buffer, f, n, TxSize)
  BY <1>5 DEF Rest, f
<1> HIDE DEF n
<1>7. Rest \in Seq(Byte) /\ Len(Rest) = n
  BY <1>6 DEF Holds
<1> QED BY <1>3, <1>7 DEF n, f

LEMMA ShiftingTyped ==
    ASSUME Inv
    PROVE  Shifting \in Seq(Byte) /\ Len(Shifting) \in {0, 1}
BY DEF Inv, TypeOK, Shifting

LEMMA UnsentUnchanged ==
    ASSUME UNCHANGED <<tx_buffer, tx_head, shift, FirstUnsent>>
    PROVE  Unsent' = Unsent
<1>1. Rest' = Rest
  BY DEF Rest
<1> QED BY <1>1 DEF Unsent, Rest, Shifting

LEMMA ShiftOutDelivers ==
    ASSUME Inv, ~HoldOff, ShiftOut
    PROVE  TxQ!Deliver
<1>1. line' = shift /\ shift # NoByte /\ shift' = NoByte /\ UNCHANGED <<tx_buffer, tx_head>>
  BY DEF ShiftOut, tx
<1>2. FirstUnsent' = FirstUnsent
  BY DEF ShiftOut, FirstUnsent, tx, main
<1>3. Rest' = Rest
  BY <1>1, <1>2 DEF Rest
<1>4. Unsent = <<shift>> \o Rest /\ Unsent' = <<>> \o Rest
  BY <1>1, <1>3 DEF Unsent, Rest, Shifting
<1>5. Rest \in Seq(Byte) /\ shift \in Byte
  BY <1>1, RestTyped DEF Inv, TypeOK
<1>6. /\ <<shift>> \o Rest # <<>> /\ Head(<<shift>> \o Rest) = shift
      /\ Tail(<<shift>> \o Rest) = Rest /\ <<>> \o Rest = Rest
  BY <1>5
<1> QED BY <1>1, <1>4, <1>6 DEF TxQ!Deliver

LEMMA PublishOffers ==
    ASSUME Inv, PublishHead
    PROVE  TxQ!Offer(data)
<1>1. /\ TypeOK /\ data \in Byte /\ tx_buffer[tx_head] = data
      /\ index = Wrap(tx_head, TxSize) /\ index # tx_tail
  BY DEF Inv, TypeOK, Locals, PublishHead
<1>2. /\ tx_head' = Wrap(tx_head, TxSize) /\ UNCHANGED <<tx_buffer, tx_tail, shift, line>>
  BY <1>1 DEF PublishHead, transmitter
<1>3. FirstUnsent = tx_tail /\ FirstUnsent' = tx_tail
  BY <1>2 DEF PublishHead, FirstUnsent
<1>4. Rest = Ring(tx_buffer, tx_tail, tx_head, TxSize)
  BY <1>3 DEF Rest
<1>5. Rest' = Ring(tx_buffer, tx_tail, Wrap(tx_head, TxSize), TxSize)
  BY <1>2, <1>3 DEF Rest
<1>6. /\ Waiting(tx_tail, tx_head, TxSize) < TxSize - 1
      /\ Ring(tx_buffer, tx_tail, Wrap(tx_head, TxSize), TxSize)
             = Append(Ring(tx_buffer, tx_tail, tx_head, TxSize), tx_buffer[tx_head])
  <2>1. /\ TxSize \in Nat \ {0} /\ tx_buffer \in [0 .. TxSize - 1 -> Byte]
        /\ tx_head \in 0 .. TxSize - 1 /\ tx_tail \in 0 .. TxSize - 1
    BY <1>1, TxTyped
  <2>2. Wrap(tx_head, TxSize) # tx_tail
    BY <1>1
  <2> QED BY <2>1, <2>2, RingAppend
<1>7. Rest' = Append(Rest, data)
  BY <1>1, <1>4, <1>5, <1>6
<1>8. Len(Rest) < TxSize - 1
  BY <1>3, <1>6, RestTyped
<1>9. Unsent = Shifting \o Rest /\ Unsent' = Shifting \o Append(Rest, data)
  BY <1>2, <1>7 DEF Unsent, Rest, Shifting
<1>10. /\ Shifting \in Seq(Byte) /\ Len(Shifting) \in {0, 1}
       /\ Rest \in Seq(Byte) /\ TxSize \in Nat
  BY RestTyped, ShiftingTyped, UartAssumption
<1>11. Shifting \o Append(Rest, data) = Append(Shifting \o Rest, data)
  BY <1>1, <1>10
<1>12. Len(Shifting \o Rest) < TxSize
  <2>1. Len(Shifting \o Rest) = Len(Shifting) + Len(Rest) /\ Len(Rest) \in Nat
    BY <1>10
  <2>2. \A m \in {0, 1}, n, c \in Nat : n < c - 1 => m + n < c
    OBVIOUS
  <2> QED BY <1>8, <1>10, <2>1, <2>2, Zenon
<1> QED BY <1>2, <1>9, <1>11, <1>12 DEF TxQ!Offer

(* The oldest byte goes from the ring to the shift register.               *)
LEMMA LoadKeeps ==
    ASSUME Inv, shift = NoByte, tx_head # tx_tail, FirstUnsent = tx_tail,
           shift' = tx_buffer[tx_tail], FirstUnsent' = Wrap(tx_tail, TxSize),
           UNCHANGED <<tx_buffer, tx_head>>
    PROVE  Unsent' = Unsent
<1>1. TypeOK
  BY DEF Inv
<1>2. /\ TxSize \in Nat \ {0} /\ tx_buffer \in [0 .. TxSize - 1 -> Byte]
      /\ tx_head \in 0 .. TxSize - 1 /\ tx_tail \in 0 .. TxSize - 1
  BY <1>1, TxTyped
<1>3. tx_buffer[tx_tail] # NoByte
  BY <1>2, UartAssumption
<1>4. Rest = Ring(tx_buffer, tx_tail, tx_head, TxSize)
  BY DEF Rest
<1>5. Rest = <<tx_buffer[tx_tail]>> \o Ring(tx_buffer, Wrap(tx_tail, TxSize), tx_head, TxSize)
  BY <1>2, <1>4, RingTake
<1>6. Rest' = Ring(tx_buffer, Wrap(tx_tail, TxSize), tx_head, TxSize)
  BY DEF Rest
<1>7. Unsent = <<>> \o Rest
  BY DEF Unsent, Rest, Shifting
<1>8. <<>> \o Rest = Rest
  BY RestTyped
<1>9. Unsent' = <<tx_buffer[tx_tail]>> \o Rest'
  BY <1>3 DEF Unsent, Rest, Shifting
<1> QED BY <1>5, <1>6, <1>7, <1>8, <1>9

LEMMA IsrSends ==
    ASSUME Inv, UartIsr
    PROVE  Unsent' = Unsent /\ line' = line
<1>1. UNCHANGED <<tx_head, tx_buffer, line, pc, index>>
  BY DEF UartIsr, main
<1>2. CASE UNCHANGED <<tx_tail, shift>>
  <2>1. FirstUnsent' = FirstUnsent
    BY <1>1, <1>2 DEF FirstUnsent
  <2> QED BY <1>1, <1>2, <2>1, UnsentUnchanged
<1>3. CASE u1ti /\ tx_head # tx_tail
  <2>1. shift = NoByte /\ pc \notin {"readTail", "writeTail"}
    BY <1>3 DEF Inv, Handshake
  <2>2. shift' = tx_buffer[tx_tail] /\ tx_tail' = Wrap(tx_tail, TxSize)
    BY <1>3 DEF UartIsr, IsrTransmit
  <2>3. FirstUnsent = tx_tail /\ FirstUnsent' = Wrap(tx_tail, TxSize)
    BY <1>1, <2>1, <2>2 DEF FirstUnsent
  <2> QED BY <1>1, <1>3, <2>1, <2>2, <2>3, LoadKeeps
<1>4. UNCHANGED <<tx_tail, shift>> \/ (u1ti /\ tx_head # tx_tail)
  BY DEF UartIsr, IsrTransmit
<1> QED BY <1>2, <1>3, <1>4

LEMMA StoreKeeps ==
    ASSUME Inv, StoreByte
    PROVE  Unsent' = Unsent /\ line' = line
<1>1. UNCHANGED <<tx_head, tx_tail, shift, line>> /\ FirstUnsent = tx_tail /\ FirstUnsent' = tx_tail
  BY DEF StoreByte, transmitter, FirstUnsent
<1>2. TypeOK /\ data \in Byte
  BY DEF Inv, TypeOK
<1>3. \A j \in (0 .. TxSize - 1) \ {tx_head} : tx_buffer'[j] = tx_buffer[j]
  BY <1>2, TxTyped DEF StoreByte
<1>4. Ring(tx_buffer', tx_tail, tx_head, TxSize) = Ring(tx_buffer, tx_tail, tx_head, TxSize)
  <2>1. /\ TxSize \in Nat \ {0}
        /\ tx_head \in 0 .. TxSize - 1 /\ tx_tail \in 0 .. TxSize - 1
    BY <1>2, TxTyped
  <2> QED BY <1>3, <2>1, RingStore
<1>5. Rest' = Rest
  BY <1>1, <1>4 DEF Rest
<1> QED BY <1>1, <1>5 DEF Unsent, Rest, Shifting

LEMMA WriteSends ==
    ASSUME Inv, Write
    PROVE  (Unsent' = Unsent /\ line' = line) \/ TxQ!Offer(data)
<1> USE DEF transmitter
<1>1. CASE RoomInRing
  BY <1>1, UnsentUnchanged DEF RoomInRing, FirstUnsent, tx
<1>2. CASE StoreByte
  BY <1>2, StoreKeeps
<1>3. CASE PublishHead
  BY <1>3, PublishOffers
<1>4. CASE TestBusy
  BY <1>4, UnsentUnchanged DEF TestBusy, FirstUnsent, tx
<1>5. CASE SetBusy
  BY <1>5, UnsentUnchanged DEF SetBusy, FirstUnsent
<1>6. CASE LoadSbuf
  <2>1. shift = NoByte /\ tx_head # tx_tail
    BY <1>6 DEF Inv, Handshake, LoadSbuf
  <2>2. FirstUnsent = tx_tail /\ FirstUnsent' = Wrap(tx_tail, TxSize)
    BY <1>6 DEF LoadSbuf, FirstUnsent, tx
  <2> QED BY <1>6, <2>1, <2>2, LoadKeeps DEF LoadSbuf, tx
<1>7. CASE ReadTail
  BY <1>7, UnsentUnchanged DEF ReadTail, FirstUnsent, tx
<1>8. CASE WriteTail
  BY <1>8, UnsentUnchanged DEF WriteTail, FirstUnsent
<1> QED BY <1>1, <1>2, <1>3, <1>4, <1>5, <1>6, <1>7, <1>8 DEF Write

LEMMA SendMaps ==
    ASSUME Inv, ~HoldOff, [Next]_vars
    PROVE  [TxQ!QNext]_(TxQ!qvars)
<1> USE DEF TxQ!QNext, TxQ!qvars
<1>1. ASSUME UNCHANGED <<Unsent, line>> PROVE [TxQ!QNext]_(TxQ!qvars)
  BY <1>1
<1>2. ASSUME UNCHANGED <<tx, shift, line, pc, index>> PROVE [TxQ!QNext]_(TxQ!qvars)
  BY <1>1, <1>2, UnsentUnchanged DEF FirstUnsent, tx
<1>3. CASE ShiftOut
  <2>1. TxQ!Deliver
    BY <1>3, ShiftOutDelivers
  <2> QED BY <2>1
<1>4. ASSUME NEW b \in Arriving, Arrive(b) PROVE [TxQ!QNext]_(TxQ!qvars)
  BY <1>2, <1>4 DEF Arrive, transmitter, main
<1>5. CASE UartIsr
  BY <1>1, <1>5, IsrSends
<1>6. CASE Write
  <2>1. data \in Byte
    BY DEF Inv, TypeOK
  <2> QED BY <1>1, <1>6, <2>1, WriteSends
<1>7. ASSUME NEW b \in Byte, CallWrite(b) PROVE [TxQ!QNext]_(TxQ!qvars)
  <2>1. UNCHANGED FirstUnsent
    BY <1>7 DEF CallWrite, FirstUnsent, tx
  <2> QED BY <1>1, <1>7, <2>1, UnsentUnchanged DEF CallWrite, tx, transmitter
<1>8. CASE CallRead \/ ReadByte \/ ReleaseByte
  <2>1. UNCHANGED FirstUnsent
    BY <1>8 DEF CallRead, ReadByte, ReleaseByte, FirstUnsent, tx
  <2> QED BY <1>1, <1>8, <2>1, UnsentUnchanged
          DEF CallRead, ReadByte, ReleaseByte, tx, transmitter
<1>9. CASE UNCHANGED vars
  BY <1>2, <1>9 DEF vars, transmitter, main
<1> QED BY <1>3, <1>4, <1>5, <1>6, <1>7, <1>8, <1>9 DEF Next, Main, Line

(* For every size of the ring, uart_write, the handler and the line are a  *)
(* FIFO queue: the line carries each byte once and in order.               *)
THEOREM SendRefines == ~HoldOff => (Spec => SendsInOrder)
<1> SUFFICES ASSUME ~HoldOff PROVE Spec => SendsInOrder
  OBVIOUS
<1>1. Init => TxQ!QInit
  <2> SUFFICES ASSUME Init PROVE TxQ!QInit
    OBVIOUS
  <2>1. 0 \in 0 .. TxSize - 1 /\ TxSize \in Nat \ {0}
    BY UartAssumption
  <2>2. Rest = <<>> /\ Shifting = <<>>
    BY <2>1, RingEmpty DEF Init, Rest, FirstUnsent, Shifting
  <2>3. Unsent = <<>> \o <<>>
    BY <2>2 DEF Unsent, Rest
  <2> QED BY <2>3, UartAssumption DEF Init, TxQ!QInit
<1>2. Inv /\ [Next]_vars => [TxQ!QNext]_(TxQ!qvars)
  BY SendMaps
<1> QED BY <1>1, <1>2, Invariance, PTL DEF Spec, SendsInOrder, TxQ!QSpec
=============================================================================
