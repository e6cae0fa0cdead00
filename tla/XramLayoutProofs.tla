-------------------------- MODULE XramLayoutProofs --------------------------
(***************************************************************************)
(* For which sizes the arrays of the firmware keep apart.  The invariant   *)
(* says that a write is inside the array of the part that makes it; the    *)
(* sizes of Fits then keep the arrays from one another.                    *)
(***************************************************************************)
EXTENDS XramLayout, TLAPS

(* The bounds that the addresses give: a FIFO that ends below the receive  *)
(* ring, a receive ring that ends below the transmit ring, a transmit ring *)
(* inside the xRAM, and a device descriptor that fits ep0_buffer.          *)
Fits == /\ \A n \in FifoSizes : n <= 23
        /\ \A n \in RxSizes : n <= 32
        /\ \A n \in TxSizes : n <= 736
        /\ \A n \in DeviceLengths : n <= 64

SizesFit == /\ fifo \in 0 .. 23 /\ rx \in 0 .. 32 /\ tx \in 0 .. 736 /\ device \in 0 .. 64

WriteAtHome == /\ written.by \in Part
               /\ written.at \in Nat
               /\ written.at \in Region(written.by)

Inv == SizesFit /\ WriteAtHome

LEMMA BufferSizeIs64 == BufferSize = 64
BY DEF BufferSize

(* The arrays, one by one.                                                 *)
LEMMA Regions == /\ Region("ep0") = 0 .. BufferSize - 1
                 /\ Region("fifo") = 64 .. 65 + 8 * fifo
                 /\ Region("rx") = 256 .. 256 + rx - 1
                 /\ Region("tx") = 288 .. 288 + tx - 1
<1>1. Region("ep0") = 0 .. BufferSize - 1
  BY DEF Region
<1>2. Region("fifo") = 64 .. 65 + 8 * fifo
  BY DEF Region, FifoAddress, ItemSize
<1>3. Region("rx") = 256 .. 256 + rx - 1
  BY DEF Region, RxAddress
<1>4. Region("tx") = 288 .. 288 + tx - 1
  BY DEF Region, TxAddress
<1> QED BY <1>1, <1>2, <1>3, <1>4

LEMMA HomeIsApart == Inv => NoWriteAstray
<1> SUFFICES ASSUME Inv PROVE NoWriteAstray
  OBVIOUS
<1>1. SizesFit /\ WriteAtHome
  BY DEF Inv
<1> DEFINE a == written.at
<1>2. a \in Nat
  BY <1>1 DEF WriteAtHome
<1>3. fifo \in 0 .. 23 /\ rx \in 0 .. 32 /\ tx \in 0 .. 736
  BY <1>1 DEF SizesFit
<1>4. a \in Region("ep0") <=> a <= 63
  <2>1. Region("ep0") = 0 .. BufferSize - 1
    BY Regions
  <2> QED BY <1>2, <2>1, BufferSizeIs64
<1>5. a \in Region("fifo") <=> 64 <= a /\ a <= 65 + 8 * fifo
  BY <1>2, <1>3, Regions
<1>6. a \in Region("rx") <=> 256 <= a /\ a <= 255 + rx
  BY <1>2, <1>3, Regions
<1>7. a \in Region("tx") <=> 288 <= a /\ a <= 287 + tx
  BY <1>2, <1>3, Regions
<1>8. a < XramSize /\ \A p, q \in Part : a \in Region(p) /\ a \in Region(q) => p = q
  <2> HIDE DEF a
  <2>1. (\E p \in Part : a \in Region(p)) => a < XramSize
    BY <1>2, <1>3, <1>4, <1>5, <1>6, <1>7 DEF Part, XramSize
  <2>2. \A p, q \in Part : a \in Region(p) /\ a \in Region(q) => p = q
    BY <1>2, <1>3, <1>4, <1>5, <1>6, <1>7 DEF Part
  <2>3. \E p \in Part : a \in Region(p)
    BY <1>1 DEF WriteAtHome, a
  <2> QED BY <2>1, <2>2, <2>3
<1> QED BY <1>1, <1>8 DEF WriteAtHome, NoWriteAstray

LEMMA InitHome == Fits /\ Init => Inv
<1> SUFFICES ASSUME Fits, Init PROVE Inv
  OBVIOUS
<1>1. SizesFit
  BY SizesAssumption DEF Fits, Init, SizesFit
<1>2. written.by = "ep0" /\ written.at = 0
  BY DEF Init
<1> QED BY <1>1, <1>2, Regions, BufferSizeIs64 DEF Inv, WriteAtHome, Part

(* A write of a part to an address of its array.                           *)
LEMMA WriteHome ==
    ASSUME Inv, NEW p \in Part, NEW address \in Nat, address \in Region(p),
           Write(p, address)
    PROVE  Inv'
<1>1. UNCHANGED sizes /\ written'.by = p /\ written'.at = address
  BY DEF Write
<1>2. SizesFit'
  BY <1>1 DEF Inv, SizesFit, sizes
<1>3. Region(p)' = Region(p)
  BY <1>1 DEF Region, sizes
<1> QED BY <1>1, <1>2, <1>3 DEF Inv, WriteAtHome

LEMMA NextHome == Inv /\ [Next]_vars => Inv'
<1> SUFFICES ASSUME Inv, [Next]_vars PROVE Inv'
  OBVIOUS
<1>s. fifo \in Nat /\ rx \in Nat /\ tx \in Nat /\ device \in 0 .. 64
  BY DEF Inv, SizesFit
<1>e. Region("ep0") = 0 .. BufferSize - 1
  BY Regions
<1>1. CASE FillBuffer
  <2>1. PICK i \in 0 .. BufferSize - 1 : Write("ep0", i)
    BY <1>1 DEF FillBuffer
  <2> QED BY <1>e, <2>1, BufferSizeIs64, WriteHome DEF Part
<1>2. CASE CopyDeviceDescriptor
  <2>1. PICK i \in 0 .. device - 1 : Write("ep0", i)
    BY <1>2 DEF CopyDeviceDescriptor
  <2>2. i \in 0 .. BufferSize - 1
    BY <1>s, <2>1, BufferSizeIs64
  <2> QED BY <1>e, <2>1, <2>2, BufferSizeIs64, WriteHome DEF Part
<1>3. CASE WriteFifoIndex
  BY <1>3, <1>s, WriteHome, Regions DEF WriteFifoIndex, FifoAddress, Part
<1>4. CASE WriteFifoEntry
  <2>1. PICK i \in 0 .. fifo - 1, j \in 0 .. ItemSize - 1 :
           Write("fifo", FifoAddress + 2 + ItemSize * i + j)
    BY <1>4 DEF WriteFifoEntry
  <2>2. 8 * i + j <= 8 * fifo - 1 /\ i \in Nat /\ j \in Nat
    BY <1>s, <2>1 DEF ItemSize
  <2>3. 66 + 8 * i + j \in Region("fifo") /\ 66 + 8 * i + j \in Nat
    BY <1>s, <2>2, Regions
  <2>4. Write("fifo", 66 + 8 * i + j)
    BY <2>1, <2>2 DEF ItemSize, FifoAddress
  <2> QED BY <2>3, <2>4, WriteHome DEF Part
<1>5. CASE WriteRx
  BY <1>5, <1>s, WriteHome, Regions DEF WriteRx, RxAddress, Part
<1>6. CASE WriteTx
  BY <1>6, <1>s, WriteHome, Regions DEF WriteTx, TxAddress, Part
<1>7. CASE UNCHANGED vars
  <2>1. SizesFit' /\ written' = written
    BY <1>7 DEF Inv, SizesFit, vars, sizes
  <2>2. \A p \in Part : Region(p)' = Region(p)
    BY <1>7 DEF Region, vars, sizes
  <2> QED BY <2>1, <2>2 DEF Inv, WriteAtHome
<1> QED BY <1>1, <1>2, <1>3, <1>4, <1>5, <1>6, <1>7 DEF Next

(* With at most 23 packets in the FIFO, 32 bytes in the receive ring, 736  *)
(* in the transmit ring, and a device descriptor of at most 64, no part of *)
(* the firmware writes into the array of another.                          *)
THEOREM PartsKeepApart == Fits => (Spec => []NoWriteAstray)
<1> SUFFICES ASSUME Fits PROVE Spec => []NoWriteAstray
  OBVIOUS
<1>1. Init => Inv
  BY InitHome
<1> QED BY <1>1, NextHome, HomeIsApart, PTL DEF Spec
=============================================================================
