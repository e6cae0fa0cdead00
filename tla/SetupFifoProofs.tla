--------------------------- MODULE SetupFifoProofs ---------------------------
(***************************************************************************)
(* SetupFifo implements LossyQueue for every size of the ring and every    *)
(* set of packets.  Inv is the inductive invariant: beside typing, main's  *)
(* local copy of tail is never stale (only main writes fifo.tail), and     *)
(* what it has copied of an entry is what the entry still holds.           *)
(***************************************************************************)
EXTENDS SetupFifo, SequenceTheorems, TLAPS

LocalTailFresh == pc = "test" => l_tail = tail

Inv == TypeOK /\ LocalTailFresh /\ NoTornPacket

(* The index arithmetic of the ring stays inside it.                       *)
LEMMA NextIndexInRing == \A i \in Index : NextIndex(i) \in Index
BY SizeAssumption DEF NextIndex, Index

LEMMA InitInv == Init => Inv
BY SizeAssumption DEF Init, Inv, TypeOK, LocalTailFresh, NoTornPacket, Index

LEMMA PushInv == Inv /\ (\E p \in Item : Push(p)) => Inv'
<1> SUFFICES ASSUME Inv, NEW p \in Item, Push(p) PROVE Inv'
  OBVIOUS
<1> USE DEF Inv, TypeOK, Push
<1>1. TypeOK'
  BY NextIndexInRing DEF PushFull, PushStore
<1>2. LocalTailFresh'
  BY DEF LocalTailFresh
<1>3. NoTornPacket'
  <2>1. CASE PushFull
    BY <2>1 DEF PushFull, NoTornPacket
  <2>2. CASE PushStore(p)
    <3>1. pc = "copy" => head # tail
      BY DEF NoTornPacket
    <3>2. pc = "copy" => entries'[tail] = entries[tail] /\ head' # tail
      BY <2>2, <3>1 DEF PushStore
    <3> QED BY <3>2 DEF NoTornPacket
  <2> QED BY <2>1, <2>2
<1> QED BY <1>1, <1>2, <1>3

LEMMA PopInv == Inv /\ Pop => Inv'
<1> SUFFICES ASSUME Inv, Pop PROVE Inv'
  OBVIOUS
<1> USE DEF Inv, TypeOK, LocalTailFresh, NoTornPacket
<1>1. CASE ReadTail
  BY <1>1 DEF ReadTail
<1>2. CASE TestEmpty
  BY <1>2 DEF TestEmpty
<1>3. CASE TestAvailable
  BY <1>3 DEF TestAvailable
<1>4. ASSUME NEW f \in Field, CopyField(f) PROVE Inv'
  <2>1. entries[l_tail] \in Item
    OBVIOUS
  <2>2. packet' \in Item /\ packet'[f] = entries[l_tail][f]
    BY <1>4, <2>1 DEF CopyField, Item
  <2>3. \A g \in Field \ {f} : packet'[g] = packet[g]
    BY <1>4 DEF CopyField, Item
  <2> QED BY <1>4, <2>2, <2>3 DEF CopyField
<1>5. CASE AdvanceTail
  BY <1>5, NextIndexInRing DEF AdvanceTail
<1> QED BY <1>1, <1>2, <1>3, <1>4, <1>5 DEF Pop

LEMMA StepInv == Inv /\ [Next]_vars => Inv'
<1>1. Inv /\ UNCHANGED vars => Inv'
  BY DEF Inv, TypeOK, LocalTailFresh, NoTornPacket, vars
<1> QED BY <1>1, PushInv, PopInv DEF Next

LEMMA Invariance == Spec => []Inv
BY InitInv, StepInv, PTL DEF Spec

(* Every index the handler and main use lies in the ring, for every size.  *)
THEOREM TypeCorrect == Spec => []TypeOK
<1>1. Inv => TypeOK
  BY DEF Inv
<1> QED BY <1>1, Invariance, PTL

(* No interrupt tears the packet main is copying out of the ring.          *)
THEOREM NeverTorn == Spec => []NoTornPacket
<1>1. Inv => NoTornPacket
  BY DEF Inv
<1> QED BY <1>1, Invariance, PTL

-----------------------------------------------------------------------------
(* The ring as a sequence.  Occupancy and Slot spell out index arithmetic  *)
(* modulo Size; the lemmas say what each operation does to the sequence.   *)

LEMMA QueueType ==
    ASSUME Inv
    PROVE  /\ Occupancy \in 0 .. Size - 1
           /\ \A i \in 0 .. Size - 1 : Slot(i) \in Index
           /\ Queue \in Seq(Item) /\ Len(Queue) = Occupancy
           /\ \A i \in 1 .. Occupancy : Queue[i] = entries[Slot(i - 1)]
<1> USE SizeAssumption
<1>1. head \in Index /\ tail \in Index /\ entries \in [Index -> Item]
  BY DEF Inv, TypeOK
<1>2. Occupancy \in 0 .. Size - 1
  BY <1>1 DEF Occupancy, Index
<1>3. \A i \in 0 .. Size - 1 : Slot(i) \in Index
  BY <1>1 DEF Slot, Index
<1>4. \A i \in 1 .. Occupancy : entries[Slot(i - 1)] \in Item
  <2> TAKE i \in 1 .. Occupancy
  <2>1. i - 1 \in 0 .. Size - 1
    BY <1>2
  <2> QED BY <2>1, <1>1, <1>3
<1>5. Queue \in [1 .. Occupancy -> Item]
  BY <1>4 DEF Queue
<1>6. Queue \in Seq(Item) /\ Len(Queue) = Occupancy
  BY <1>2, <1>5
<1>7. \A i \in 1 .. Occupancy : Queue[i] = entries[Slot(i - 1)]
  BY DEF Queue
<1> QED BY <1>2, <1>3, <1>6, <1>7

QueueTyped == Queue \in Seq(Item) /\ Len(Queue) = Occupancy

LEMMA QueueTypedNext == Inv' => QueueTyped'
<1>1. Inv => QueueTyped
  BY QueueType DEF QueueTyped
<1> QED BY <1>1, PTL

(* push refuses a packet exactly when Size - 1 are waiting.                *)
LEMMA FullWhen ==
    ASSUME Inv
    PROVE  (NextIndex(head) = tail) <=> (Occupancy = Size - 1)
BY SizeAssumption DEF Inv, TypeOK, Index, NextIndex, Occupancy

LEMMA PushAppends ==
    ASSUME Inv, NEW p \in Item, PushStore(p), tail' = tail, Inv'
    PROVE  Occupancy < Size - 1 /\ Queue' = Append(Queue, p)
<1> USE SizeAssumption
<1>1. head \in Index /\ tail \in Index /\ entries \in [Index -> Item]
  BY DEF Inv, TypeOK
<1>2. Occupancy < Size - 1
  BY FullWhen, QueueType DEF PushStore
<1>3. Occupancy' = Occupancy + 1
  BY <1>1, <1>2 DEF PushStore, Occupancy, NextIndex, Index
<1>4. Slot(Occupancy) = head
  BY <1>1 DEF Slot, Occupancy, Index
<1>5. \A i \in 0 .. Size - 1 : Slot(i)' = Slot(i)
  BY DEF Slot
<1>6. \A i \in 0 .. Occupancy - 1 : Slot(i) # head
  BY <1>1 DEF Slot, Occupancy, Index
<1> DEFINE s == Append(Queue, p)
<1>7. s \in Seq(Item) /\ Len(s) = Occupancy + 1
  BY QueueType
<1>8. Queue' \in Seq(Item) /\ Len(Queue') = Occupancy + 1
  BY QueueTypedNext, <1>3 DEF QueueTyped
<1>9. ASSUME NEW i \in 1 .. Occupancy + 1 PROVE Queue'[i] = s[i]
  <2>1. Queue'[i] = entries'[Slot(i - 1)]
    <3>1. i - 1 \in 0 .. Size - 1 /\ i \in 1 .. Occupancy'
      BY <1>2, <1>3, QueueType
    <3>2. Queue'[i] = entries'[Slot(i - 1)']
      BY <3>1 DEF Queue
    <3> QED BY <3>1, <3>2, <1>5
  <2>2. CASE i = Occupancy + 1
    <3>1. Slot(i - 1) = head
      BY <2>2, <1>4, QueueType
    <3>2. s[i] = p
      BY <2>2, QueueType
    <3> QED BY <2>1, <3>1, <3>2, <1>1 DEF PushStore
  <2>3. CASE i \in 1 .. Occupancy
    <3>1. Slot(i - 1) # head /\ Slot(i - 1) \in Index
      BY <2>3, <1>6, QueueType
    <3>2. s[i] = Queue[i] /\ Queue[i] = entries[Slot(i - 1)]
      BY <2>3, QueueType
    <3> QED BY <2>1, <3>1, <3>2, <1>1 DEF PushStore
  <2> QED BY <2>2, <2>3, QueueType
<1> HIDE DEF s
<1>10. Queue' = s
  BY <1>7, <1>8, <1>9, SeqEqual
<1> QED BY <1>2, <1>10 DEF s

LEMMA AdvanceDelivers ==
    ASSUME Inv, AdvanceTail, Inv'
    PROVE  Queue # <<>> /\ received' = Head(Queue) /\ Queue' = Tail(Queue)
<1> USE SizeAssumption
<1>1. /\ head \in Index /\ tail \in Index /\ entries \in [Index -> Item]
      /\ packet \in Item
  BY DEF Inv, TypeOK
<1>2. l_tail = tail /\ head # tail /\ packet = entries[tail]
  BY <1>1 DEF Inv, NoTornPacket, AdvanceTail, Item
<1>3. Occupancy >= 1
  BY <1>1, <1>2 DEF Occupancy, Index
<1>4. Slot(0) = tail
  BY <1>1 DEF Slot, Index
<1>5. Queue # <<>> /\ Head(Queue) = entries[tail]
  <2>1. Queue[1] = entries[Slot(0)]
    BY <1>3, QueueType
  <2>2. Queue # <<>>
    BY <1>3, QueueType
  <2> QED BY <2>1, <2>2, <1>4, QueueType
<1>6. Occupancy' = Occupancy - 1
  BY <1>1, <1>2 DEF AdvanceTail, Occupancy, NextIndex, Index
<1>7. \A i \in 0 .. Size - 2 : Slot(i)' = Slot(i + 1)
  BY <1>1, <1>2 DEF AdvanceTail, Slot, NextIndex, Index
<1> DEFINE s == Tail(Queue)
<1>8. s \in Seq(Item) /\ Len(s) = Occupancy - 1
  BY <1>5, QueueType
<1>9. Queue' \in Seq(Item) /\ Len(Queue') = Occupancy - 1
  BY QueueTypedNext, <1>6 DEF QueueTyped
<1>10. ASSUME NEW i \in 1 .. Occupancy - 1 PROVE Queue'[i] = s[i]
  <2>1. i - 1 \in 0 .. Size - 2 /\ i \in 1 .. Occupancy' /\ i + 1 \in 1 .. Occupancy
    BY <1>6, QueueType
  <2>2. Queue'[i] = entries'[Slot(i - 1)']
    BY <2>1 DEF Queue
  <2>3. Slot(i - 1)' = Slot(i)
    BY <2>1, <1>7
  <2>4. Queue[i + 1] = entries[Slot(i)]
    BY <2>1, QueueType
  <2>5. s[i] = Queue[i + 1]
    BY <2>1, <1>5, QueueType
  <2> QED BY <2>2, <2>3, <2>4, <2>5 DEF AdvanceTail
<1> HIDE DEF s
<1>11. Queue' = s
  BY <1>8, <1>9, <1>10, SeqEqual
<1> QED BY <1>1, <1>2, <1>5, <1>11 DEF AdvanceTail, s

(* A step that moves neither index nor entry leaves the queue as it is.    *)
LEMMA QueueUnchanged ==
    ASSUME UNCHANGED <<head, tail, entries>>
    PROVE  Queue' = Queue
BY DEF Queue, Occupancy, Slot

LEMMA InitRefines == Init => LQ!QInit
<1> SUFFICES ASSUME Init PROVE LQ!QInit
  OBVIOUS
<1>1. Occupancy = 0
  BY SizeAssumption DEF Init, Occupancy
<1>2. Queue = <<>>
  BY <1>1 DEF Queue
<1> QED BY <1>2 DEF Init, LQ!QInit

LEMMA StepRefines == Inv /\ [Next]_vars /\ Inv' => [LQ!QNext]_(LQ!qvars)
<1> SUFFICES ASSUME Inv, [Next]_vars, Inv' PROVE [LQ!QNext]_(LQ!qvars)
  OBVIOUS
<1> USE DEF LQ!QNext, LQ!qvars
<1>1. ASSUME NEW p \in Item, Push(p) PROVE [LQ!QNext]_(LQ!qvars)
  <2>1. CASE PushFull
    <3>1. Queue' = Queue
      BY <1>1, <2>1, QueueUnchanged DEF Push, PushFull
    <3>2. Len(Queue) = Size - 1
      BY <2>1, FullWhen, QueueType DEF PushFull
    <3>3. LQ!Refuse
      BY <1>1, <2>1, <3>1, <3>2 DEF LQ!Refuse, Push, PushFull
    <3> QED BY <3>3
  <2>2. CASE PushStore(p)
    <3>1. Len(Queue) < Size - 1 /\ Queue' = Append(Queue, p)
      BY <1>1, <2>2, PushAppends, QueueType DEF Push
    <3>2. LQ!Offer(p)
      BY <1>1, <2>2, <3>1 DEF LQ!Offer, Push, PushStore
    <3> QED BY <3>2
  <2> QED BY <1>1, <2>1, <2>2 DEF Push
<1>2. CASE AdvanceTail
  <2>1. LQ!Deliver
    BY <1>2, AdvanceDelivers DEF LQ!Deliver, AdvanceTail
  <2> QED BY <2>1
<1>3. CASE ReadTail \/ TestEmpty \/ TestAvailable \/ \E f \in Field : CopyField(f)
  <2>1. UNCHANGED <<head, tail, entries, accepted, received>>
    BY <1>3 DEF ReadTail, TestEmpty, TestAvailable, CopyField
  <2> QED BY <2>1, QueueUnchanged
<1>4. CASE UNCHANGED vars
  BY <1>4, QueueUnchanged DEF vars
<1> QED BY <1>1, <1>2, <1>3, <1>4 DEF Next, Pop

(* For every size of the ring, the handler's push and main's interruptible *)
(* pop together implement the bounded FIFO queue.                          *)
THEOREM Refinement == Spec => ImplementsQueue
<1> USE DEF Spec, ImplementsQueue, LQ!QSpec
<1>1. Init => LQ!QInit
  BY InitRefines
<1>2. Inv /\ [Next]_vars /\ Inv' => [LQ!QNext]_(LQ!qvars)
  BY StepRefines
<1> QED BY <1>1, <1>2, Invariance, PTL
=============================================================================
