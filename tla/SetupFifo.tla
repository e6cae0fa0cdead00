------------------------------ MODULE SetupFifo ------------------------------
(***************************************************************************)
(* The SETUP packet FIFO of src/setup_fifo.c: one producer, the USB        *)
(* interrupt handler, and one consumer, the loop of main().                *)
(*                                                                         *)
(* The producer runs inside an interrupt handler, so usb_setup_fifo_push_isr *)
(* is one step.  The consumer can be interrupted anywhere, so              *)
(* usb_setup_fifo_pop is a step per access to the shared structure: it     *)
(* reads tail, compares head, copies the entry field by field (in any      *)
(* order: it is the compiler's struct copy), and writes tail.              *)
(***************************************************************************)
EXTENDS Naturals

CONSTANTS Size,        \* USB_SETUP_FIFO_SIZE
          Field,       \* the members of usb_setup_fifo_item_t
          Value        \* what a member can hold

(* The header rejects a size that is no power of two, so that the mask     *)
(* Size - 1 takes an index modulo Size; only that is used here.            *)
ASSUME SizeAssumption == Size \in Nat \ {0}

VARIABLES
    head, tail,        \* fifo.head, fifo.tail
    entries,           \* fifo.entries
    accepted,          \* what usb_setup_fifo_push_isr returned last
    pc,                \* where main is in usb_setup_fifo_pop
    l_tail,            \* its local variable tail
    todo,              \* the members its struct copy has not reached yet
    packet,            \* *packet, the caller's structure
    received           \* the packet that usb_setup_fifo_pop returned last

vars == <<head, tail, entries, accepted, pc, l_tail, todo, packet, received>>

Index == 0 .. Size - 1
Item == [Field -> Value]

(* Mutant: the mask is forgotten.                                          *)
NextIndexUnmasked(i) == i + 1

(* (i + 1) & (USB_SETUP_FIFO_SIZE - 1)                                     *)
NextIndex(i) == IF i + 1 = Size THEN 0 ELSE i + 1

(* usb_setup_fifo_init, and main before its first pop.  The entries and    *)
(* the caller's structure are not initialised.                             *)
Init == /\ head = 0 /\ tail = 0
        /\ entries \in [Index -> Item]
        /\ accepted \in BOOLEAN
        /\ pc = "read" /\ l_tail \in Index /\ todo = {}
        /\ packet \in Item /\ received = packet

-----------------------------------------------------------------------------
(* The interrupt handler.                                                  *)
PushFull == /\ NextIndex(head) = tail
            /\ accepted' = FALSE
            /\ UNCHANGED <<head, entries>>

(* Mutant: push does not look whether the ring is full.                    *)
PushStoreUnchecked(p) == /\ entries' = [entries EXCEPT ![head] = p]
                         /\ head' = NextIndex(head)
                         /\ accepted' = TRUE

PushStore(p) == /\ NextIndex(head) # tail
                /\ entries' = [entries EXCEPT ![head] = p]
                /\ head' = NextIndex(head)
                /\ accepted' = TRUE

Push(p) == /\ PushFull \/ PushStore(p)
           /\ UNCHANGED <<tail, pc, l_tail, todo, packet, received>>

-----------------------------------------------------------------------------
(* main: usb_setup_fifo_pop, called again as soon as it returns.           *)
ReadTail == /\ pc = "read"
            /\ l_tail' = tail
            /\ pc' = "test"
            /\ UNCHANGED <<head, tail, entries, accepted, todo, packet, received>>

TestEmpty == /\ pc = "test" /\ l_tail = head
             /\ pc' = "read"
             /\ UNCHANGED <<head, tail, entries, accepted, l_tail, todo, packet, received>>

TestAvailable == /\ pc = "test" /\ l_tail # head
                 /\ pc' = "copy"
                 /\ todo' = Field
                 /\ UNCHANGED <<head, tail, entries, accepted, l_tail, packet, received>>

CopyField(f) == /\ pc = "copy" /\ f \in todo
                /\ packet' = [packet EXCEPT ![f] = entries[l_tail][f]]
                /\ todo' = todo \ {f}
                /\ UNCHANGED <<head, tail, entries, accepted, pc, l_tail, received>>

(* Mutants: pop frees the entry before its copy is complete; pop returns   *)
(* the packet and leaves it in the ring.                                   *)
AdvanceTailEarly == /\ pc = "copy"
                    /\ tail' = NextIndex(l_tail)
                    /\ received' = packet
                    /\ pc' = "read"
                    /\ todo' = {}
                    /\ UNCHANGED <<head, entries, accepted, l_tail, packet>>

AdvanceTailForgotten == /\ pc = "copy" /\ todo = {}
                        /\ received' = packet
                        /\ pc' = "read"
                        /\ UNCHANGED <<head, tail, entries, accepted, l_tail, todo, packet>>

AdvanceTail == /\ pc = "copy" /\ todo = {}
               /\ tail' = NextIndex(l_tail)
               /\ received' = packet
               /\ pc' = "read"
               /\ UNCHANGED <<head, entries, accepted, l_tail, todo, packet>>

Pop == \/ ReadTail \/ TestEmpty \/ TestAvailable
       \/ \E f \in Field : CopyField(f)
       \/ AdvanceTail

Next == (\E p \in Item : Push(p)) \/ Pop

Spec == Init /\ [][Next]_vars

(* main loops for ever on the FIFO and the handler always returns to it.   *)
FairSpec == Spec /\ WF_vars(Pop)

-----------------------------------------------------------------------------
TypeOK == /\ head \in Index /\ tail \in Index /\ l_tail \in Index
          /\ entries \in [Index -> Item]
          /\ accepted \in BOOLEAN
          /\ pc \in {"read", "test", "copy"}
          /\ todo \subseteq Field
          /\ packet \in Item /\ received \in Item

(* What main has copied of the oldest entry is still what the entry holds: *)
(* no push that interrupts the struct copy of usb_setup_fifo_pop reaches   *)
(* the entry being copied, so the packet is never half of one SETUP and    *)
(* half of another.                                                        *)
NoTornPacket ==
    pc = "copy" => /\ l_tail = tail /\ head # tail
                   /\ \A f \in Field \ todo : packet[f] = entries[tail][f]

(* The packets in the ring, oldest first, and the queue they implement.    *)
Occupancy == IF tail <= head THEN head - tail ELSE head + Size - tail
Slot(i) == IF tail + i < Size THEN tail + i ELSE tail + i - Size
Queue == [i \in 1 .. Occupancy |-> entries[Slot(i - 1)]]

LQ == INSTANCE LossyQueue WITH q <- Queue, Capacity <- Size - 1

(* Whatever the interleaving of the handler with main, the ring is a FIFO  *)
(* of Size - 1 packets: push refuses a packet exactly when it is full, pop *)
(* returns the accepted ones once each, unaltered and in their order.      *)
ImplementsQueue == LQ!QSpec

(* A SETUP packet that was accepted is popped some day: the FIFO cannot    *)
(* stay non-empty with its tail at one place.                              *)
EveryPacketPopped == \A i \in Index : (tail = i /\ head # i) ~> (tail # i)
=============================================================================
