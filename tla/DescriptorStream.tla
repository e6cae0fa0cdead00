-------------------------- MODULE DescriptorStream --------------------------
(***************************************************************************)
(* The configuration descriptor stream of src/hardware/usb/ep0/prepare.c:  *)
(* how usb_ep0_prepare_descriptor walks from the configuration descriptor  *)
(* through each interface and its dependent ("child") descriptors, a chunk *)
(* at a time.  The descriptors themselves come from the application's      *)
(* hooks (hooks.h); here a layout gives their number and their lengths,    *)
(* and a byte of a descriptor is its place in it.                          *)
(***************************************************************************)
EXTENDS Naturals, Sequences

CONSTANTS BufSize,        \* USB_EP0_BUFFER_SIZE
          LastInterface,  \* the largest value of the bit field indices.interface
          ChildSentinel   \* the largest value of the bit field indices.child

ASSUME StreamAssumption ==
    BufSize \in Nat \ {0} /\ LastInterface \in Nat /\ ChildSentinel \in Nat \ {0}

(* What the hooks return: bLength of the device and of the configuration   *)
(* descriptor, wTotalLength, and the interfaces with their children.       *)
(* setup.c:54-56 copies a device descriptor of any bLength; here it is     *)
(* shorter than a packet (the standard's 18 bytes, of 64).  XramLayout has *)
(* what a longer one overwrites.                                           *)
Layout == [device : 0 .. BufSize - 1, config : Nat, total : Nat,
           interfaces : Seq([length : Nat, children : Seq(Nat)])]

Descriptor == [kind : {"null", "device", "config", "interface", "child"},
               interface : Nat, child : Nat]

NoDescriptor == [kind |-> "null", interface |-> 0, child |-> 0]
DeviceDescriptor == [kind |-> "device", interface |-> 0, child |-> 0]
ConfigDescriptor == [kind |-> "config", interface |-> 0, child |-> 0]
InterfaceDescriptor(i) == [kind |-> "interface", interface |-> i, child |-> 0]
ChildDescriptor(i, c) == [kind |-> "child", interface |-> i, child |-> c]

(* config_stream: cursor is (desc, offset), NULL when desc is NoDescriptor.*)
Stream == [desc : Descriptor, offset : Nat, remaining : Nat,
           request_remaining : Nat, total_remaining : Nat,
           interface : 0 .. LastInterface, child : 0 .. ChildSentinel]

(* The stream as usb_ep0_handle_setup opens it.                            *)
OpenStream(l, wLength) ==
    [desc |-> ConfigDescriptor, offset |-> 0, remaining |-> l.config,
     request_remaining |-> wLength, total_remaining |-> l.total,
     interface |-> 0, child |-> ChildSentinel]

-----------------------------------------------------------------------------
(* Mutant: a move that finds no descriptor leaves the cursor where it is.  *)
EndForgotten(s) == s

(* A move that finds no descriptor leaves cursor = NULL.                   *)
End(s) == [s EXCEPT !.desc = NoDescriptor]

(* The cursor at the start of a descriptor.                                *)
PointTo(s, descriptor, length, child) ==
    [desc |-> descriptor, offset |-> 0, remaining |-> length,
     request_remaining |-> s.request_remaining, total_remaining |-> s.total_remaining,
     interface |-> s.interface, child |-> child]

MoveToInterface(l, s) ==
    IF s.interface < Len(l.interfaces)
    THEN PointTo(s, InterfaceDescriptor(s.interface),
                 l.interfaces[s.interface + 1].length, 0)
    ELSE End(s)

HasChild(l, s) == /\ s.interface < Len(l.interfaces)
                  /\ s.child < Len(l.interfaces[s.interface + 1].children)

MoveToChild(l, s) ==
    PointTo(s, ChildDescriptor(s.interface, s.child),
            l.interfaces[s.interface + 1].children[s.child + 1], s.child + 1)

(* Mutant: after its children, the walk forgets to go to the next          *)
(* interface.                                                              *)
MoveToNextStuck(l, s) ==
    IF s.child = ChildSentinel THEN MoveToInterface(l, s)
    ELSE IF HasChild(l, s) THEN MoveToChild(l, s)
    ELSE End(s)

(* Mutant: the interface index wraps round in its bit field.               *)
MoveToNextWraps(l, s) ==
    IF s.child = ChildSentinel THEN MoveToInterface(l, s)
    ELSE IF HasChild(l, s) THEN MoveToChild(l, s)
    ELSE MoveToInterface(l, [s EXCEPT !.interface = (s.interface + 1) % (LastInterface + 1)])

MoveToNextDescriptor(l, s) ==
    IF s.child = ChildSentinel THEN MoveToInterface(l, s)
    ELSE IF HasChild(l, s) THEN MoveToChild(l, s)
    ELSE IF s.interface = LastInterface THEN End(s)
    ELSE MoveToInterface(l, [s EXCEPT !.interface = s.interface + 1])

-----------------------------------------------------------------------------
Least(a, b) == IF a > b THEN b ELSE a

(* The loop of usb_ep0_prepare_descriptor: its condition, the bytes one    *)
(* iteration copies, and the stream after it.  Its two breaks only skip a  *)
(* test of the condition, which they make false.                           *)
LoopContinuesWhenFull(s, filled) ==   \* mutant: the buffer limit is forgotten
    /\ s.desc # NoDescriptor
    /\ s.request_remaining # 0
    /\ s.total_remaining # 0

LoopContinues(s, filled) ==
    /\ s.desc # NoDescriptor
    /\ s.request_remaining # 0
    /\ s.total_remaining # 0
    /\ filled < BufSize

(* Mutant: the chunk is not limited by the buffer.                        *)
ChunkSizeUnbuffered(s, filled) ==
    Least(Least(s.remaining, s.request_remaining), s.total_remaining)

ChunkSize(s, filled) ==
    Least(Least(Least(s.remaining, BufSize - filled), s.request_remaining),
          s.total_remaining)

CopyChunk(s, n) ==
    [desc |-> s.desc, offset |-> s.offset + n, remaining |-> s.remaining - n,
     request_remaining |-> s.request_remaining - n,
     total_remaining |-> s.total_remaining - n,
     interface |-> s.interface, child |-> s.child]

Advance(l, s, n) ==
    LET c == CopyChunk(s, n) IN
    IF c.request_remaining = 0 \/ c.total_remaining = 0 \/ c.remaining # 0
    THEN c
    ELSE MoveToNextDescriptor(l, c)
=============================================================================
