-------------------------- MODULE DescriptorBytes --------------------------
(***************************************************************************)
(* What a host should read: the reference against which the walk of        *)
(* DescriptorStream is checked.                                            *)
(***************************************************************************)
EXTENDS DescriptorStream, SequencesExt

BytesOf(d, n) == [i \in 1 .. n |-> [desc |-> d, offset |-> i - 1]]

Upto(s, n) == SubSeq(s, 1, Least(Len(s), n))

InterfaceBytes(i, f) ==
    BytesOf(InterfaceDescriptor(i), f.length)
    \o FlattenSeq([c \in 1 .. Len(f.children) |->
                     BytesOf(ChildDescriptor(i, c - 1), f.children[c])])

(* The configuration descriptor, each interface descriptor that the index  *)
(* can name and after it its children, as far as wTotalLength goes.        *)
ConfigurationBytes(l) ==
    LET interfaces == Least(Len(l.interfaces), LastInterface + 1) IN
    Upto(BytesOf(ConfigDescriptor, l.config)
         \o FlattenSeq([i \in 1 .. interfaces |-> InterfaceBytes(i - 1, l.interfaces[i])]),
         l.total)
=============================================================================
