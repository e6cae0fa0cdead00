----------------------- MODULE DescriptorStreamProofs -----------------------
(***************************************************************************)
(* What one iteration of the copy loop does, for every buffer size, every  *)
(* width of the index fields and every set of descriptors: its chunk fits  *)
(* what is left of the buffer, of the descriptor, of the request and of    *)
(* wTotalLength, so that none of the unsigned counters wraps; and it       *)
(* leaves a well-formed stream whose indices fit their bit fields.         *)
(*                                                                         *)
(* And the walk: At ties the cursor to a place in the concatenation of the *)
(* descriptors, so that a chunk is the next bytes of the answer, and the   *)
(* loop ends where the answer or the packet does.                          *)
(***************************************************************************)
EXTENDS DescriptorBytes, SequenceLemmas

LEMMA LeastIs ==
    ASSUME NEW a \in Nat, NEW b \in Nat
    PROVE  Least(a, b) \in Nat /\ Least(a, b) <= a /\ Least(a, b) <= b
BY DEF Least

LEMMA ChunkFits ==
    ASSUME NEW s \in Stream, NEW filled \in 0 .. BufSize
    PROVE  LET n == ChunkSize(s, filled) IN
           /\ n \in Nat
           /\ n <= s.remaining /\ n <= BufSize - filled
           /\ n <= s.request_remaining /\ n <= s.total_remaining
<1> DEFINE a == Least(s.remaining, BufSize - filled)
           b == Least(a, s.request_remaining)
<1>1. /\ s.remaining \in Nat /\ s.request_remaining \in Nat
      /\ s.total_remaining \in Nat /\ BufSize - filled \in Nat
  BY StreamAssumption DEF Stream
<1>2. a \in Nat /\ a <= s.remaining /\ a <= BufSize - filled
  BY <1>1, LeastIs
<1>3. b \in Nat /\ b <= a /\ b <= s.request_remaining
  BY <1>1, <1>2, LeastIs
<1>4. /\ Least(b, s.total_remaining) \in Nat
      /\ Least(b, s.total_remaining) <= b
      /\ Least(b, s.total_remaining) <= s.total_remaining
  BY <1>1, <1>3, LeastIs
<1>5. ChunkSize(s, filled) = Least(b, s.total_remaining)
  BY DEF ChunkSize
<1> HIDE DEF a, b
<1> QED BY <1>1, <1>2, <1>3, <1>4, <1>5

LEMMA OpenStreamType ==
    ASSUME NEW l \in Layout, NEW w \in Nat
    PROVE  OpenStream(l, w) \in Stream /\ OpenStream(l, w).request_remaining = w
BY StreamAssumption DEF OpenStream, Stream, Layout, ConfigDescriptor, Descriptor

LEMMA CopyChunkType ==
    ASSUME NEW s \in Stream, NEW n \in Nat,
           n <= s.remaining, n <= s.request_remaining, n <= s.total_remaining
    PROVE  /\ CopyChunk(s, n) \in Stream
           /\ CopyChunk(s, n).request_remaining = s.request_remaining - n
BY DEF CopyChunk, Stream

LEMMA EndType ==
    ASSUME NEW s \in Stream
    PROVE  End(s) \in Stream /\ End(s).request_remaining = s.request_remaining
BY DEF End, Stream, NoDescriptor, Descriptor

LEMMA PointToType ==
    ASSUME NEW s \in Stream, NEW d \in Descriptor, NEW r \in Nat,
           NEW c \in 0 .. ChildSentinel
    PROVE  /\ PointTo(s, d, r, c) \in Stream
           /\ PointTo(s, d, r, c).request_remaining = s.request_remaining
BY DEF PointTo, Stream

LEMMA MoveToInterfaceType ==
    ASSUME NEW l \in Layout, NEW s \in Stream
    PROVE  /\ MoveToInterface(l, s) \in Stream
           /\ MoveToInterface(l, s).request_remaining = s.request_remaining
<1>1. CASE s.interface < Len(l.interfaces)
  <2>1. s.interface \in Nat /\ l.interfaces \in Seq([length : Nat, children : Seq(Nat)])
    BY StreamAssumption DEF Stream, Layout
  <2>2. l.interfaces[s.interface + 1] \in [length : Nat, children : Seq(Nat)]
    <3>1. s.interface + 1 \in 1 .. Len(l.interfaces)
      BY <1>1, <2>1
    <3> QED BY <2>1, <3>1, ElementOfSeq
  <2>3. l.interfaces[s.interface + 1].length \in Nat
    BY <2>2
  <2>4. InterfaceDescriptor(s.interface) \in Descriptor
    BY <2>1 DEF InterfaceDescriptor, Descriptor
  <2>5. 0 \in 0 .. ChildSentinel
    BY StreamAssumption
  <2> QED BY <1>1, <2>3, <2>4, <2>5, PointToType DEF MoveToInterface
<1>2. CASE ~ (s.interface < Len(l.interfaces))
  BY <1>2, EndType DEF MoveToInterface
<1> QED BY <1>1, <1>2

LEMMA MoveToChildType ==
    ASSUME NEW l \in Layout, NEW s \in Stream, HasChild(l, s), s.child # ChildSentinel
    PROVE  /\ MoveToChild(l, s) \in Stream
           /\ MoveToChild(l, s).request_remaining = s.request_remaining
<1>1. /\ s.interface \in Nat /\ s.child \in Nat
      /\ l.interfaces \in Seq([length : Nat, children : Seq(Nat)])
  BY StreamAssumption DEF Stream, Layout
<1>2. l.interfaces[s.interface + 1] \in [length : Nat, children : Seq(Nat)]
  <2>1. s.interface + 1 \in 1 .. Len(l.interfaces)
    <3> DEFINE n == Len(l.interfaces)
    <3>1. n \in Nat /\ s.interface < n
      BY <1>1 DEF HasChild
    <3> HIDE DEF n
    <3>2. s.interface + 1 \in 1 .. n
      BY <1>1, <3>1
    <3> QED BY <3>2 DEF n
  <2> QED BY <1>1, <2>1, ElementOfSeq, Zenon
<1>3. l.interfaces[s.interface + 1].children \in Seq(Nat)
  BY <1>2
<1>4. l.interfaces[s.interface + 1].children[s.child + 1] \in Nat
  <2>1. s.child + 1 \in 1 .. Len(l.interfaces[s.interface + 1].children)
    <3> DEFINE q == l.interfaces[s.interface + 1].children
    <3>1. Len(q) \in Nat
      BY <1>3
    <3>2. s.child < Len(q)
      BY DEF HasChild
    <3> HIDE DEF q
    <3>3. s.child + 1 \in 1 .. Len(q)
      BY <1>1, <3>1, <3>2
    <3> QED BY <3>3 DEF q
  <2> QED BY <1>3, <2>1, ElementOfSeq
<1>5. ChildDescriptor(s.interface, s.child) \in Descriptor
  BY <1>1 DEF ChildDescriptor, Descriptor
<1>6. s.child + 1 \in 0 .. ChildSentinel
  BY <1>1, StreamAssumption DEF Stream
<1> QED BY <1>4, <1>5, <1>6, PointToType DEF MoveToChild

LEMMA MoveToNextType ==
    ASSUME NEW l \in Layout, NEW s \in Stream
    PROVE  /\ MoveToNextDescriptor(l, s) \in Stream
           /\ MoveToNextDescriptor(l, s).request_remaining = s.request_remaining
<1> DEFINE next == [s EXCEPT !.interface = s.interface + 1]
<1>1. s.interface # LastInterface =>
        next \in Stream /\ next.request_remaining = s.request_remaining
  BY StreamAssumption DEF Stream
<1> HIDE DEF next
<1>2. s.interface # LastInterface =>
        /\ MoveToInterface(l, next) \in Stream
        /\ MoveToInterface(l, next).request_remaining = s.request_remaining
  BY <1>1, MoveToInterfaceType
<1>3. MoveToNextDescriptor(l, s) =
        IF s.child = ChildSentinel THEN MoveToInterface(l, s)
        ELSE IF HasChild(l, s) THEN MoveToChild(l, s)
        ELSE IF s.interface = LastInterface THEN End(s)
        ELSE MoveToInterface(l, next)
  BY DEF MoveToNextDescriptor, next
<1> QED BY <1>2, <1>3, MoveToInterfaceType, MoveToChildType, EndType

(* The step of the loop: a well-formed stream, and the bytes copied are    *)
(* exactly the bytes the request no longer asks for.                       *)
THEOREM AdvanceType ==
    ASSUME NEW l \in Layout, NEW s \in Stream, NEW n \in Nat,
           n <= s.remaining, n <= s.request_remaining, n <= s.total_remaining
    PROVE  /\ Advance(l, s, n) \in Stream
           /\ Advance(l, s, n).request_remaining = s.request_remaining - n
<1> DEFINE c == CopyChunk(s, n)
<1>1. c \in Stream /\ c.request_remaining = s.request_remaining - n
  BY CopyChunkType
<1>2. Advance(l, s, n) = c \/ Advance(l, s, n) = MoveToNextDescriptor(l, c)
  BY DEF Advance
<1> HIDE DEF c
<1> QED BY <1>1, <1>2, MoveToNextType

-----------------------------------------------------------------------------
(* Where the walk is.  The bytes of a configuration in the order in which  *)
(* the host should read them, before wTotalLength cuts them.               *)
DescriptorByte == [desc : Descriptor, offset : Nat]

Interfaces(l) == Least(Len(l.interfaces), LastInterface + 1)

ChildSeq(i, f) == [c \in 1 .. Len(f.children) |-> BytesOf(ChildDescriptor(i, c - 1), f.children[c])]

InterfaceSeq(l) == [i \in 1 .. Interfaces(l) |-> InterfaceBytes(i - 1, l.interfaces[i])]

Whole(l) == BytesOf(ConfigDescriptor, l.config) \o FlattenSeq(InterfaceSeq(l))

(* How many bytes precede interface i, and the children of interface i     *)
(* from number c on, both counted from 0.                                  *)
InterfaceStart(l, i) == l.config + OffsetsOf(InterfaceSeq(l))[i + 1]

ChildStart(l, i, c) == InterfaceStart(l, i) + l.interfaces[i + 1].length
                       + OffsetsOf(ChildSeq(i, l.interfaces[i + 1]))[c + 1]

LEMMA BytesAre ==
    ASSUME NEW d \in Descriptor, NEW n \in Nat
    PROVE  /\ BytesOf(d, n) \in Seq(DescriptorByte)
           /\ Len(BytesOf(d, n)) = n
           /\ \A j \in 1 .. n : BytesOf(d, n)[j] = [desc |-> d, offset |-> j - 1]
<1>1. \A j \in 1 .. n : [desc |-> d, offset |-> j - 1] \in DescriptorByte
  BY DEF DescriptorByte
<1> QED BY <1>1 DEF BytesOf

LEMMA DescriptorsAre ==
    /\ ConfigDescriptor \in Descriptor /\ NoDescriptor \in Descriptor
    /\ \A i \in Nat : InterfaceDescriptor(i) \in Descriptor
    /\ \A i, c \in Nat : ChildDescriptor(i, c) \in Descriptor
BY DEF Descriptor, ConfigDescriptor, NoDescriptor, InterfaceDescriptor, ChildDescriptor

LEMMA InterfaceMap ==
    ASSUME NEW i \in Nat, NEW f \in [length : Nat, children : Seq(Nat)]
    PROVE  /\ InterfaceBytes(i, f) \in Seq(DescriptorByte)
           /\ LET b == InterfaceBytes(i, f)
                  p == OffsetsOf(ChildSeq(i, f))
                  m == Len(f.children) IN
              /\ m \in Nat
              /\ p \in [1 .. m + 1 -> Nat] /\ p[1] = 0
              /\ Len(b) = f.length + p[m + 1]
              /\ \A c \in 1 .. m : p[c + 1] = p[c] + f.children[c]
              /\ \A j \in 1 .. f.length :
                    j \in 1 .. Len(b) /\ b[j] = [desc |-> InterfaceDescriptor(i), offset |-> j - 1]
              /\ \A c \in 1 .. m : \A j \in 1 .. f.children[c] :
                    /\ f.length + p[c] + j \in 1 .. Len(b)
                    /\ b[f.length + p[c] + j] = [desc |-> ChildDescriptor(i, c - 1), offset |-> j - 1]
<1> DEFINE a == BytesOf(InterfaceDescriptor(i), f.length)
           q == ChildSeq(i, f)
           m == Len(f.children)
           b == InterfaceBytes(i, f)
           p == OffsetsOf(q)
<1>1. f.length \in Nat /\ f.children \in Seq(Nat) /\ m \in Nat
  OBVIOUS
<1>2. /\ a \in Seq(DescriptorByte) /\ Len(a) = f.length
      /\ \A j \in 1 .. f.length : a[j] = [desc |-> InterfaceDescriptor(i), offset |-> j - 1]
  BY <1>1, BytesAre, DescriptorsAre
<1>3. ASSUME NEW c \in 1 .. m
      PROVE  /\ q[c] = BytesOf(ChildDescriptor(i, c - 1), f.children[c])
             /\ q[c] \in Seq(DescriptorByte) /\ Len(q[c]) = f.children[c]
             /\ \A j \in 1 .. f.children[c] :
                   q[c][j] = [desc |-> ChildDescriptor(i, c - 1), offset |-> j - 1]
  <2>1. ChildDescriptor(i, c - 1) \in Descriptor /\ f.children[c] \in Nat
    BY <1>1, DescriptorsAre
  <2>2. q[c] = BytesOf(ChildDescriptor(i, c - 1), f.children[c])
    BY DEF ChildSeq
  <2> DEFINE d == ChildDescriptor(i, c - 1)
             n == f.children[c]
             r == q[c]
  <2>3. d \in Descriptor /\ n \in Nat /\ r = BytesOf(d, n)
    BY <2>1, <2>2
  <2> HIDE DEF d, n, r, q
  <2>4. /\ r \in Seq(DescriptorByte) /\ Len(r) = n
        /\ \A j \in 1 .. n : r[j] = [desc |-> d, offset |-> j - 1]
    BY <2>3, BytesAre
  <2> QED BY <2>2, <2>4, Zenon DEF d, n, r
<1>4. q \in Seq(Seq(DescriptorByte)) /\ Len(q) = m
  <2>1. q = [c \in 1 .. m |-> BytesOf(ChildDescriptor(i, c - 1), f.children[c])]
    BY DEF ChildSeq
  <2>2. \A c \in 1 .. m : BytesOf(ChildDescriptor(i, c - 1), f.children[c]) \in Seq(DescriptorByte)
    BY <1>3
  <2> HIDE DEF q, m
  <2> QED BY <1>1, <2>1, <2>2
<1>5. b = a \o FlattenSeq(q)
  BY DEF InterfaceBytes, ChildSeq
<1> HIDE DEF a, q, m, b, p
<1>6. b \in Seq(DescriptorByte) /\ HeadedAt(b, a, OffsetsOf(q), q)
  BY <1>2, <1>4, <1>5, HeadedPlaces
<1>7. HeadedAt(b, a, p, q)
  BY <1>6 DEF p
<1>8. /\ p \in [1 .. m + 1 -> Nat] /\ p[1] = 0
      /\ \A c \in 1 .. m : p[c + 1] = p[c] + Len(q[c])
  BY <1>4, <1>7 DEF HeadedAt, IsOffsets
<1>9. /\ Len(b) = f.length + p[m + 1]
      /\ \A j \in 1 .. f.length : j \in 1 .. Len(b) /\ b[j] = a[j]
      /\ \A c \in 1 .. m : \A j \in 1 .. Len(q[c]) :
            f.length + p[c] + j \in 1 .. Len(b) /\ b[f.length + p[c] + j] = q[c][j]
  <2>1. Len(a) = f.length /\ Len(q) = m
    BY <1>2, <1>4
  <2>2. Len(b) = Len(a) + p[Len(q) + 1]
    BY <1>7, Zenon DEF HeadedAt
  <2>3. \A j \in 1 .. Len(a) : j \in 1 .. Len(b) /\ b[j] = a[j]
    BY <1>7, Zenon DEF HeadedAt
  <2>4. \A c \in 1 .. Len(q) : \A j \in 1 .. Len(q[c]) :
           Len(a) + p[c] + j \in 1 .. Len(b) /\ b[Len(a) + p[c] + j] = q[c][j]
    BY <1>7, Zenon DEF HeadedAt
  <2>5. Len(b) = f.length + p[m + 1]
    BY <2>1, <2>2, Zenon
  <2>6. \A j \in 1 .. f.length : j \in 1 .. Len(b) /\ b[j] = a[j]
    BY <2>1, <2>3, Zenon
  <2>7. \A c \in 1 .. m : \A j \in 1 .. Len(q[c]) :
           f.length + p[c] + j \in 1 .. Len(b) /\ b[f.length + p[c] + j] = q[c][j]
    BY <2>1, <2>4, ZenonT(30)
  <2> QED BY <2>5, <2>6, <2>7
<1>10. \A c \in 1 .. m : p[c + 1] = p[c] + f.children[c]
  BY <1>3, <1>8
<1>11. \A j \in 1 .. f.length :
          j \in 1 .. Len(b) /\ b[j] = [desc |-> InterfaceDescriptor(i), offset |-> j - 1]
  BY <1>2, <1>9
<1>12. \A c \in 1 .. m : \A j \in 1 .. f.children[c] :
          /\ f.length + p[c] + j \in 1 .. Len(b)
          /\ b[f.length + p[c] + j] = [desc |-> ChildDescriptor(i, c - 1), offset |-> j - 1]
  <2> SUFFICES ASSUME NEW c \in 1 .. m, NEW j \in 1 .. f.children[c]
               PROVE  /\ f.length + p[c] + j \in 1 .. Len(b)
                      /\ b[f.length + p[c] + j] =
                             [desc |-> ChildDescriptor(i, c - 1), offset |-> j - 1]
    OBVIOUS
  <2>1. j \in 1 .. Len(q[c]) /\ q[c][j] = [desc |-> ChildDescriptor(i, c - 1), offset |-> j - 1]
    BY <1>3
  <2> QED BY <1>9, <2>1, Zenon
<1> QED BY <1>1, <1>6, <1>8, <1>9, <1>10, <1>11, <1>12, Zenon DEF p, q, b, m

LEMMA InterfacesAre ==
    ASSUME NEW l \in Layout
    PROVE  /\ Interfaces(l) \in Nat /\ Len(l.interfaces) \in Nat
           /\ Interfaces(l) <= Len(l.interfaces) /\ Interfaces(l) <= LastInterface + 1
           /\ Interfaces(l) = Len(l.interfaces) \/ Interfaces(l) = LastInterface + 1
           /\ \A i \in 1 .. Interfaces(l) :
                 /\ i - 1 \in Nat
                 /\ l.interfaces[i] \in [length : Nat, children : Seq(Nat)]
<1>1. l.interfaces \in Seq([length : Nat, children : Seq(Nat)])
  BY DEF Layout
<1>2. Len(l.interfaces) \in Nat
  BY <1>1
<1>3. /\ Interfaces(l) \in Nat
      /\ Interfaces(l) <= Len(l.interfaces) /\ Interfaces(l) <= LastInterface + 1
      /\ Interfaces(l) = Len(l.interfaces) \/ Interfaces(l) = LastInterface + 1
  BY <1>2, StreamAssumption DEF Interfaces, Least
<1>4. \A i \in 1 .. Interfaces(l) : i - 1 \in Nat /\ i \in 1 .. Len(l.interfaces)
  BY <1>2, <1>3
<1> QED BY <1>1, <1>2, <1>3, <1>4, ElementOfSeq

(* The bytes of the whole configuration, by the descriptor they are of.    *)
LEMMA WholeMap ==
    ASSUME NEW l \in Layout
    PROVE  LET w == Whole(l)
               n == Interfaces(l)
               p == OffsetsOf(InterfaceSeq(l)) IN
           /\ w \in Seq(DescriptorByte)
           /\ p \in [1 .. n + 1 -> Nat] /\ p[1] = 0
           /\ Len(w) = l.config + p[n + 1]
           /\ \A i \in 1 .. n : p[i + 1] = p[i] + Len(InterfaceBytes(i - 1, l.interfaces[i]))
           /\ \A j \in 1 .. l.config :
                 j \in 1 .. Len(w) /\ w[j] = [desc |-> ConfigDescriptor, offset |-> j - 1]
           /\ \A i \in 1 .. n : \A j \in 1 .. Len(InterfaceBytes(i - 1, l.interfaces[i])) :
                 /\ l.config + p[i] + j \in 1 .. Len(w)
                 /\ w[l.config + p[i] + j] = InterfaceBytes(i - 1, l.interfaces[i])[j]
<1> DEFINE a == BytesOf(ConfigDescriptor, l.config)
           q == InterfaceSeq(l)
           n == Interfaces(l)
           w == Whole(l)
           p == OffsetsOf(q)
           b(i) == InterfaceBytes(i - 1, l.interfaces[i])
<1>1. n \in Nat /\ l.config \in Nat
  BY InterfacesAre DEF Layout
<1>2. /\ a \in Seq(DescriptorByte) /\ Len(a) = l.config
      /\ \A j \in 1 .. l.config : a[j] = [desc |-> ConfigDescriptor, offset |-> j - 1]
  BY <1>1, BytesAre, DescriptorsAre
<1>3. \A i \in 1 .. n : q[i] = b(i) /\ b(i) \in Seq(DescriptorByte)
  <2>1. \A i \in 1 .. n : q[i] = b(i)
    BY DEF InterfaceSeq
  <2>2. \A i \in 1 .. n : b(i) \in Seq(DescriptorByte)
    BY InterfacesAre, InterfaceMap
  <2> QED BY <2>1, <2>2
<1>4. q \in Seq(Seq(DescriptorByte)) /\ Len(q) = n
  <2>1. q = [i \in 1 .. n |-> b(i)]
    BY DEF InterfaceSeq
  <2> HIDE DEF q, n, b
  <2> QED BY <1>1, <1>3, <2>1
<1>5. w = a \o FlattenSeq(q)
  BY DEF Whole
<1> HIDE DEF a, q, n, w, p, b
<1>6. w \in Seq(DescriptorByte) /\ HeadedAt(w, a, OffsetsOf(q), q)
  BY <1>2, <1>4, <1>5, HeadedPlaces
<1>7. HeadedAt(w, a, p, q)
  BY <1>6 DEF p
<1>8. /\ p \in [1 .. n + 1 -> Nat] /\ p[1] = 0
      /\ \A i \in 1 .. n : p[i + 1] = p[i] + Len(q[i])
  BY <1>4, <1>7 DEF HeadedAt, IsOffsets
<1>9. /\ Len(w) = l.config + p[n + 1]
      /\ \A j \in 1 .. l.config : j \in 1 .. Len(w) /\ w[j] = a[j]
      /\ \A i \in 1 .. n : \A j \in 1 .. Len(q[i]) :
            l.config + p[i] + j \in 1 .. Len(w) /\ w[l.config + p[i] + j] = q[i][j]
  <2>1. Len(a) = l.config /\ Len(q) = n
    BY <1>2, <1>4
  <2>2. Len(w) = Len(a) + p[Len(q) + 1]
    BY <1>7, Zenon DEF HeadedAt
  <2>3. \A j \in 1 .. Len(a) : j \in 1 .. Len(w) /\ w[j] = a[j]
    BY <1>7, Zenon DEF HeadedAt
  <2>4. \A i \in 1 .. Len(q) : \A j \in 1 .. Len(q[i]) :
           Len(a) + p[i] + j \in 1 .. Len(w) /\ w[Len(a) + p[i] + j] = q[i][j]
    BY <1>7, Zenon DEF HeadedAt
  <2>5. Len(w) = l.config + p[n + 1]
    BY <2>1, <2>2, Zenon
  <2>6. \A j \in 1 .. l.config : j \in 1 .. Len(w) /\ w[j] = a[j]
    BY <2>1, <2>3, Zenon
  <2>7. \A i \in 1 .. n : \A j \in 1 .. Len(q[i]) :
           l.config + p[i] + j \in 1 .. Len(w) /\ w[l.config + p[i] + j] = q[i][j]
    BY <2>1, <2>4, ZenonT(30)
  <2> QED BY <2>5, <2>6, <2>7
<1>10. \A j \in 1 .. l.config :
          j \in 1 .. Len(w) /\ w[j] = [desc |-> ConfigDescriptor, offset |-> j - 1]
  BY <1>2, <1>9
<1>11. \A i \in 1 .. n : p[i + 1] = p[i] + Len(b(i))
  BY <1>3, <1>8
<1>12. \A i \in 1 .. n : \A j \in 1 .. Len(b(i)) :
          l.config + p[i] + j \in 1 .. Len(w) /\ w[l.config + p[i] + j] = b(i)[j]
  <2> SUFFICES ASSUME NEW i \in 1 .. n, NEW j \in 1 .. Len(b(i))
               PROVE  l.config + p[i] + j \in 1 .. Len(w) /\ w[l.config + p[i] + j] = b(i)[j]
    OBVIOUS
  <2>1. q[i] = b(i)
    BY <1>3
  <2> DEFINE r == b(i)
  <2>2. q[i] = r /\ j \in 1 .. Len(r) /\ j \in 1 .. Len(q[i])
    BY <2>1
  <2> HIDE DEF r
  <2>3. l.config + p[i] + j \in 1 .. Len(w) /\ w[l.config + p[i] + j] = q[i][j]
    BY <1>9, <2>2, Zenon
  <2> QED BY <2>2, <2>3, Zenon DEF r
<1> QED BY <1>6, <1>8, <1>9, <1>10, <1>11, <1>12, Zenon DEF p, q, b, n, w

(* The same in the terms of InterfaceStart and ChildStart.                 *)
LEMMA Starts ==
    ASSUME NEW l \in Layout
    PROVE  /\ InterfaceStart(l, 0) = l.config
           /\ InterfaceStart(l, Interfaces(l)) = Len(Whole(l))
           /\ \A i \in 0 .. Interfaces(l) : InterfaceStart(l, i) \in Nat
<1>1. Interfaces(l) \in Nat /\ l.config \in Nat
  BY InterfacesAre DEF Layout
<1> DEFINE p == OffsetsOf(InterfaceSeq(l))
<1>2. /\ p \in [1 .. Interfaces(l) + 1 -> Nat] /\ p[1] = 0
      /\ Len(Whole(l)) = l.config + p[Interfaces(l) + 1]
  BY WholeMap
<1>3. \A i \in Nat : InterfaceStart(l, i) = l.config + p[i + 1]
  BY DEF InterfaceStart
<1> HIDE DEF p
<1>4. \A i \in 0 .. Interfaces(l) : p[i + 1] \in Nat
  BY <1>1, <1>2
<1>5. InterfaceStart(l, 0) = l.config
  <2>1. InterfaceStart(l, 0) = l.config + p[0 + 1]
    BY <1>3
  <2> QED BY <1>1, <1>2, <2>1
<1>6. InterfaceStart(l, Interfaces(l)) = Len(Whole(l))
  BY <1>1, <1>2, <1>3
<1>7. ASSUME NEW i \in 0 .. Interfaces(l)
      PROVE  InterfaceStart(l, i) \in Nat
  <2>1. p[i + 1] \in Nat /\ InterfaceStart(l, i) = l.config + p[i + 1]
    BY <1>1, <1>3, <1>4
  <2> QED BY <1>1, <2>1
<1> QED BY <1>5, <1>6, <1>7

LEMMA InterfaceAt ==
    ASSUME NEW l \in Layout, NEW i \in Nat, i < Interfaces(l)
    PROVE  LET f == l.interfaces[i + 1]
               m == Len(f.children) IN
           /\ f.length \in Nat /\ f.children \in Seq(Nat) /\ m \in Nat
           /\ ChildStart(l, i, 0) = InterfaceStart(l, i) + f.length
           /\ ChildStart(l, i, m) = InterfaceStart(l, i + 1)
           /\ \A c \in 0 .. m : ChildStart(l, i, c) \in Nat
           /\ \A c \in 0 .. m - 1 : /\ f.children[c + 1] \in Nat
                                    /\ ChildStart(l, i, c + 1) = ChildStart(l, i, c) + f.children[c + 1]
           /\ \A j \in 1 .. f.length :
                 /\ InterfaceStart(l, i) + j \in 1 .. Len(Whole(l))
                 /\ Whole(l)[InterfaceStart(l, i) + j] =
                       [desc |-> InterfaceDescriptor(i), offset |-> j - 1]
           /\ \A c \in 0 .. m - 1 : \A j \in 1 .. f.children[c + 1] :
                 /\ ChildStart(l, i, c) + j \in 1 .. Len(Whole(l))
                 /\ Whole(l)[ChildStart(l, i, c) + j] =
                       [desc |-> ChildDescriptor(i, c), offset |-> j - 1]
<1> DEFINE f == l.interfaces[i + 1]
           m == Len(f.children)
           q == OffsetsOf(ChildSeq(i, f))
           b == InterfaceBytes(i, f)
           w == Whole(l)
           s == InterfaceStart(l, i)
<1>1. i + 1 \in 1 .. Interfaces(l) /\ (i + 1) - 1 = i
  BY InterfacesAre
<1>2. f \in [length : Nat, children : Seq(Nat)]
  BY <1>1, InterfacesAre
<1>3. /\ f.length \in Nat /\ f.children \in Seq(Nat) /\ m \in Nat
      /\ q \in [1 .. m + 1 -> Nat] /\ q[1] = 0
      /\ Len(b) = f.length + q[m + 1]
      /\ \A c \in 1 .. m : q[c + 1] = q[c] + f.children[c]
  <2>1. f.length \in Nat /\ f.children \in Seq(Nat)
    BY <1>2
  <2> HIDE DEF f
  <2> QED BY <1>2, <2>1, InterfaceMap
<1>4. /\ \A j \in 1 .. f.length :
            j \in 1 .. Len(b) /\ b[j] = [desc |-> InterfaceDescriptor(i), offset |-> j - 1]
      /\ \A c \in 1 .. m : \A j \in 1 .. f.children[c] :
            /\ f.length + q[c] + j \in 1 .. Len(b)
            /\ b[f.length + q[c] + j] = [desc |-> ChildDescriptor(i, c - 1), offset |-> j - 1]
  <2> HIDE DEF f
  <2> QED BY <1>2, InterfaceMap
<1>5. /\ s \in Nat /\ InterfaceStart(l, i + 1) = s + Len(b)
      /\ \A j \in 1 .. Len(b) : s + j \in 1 .. Len(w) /\ w[s + j] = b[j]
  <2> DEFINE p == OffsetsOf(InterfaceSeq(l))
  <2>1. /\ p \in [1 .. Interfaces(l) + 1 -> Nat]
        /\ p[(i + 1) + 1] = p[i + 1] + Len(InterfaceBytes((i + 1) - 1, f))
        /\ \A j \in 1 .. Len(InterfaceBytes((i + 1) - 1, f)) :
              /\ l.config + p[i + 1] + j \in 1 .. Len(w)
              /\ w[l.config + p[i + 1] + j] = InterfaceBytes((i + 1) - 1, f)[j]
    BY <1>1, WholeMap, Zenon
  <2>2. InterfaceBytes((i + 1) - 1, f) = b
    BY <1>1
  <2>3. s = l.config + p[i + 1] /\ InterfaceStart(l, i + 1) = l.config + p[(i + 1) + 1]
    BY DEF InterfaceStart
  <2>4. l.config \in Nat /\ p[i + 1] \in Nat /\ Len(b) \in Nat
    <3>1. i + 1 \in 1 .. Interfaces(l) + 1
      BY InterfacesAre
    <3>2. Len(b) \in Nat
      <4> HIDE DEF f
      <4> QED BY <1>2, InterfaceMap
    <3> QED BY <2>1, <3>1, <3>2 DEF Layout
  <2> HIDE DEF p, b, s, w, f
  <2>5. InterfaceStart(l, i + 1) = s + Len(b)
    BY <2>1, <2>2, <2>3, <2>4
  <2> QED BY <2>1, <2>2, <2>3, <2>4, <2>5
<1>6. \A c \in Nat : ChildStart(l, i, c) = s + f.length + q[c + 1]
  BY DEF ChildStart
<1> HIDE DEF f, m, q, b, w, s
<1>n. f.length \in Nat /\ s \in Nat
  BY <1>3, <1>5
<1>7. ASSUME NEW c \in 0 .. m
      PROVE  q[c + 1] \in Nat /\ ChildStart(l, i, c) \in Nat
  <2>1. c \in Nat /\ c + 1 \in 1 .. m + 1
    BY <1>3
  <2>2. q[c + 1] \in Nat
    BY <1>3, <2>1
  <2>3. ChildStart(l, i, c) = s + f.length + q[c + 1]
    BY <1>6, <2>1
  <2> QED BY <1>n, <2>2, <2>3
<1>8. ChildStart(l, i, 0) = s + f.length /\ ChildStart(l, i, m) = InterfaceStart(l, i + 1)
  <2>1. 0 \in 0 .. m /\ m \in 0 .. m /\ 0 + 1 = 1
    BY <1>3
  <2>2. ChildStart(l, i, 0) = s + f.length + q[1] /\ q[1] = 0
    BY <1>3, <1>6, <2>1
  <2>3. ChildStart(l, i, m) = s + f.length + q[m + 1] /\ q[m + 1] \in Nat
    BY <1>3, <1>6, <1>7, <2>1
  <2> QED BY <1>3, <1>5, <2>2, <2>3
<1>9. ASSUME NEW c \in 0 .. m - 1
      PROVE  /\ f.children[c + 1] \in Nat
             /\ ChildStart(l, i, c + 1) = ChildStart(l, i, c) + f.children[c + 1]
  <2>1. c + 1 \in 1 .. m
    BY <1>3
  <2>2. f.children[c + 1] \in Nat
    BY <1>3, <2>1, ElementOfSeq DEF m
  <2>3. q[(c + 1) + 1] = q[c + 1] + f.children[c + 1]
    BY <1>3, <2>1
  <2>4. c \in 0 .. m /\ c \in Nat /\ c + 1 \in Nat
    BY <1>3
  <2>5. /\ ChildStart(l, i, c) = s + f.length + q[c + 1]
        /\ ChildStart(l, i, c + 1) = s + f.length + q[(c + 1) + 1]
    BY <1>6, <2>4
  <2>6. q[c + 1] \in Nat
    BY <1>7, <2>4
  <2> QED BY <1>n, <2>2, <2>3, <2>5, <2>6
<1>10. ASSUME NEW j \in 1 .. f.length
       PROVE  /\ s + j \in 1 .. Len(w)
              /\ w[s + j] = [desc |-> InterfaceDescriptor(i), offset |-> j - 1]
  BY <1>4, <1>5
<1>11. ASSUME NEW c \in 0 .. m - 1, NEW j \in 1 .. f.children[c + 1]
       PROVE  /\ ChildStart(l, i, c) + j \in 1 .. Len(w)
              /\ w[ChildStart(l, i, c) + j] = [desc |-> ChildDescriptor(i, c), offset |-> j - 1]
  <2>1. c + 1 \in 1 .. m /\ (c + 1) - 1 = c
    BY <1>3
  <2>2. f.length + q[c + 1] + j \in 1 .. Len(b)
        /\ b[f.length + q[c + 1] + j] = [desc |-> ChildDescriptor(i, c), offset |-> j - 1]
    BY <1>4, <2>1
  <2>3. ChildStart(l, i, c) + j = s + (f.length + q[c + 1] + j)
    <3>1. c \in 0 .. m /\ c \in Nat
      BY <1>3
    <3>2. f.children[c + 1] \in Nat
      BY <1>9
    <3>3. j \in Nat
      BY <3>2
    <3>4. q[c + 1] \in Nat
      BY <1>7, <3>1
    <3>5. ChildStart(l, i, c) = s + f.length + q[c + 1]
      BY <1>6, <3>1
    <3> QED BY <1>n, <3>3, <3>4, <3>5
  <2> QED BY <1>5, <2>2, <2>3
<1>12. /\ f.length \in Nat /\ f.children \in Seq(Nat) /\ m \in Nat
       /\ \A c \in 0 .. m : ChildStart(l, i, c) \in Nat
  BY <1>3, <1>7
<1> QED BY <1>8, <1>9, <1>10, <1>11, <1>12, Zenon DEF f, m, w, s

-----------------------------------------------------------------------------
(* The cursor of the stream, and the number k of bytes before it.  At the  *)
(* largest child index the walk is at the configuration descriptor; so no  *)
(* interface may have that many children (ChildrenFit).                    *)
ChildrenFit(l) == \A i \in 1 .. Len(l.interfaces) :
                     Len(l.interfaces[i].children) < ChildSentinel

AtConfig(l, s, k) ==
    /\ s.desc = ConfigDescriptor /\ s.interface = 0 /\ s.child = ChildSentinel
    /\ k = s.offset
    /\ s.offset + s.remaining = l.config

AtInterface(l, s, k) ==
    /\ s.interface < Interfaces(l) /\ s.child = 0
    /\ s.desc = InterfaceDescriptor(s.interface)
    /\ k = InterfaceStart(l, s.interface) + s.offset
    /\ s.offset + s.remaining = l.interfaces[s.interface + 1].length

AtChild(l, s, k) ==
    /\ s.interface < Interfaces(l)
    /\ s.child \in 1 .. Len(l.interfaces[s.interface + 1].children)
    /\ s.desc = ChildDescriptor(s.interface, s.child - 1)
    /\ k = ChildStart(l, s.interface, s.child - 1) + s.offset
    /\ s.offset + s.remaining = l.interfaces[s.interface + 1].children[s.child]

AtEnd(l, s, k) == s.desc = NoDescriptor /\ k = Len(Whole(l))

At(l, s, k) == AtConfig(l, s, k) \/ AtInterface(l, s, k) \/ AtChild(l, s, k) \/ AtEnd(l, s, k)

LEMMA StreamNumbers ==
    ASSUME NEW s \in Stream
    PROVE  /\ s.offset \in Nat /\ s.remaining \in Nat
           /\ s.request_remaining \in Nat /\ s.total_remaining \in Nat
           /\ s.interface \in 0 .. LastInterface /\ s.interface \in Nat
           /\ s.child \in 0 .. ChildSentinel /\ s.child \in Nat
BY StreamAssumption DEF Stream

LEMMA OpenAt ==
    ASSUME NEW l \in Layout, NEW w \in Nat
    PROVE  At(l, OpenStream(l, w), 0)
BY DEF At, AtConfig, OpenStream, Layout

(* The bytes that the cursor points to are the next ones of the whole.     *)
LEMMA BytesAt ==
    ASSUME NEW l \in Layout, NEW s \in Stream, NEW k \in Nat,
           At(l, s, k), s.desc # NoDescriptor,
           NEW j \in 1 .. s.remaining
    PROVE  /\ k + j \in 1 .. Len(Whole(l))
           /\ Whole(l)[k + j] = [desc |-> s.desc, offset |-> s.offset + j - 1]
<1>1. /\ s.offset \in Nat /\ s.remaining \in Nat
      /\ s.interface \in Nat /\ s.child \in Nat /\ j \in Nat
  BY StreamNumbers
<1> DEFINE w == Whole(l)
           i == s.interface
           f == l.interfaces[i + 1]
<1>2. CASE AtConfig(l, s, k)
  <2>1. s.offset + j \in 1 .. l.config /\ k + j = s.offset + j /\ s.desc = ConfigDescriptor
    BY <1>1, <1>2 DEF AtConfig
  <2>2. \A m \in 1 .. l.config :
            m \in 1 .. Len(w) /\ w[m] = [desc |-> ConfigDescriptor, offset |-> m - 1]
    BY WholeMap, Zenon
  <2> DEFINE m == s.offset + j
  <2>3. m \in 1 .. Len(w) /\ w[m] = [desc |-> ConfigDescriptor, offset |-> m - 1]
    <3>1. m \in 1 .. l.config
      BY <2>1
    <3> HIDE DEF m, w
    <3> QED BY <2>2, <3>1
  <2>4. m - 1 = s.offset + j - 1
    BY <1>1
  <2> HIDE DEF m
  <2> QED BY <2>1, <2>3, <2>4 DEF m
<1>3. CASE AtInterface(l, s, k)
  <2>1. /\ i < Interfaces(l) /\ s.desc = InterfaceDescriptor(i)
        /\ k = InterfaceStart(l, i) + s.offset /\ s.offset + s.remaining = f.length
    BY <1>3 DEF AtInterface
  <2>2. /\ InterfaceStart(l, i) \in Nat
        /\ \A m \in 1 .. f.length :
              /\ InterfaceStart(l, i) + m \in 1 .. Len(w)
              /\ w[InterfaceStart(l, i) + m] = [desc |-> InterfaceDescriptor(i), offset |-> m - 1]
    <3>1. i \in 0 .. Interfaces(l)
      BY <1>1, <2>1, InterfacesAre
    <3> QED BY <1>1, <2>1, <3>1, InterfaceAt, Starts, Zenon
  <2> HIDE DEF w, i, f
  <2>3. s.offset + j \in 1 .. f.length
    BY <1>1, <2>1
  <2>4. InterfaceStart(l, i) + (s.offset + j) = k + j
    BY <1>1, <2>1, <2>2
  <2>5. k + j \in 1 .. Len(w) /\ w[k + j] = [desc |-> InterfaceDescriptor(i), offset |-> s.offset + j - 1]
    <3> DEFINE m == s.offset + j
    <3>1. m \in 1 .. f.length /\ InterfaceStart(l, i) + m = k + j
      BY <2>3, <2>4
    <3> HIDE DEF m
    <3>2. /\ InterfaceStart(l, i) + m \in 1 .. Len(w)
          /\ w[InterfaceStart(l, i) + m] = [desc |-> InterfaceDescriptor(i), offset |-> m - 1]
      BY <2>2, <3>1
    <3>3. k + j \in 1 .. Len(w) /\ w[k + j] = [desc |-> InterfaceDescriptor(i), offset |-> m - 1]
      BY <3>1, <3>2
    <3>4. m - 1 = s.offset + j - 1
      BY <1>1 DEF m
    <3> QED BY <3>3, <3>4
  <2> QED BY <2>1, <2>5 DEF w
<1>4. CASE AtChild(l, s, k)
  <2> DEFINE c == s.child - 1
  <2>1. /\ i < Interfaces(l) /\ s.child \in 1 .. Len(f.children) /\ s.desc = ChildDescriptor(i, c)
        /\ k = ChildStart(l, i, c) + s.offset /\ s.offset + s.remaining = f.children[s.child]
    BY <1>4 DEF AtChild
  <2>2. /\ Len(f.children) \in Nat
        /\ \A n \in 0 .. Len(f.children) : ChildStart(l, i, n) \in Nat
        /\ \A n \in 0 .. Len(f.children) - 1 : \A m \in 1 .. f.children[n + 1] :
              /\ ChildStart(l, i, n) + m \in 1 .. Len(w)
              /\ w[ChildStart(l, i, n) + m] = [desc |-> ChildDescriptor(i, n), offset |-> m - 1]
    BY <1>1, <2>1, InterfaceAt, Zenon
  <2>3. c \in 0 .. Len(f.children) - 1 /\ c \in 0 .. Len(f.children) /\ c + 1 = s.child
    <3> DEFINE m == Len(f.children)
    <3>1. m \in Nat /\ s.child \in 1 .. m
      BY <2>1, <2>2
    <3> HIDE DEF m
    <3>2. c \in 0 .. m - 1 /\ c \in 0 .. m /\ c + 1 = s.child
      BY <3>1
    <3> QED BY <3>2 DEF m
  <2> HIDE DEF w, i, f, c
  <2>4. s.offset + j \in 1 .. f.children[c + 1]
    <3>1. s.offset + s.remaining = f.children[c + 1]
      BY <2>1, <2>3
    <3> QED BY <1>1, <3>1
  <2>5. ChildStart(l, i, c) + (s.offset + j) = k + j
    <3>1. ChildStart(l, i, c) \in Nat /\ k = ChildStart(l, i, c) + s.offset
      BY <2>1, <2>2, <2>3
    <3> QED BY <1>1, <3>1
  <2>6. k + j \in 1 .. Len(w) /\ w[k + j] = [desc |-> ChildDescriptor(i, c), offset |-> s.offset + j - 1]
    <3> DEFINE m == s.offset + j
    <3>1. m \in 1 .. f.children[c + 1] /\ ChildStart(l, i, c) + m = k + j
      BY <2>4, <2>5
    <3> HIDE DEF m
    <3>2. /\ ChildStart(l, i, c) + m \in 1 .. Len(w)
          /\ w[ChildStart(l, i, c) + m] = [desc |-> ChildDescriptor(i, c), offset |-> m - 1]
      BY <2>2, <2>3, <3>1
    <3>3. k + j \in 1 .. Len(w) /\ w[k + j] = [desc |-> ChildDescriptor(i, c), offset |-> m - 1]
      BY <3>1, <3>2
    <3>4. m - 1 = s.offset + j - 1
      BY <1>1 DEF m
    <3> QED BY <3>3, <3>4
  <2> QED BY <2>1, <2>6 DEF w
<1> QED BY <1>2, <1>3, <1>4 DEF At, AtEnd

(* At the end of a descriptor, its successor comes next.                   *)
LEMMA InterfaceNext ==
    ASSUME NEW l \in Layout, NEW s \in Stream, NEW k \in Nat,
           s.interface <= Interfaces(l), k = InterfaceStart(l, s.interface),
           s.interface < Len(l.interfaces) => s.interface < Interfaces(l)
    PROVE  At(l, MoveToInterface(l, s), k)
<1>1. s.interface \in Nat /\ Interfaces(l) \in Nat /\ Len(l.interfaces) \in Nat
      /\ Interfaces(l) <= Len(l.interfaces)
  BY StreamNumbers, InterfacesAre
<1>2. CASE s.interface < Len(l.interfaces)
  <2> DEFINE t == PointTo(s, InterfaceDescriptor(s.interface), l.interfaces[s.interface + 1].length, 0)
  <2>1. MoveToInterface(l, s) = t
    BY <1>2 DEF MoveToInterface
  <2>2. /\ t.interface = s.interface /\ t.child = 0 /\ t.offset = 0
        /\ t.desc = InterfaceDescriptor(s.interface)
        /\ t.remaining = l.interfaces[s.interface + 1].length
    BY DEF PointTo
  <2>3. InterfaceStart(l, s.interface) \in Nat /\ l.interfaces[s.interface + 1].length \in Nat
    BY <1>1, <1>2, InterfaceAt, Zenon
  <2> HIDE DEF t
  <2>4. AtInterface(l, t, k)
    BY <1>2, <2>2, <2>3 DEF AtInterface
  <2> QED BY <2>1, <2>4 DEF At
<1>3. CASE ~(s.interface < Len(l.interfaces))
  <2>1. s.interface = Interfaces(l)
    BY <1>1, <1>3
  <2>2. MoveToInterface(l, s) = End(s) /\ End(s).desc = NoDescriptor
    BY <1>3 DEF MoveToInterface, End, Stream
  <2>3. k = Len(Whole(l))
    BY <2>1, Starts
  <2> QED BY <2>2, <2>3 DEF At, AtEnd
<1> QED BY <1>2, <1>3

LEMMA EndOfDescriptor ==
    ASSUME NEW l \in Layout, ChildrenFit(l), NEW s \in Stream, NEW k \in Nat,
           AtInterface(l, s, k) \/ AtChild(l, s, k), s.remaining = 0
    PROVE  /\ s.interface < Interfaces(l)
           /\ s.child <= Len(l.interfaces[s.interface + 1].children)
           /\ s.child # ChildSentinel
           /\ k = ChildStart(l, s.interface, s.child)
<1> DEFINE i == s.interface
           f == l.interfaces[i + 1]
           m == Len(f.children)
<1>1. /\ s.offset \in Nat /\ s.remaining \in Nat /\ i \in Nat /\ s.child \in Nat
      /\ s.offset + s.remaining = s.offset
  BY StreamNumbers
<1>2. i < Interfaces(l)
  BY DEF AtInterface, AtChild
<1>3. m \in Nat /\ m < ChildSentinel
  <2>1. i + 1 \in 1 .. Len(l.interfaces)
    BY <1>1, <1>2, InterfacesAre
  <2>2. m < ChildSentinel
    BY <2>1 DEF ChildrenFit
  <2>3. m \in Nat
    BY <1>1, <1>2, InterfaceAt, Zenon
  <2> QED BY <2>2, <2>3
<1>4. /\ ChildStart(l, i, 0) = InterfaceStart(l, i) + f.length
      /\ \A c \in 0 .. m - 1 : ChildStart(l, i, c + 1) = ChildStart(l, i, c) + f.children[c + 1]
  <2>1. /\ ChildStart(l, i, 0) = InterfaceStart(l, i) + f.length
        /\ \A c \in 0 .. m - 1 : /\ f.children[c + 1] \in Nat
                                 /\ ChildStart(l, i, c + 1) = ChildStart(l, i, c) + f.children[c + 1]
    BY <1>1, <1>2, InterfaceAt, ZenonT(30)
  <2> HIDE DEF m, f
  <2> QED BY <2>1, Zenon
<1> HIDE DEF m
<1>5. CASE AtInterface(l, s, k)
  <2>1. s.child = 0 /\ k = InterfaceStart(l, i) + s.offset /\ s.offset = f.length
    BY <1>1, <1>5 DEF AtInterface
  <2>2. k = ChildStart(l, i, s.child)
    BY <1>4, <2>1
  <2> QED BY <1>2, <1>3, <2>1, <2>2, StreamAssumption DEF m
<1>6. CASE AtChild(l, s, k)
  <2> DEFINE c == s.child - 1
  <2>1. s.child \in 1 .. m /\ k = ChildStart(l, i, c) + s.offset /\ s.offset = f.children[s.child]
    BY <1>1, <1>6 DEF AtChild, m
  <2>2. c \in 0 .. m - 1 /\ c + 1 = s.child
    BY <1>3, <2>1
  <2>3. s.child <= m /\ s.child # ChildSentinel
    BY <1>3, <2>1, StreamAssumption
  <2> HIDE DEF c, f
  <2>4. k = ChildStart(l, i, c + 1)
    BY <1>4, <2>1, <2>2
  <2> QED BY <1>2, <2>2, <2>3, <2>4 DEF m, f
<1> QED BY <1>5, <1>6

LEMMA ChildNext ==
    ASSUME NEW l \in Layout, NEW s \in Stream, NEW k \in Nat,
           s.interface < Interfaces(l), HasChild(l, s),
           k = ChildStart(l, s.interface, s.child)
    PROVE  At(l, MoveToChild(l, s), k)
<1> DEFINE i == s.interface
           f == l.interfaces[i + 1]
           t == MoveToChild(l, s)
<1>1. i \in Nat /\ s.child \in Nat
  BY StreamNumbers
<1>2. /\ t.desc = ChildDescriptor(i, s.child) /\ t.offset = 0
      /\ t.remaining = f.children[s.child + 1]
      /\ t.interface = i /\ t.child = s.child + 1
  BY DEF MoveToChild, PointTo
<1>3. /\ Len(f.children) \in Nat
      /\ \A c \in 0 .. Len(f.children) - 1 : f.children[c + 1] \in Nat
      /\ \A c \in 0 .. Len(f.children) : ChildStart(l, i, c) \in Nat
  BY <1>1, InterfaceAt, Zenon
<1>4. s.child < Len(f.children)
  BY DEF HasChild
<1> HIDE DEF f, t
<1>5. /\ s.child \in 0 .. Len(f.children) - 1 /\ s.child \in 0 .. Len(f.children)
      /\ s.child + 1 \in 1 .. Len(f.children) /\ (s.child + 1) - 1 = s.child
  BY <1>1, <1>3, <1>4
<1>6. /\ f.children[s.child + 1] \in Nat /\ ChildStart(l, i, s.child) \in Nat
      /\ k = ChildStart(l, i, s.child) + 0
  <2>1. f.children[s.child + 1] \in Nat /\ ChildStart(l, i, s.child) \in Nat
    BY <1>3, <1>5, Zenon
  <2> QED BY <2>1
<1>7. 0 + f.children[s.child + 1] = f.children[s.child + 1]
  BY <1>6
<1>8. t.interface < Interfaces(l) /\ t.child \in 1 .. Len(l.interfaces[t.interface + 1].children)
  BY <1>2, <1>5 DEF f
<1>9. t.desc = ChildDescriptor(t.interface, t.child - 1)
  BY <1>2, <1>5
<1>10. k = ChildStart(l, t.interface, t.child - 1) + t.offset
  BY <1>2, <1>5, <1>6
<1>11. t.offset + t.remaining = l.interfaces[t.interface + 1].children[t.child]
  BY <1>2, <1>7 DEF f
<1>12. AtChild(l, t, k)
  BY <1>8, <1>9, <1>10, <1>11 DEF AtChild
<1> QED BY <1>12 DEF At, t

LEMMA NextAt ==
    ASSUME NEW l \in Layout, ChildrenFit(l), NEW s \in Stream, NEW k \in Nat,
           At(l, s, k), s.desc # NoDescriptor, s.remaining = 0
    PROVE  At(l, MoveToNextDescriptor(l, s), k)
<1>1. /\ s.interface \in Nat /\ s.interface <= LastInterface /\ s.child \in Nat
      /\ Interfaces(l) \in Nat /\ Len(l.interfaces) \in Nat
      /\ Interfaces(l) <= Len(l.interfaces) /\ Interfaces(l) <= LastInterface + 1
      /\ Interfaces(l) = Len(l.interfaces) \/ Interfaces(l) = LastInterface + 1
      /\ LastInterface \in Nat
  BY StreamNumbers, InterfacesAre, StreamAssumption
<1>2. CASE AtConfig(l, s, k)
  <2>1. s.interface = 0 /\ s.child = ChildSentinel /\ k = l.config
    BY <1>2, StreamNumbers DEF AtConfig
  <2>2. /\ s.interface <= Interfaces(l) /\ k = InterfaceStart(l, s.interface)
        /\ s.interface < Len(l.interfaces) => s.interface < Interfaces(l)
    BY <1>1, <2>1, Starts
  <2>3. MoveToNextDescriptor(l, s) = MoveToInterface(l, s)
    BY <2>1 DEF MoveToNextDescriptor
  <2> QED BY <2>2, <2>3, InterfaceNext
<1>3. CASE AtInterface(l, s, k) \/ AtChild(l, s, k)
  <2> DEFINE m == Len(l.interfaces[s.interface + 1].children)
  <2>1. /\ s.interface < Interfaces(l) /\ s.child <= m
        /\ s.child # ChildSentinel /\ k = ChildStart(l, s.interface, s.child)
    BY <1>3, EndOfDescriptor
  <2>2. m \in Nat /\ ChildStart(l, s.interface, m) = InterfaceStart(l, s.interface + 1)
    BY <1>1, <2>1, InterfaceAt, ZenonT(30)
  <2>3. CASE HasChild(l, s)
    <3>1. MoveToNextDescriptor(l, s) = MoveToChild(l, s)
      BY <2>1, <2>3 DEF MoveToNextDescriptor
    <3>2. At(l, MoveToChild(l, s), k)
      BY <2>1, <2>3, ChildNext, Zenon
    <3> QED BY <3>1, <3>2
  <2>4. CASE ~HasChild(l, s)
    <3>1. s.child = m
      <4>1. s.interface < Len(l.interfaces) => ~(s.child < m)
        BY <2>4 DEF HasChild
      <4>2. s.interface < Len(l.interfaces) /\ s.child \in Nat
        BY <1>1, <2>1
      <4> HIDE DEF m
      <4> QED BY <2>1, <2>2, <4>1, <4>2
    <3>2. k = InterfaceStart(l, s.interface + 1)
      BY <2>1, <2>2, <3>1
    <3>3. CASE s.interface = LastInterface
      <4>1. MoveToNextDescriptor(l, s) = End(s) /\ End(s).desc = NoDescriptor
        BY <2>1, <2>4, <3>3 DEF MoveToNextDescriptor, End, Stream
      <4>2. s.interface + 1 = Interfaces(l)
        BY <1>1, <2>1, <3>3
      <4>3. k = Len(Whole(l))
        BY <3>2, <4>2, Starts
      <4> QED BY <4>1, <4>3 DEF At, AtEnd
    <3>4. CASE s.interface # LastInterface
      <4> DEFINE t == [s EXCEPT !.interface = s.interface + 1]
      <4>1. t \in Stream /\ t.interface = s.interface + 1
        <5>1. s.interface + 1 \in 0 .. LastInterface
          BY <1>1, <3>4, StreamAssumption DEF Stream
        <5> QED BY <5>1 DEF Stream
      <4>2. MoveToNextDescriptor(l, s) = MoveToInterface(l, t)
        BY <2>1, <2>4, <3>4 DEF MoveToNextDescriptor
      <4> HIDE DEF t
      <4>3. /\ t.interface <= Interfaces(l)
            /\ t.interface < Len(l.interfaces) => t.interface < Interfaces(l)
        BY <1>1, <2>1, <3>4, <4>1
      <4> QED BY <3>2, <4>1, <4>2, <4>3, InterfaceNext
    <3> QED BY <3>3, <3>4
  <2> QED BY <2>3, <2>4
<1> QED BY <1>2, <1>3 DEF At, AtEnd

LEMMA CopyAt ==
    ASSUME NEW l \in Layout, NEW s \in Stream, NEW k \in Nat, At(l, s, k), s.desc # NoDescriptor,
           NEW n \in Nat, n <= s.remaining
    PROVE  At(l, CopyChunk(s, n), k + n) /\ CopyChunk(s, n).desc # NoDescriptor
<1> DEFINE t == CopyChunk(s, n)
<1>1. /\ t.desc = s.desc /\ t.interface = s.interface /\ t.child = s.child
      /\ t.offset = s.offset + n /\ t.remaining = s.remaining - n
  BY DEF CopyChunk
<1>2. s.offset \in Nat /\ s.remaining \in Nat /\ s.interface \in Nat /\ s.child \in Nat
  BY StreamNumbers
<1> HIDE DEF t
<1>3. t.offset + t.remaining = s.offset + s.remaining
  BY <1>1, <1>2
<1>4. CASE AtConfig(l, s, k)
  BY <1>1, <1>2, <1>3, <1>4 DEF At, AtConfig, t
<1>5. CASE AtInterface(l, s, k)
  <2>1. InterfaceStart(l, s.interface) \in Nat
    <3>1. s.interface \in 0 .. Interfaces(l)
      BY <1>2, <1>5, InterfacesAre DEF AtInterface
    <3> QED BY <3>1, Starts
  <2>2. k + n = InterfaceStart(l, s.interface) + t.offset
    BY <1>1, <1>2, <1>5, <2>1 DEF AtInterface
  <2>3. AtInterface(l, t, k + n)
    BY <1>1, <1>3, <1>5, <2>2 DEF AtInterface
  <2> QED BY <1>1, <2>3 DEF At, t
<1>6. CASE AtChild(l, s, k)
  <2> DEFINE x == ChildStart(l, s.interface, s.child - 1)
  <2>1. x \in Nat
    <3> DEFINE m == Len(l.interfaces[s.interface + 1].children)
    <3>1. m \in Nat /\ \A c \in 0 .. m : ChildStart(l, s.interface, c) \in Nat
      BY <1>2, <1>6, InterfaceAt, Zenon DEF AtChild
    <3>2. s.child \in 1 .. m
      BY <1>6 DEF AtChild
    <3> HIDE DEF m
    <3> QED BY <3>1, <3>2
  <2>2. k = x + s.offset
    BY <1>6 DEF AtChild
  <2> HIDE DEF x
  <2>3. k + n = x + t.offset
    BY <1>1, <1>2, <2>1, <2>2
  <2>4. AtChild(l, t, k + n)
    BY <1>1, <1>3, <1>6, <2>3 DEF AtChild, x
  <2> QED BY <1>1, <2>4 DEF At, t
<1> QED BY <1>4, <1>5, <1>6 DEF At, AtEnd

(* An iteration of the loop keeps the cursor where the count of bytes says.*)
THEOREM AdvanceAt ==
    ASSUME NEW l \in Layout, ChildrenFit(l), NEW s \in Stream, NEW k \in Nat,
           At(l, s, k), s.desc # NoDescriptor, NEW n \in Nat,
           n <= s.remaining, n <= s.request_remaining, n <= s.total_remaining
    PROVE  At(l, Advance(l, s, n), k + n)
<1> DEFINE c == CopyChunk(s, n)
<1>1. c \in Stream /\ At(l, c, k + n) /\ c.desc # NoDescriptor
  BY CopyAt, CopyChunkType
<1>2. \/ Advance(l, s, n) = c
      \/ c.remaining = 0 /\ Advance(l, s, n) = MoveToNextDescriptor(l, c)
  BY DEF Advance
<1>3. k + n \in Nat
  OBVIOUS
<1> HIDE DEF c
<1> QED BY <1>1, <1>2, <1>3, NextAt

-----------------------------------------------------------------------------
(* The walk against the answer: what the host should read of a request for *)
(* w bytes.                                                                *)
ConfigurationAnswer(l, w) == Upto(ConfigurationBytes(l), w)

(* k bytes of the answer are copied, and the counters say so.              *)
Walks(l, s, w, k) ==
    /\ At(l, s, k)
    /\ s.request_remaining + k = w
    /\ s.total_remaining + k = l.total
    /\ k <= Len(ConfigurationAnswer(l, w))

LEMMA UptoIs ==
    ASSUME NEW S, NEW q \in Seq(S), NEW n \in Nat
    PROVE  /\ Upto(q, n) \in Seq(S)
           /\ Len(Upto(q, n)) = Least(Len(q), n)
           /\ \A j \in 1 .. Len(Upto(q, n)) : j \in 1 .. Len(q) /\ Upto(q, n)[j] = q[j]
<1> DEFINE m == Least(Len(q), n)
<1>1. Len(q) \in Nat /\ m \in Nat /\ m <= Len(q)
  <2>1. Len(q) \in Nat
    OBVIOUS
  <2> QED BY <2>1, LeastIs
<1>2. Upto(q, n) = SubSeq(q, 1, m)
  BY DEF Upto
<1> HIDE DEF m
<1>3. 1 .. m \subseteq 1 .. Len(q)
  BY <1>1
<1>4. SubSeq(q, 1, m) \in Seq(S) /\ Len(SubSeq(q, 1, m)) = m
      /\ \A j \in 1 .. m : SubSeq(q, 1, m)[j] = q[j]
  BY <1>1, <1>3
<1> QED BY <1>2, <1>3, <1>4 DEF m

LEMMA AnswerIs ==
    ASSUME NEW l \in Layout, NEW w \in Nat
    PROVE  LET a == ConfigurationAnswer(l, w) IN
           /\ a \in Seq(DescriptorByte) /\ Len(a) \in Nat
           /\ Len(a) <= Len(Whole(l)) /\ Len(a) <= l.total /\ Len(a) <= w
           /\ Len(a) = Len(Whole(l)) \/ Len(a) = l.total \/ Len(a) = w
           /\ \A j \in 1 .. Len(a) : a[j] = Whole(l)[j]
<1> DEFINE b == Upto(Whole(l), l.total)
           a == Upto(b, w)
<1>1. Whole(l) \in Seq(DescriptorByte) /\ l.total \in Nat
  BY WholeMap, Zenon DEF Layout
<1>2. /\ b \in Seq(DescriptorByte) /\ Len(b) = Least(Len(Whole(l)), l.total)
      /\ \A j \in 1 .. Len(b) : j \in 1 .. Len(Whole(l)) /\ b[j] = Whole(l)[j]
  BY <1>1, UptoIs
<1>3. ConfigurationAnswer(l, w) = a
  BY DEF ConfigurationAnswer, ConfigurationBytes, Whole, InterfaceSeq, Interfaces
<1> HIDE DEF b
<1>4. /\ a \in Seq(DescriptorByte) /\ Len(a) = Least(Len(b), w)
      /\ \A j \in 1 .. Len(a) : j \in 1 .. Len(b) /\ a[j] = b[j]
  BY <1>2, UptoIs
<1> HIDE DEF a
<1>5. Len(a) \in Nat /\ Len(b) \in Nat /\ Len(Whole(l)) \in Nat
  BY <1>1, <1>2, <1>4
<1>6. /\ Len(a) <= Len(Whole(l)) /\ Len(a) <= l.total /\ Len(a) <= w
      /\ Len(a) = Len(Whole(l)) \/ Len(a) = l.total \/ Len(a) = w
  <2> DEFINE x == Len(a)
             y == Len(b)
             z == Len(Whole(l))
  <2>1. x \in Nat /\ y \in Nat /\ z \in Nat /\ x = Least(y, w) /\ y = Least(z, l.total)
    BY <1>2, <1>4, <1>5
  <2> HIDE DEF x, y, z
  <2>2. x <= z /\ x <= l.total /\ x <= w /\ (x = z \/ x = l.total \/ x = w)
    BY <1>1, <2>1 DEF Least
  <2> QED BY <2>2 DEF x, z
<1>7. \A j \in 1 .. Len(a) : a[j] = Whole(l)[j]
  BY <1>2, <1>4
<1> QED BY <1>3, <1>4, <1>5, <1>6, <1>7

LEMMA OpenWalks ==
    ASSUME NEW l \in Layout, NEW w \in Nat
    PROVE  Walks(l, OpenStream(l, w), w, 0)
<1>1. l.total \in Nat
  BY DEF Layout
<1>2. OpenStream(l, w).request_remaining = w /\ OpenStream(l, w).total_remaining = l.total
  BY DEF OpenStream
<1>3. 0 <= Len(ConfigurationAnswer(l, w))
  BY AnswerIs
<1> QED BY <1>1, <1>2, <1>3, OpenAt DEF Walks

LEMMA AdvanceTotal ==
    ASSUME NEW l, NEW s \in Stream, NEW n
    PROVE  Advance(l, s, n).total_remaining = s.total_remaining - n
<1> DEFINE c == CopyChunk(s, n)
<1>1. c.total_remaining = s.total_remaining - n
  BY DEF CopyChunk
<1>2. End(c).total_remaining = c.total_remaining
  BY DEF End, CopyChunk
<1>3. \A t, d, r, x : PointTo(t, d, r, x).total_remaining = t.total_remaining
  BY DEF PointTo
<1>4. [c EXCEPT !.interface = c.interface + 1].total_remaining = c.total_remaining
      /\ End([c EXCEPT !.interface = c.interface + 1]).total_remaining = c.total_remaining
  BY DEF CopyChunk, End
<1>5. MoveToNextDescriptor(l, c).total_remaining = c.total_remaining
  <2> HIDE DEF c
  <2> DEFINE t == [c EXCEPT !.interface = c.interface + 1]
  <2>1. t.total_remaining = c.total_remaining /\ End(t).total_remaining = c.total_remaining
    BY <1>4
  <2>2. MoveToNextDescriptor(l, c) = IF c.child = ChildSentinel THEN MoveToInterface(l, c)
             ELSE IF HasChild(l, c) THEN MoveToChild(l, c)
             ELSE IF c.interface = LastInterface THEN End(c)
             ELSE MoveToInterface(l, t)
    BY DEF MoveToNextDescriptor
  <2> HIDE DEF t
  <2>3. MoveToInterface(l, c).total_remaining = c.total_remaining
    BY <1>2, <1>3 DEF MoveToInterface
  <2>4. MoveToInterface(l, t).total_remaining = c.total_remaining
    BY <1>3, <2>1 DEF MoveToInterface
  <2>5. MoveToChild(l, c).total_remaining = c.total_remaining
    BY <1>3 DEF MoveToChild
  <2> QED BY <1>2, <2>2, <2>3, <2>4, <2>5
<1> HIDE DEF c
<1> QED BY <1>1, <1>5 DEF Advance, c

(* An iteration of the loop copies the next bytes of the answer.           *)
THEOREM ChunkWalks ==
    ASSUME NEW l \in Layout, ChildrenFit(l), NEW s \in Stream, NEW k \in Nat, NEW w \in Nat,
           Walks(l, s, w, k), NEW filled \in 0 .. BufSize, LoopContinues(s, filled)
    PROVE  LET n == ChunkSize(s, filled) IN
           /\ n \in Nat /\ filled + n <= BufSize
           /\ Advance(l, s, n) \in Stream
           /\ Walks(l, Advance(l, s, n), w, k + n)
           /\ \A j \in 1 .. n :
                 ConfigurationAnswer(l, w)[k + j] = [desc |-> s.desc, offset |-> s.offset + j - 1]
<1> DEFINE n == ChunkSize(s, filled)
           a == ConfigurationAnswer(l, w)
           t == Advance(l, s, n)
<1>1. /\ n \in Nat /\ n <= s.remaining /\ n <= BufSize - filled
      /\ n <= s.request_remaining /\ n <= s.total_remaining
  BY ChunkFits
<1>2. /\ s.remaining \in Nat /\ s.request_remaining \in Nat /\ s.total_remaining \in Nat
      /\ l.total \in Nat /\ filled \in Nat /\ BufSize \in Nat
  BY StreamNumbers, StreamAssumption DEF Layout
<1>3. /\ At(l, s, k) /\ s.request_remaining + k = w /\ s.total_remaining + k = l.total
      /\ k <= Len(a) /\ s.desc # NoDescriptor
  BY DEF Walks, LoopContinues
<1> HIDE DEF n
<1>4. t \in Stream /\ t.request_remaining = s.request_remaining - n /\ At(l, t, k + n)
  BY <1>1, <1>3, AdvanceType, AdvanceAt
<1>5. t.total_remaining = s.total_remaining - n
  BY AdvanceTotal
<1>6. /\ Len(a) \in Nat
      /\ Len(a) = Len(Whole(l)) \/ Len(a) = l.total \/ Len(a) = w
      /\ \A j \in 1 .. Len(a) : a[j] = Whole(l)[j]
  BY AnswerIs
<1>7. \A j \in 1 .. n : /\ k + j \in 1 .. Len(Whole(l))
                        /\ Whole(l)[k + j] = [desc |-> s.desc, offset |-> s.offset + j - 1]
  <2>1. \A j \in 1 .. n : j \in 1 .. s.remaining
    BY <1>1, <1>2
  <2> QED BY <1>3, <2>1, BytesAt
<1> HIDE DEF a, t
<1>8. k + n <= Len(a)
  <2>1. CASE n = 0
    BY <1>3, <1>6, <2>1
  <2>2. CASE n # 0
    <3>1. n \in 1 .. n
      BY <1>1, <2>2
    <3>2. k + n \in 1 .. Len(Whole(l))
      BY <1>7, <3>1
    <3>3. k + n <= w /\ k + n <= l.total
      BY <1>1, <1>2, <1>3
    <3> QED BY <1>6, <3>2, <3>3
  <2> QED BY <2>1, <2>2
<1>9. ASSUME NEW j \in 1 .. n
      PROVE  a[k + j] = [desc |-> s.desc, offset |-> s.offset + j - 1]
  <2>1. k + j \in 1 .. Len(a)
    BY <1>1, <1>6, <1>8
  <2> QED BY <1>6, <1>7, <2>1
<1>10. t.request_remaining + (k + n) = w /\ t.total_remaining + (k + n) = l.total
  <2>1. /\ s.request_remaining + k = w /\ t.request_remaining = s.request_remaining - n
        /\ s.total_remaining + k = l.total /\ t.total_remaining = s.total_remaining - n
    BY <1>3, <1>4, <1>5
  <2> QED BY <1>1, <1>2, <2>1
<1>11. Walks(l, t, w, k + n)
  BY <1>4, <1>8, <1>10 DEF Walks, a
<1>12. filled + n <= BufSize
  BY <1>1, <1>2
<1> QED BY <1>1, <1>4, <1>9, <1>11, <1>12 DEF n, a, t

(* When the loop ends, the answer or the buffer is complete.               *)
THEOREM LoopEnds ==
    ASSUME NEW l \in Layout, NEW s \in Stream, NEW k \in Nat, NEW w \in Nat,
           Walks(l, s, w, k), NEW filled \in 0 .. BufSize, ~LoopContinues(s, filled)
    PROVE  k = Len(ConfigurationAnswer(l, w)) \/ filled = BufSize
<1> DEFINE a == ConfigurationAnswer(l, w)
<1>1. /\ s.request_remaining \in Nat /\ s.total_remaining \in Nat /\ l.total \in Nat
      /\ filled \in Nat /\ BufSize \in Nat /\ filled <= BufSize
  BY StreamNumbers, StreamAssumption DEF Layout
<1>2. /\ Len(a) \in Nat
      /\ Len(a) <= Len(Whole(l)) /\ Len(a) <= l.total /\ Len(a) <= w
  BY AnswerIs
<1>3. /\ At(l, s, k) /\ s.request_remaining + k = w /\ s.total_remaining + k = l.total
      /\ k <= Len(a)
  BY DEF Walks
<1>4. \/ s.desc = NoDescriptor \/ s.request_remaining = 0 \/ s.total_remaining = 0
      \/ filled = BufSize
  BY <1>1 DEF LoopContinues
<1>5. s.desc = NoDescriptor => k = Len(Whole(l))
  BY <1>3 DEF At, AtConfig, AtInterface, AtChild, AtEnd, NoDescriptor, ConfigDescriptor,
              InterfaceDescriptor, ChildDescriptor
<1>6. Len(Whole(l)) \in Nat
  <2>1. Whole(l) \in Seq(DescriptorByte)
    BY WholeMap, Zenon
  <2> QED BY <2>1
<1> HIDE DEF a
<1> QED BY <1>1, <1>2, <1>3, <1>4, <1>5, <1>6 DEF a
=============================================================================
