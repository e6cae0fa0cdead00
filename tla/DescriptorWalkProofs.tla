------------------------ MODULE DescriptorWalkProofs ------------------------
(***************************************************************************)
(* The walk through the descriptors implements PacketReader, for every     *)
(* buffer size, every width of the index fields, every set of layouts and  *)
(* all values of wLength, as long as no interface has as many children as  *)
(* the largest value of the child index, which the code uses as a mark.    *)
(*                                                                         *)
(* The invariant ties the cursor to the number of bytes copied so far      *)
(* (Walks, DescriptorStreamProofs.tla): by it the next chunk is the next   *)
(* bytes of the answer, and a call that stops short of a full packet has   *)
(* reached the end of the answer.                                          *)
(***************************************************************************)
EXTENDS DescriptorWalk, DescriptorStreamProofs

(* How many bytes are copied, and how many the request asked for.          *)
Copied == delivered + Len(filling)
Wanted == stream.request_remaining + Copied

WalkTypeOK ==
    /\ layout \in Layouts /\ stream \in Stream /\ delivered \in Nat
    /\ filling \in Seq(DescriptorByte) /\ Len(filling) <= BufSize

IInv == /\ WalkTypeOK
        /\ answer = ConfigurationAnswer(layout, Wanted)
        /\ Walks(layout, stream, Wanted, Copied)
        /\ \A j \in 1 .. Len(filling) : filling[j] = answer[delivered + j]

LEMMA InitInv == Init => IInv
<1> SUFFICES ASSUME Init PROVE IInv
  OBVIOUS
<1>1. PICK n \in RequestLength :
         stream = OpenStream(layout, n) /\ answer = Upto(ConfigurationBytes(layout), n)
  BY DEF Init
<1>2. /\ layout \in Layouts /\ layout \in Layout /\ n \in Nat
      /\ filling = <<>> /\ delivered = 0
  BY WalkAssumption DEF Init
<1>3. stream \in Stream /\ stream.request_remaining = n
  BY <1>1, <1>2, OpenStreamType
<1>4. filling \in Seq(DescriptorByte) /\ Len(filling) = 0
  BY <1>2
<1>5. Copied = 0 /\ Wanted = n
  BY <1>2, <1>3, <1>4 DEF Copied, Wanted
<1>6. Walks(layout, stream, Wanted, Copied)
  BY <1>1, <1>2, <1>5, OpenWalks
<1>7. answer = ConfigurationAnswer(layout, Wanted)
  BY <1>1, <1>5 DEF ConfigurationAnswer
<1>8. WalkTypeOK
  BY <1>2, <1>3, <1>4, StreamAssumption DEF WalkTypeOK
<1> QED BY <1>4, <1>6, <1>7, <1>8 DEF IInv

LEMMA Numbers ==
    ASSUME IInv
    PROVE  /\ layout \in Layout /\ stream.request_remaining \in Nat
           /\ Len(filling) \in Nat /\ Len(filling) \in 0 .. BufSize
           /\ delivered \in Nat /\ Copied \in Nat /\ Wanted \in Nat
           /\ BufSize \in Nat
<1>1. layout \in Layout /\ stream.request_remaining \in Nat /\ delivered \in Nat
  BY WalkAssumption, StreamNumbers DEF IInv, WalkTypeOK
<1>2. filling \in Seq(DescriptorByte) /\ Len(filling) <= BufSize /\ BufSize \in Nat
  BY StreamAssumption DEF IInv, WalkTypeOK
<1>3. Len(filling) \in Nat
  BY <1>2
<1> QED BY <1>1, <1>2, <1>3 DEF Copied, Wanted

LEMMA CopyInv ==
    ASSUME \A l \in Layouts : ChildrenFit(l), IInv, CopyNext
    PROVE  IInv'
<1> DEFINE n == ChunkSize(stream, Len(filling))
           b == [i \in 1 .. n |-> [desc |-> stream.desc, offset |-> stream.offset + i - 1]]
<1>1. /\ layout \in Layouts /\ layout \in Layout /\ ChildrenFit(layout) /\ stream \in Stream
      /\ Walks(layout, stream, Wanted, Copied)
      /\ filling \in Seq(DescriptorByte)
  BY Numbers DEF IInv, WalkTypeOK
<1>2. /\ LoopContinues(stream, Len(filling))
      /\ filling' = filling \o b /\ stream' = Advance(layout, stream, n)
      /\ answer' = answer /\ layout' = layout /\ delivered' = delivered
  BY DEF CopyNext
<1>3. /\ n \in Nat /\ Len(filling) + n <= BufSize
      /\ stream' \in Stream
      /\ Walks(layout, stream', Wanted, Copied + n)
      /\ \A j \in 1 .. n : ConfigurationAnswer(layout, Wanted)[Copied + j] =
                              [desc |-> stream.desc, offset |-> stream.offset + j - 1]
  BY <1>1, <1>2, Numbers, ChunkWalks
<1>4. b \in Seq(DescriptorByte) /\ Len(b) = n
      /\ \A j \in 1 .. n : b[j] = [desc |-> stream.desc, offset |-> stream.offset + j - 1]
  <2>1. n \in Nat /\ stream.desc \in Descriptor /\ stream.offset \in Nat
    BY <1>1, <1>3 DEF Stream
  <2>2. ASSUME NEW j \in 1 .. n
        PROVE  [desc |-> stream.desc, offset |-> stream.offset + j - 1] \in DescriptorByte
    <3>1. stream.offset + j - 1 \in Nat
      BY <2>1
    <3> QED BY <2>1, <3>1 DEF DescriptorByte
  <2> HIDE DEF n
  <2> QED BY <2>1, <2>2
<1> HIDE DEF n, b
<1>5. /\ filling' \in Seq(DescriptorByte) /\ Len(filling') = Len(filling) + n
      /\ \A j \in 1 .. Len(filling) + n :
            filling'[j] = IF j <= Len(filling) THEN filling[j] ELSE b[j - Len(filling)]
  BY <1>1, <1>2, <1>4, ConcatProperties
<1>6. Copied' = Copied + n
  BY <1>2, <1>3, <1>5, Numbers DEF Copied
<1>7. Wanted' = Wanted
  <2>1. stream'.request_remaining + (Copied + n) = Wanted
    BY <1>3 DEF Walks
  <2> QED BY <1>6, <2>1 DEF Wanted
<1>8. answer' = ConfigurationAnswer(layout', Wanted')
  BY <1>2, <1>7 DEF IInv
<1>9. Walks(layout', stream', Wanted', Copied')
  BY <1>2, <1>3, <1>6, <1>7
<1>10. ASSUME NEW j \in 1 .. Len(filling')
       PROVE  filling'[j] = answer'[delivered' + j]
  <2>1. Len(filling) \in Nat /\ n \in Nat /\ delivered \in Nat /\ j \in 1 .. Len(filling) + n
    BY <1>3, <1>5, Numbers
  <2>2. CASE j <= Len(filling)
    <3>1. j \in 1 .. Len(filling)
      BY <2>1, <2>2
    <3>2. filling'[j] = filling[j] /\ filling[j] = answer[delivered + j]
      BY <1>5, <2>1, <2>2, <3>1 DEF IInv
    <3> QED BY <1>2, <3>2
  <2>3. CASE ~(j <= Len(filling))
    <3> DEFINE m == j - Len(filling)
    <3>1. m \in 1 .. n /\ Copied + m = delivered + j
      BY <2>1, <2>3 DEF Copied
    <3>2. filling'[j] = b[m]
      BY <1>5, <2>1, <2>3
    <3> HIDE DEF m
    <3>3. b[m] = answer[Copied + m]
      BY <1>3, <1>4, <3>1 DEF IInv
    <3> QED BY <1>2, <3>1, <3>2, <3>3
  <2> QED BY <2>2, <2>3
<1>11. WalkTypeOK'
  BY <1>1, <1>2, <1>3, <1>5, Numbers DEF WalkTypeOK
<1> QED BY <1>8, <1>9, <1>10, <1>11 DEF IInv

LEMMA ReturnInv == IInv /\ Return => IInv'
<1> SUFFICES ASSUME IInv, Return PROVE IInv'
  OBVIOUS
<1>1. /\ delivered' = delivered + Len(filling) /\ filling' = <<>>
      /\ answer' = answer /\ layout' = layout /\ stream' = stream
  BY DEF Return
<1>2. filling' \in Seq(DescriptorByte) /\ Len(filling') = 0
  BY <1>1
<1>3. Copied' = Copied /\ Wanted' = Wanted /\ delivered' \in Nat
  BY <1>1, <1>2, Numbers DEF Copied, Wanted
<1>4. WalkTypeOK'
  BY <1>1, <1>2, <1>3, Numbers DEF IInv, WalkTypeOK
<1>5. /\ answer' = ConfigurationAnswer(layout', Wanted')
      /\ Walks(layout', stream', Wanted', Copied')
  BY <1>1, <1>3 DEF IInv
<1> QED BY <1>2, <1>4, <1>5 DEF IInv

-----------------------------------------------------------------------------
(* The call that returns delivers a packet as PacketReader says.           *)
LEMMA ReturnDelivers == IInv /\ Return => Reader!Deliver
<1> SUFFICES ASSUME IInv, Return PROVE Reader!Deliver
  OBVIOUS
<1> DEFINE f == Len(filling)
           rest == SubSeq(answer, delivered + 1, Len(answer))
           n == IF Len(rest) < BufSize THEN Len(rest) ELSE BufSize
<1>1. /\ layout \in Layout /\ stream \in Stream /\ f \in 0 .. BufSize /\ f \in Nat
      /\ delivered \in Nat /\ Copied \in Nat /\ Wanted \in Nat /\ BufSize \in Nat
      /\ filling \in Seq(DescriptorByte)
  BY Numbers DEF IInv, WalkTypeOK
<1>2. /\ answer = ConfigurationAnswer(layout, Wanted)
      /\ Walks(layout, stream, Wanted, Copied)
      /\ \A j \in 1 .. f : filling[j] = answer[delivered + j]
      /\ ~LoopContinues(stream, f)
      /\ packet' = filling /\ delivered' = delivered + f /\ answer' = answer
  BY DEF IInv, Return
<1>3. answer \in Seq(DescriptorByte) /\ Len(answer) \in Nat
  BY <1>1, <1>2, AnswerIs
<1>4. Copied = delivered + f /\ Copied <= Len(answer)
      /\ (Copied = Len(answer) \/ f = BufSize)
  BY <1>1, <1>2, LoopEnds DEF Walks, Copied
<1>5. delivered <= Len(answer)
  BY <1>1, <1>3, <1>4
<1>6. /\ rest \in Seq(DescriptorByte) /\ Len(rest) = Len(answer) - delivered
      /\ \A j \in 1 .. Len(rest) : rest[j] = answer[delivered + j]
  BY <1>1, <1>3, <1>5, PartOf
<1> HIDE DEF rest, f
<1>7. n = f /\ f <= Len(rest)
  BY <1>1, <1>3, <1>4, <1>6
<1> HIDE DEF n
<1>8. packet' = SubSeq(rest, 1, n)
  <2> DEFINE h == SubSeq(rest, 1, f)
  <2>1. h \in Seq(DescriptorByte) /\ Len(h) = f /\ \A j \in 1 .. f : h[j] = rest[j]
    BY <1>1, <1>6, <1>7, FirstPart
  <2>2. \A j \in 1 .. f : j \in 1 .. Len(rest)
    BY <1>1, <1>3, <1>6, <1>7
  <2> HIDE DEF h
  <2>3. \A j \in 1 .. Len(filling) : filling[j] = h[j]
    BY <1>2, <1>6, <2>1, <2>2 DEF f
  <2>4. filling = h
    BY <1>1, <2>1, <2>3, SeqEqual DEF f
  <2> QED BY <1>2, <1>7, <2>4 DEF h
<1>9. SubSeq(answer', delivered' + 1, Len(answer')) = SubSeq(rest, n + 1, Len(rest))
  <2>1. delivered + f <= Len(answer)
    BY <1>4
  <2>2. SubSeq(rest, f + 1, Len(rest)) = SubSeq(answer, delivered + f + 1, Len(answer))
    BY <1>1, <1>3, <2>1, PartOfPart DEF rest
  <2> QED BY <1>2, <1>7, <2>2
<1> QED BY <1>8, <1>9 DEF Reader!Deliver, n, rest

LEMMA StepDelivers ==
    IInv /\ [Next]_vars => [Reader!Deliver]_(Reader!pvars)
<1> SUFFICES ASSUME IInv, [Next]_vars PROVE [Reader!Deliver]_(Reader!pvars)
  OBVIOUS
<1>1. CASE CopyNext
  BY <1>1 DEF CopyNext, Reader!pvars
<1>2. CASE Return
  BY <1>2, ReturnDelivers
<1>3. CASE UNCHANGED vars
  BY <1>3 DEF vars, Reader!pvars
<1> QED BY <1>1, <1>2, <1>3 DEF Next

(* DeliversAnswer: if no interface has ChildSentinel children or more,     *)
(* each call of usb_ep0_prepare_descriptor delivers the next bytes of the  *)
(* answer, and a full packet unless it is the last.                        *)
THEOREM WalkDelivers ==
    ASSUME \A l \in Layouts : ChildrenFit(l)
    PROVE  Spec => DeliversAnswer
<1>1. Init => Reader!PInit
  BY DEF Init, Reader!PInit
<1>2. IInv /\ [Next]_vars => IInv'
  <2> SUFFICES ASSUME IInv, [Next]_vars PROVE IInv'
    OBVIOUS
  <2>1. CASE UNCHANGED vars
    BY <2>1 DEF vars, IInv, WalkTypeOK, Copied, Wanted
  <2> QED BY <2>1, CopyInv, ReturnInv DEF Next
<1>3. Spec => []IInv
  BY InitInv, <1>2, PTL DEF Spec
<1> QED BY <1>1, <1>3, StepDelivers, PTL DEF Spec, DeliversAnswer, Reader!PSpec
=============================================================================
