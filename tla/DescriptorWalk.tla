--------------------------- MODULE DescriptorWalk ---------------------------
(***************************************************************************)
(* One GET_DESCRIPTOR(configuration), packet after packet, for any layout  *)
(* of descriptors: the stream that usb_ep0_handle_setup opens and the      *)
(* calls of usb_ep0_prepare_descriptor that follow, an iteration of its    *)
(* copy loop at a time.                                                    *)
(***************************************************************************)
EXTENDS DescriptorBytes

CONSTANTS Layouts, RequestLength    \* the layouts and the values of wLength

ASSUME WalkAssumption == Layouts \subseteq Layout /\ RequestLength \subseteq Nat

VARIABLES
    answer,            \* what the host is to read in all
    layout, stream,
    filling,           \* what the call has put into ep0_buffer
    packet,            \* what the last call left there for the host
    delivered          \* the number of bytes in the packets so far

vars == <<answer, layout, stream, filling, packet, delivered>>

Init == /\ layout \in Layouts
        /\ \E n \in RequestLength :
              /\ stream = OpenStream(layout, n)
              /\ answer = Upto(ConfigurationBytes(layout), n)
        /\ filling = <<>> /\ packet = <<>> /\ delivered = 0

CopyNext ==
    LET n == ChunkSize(stream, Len(filling)) IN
    /\ LoopContinues(stream, Len(filling))
    /\ filling' = filling
                  \o [i \in 1 .. n |-> [desc |-> stream.desc,
                                        offset |-> stream.offset + i - 1]]
    /\ stream' = Advance(layout, stream, n)
    /\ UNCHANGED <<answer, layout, packet, delivered>>

(* The call returns filled_bytes, and the endpoint sends them.             *)
Return == /\ ~LoopContinues(stream, Len(filling))
          /\ packet' = filling
          /\ delivered' = delivered + Len(filling)
          /\ filling' = <<>>
          /\ UNCHANGED <<answer, layout, stream>>

Next == CopyNext \/ Return

Spec == Init /\ [][Next]_vars

(* The interrupt handler runs to its end, and the host reads on.           *)
FairSpec == Spec /\ WF_vars(Next)

-----------------------------------------------------------------------------
Reader == INSTANCE PacketReader WITH
              PacketSize <- BufSize,
              rest <- SubSeq(answer, delivered + 1, Len(answer))

(* Whatever the descriptors (empty ones, more interfaces than the index    *)
(* can name, a wTotalLength that cuts a descriptor or promises too much),  *)
(* each call of usb_ep0_prepare_descriptor delivers the next bytes of the  *)
(* answer, none twice and none skipped, and a full packet unless it is the *)
(* last: a short packet before the end would end the data stage.  This is  *)
(* of layouts in which no interface has ChildSentinel children: after that *)
(* many, the walk returns to the interface (SentinelMeansConfig).          *)
DeliversAnswer == Reader!PSpec

(* All of the answer is delivered: no call spins on a descriptor.  Like    *)
(* DeliversAnswer, this is of layouts in which no interface has            *)
(* ChildSentinel children.                                                 *)
AnswerEnds == <>(delivered = Len(answer))
=============================================================================
