-------------------------- MODULE MCDescriptorWalk --------------------------
(***************************************************************************)
(* Every layout of up to three interfaces (one more than the index can     *)
(* name), each with up to two children of none, one or three bytes, over   *)
(* packets of four; wTotalLength cuts a descriptor, ends between two, fits,*)
(* or promises too much.                                                   *)
(***************************************************************************)
EXTENDS DescriptorWalk

MCChildren == BoundedSeq({0, 1, 3}, 2)
MCInterface == [length : {2}, children : MCChildren]
MCFirst == [length : {2, 5}, children : MCChildren]

MCLayouts ==
    [device : {3}, config : {1, 4}, total : {3, 8, 9, 30},
     interfaces : {<<>>} \cup {<<a>> : a \in MCFirst}
                  \cup {<<a, b>> : a \in MCFirst, b \in MCInterface}
                  \cup {<<a, b, [length |-> 1, children |-> <<>>]>> : a \in MCFirst, b \in MCInterface}]
=============================================================================
