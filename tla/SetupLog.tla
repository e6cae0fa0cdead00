------------------------------ MODULE SetupLog ------------------------------
(***************************************************************************)
(* What the firmware promises to whoever reads its serial line: a greeting *)
(* and then one line for each SETUP packet, in the order of their arrival. *)
(* A packet may be missing only when Capacity older ones were waiting for  *)
(* their lines to be sent.                                                 *)
(***************************************************************************)
EXTENDS Naturals, Sequences, FiniteSets

CONSTANTS Packet,
          Greeting,        \* the text sent first
          LineOf,          \* the text of each packet, which ends in EndOfLine
          EndOfLine,
          Capacity

VARIABLES log,             \* what is to be sent, in order
          accepted,        \* whether the last packet got a line
          line             \* what was sent last

lvars == <<log, accepted, line>>

LInit == /\ log = Greeting
         /\ accepted \in BOOLEAN

Accept(p) == /\ log' = log \o LineOf[p]
             /\ accepted' = TRUE
             /\ UNCHANGED line

LinesWaiting == Cardinality({i \in DOMAIN log : log[i] = EndOfLine})

Refuse == /\ LinesWaiting >= Capacity
          /\ accepted' = FALSE
          /\ UNCHANGED <<log, line>>

Send == /\ log # <<>>
        /\ line' = Head(log)
        /\ log' = Tail(log)
        /\ UNCHANGED accepted

LNext == (\E p \in Packet : Accept(p)) \/ Refuse \/ Send

LSpec == LInit /\ [][LNext]_lvars
=============================================================================
