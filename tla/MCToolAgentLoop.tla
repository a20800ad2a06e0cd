-------------------------- MODULE MCToolAgentLoop --------------------------
(***************************************************************************)
(* Instances of ToolAgentLoop for TLC.                                     *)
(***************************************************************************)
EXTENDS ToolAgentLoopInv

CONSTANTS hello, lookup, failure

\* The reset observation, one more, and the text of an exception.
SomeObservations == {hello, lookup, failure}

\* Messages the free part of the prompt can absorb, and one it cannot.
ShortMessages == {1, 2}
LongMessages == {1, 3}

=============================================================================
