----------------------------- MODULE MCSmallMem -----------------------------
(* The sizes of the target (a 12 byte item, alignment 4) and a heap with room *)
(* for five of the smallest blocks.                                          *)
EXTENDS SmallMem

\* The last call is read by the refinement only, of each step.
View == heap
=============================================================================
