------------------------------- MODULE MCFallback -------------------------------
(***************************************************************************)
(* The generation of a book for TLC whose operator first permits degraded  *)
(* characters and then, between two claims, requires personal ones again.  *)
(***************************************************************************)
EXTENDS BookPipeline

Tightened ==
    {[images |-> {"page_1"}, policy |-> "allow_degraded", claims |-> 3, overlaps |-> 0,
      faults |-> 1, losses |-> 0, edits |-> 0, cancels |-> 0, switches |-> 1]}
=============================================================================
