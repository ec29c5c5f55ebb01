--------------------------- MODULE MCPredictCycle ---------------------------
(***************************************************************************)
(* PredictCycle for TLC: two products of one brand, so that a batch can be *)
(* partly found, partly predicted and refused for one row, and another     *)
(* brand that may ask for them.                                            *)
(***************************************************************************)
EXTENDS PredictCycle, TLC

CONSTANTS p1, p2, b1, b2

Catalogue == (p1 :> b1) @@ (p2 :> b1)
=============================================================================
