--------------------------- MODULE MCOrchestrator ---------------------------
(***************************************************************************)
(* Orchestrator for TLC: three products, so that the rare sub-list can     *)
(* skip one, and enough attempts for a product to fail, succeed and for    *)
(* another to run out of them.                                             *)
(***************************************************************************)
EXTENDS Orchestrator
=============================================================================
