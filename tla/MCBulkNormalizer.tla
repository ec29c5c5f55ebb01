-------------------------- MODULE MCBulkNormalizer --------------------------
(***************************************************************************)
(* BulkNormalizer for TLC: two spellings that share a cache key and a      *)
(* value of its own, next to one the static map knows and a blank one.     *)
(***************************************************************************)
EXTENDS BulkNormalizer

Lower == [r \in Raws |-> IF r = "Wool" THEN "wool" ELSE r]
=============================================================================
