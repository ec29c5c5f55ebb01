----------------------------- MODULE MCNIMClient -----------------------------
(***************************************************************************)
(* NIMClient for TLC: two callers that compete for one permit, so that a   *)
(* permit kept across a nested call would stop everybody, two keys, so     *)
(* that a 429 rotates and two of them leave none, and two attempts, one    *)
(* that is followed by another and one that is not.                        *)
(***************************************************************************)
EXTENDS NIMClient
==============================================================================
