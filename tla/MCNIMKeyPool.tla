---------------------------- MODULE MCNIMKeyPool ----------------------------
(***************************************************************************)
(* NIMKeyPool on a small instance: more callers than keys, so that several *)
(* sleep on one key, and a cooldown of two ticks, so that one sleeper's    *)
(* deadline and a later 429's differ.                                      *)
(***************************************************************************)
EXTENDS NIMKeyPool
=============================================================================
