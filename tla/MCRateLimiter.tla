--------------------------- MODULE MCRateLimiter ---------------------------
(***************************************************************************)
(* RateLimiter for TLC.  A window of one second of two ticks lets a stamp  *)
(* be exactly, and not quite, a window old, MaxTime spans two and a half    *)
(* windows, and the clock may be set back by one, at once or in two steps. *)
(***************************************************************************)
EXTENDS RateLimiter
=============================================================================
