------------------------------- MODULE MCSpsc -------------------------------
(***************************************************************************)
(* Instance of SpscRingBuffer for TLC.  Items are told apart by two        *)
(* values; with MaxSent > 2 * (Capacity + 1) both indices wrap twice.      *)
(***************************************************************************)
EXTENDS SpscRingBuffer
=============================================================================
