------------------------------- MODULE MCCo -------------------------------
(***************************************************************************)
(* Instance of CoSession for TLC, which picks the mode.                    *)
(***************************************************************************)
EXTENDS CoSession
=============================================================================
