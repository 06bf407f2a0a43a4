------------------------------- MODULE MCEcho -------------------------------
(***************************************************************************)
(* Instance of EchoSession for TLC, which checks both modes.               *)
(***************************************************************************)
EXTENDS EchoSession
=============================================================================
