------------------------------ MODULE MCProxy ------------------------------
(***************************************************************************)
(* Instance of ProxySession for TLC.                                       *)
(***************************************************************************)
EXTENDS ProxySession
=============================================================================
