------------------------------ MODULE MCServers ------------------------------
(***************************************************************************)
(* Instance of Servers for TLC, which runs all five programs.              *)
(***************************************************************************)
EXTENDS Servers
=============================================================================
