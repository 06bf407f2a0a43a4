------------------------------ MODULE MCClient ------------------------------
(***************************************************************************)
(* Instance of EchoClient for TLC, with fewer ports than the program has.  *)
(***************************************************************************)
EXTENDS EchoClient
=============================================================================
