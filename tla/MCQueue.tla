------------------------------ MODULE MCQueue ------------------------------
(***************************************************************************)
(* Instance of BlockingQueue for TLC.                                      *)
(***************************************************************************)
EXTENDS BlockingQueue
=============================================================================
