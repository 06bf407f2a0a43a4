------------------------------ MODULE MCUnique ------------------------------
(***************************************************************************)
(* Instance of UniquePtr for TLC.  Handles and objects are                 *)
(* interchangeable.                                                        *)
(***************************************************************************)
EXTENDS UniquePtr, TLC

Symmetry == Permutations(Root) \cup Permutations(Obj)
=============================================================================
