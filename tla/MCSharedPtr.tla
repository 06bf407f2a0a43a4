---------------------------- MODULE MCSharedPtr ----------------------------
(***************************************************************************)
(* Instance of SharedPtr for TLC.  Threads, handles of a kind and blocks   *)
(* are interchangeable.                                                    *)
(***************************************************************************)
EXTENDS SharedPtr, TLC

Symmetry == Permutations(Thread) \cup Permutations(Strong)
              \cup Permutations(Weak) \cup Permutations(Block)
=============================================================================
