------------------------------- MODULE MCLru -------------------------------
(***************************************************************************)
(* Instance of LruCache for TLC.  The contents of nodes that have never    *)
(* been used do not matter: the initial state picks one.                   *)
(***************************************************************************)
EXTENDS LruCache, TLC

FewInit == Init /\ \A m, n \in Node : key[m] = key[n] /\ val[m] = val[n]
MCSpec == FewInit /\ [][Next]_vars

Symmetry == Permutations(Key) \cup Permutations(Value)
              \cup Permutations(Node) \cup Permutations(Caller)
=============================================================================
