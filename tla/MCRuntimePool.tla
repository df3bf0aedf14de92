--------------------------- MODULE MCRuntimePool ---------------------------
(* A small instance of RuntimePool for TLC.                                *)
EXTENDS RuntimePool, TLC

CONSTANTS d1, s1, s2

\* Two sessions of one device, which compete for its one entry.
OneDevice == s1 :> d1 @@ s2 :> d1

\* Goroutines and entry identities are interchangeable.
Symmetric == Permutations(Threads) \cup Permutations(Ids)
=============================================================================
