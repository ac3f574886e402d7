-------------------------- MODULE MCResponseCache --------------------------
(* Instances of ResponseCache: the file names DefaultHasher gives the keys. *)
EXTENDS CacheRefinement, TLC

CONSTANTS k1, k2, k3, p1, p2, t1, t2

\* Two keys collide on one file name, a third has its own.
TwoFiles == (k1 :> p1) @@ (k2 :> p1) @@ (k3 :> p2)

Symmetric == Permutations(Threads)
=============================================================================
