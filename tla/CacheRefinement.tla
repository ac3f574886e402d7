--------------------------- MODULE CacheRefinement ---------------------------
(***************************************************************************)
(* ResponseCache implements CacheContract: a call is the steps of a thread *)
(* from the one that leaves "idle" to the one that comes back to it.       *)
(***************************************************************************)
EXTENDS ResponseCache

\* The operation a thread at location l is in.
Operation(l) ==
    CASE l = "idle" -> "idle"
      [] l \in {"map", "read", "refill"} -> "lookup"
      [] OTHER -> "put"

Contract == INSTANCE CacheContract WITH call <- [t \in Threads |-> Operation(pc[t])]

\* Whatever two threads, a shared file name, failing writes and restarts do to the
\* map and the directory of cache.rs, callers of lookup() and put() see no more than
\* the contract allows: every step of the cache is a step of the contract, or one that
\* changes nothing they see.
ImplementsContract == Contract!Spec
=============================================================================
