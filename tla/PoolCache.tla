------------------------------ MODULE PoolCache ------------------------------
(***************************************************************************)
(* What the mirror of the pools promises to the search: an entry is never  *)
(* made up.  It is a state its own pool had when a notification, a read or *)
(* a copy on disk captured it, brought in by that very fill, or it is      *)
(* empty, or forgotten.                                                    *)
(***************************************************************************)
EXTENDS Naturals

CONSTANTS
    Pools,
    Absent,     \* no entry
    Unknown     \* an entry whose state was never read

VARIABLES
    head,    \* pool -> states it has gone through on chain
    cache,   \* pool -> a captured state, Unknown or Absent
    fills    \* pool -> states captured and on their way into the cache

State(p, n) == [of |-> p, ver |-> n]

CacheInit ==
    /\ head = [p \in Pools |-> 0]
    /\ cache = [p \in Pools |-> Absent]
    /\ fills = [p \in Pools |-> {}]

ChainMoves == \A p \in Pools : head'[p] \in Nat /\ head'[p] >= head[p]

\* A fill starts from the chain as it is, or from the cache.
FillsStart ==
    \A p \in Pools : \A f \in fills'[p] \ fills[p] :
        f = State(p, head'[p]) \/ f = cache[p]

\* Fills may arrive late, in any order, or never.
CacheFilled ==
    \A p \in Pools :
        cache'[p] # cache[p] => cache'[p] \in {Absent, Unknown} \cup fills[p]

CacheNext == ChainMoves /\ FillsStart /\ CacheFilled

CacheSpec == CacheInit /\ [][CacheNext]_<<head, cache, fills>>

=============================================================================
