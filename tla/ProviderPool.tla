---------------------------- MODULE ProviderPool ----------------------------
(***************************************************************************)
(* The WsProviderPool of lib.rs: a round-robin over RPC heads that skips   *)
(* the ones whose cooldown has not passed.  The code stores the second at  *)
(* which a head may be used again; blockedFor is what is left of it.       *)
(* next() is one step here: in the running process only one task rotates   *)
(* a given pool.  The usage counters, which nothing reads, are left out.   *)
(***************************************************************************)
EXTENDS Naturals

CONSTANTS
    NumHeads,     \* providers.len()
    MinCooldown   \* the 120 second floor of mark_unhealthy

ASSUME PoolAssumption == NumHeads \in Nat \ {0} /\ MinCooldown \in Nat \ {0}

VARIABLES
    rotor,        \* next, modulo the number of heads
    blockedFor    \* health - now

poolVars == <<rotor, blockedFor>>

Heads == 0 .. NumHeads - 1

PoolInit == rotor = 0 /\ blockedFor = [h \in Heads |-> 0]

\* The distances from the rotor at which a usable head is found.
FreeSteps == {k \in Heads : blockedFor[(rotor + k) % NumHeads] = 0}

\* Mutant: the first head of the rotation is taken as it comes.
FirstHead(h) ==
    /\ h = rotor
    /\ rotor' = (rotor + 1) % NumHeads
    /\ UNCHANGED blockedFor

\* next() returns h: the first usable head of the rotation, or head 0 after a
\* whole turn, which leaves the rotor where it was.
NextHead(h) ==
    /\ \/ \E k \in FreeSteps :
            /\ \A j \in FreeSteps : k <= j
            /\ h = (rotor + k) % NumHeads
            /\ rotor' = (h + 1) % NumHeads
       \/ FreeSteps = {} /\ h = 0 /\ UNCHANGED rotor
    /\ UNCHANGED blockedFor

MarkUnhealthy(h, secs) ==
    /\ blockedFor' = [blockedFor EXCEPT ![h] = IF secs >= MinCooldown THEN secs ELSE MinCooldown]
    /\ UNCHANGED rotor

PoolTick ==
    /\ blockedFor' = [h \in Heads |-> IF blockedFor[h] > 0 THEN blockedFor[h] - 1 ELSE 0]
    /\ UNCHANGED rotor

PoolTypeOK == rotor \in Heads /\ blockedFor \in [Heads -> Nat]

=============================================================================
