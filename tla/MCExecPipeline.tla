--------------------------- MODULE MCExecPipeline ---------------------------
(***************************************************************************)
(* Small instances of ExecPipeline.  Amounts are in units of 5e13 wei, in  *)
(* which the thresholds of the code are exact: MinProfit 2, MinNet 4,      *)
(* BalancerBias 1.                                                         *)
(***************************************************************************)
EXTENDS ExecPipeline, TLC

CONSTANTS P1, P2, T1, Bad, W, PathA, PathB, PathC

MCPools  == {P1, P2}
MCTokens == {T1, Bad, W}

\* PathA and PathB share pool P1.
MCPaths == {PathA, PathB}
MCHopsOf == (PathA :> {[pool |-> P1, tokenIn |-> W, tokenOut |-> T1]}) @@
            (PathB :> {[pool |-> P1, tokenIn |-> T1, tokenOut |-> W],
                       [pool |-> P2, tokenIn |-> W, tokenOut |-> T1]})

MCHopsOfOne == (PathA :> {[pool |-> P1, tokenIn |-> W, tokenOut |-> T1]})

\* PathC goes through the honeypot token.
MCPathsBad  == {PathA, PathC}
MCHopsOfBad == (PathA :> {[pool |-> P1, tokenIn |-> W, tokenOut |-> T1]}) @@
               (PathC :> {[pool |-> P2, tokenIn |-> W, tokenOut |-> Bad],
                          [pool |-> P1, tokenIn |-> Bad, tokenOut |-> T1]})

Sim(ok, profit) == [success |-> ok, profit |-> profit, gas |-> 1]

\* One clear win, whatever the lender.
MCOneOutcome == {<<Sim(TRUE, 20), Sim(TRUE, 19)>>}

\* A win, a thin win, one that only covers its gas, a fragile one (the tail
\* branch loses more than 10%), a revert, and no branch that simulated at all.
MCOutcomes == {<<Sim(TRUE, 20), Sim(TRUE, 19)>>, <<Sim(TRUE, 6)>>, <<Sim(TRUE, 3)>>,
               <<Sim(TRUE, 20), Sim(TRUE, 8)>>, <<Sim(FALSE, 20)>>, <<>>}

TaskSymmetry == Permutations(Tasks)

=============================================================================
