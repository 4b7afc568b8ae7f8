--------------------------- MODULE TradeSelection ---------------------------
(***************************************************************************)
(* The arithmetic of FlashLoanExecutor::simulate_and_execute: which        *)
(* lender's simulation is taken, what it costs, and the vetoes that follow.*)
(* Amounts are naturals in one unit; the code's U256 products stay far     *)
(* below 2^256 and its subtractions saturate, as SatSub does.              *)
(***************************************************************************)
EXTENDS Naturals, Sequences

CONSTANTS
    MinProfit,       \* min_profit_wei, 1e14 wei
    MinNet,          \* min_threshold, 2e14 wei
    BalancerBias,    \* the 5e13 wei bonus of the Balancer lender
    MaxBranchLoss,   \* MAX_BRANCH_LOSS_BPS, in 1/10000
    MaxBribePct      \* MAX_BRIBE_PCT

ASSUME SelectionAssumption ==
    /\ MinProfit \in Nat
    /\ MinNet \in Nat \ {0}
    /\ BalancerBias \in Nat
    /\ MaxBranchLoss \in Nat
    /\ MaxBribePct \in 0 .. 99

Lenders == {"Balancer", "AaveV3"}

SatSub(a, b) == IF a >= b THEN a - b ELSE 0

NoCandidate == [lender |-> "none"]

\* The results of one lender are its Top, Mid and Tail branches in that order,
\* without the branches whose simulation returned an error.
LossBps(top, r) ==
    (SatSub(top.profit, r.profit) * 10000) \div (IF top.profit >= 1 THEN top.profit ELSE 1)

Viable(results) ==
    /\ results # <<>>
    /\ \A i \in 1 .. Len(results) :
          results[i].success /\ results[i].profit >= MinProfit
    /\ \A i \in 2 .. Len(results) : LossBps(results[1], results[i]) <= MaxBranchLoss

Candidate(lender, top, gasPrice, l1) ==
    LET l2  == top.gas * gasPrice
        net == SatSub(top.profit, l1 + l2)
    IN  [lender |-> lender, profit |-> top.profit, gas |-> top.gas,
         l1 |-> l1, l2 |-> l2, net |-> net,
         adjusted |-> IF lender = "Balancer" THEN net + BalancerBias ELSE net]

Better(best, c) ==
    IF best = NoCandidate \/ c.adjusted > best.adjusted THEN c ELSE best

Consider(best, lender, results, gasPrice, l1) ==
    IF Viable(results)
    THEN Better(best, Candidate(lender, results[1], gasPrice, l1))
    ELSE best

\* sims: the results per lender.  Balancer is considered first, so AaveV3
\* replaces it only when it is strictly better.
SelectBest(sims, gasPrice, l1) ==
    Consider(Consider(NoCandidate, "Balancer", sims["Balancer"], gasPrice, l1),
             "AaveV3", sims["AaveV3"], gasPrice, l1)

BufferedCost(c) == (c.l1 * 120) \div 100 + c.l2

BribeOf(c, pct) == (c.net * pct) \div 100

WithinBudget(c, cachedBalance) ==
    cachedBalance = 0 \/ BufferedCost(c) <= cachedBalance \div 10

Profitable(c, pct) == c.profit > BufferedCost(c) + BribeOf(c, pct)

WorthFiring(c) == c.net >= MinNet

PassesVetoes(c, cachedBalance, pct) ==
    /\ WithinBudget(c, cachedBalance)
    /\ Profitable(c, pct)
    /\ WorthFiring(c)

\* Mutant: the raised bribe is not capped.
FinalBribeUncapped(pct, competitor) == IF competitor THEN pct + 10 ELSE pct

\* The bribe finally bid: a second quote, raised by 10 points against a known
\* competitor and capped.
FinalBribePct(pct, competitor) ==
    IF ~competitor THEN pct
    ELSE IF pct + 10 <= MaxBribePct THEN pct + 10 ELSE MaxBribePct

=============================================================================
