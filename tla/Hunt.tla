-------------------------------- MODULE Hunt --------------------------------
(***************************************************************************)
(* What a search task does with its paths (arbitrage_detector.rs): it      *)
(* reads the reserves of each hop from the mirror, looks for the best      *)
(* input with a golden-section search (math_engine.rs), and reports what   *)
(* pays.  Amounts are small integers; the golden ratio, the number of      *)
(* iterations and the tolerance are in proportion to the range searched.   *)
(* The Newton search of paths with Aerodrome pools works in f64 and is     *)
(* left out, and so are those pools.                                       *)
(***************************************************************************)
EXTENDS PathSearch

CONSTANTS
    None,
    V3Pools,        \* pools whose hops are priced as UniswapV3
    ReserveChoices, \* bound: the reserves a pool may have, <<reserve0, reserve1>>
    MinIn, MaxIn,   \* the range of inputs
    PhiNum, PhiDen, \* golden ratio, PHI_NUM / PHI_DEN
    Tolerance, MaxIter,
    MinProfit,      \* min_profit_wei
    Slack           \* what the roundings of the hops may cost

ASSUME HuntAssumption ==
    /\ V3Pools \subseteq Pools /\ ReserveChoices \subseteq Nat \X Nat
    /\ MinIn \in Nat /\ MaxIn \in Nat /\ MinIn <= MaxIn
    /\ PhiDen \in Nat /\ PhiNum \in 1 .. PhiDen - 1 /\ Tolerance \in Nat /\ MaxIter \in Nat
    /\ MinProfit \in Nat /\ Slack \in Nat

VARIABLES
    left,     \* paths not looked at yet
    cur,      \* the path being looked at, or <<>>
    states,   \* fetched_states
    gss,      \* the locals of find_optimal_input and whether two losses were compared, or None
    opp       \* the last opportunity sent, or None

huntVars == <<left, cur, states, gss, opp>>

HuntInit ==
    /\ PathInit
    /\ left = {} /\ cur = <<>> /\ states = <<>> /\ gss = None /\ opp = None

-----------------------------------------------------------------------------
(* The arithmetic of a path.                                               *)

\* get_v2_output.
V2Output(amount, rIn, rOut) ==
    IF amount = 0 \/ rIn = 0 \/ rOut = 0 THEN 0
    ELSE (amount * 997 * rOut) \div (rIn * 1000 + amount * 997)

\* A hop of another type pays nothing.
HopOutput(e, state, amount) ==
    IF e.pool \in V3Pools THEN 0
    ELSE IF e.from = EndsOf[e.pool][1]
         THEN V2Output(amount, state[1], state[2])
         ELSE V2Output(amount, state[2], state[1])

\* get_path_output_with_states.
PathOutput(route, sts, amount) ==
    LET out[n \in 0 .. Len(route)] ==
            IF n = 0 THEN amount ELSE HopOutput(route[n], sts[n], out[n - 1])
    IN  out[Len(route)]

\* The profit saturates: a loss is worth zero.
ProfitOf(route, sts, amount) ==
    LET out == PathOutput(route, sts, amount) IN IF out > amount THEN out - amount ELSE 0

F(x) == ProfitOf(cur, states, x)

Section(a, b) == ((b - a) * PhiNum) \div PhiDen

-----------------------------------------------------------------------------
(* The steps of the task.                                                  *)

\* The search itself; its results are the paths to look at.
SearchStep ==
    /\ PathNext
    /\ left' = IF pc' = "end" THEN paths' ELSE left
    /\ UNCHANGED <<cur, states, gss, opp>>

PickPath ==
    /\ pc = "end" /\ cur = <<>>
    /\ \E r \in left : cur' = r /\ left' = left \ {r}
    /\ states' = <<>>
    /\ UNCHANGED <<pathVars, gss, opp>>

\* get_pool_data of the next hop: what the mirror holds by now, or nothing, and then
\* the path is dropped.
FetchState ==
    /\ cur # <<>> /\ Len(states) < Len(cur)
    /\ \/ \E reserves \in ReserveChoices :
            states' = Append(states, reserves) /\ UNCHANGED cur
       \/ cur' = <<>> /\ states' = <<>>
    /\ UNCHANGED <<pathVars, left, gss, opp>>

BeginSection ==
    LET c == MaxIn - Section(MinIn, MaxIn)
        d == MinIn + Section(MinIn, MaxIn)
    IN
    /\ cur # <<>> /\ Len(states) = Len(cur) /\ gss = None
    /\ gss' = [a |-> MinIn, b |-> MaxIn, c |-> c, d |-> d, fc |-> F(c), fd |-> F(d),
               iter |-> 0, blind |-> FALSE]
    /\ UNCHANGED <<pathVars, left, cur, states, opp>>

GoesOn == gss.iter < MaxIter /\ gss.b - gss.a >= Tolerance

\* Mutant: the half that is kept is the wrong one.
NarrowAway ==
    /\ gss # None /\ GoesOn
    /\ gss' = IF gss.fc > gss.fd
              THEN LET d == gss.c + Section(gss.c, gss.b) IN
                   [gss EXCEPT !.a = gss.c, !.c = gss.d, !.fc = gss.fd, !.d = d, !.fd = F(d),
                               !.iter = @ + 1]
              ELSE LET c == gss.d - Section(gss.a, gss.d) IN
                   [gss EXCEPT !.b = gss.d, !.d = gss.c, !.fd = gss.fc, !.c = c, !.fc = F(c),
                               !.iter = @ + 1, !.blind = @ \/ (gss.fc = 0 /\ gss.fd = 0)]
    /\ UNCHANGED <<pathVars, left, cur, states, opp>>

\* Mutant: the probe that is kept is the one on the wrong side.
NarrowCrossed ==
    /\ gss # None /\ GoesOn
    /\ gss' = IF gss.fc > gss.fd
              THEN LET d == gss.d - Section(gss.a, gss.d) IN
                   [gss EXCEPT !.b = gss.d, !.d = d, !.fd = F(d), !.iter = @ + 1]
              ELSE LET c == gss.c + Section(gss.c, gss.b) IN
                   [gss EXCEPT !.a = gss.c, !.c = c, !.fc = F(c), !.iter = @ + 1]
    /\ UNCHANGED <<pathVars, left, cur, states, opp>>

\* One iteration; equal probes keep the right half, also when both are losses.
Narrow ==
    /\ gss # None /\ GoesOn
    /\ gss' = IF gss.fc > gss.fd
              THEN LET c == gss.d - Section(gss.a, gss.d) IN
                   [gss EXCEPT !.b = gss.d, !.d = gss.c, !.fd = gss.fc, !.c = c, !.fc = F(c),
                               !.iter = @ + 1]
              ELSE LET d == gss.c + Section(gss.c, gss.b) IN
                   [gss EXCEPT !.a = gss.c, !.c = gss.d, !.fc = gss.fd, !.d = d, !.fd = F(d),
                               !.iter = @ + 1, !.blind = @ \/ (gss.fc = 0 /\ gss.fd = 0)]
    /\ UNCHANGED <<pathVars, left, cur, states, opp>>

\* The middle of what is left, and an opportunity when it pays enough.
Report ==
    LET input == (gss.a + gss.b) \div 2 IN
    /\ gss # None /\ ~GoesOn
    /\ opp' = IF F(input) > MinProfit
              THEN [path |-> cur, input |-> input, profit |-> F(input)] ELSE opp
    /\ cur' = <<>> /\ states' = <<>> /\ gss' = None
    /\ UNCHANGED <<pathVars, left>>

HuntNext == SearchStep \/ PickPath \/ FetchState \/ BeginSection \/ Narrow \/ Report

\* A spawned task is polled to its end.
HuntSpec == HuntInit /\ [][HuntNext]_<<pathVars, huntVars>> /\ WF_<<pathVars, huntVars>>(HuntNext)

-----------------------------------------------------------------------------
(* Properties.                                                             *)

\* The probes stay in order inside the interval, though each is computed from
\* another one and rounded: b - a is unsigned.
ProbesOrdered ==
    gss # None => MinIn <= gss.a /\ gss.a <= gss.c /\ gss.c <= gss.d /\ gss.d <= gss.b /\ gss.b <= MaxIn

\* The interval the search ends with holds an input that earns all there is to
\* earn, up to rounding, unless the search has compared two losses, which the
\* saturated profit does not tell apart.
IntervalKeepsBest ==
    gss # None =>
        \/ GoesOn \/ gss.blind
        \/ \A x \in MinIn .. MaxIn : \E y \in gss.a .. gss.b : F(y) + Slack >= F(x)

=============================================================================
