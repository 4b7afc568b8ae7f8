------------------------------- MODULE Bidding -------------------------------
(***************************************************************************)
(* The BiddingEngine of bidding_engine.rs as the executor drives it: a     *)
(* bribe is quoted for the profit check, quoted again for the bid, and the *)
(* relays' verdict is recorded.  Both quotes update the engine.            *)
(*                                                                         *)
(* Percentages are the code's.  Profits appear as the tier of              *)
(* BIDDING_TIERS they fall in, base fees in whole gwei, which is all       *)
(* calculate_bribe sees of them, and times as ages that saturate just past *)
(* the one-minute windows they are compared with.                          *)
(***************************************************************************)
EXTENDS Naturals, Sequences

CONSTANTS
    MaxBribe,     \* MAX_BRIBE_PCT
    TierPct,      \* BIDDING_TIERS, the percentages by rising profit
    Window,       \* 60 seconds, in ticks
    GweiFees,     \* base fees a block may carry, in gwei
    MaxStreak,    \* bound: losses in a row
    MaxPressure,  \* bound: predator pressure at which no more predators come
    MaxRivalBids  \* bound: bids against the known competitor

\* Every tier lies below the cap of the ramp, MAX_BRIBE_PCT - 9.
ASSUME BiddingAssumption ==
    /\ MaxBribe \in 95 .. 99
    /\ TierPct \in Seq(0 .. MaxBribe - 9) /\ Len(TierPct) > 0
    /\ Window \in Nat
    /\ GweiFees \subseteq Nat /\ GweiFees # {}
    /\ MaxStreak \in Nat /\ MaxPressure \in Nat /\ MaxRivalBids \in Nat

VARIABLES
    pressure,      \* predator_pressure
    quiet,         \* age of last_pressure_update
    heat,          \* last_heat_score
    streak,        \* consecutive_losses
    lastWin,       \* last_success: its age and bribe, or NoWin
    rivalRecord,   \* competitor_history of the known competitor
    gwei,          \* current_base_fee in gwei
    stage,         \* "idle", "quoted" or "bid": where the executor is
    trade,         \* the opportunity being executed
    quote          \* what calculate_bribe returned last

engine   == <<pressure, quiet, heat, streak, lastWin, rivalRecord>>
biddingVars == <<engine, gwei, stage, trade, quote>>

NoWin == [age |-> Window, pct |-> 0]

\* What calculate_bribe looks at in an Opportunity; tier 0 is a micro profit.
Trades == [ai : BOOLEAN, rival : BOOLEAN, whale : BOOLEAN, tier : 0 .. Len(TierPct)]

NoTrade == [ai |-> FALSE, rival |-> FALSE, whale |-> FALSE, tier |-> 0]

LowerOf(a, b)  == IF a <= b THEN a ELSE b
HigherOf(a, b) == IF a >= b THEN a ELSE b

Decayed == quiet > Window

\* Pressure after the one-minute decay.
Bled == IF Decayed /\ pressure > 0 THEN pressure - 1 ELSE pressure

Heat == Bled * 15 + gwei

\* current / previous - 1 > 0.15
HeatRising == heat > 0 /\ Heat * 100 > heat * 115

\* Mutant: the ramp starts from zero instead of from the tier.
RampedFromZero(pct, losses) == IF losses > 2 THEN LowerOf(losses * 8, MaxBribe - 9) ELSE pct

Ramped(pct, losses) == IF losses > 2 THEN LowerOf(pct + losses * 8, MaxBribe - 9) ELSE pct

Aggressive(pct, losses, rising) == IF rising \/ losses > 5 THEN HigherOf(pct, 94) ELSE pct

WhaleRaised(pct, whale) == IF whale THEN LowerOf(pct + 10, MaxBribe) ELSE pct

Smoothed(pct) == IF lastWin.age < Window THEN (pct + lastWin.pct) \div 2 ELSE pct

Clamped(pct) == HigherOf(LowerOf(pct, MaxBribe), 10)

\* The tiers, the losing streak, the heat, whales and the last win, in this order.
TieredBribe(t, losses) ==
    Clamped(Smoothed(WhaleRaised(
        Aggressive(Ramped(TierPct[t.tier], losses), losses, HeatRising), t.whale)))

Bribe(t, losses) ==
    CASE t.ai                -> LowerOf(95, MaxBribe)
      [] ~t.ai /\ t.rival    -> LowerOf(IF rivalRecord.wins > rivalRecord.losses THEN 98 ELSE 92,
                                        MaxBribe)
      [] ~t.ai /\ ~t.rival /\ t.tier = 0 -> 5
      [] OTHER               -> TieredBribe(t, losses)

\* Mutant: the clock restarts but nothing is bled off.
BleedNever(t) ==
    /\ pressure' = IF t.rival /\ ~t.ai THEN pressure + 1 ELSE pressure
    /\ quiet' = IF Decayed \/ (t.rival /\ ~t.ai) THEN 0 ELSE quiet

\* What a quote does to the pressure: the decay comes first, and a predator on
\* a path without AI tokens adds one.
Bleed(t) ==
    /\ pressure' = IF t.rival /\ ~t.ai THEN Bled + 1 ELSE Bled
    /\ quiet' = IF Decayed \/ (t.rival /\ ~t.ai) THEN 0 ELSE quiet

CalculateBribe(t) ==
    /\ quote' = Bribe(t, streak)
    /\ Bleed(t)
    /\ heat' = IF t.ai \/ t.rival \/ t.tier = 0 THEN heat ELSE Heat
    /\ UNCHANGED <<streak, lastWin, rivalRecord, gwei>>

BiddingInit ==
    /\ pressure = 0 /\ quiet = 0 /\ heat = 0 /\ streak = 0
    /\ lastWin = NoWin
    /\ rivalRecord = [wins |-> 0, losses |-> 0]
    /\ gwei \in GweiFees
    /\ stage = "idle" /\ trade = NoTrade /\ quote = 10

\* The execution ends and its locals with it.
EndTrade == stage' = "idle" /\ trade' = NoTrade /\ quote' = 10

\* The quote for the profit check.
QuoteForCheck(t) ==
    /\ stage = "idle" /\ streak < MaxStreak
    /\ t.rival => /\ pressure < MaxPressure
                  /\ rivalRecord.wins + rivalRecord.losses < MaxRivalBids
    /\ stage' = "quoted"
    /\ trade' = t
    /\ CalculateBribe(t)

\* A veto between the quotes ends the execution.
VetoTrade ==
    /\ stage = "quoted"
    /\ EndTrade
    /\ UNCHANGED <<engine, gwei>>

\* The quote for the bid.
QuoteForBid ==
    /\ stage = "quoted"
    /\ stage' = "bid"
    /\ CalculateBribe(trade)
    /\ UNCHANGED trade

\* Mutant: the raise is not capped.
BidUncapped == IF trade.rival THEN quote + 10 ELSE quote

\* What is finally bid: ten points more against a known competitor.
BidPct == IF trade.rival THEN LowerOf(MaxBribe, quote + 10) ELSE quote

WinBid ==
    /\ stage = "bid"
    /\ EndTrade
    /\ streak' = 0
    /\ lastWin' = [age |-> 0, pct |-> BidPct]
    /\ rivalRecord' = IF trade.rival THEN [rivalRecord EXCEPT !.wins = @ + 1] ELSE rivalRecord
    /\ UNCHANGED <<pressure, quiet, heat, gwei>>

LoseBid ==
    /\ stage = "bid"
    /\ EndTrade
    /\ streak' = streak + 1
    /\ rivalRecord' = IF trade.rival THEN [rivalRecord EXCEPT !.losses = @ + 1] ELSE rivalRecord
    /\ UNCHANGED <<pressure, quiet, heat, lastWin, gwei>>

NewBaseFee(g) ==
    /\ g # gwei
    /\ gwei' = g
    /\ UNCHANGED <<engine, stage, trade, quote>>

BiddingTick ==
    /\ quiet' = IF Decayed THEN quiet ELSE quiet + 1
    /\ lastWin' = IF lastWin.age < Window THEN [lastWin EXCEPT !.age = @ + 1] ELSE lastWin
    /\ UNCHANGED <<pressure, heat, streak, rivalRecord, gwei, stage, trade, quote>>

BiddingNext ==
    \/ \E t \in Trades : QuoteForCheck(t)
    \/ VetoTrade \/ QuoteForBid \/ WinBid \/ LoseBid
    \/ \E g \in GweiFees : NewBaseFee(g)
    \/ BiddingTick

\* Only time is fair: nothing makes opportunities arrive.
BiddingSpec ==
    BiddingInit /\ [][BiddingNext]_biddingVars /\ WF_biddingVars(BiddingTick)

-----------------------------------------------------------------------------
(* Properties.                                                             *)

\* Types; the ones that matter are the percentages: what calculate_bribe returns
\* and what a win remembers lie within MAX_BRIBE_PCT whatever was stacked on them.
BiddingTypeOK ==
    /\ pressure \in Nat /\ quiet \in Nat /\ heat \in Nat /\ streak \in Nat
    /\ lastWin \in [age : Nat, pct : 0 .. MaxBribe]
    /\ rivalRecord \in [wins : Nat, losses : Nat]
    /\ gwei \in Nat
    /\ stage \in {"idle", "quoted", "bid"}
    /\ trade \in Trades
    /\ quote \in 5 .. MaxBribe

\* A losing streak never lowers the bribe: whatever else the engine remembers,
\* one more loss quotes the same trade at least as much (calculate_bribe, step 4).
StreakNeverLowers ==
    \A t \in Trades : Bribe(t, streak) <= Bribe(t, streak + 1)

\* Predator pressure bleeds off: if predators stay away for good while trades keep
\* being quoted, it reaches zero and stays there (calculate_bribe, "Dynamic
\* Pressure Decay"), although every quote of a quiet minute restarts the clock.
PressureFades ==
    /\ <>[]~trade.rival
    /\ []<>(stage = "quoted") /\ []<>(stage # "quoted")
    => <>[](pressure = 0)

=============================================================================
