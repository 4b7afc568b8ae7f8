---------------------------- MODULE BiddingProofs ----------------------------
(***************************************************************************)
(* The bribe stays in range, and never falls with a losing streak, for     *)
(* every history of wins, losses, predators and base fees, and for every   *)
(* table of tiers below the cap of the ramp.                               *)
(***************************************************************************)
EXTENDS Bidding, TLAPS

\* Whatever the tiers, the ramp and the smoothing yield, the final clamp of
\* calculate_bribe returns a percentage between 10 and MAX_BRIBE_PCT.
LEMMA ClampedRange ==
    ASSUME NEW pct \in Nat
    PROVE  Clamped(pct) \in 10 .. MaxBribe
BY BiddingAssumption DEF Clamped, HigherOf, LowerOf

\* Every step of the tiered computation stays a natural number.
LEMMA TieredRange ==
    ASSUME BiddingTypeOK, NEW t \in Trades, t.tier # 0
    PROVE  TieredBribe(t, streak) \in 10 .. MaxBribe
<1> DEFINE base   == TierPct[t.tier]
           ramped == Ramped(base, streak)
           bold   == Aggressive(ramped, streak, HeatRising)
           raised == WhaleRaised(bold, t.whale)
<1>1. base \in Nat
  BY BiddingAssumption DEF Trades
<1>2. ramped \in Nat
  BY <1>1, BiddingAssumption DEF Ramped, LowerOf, BiddingTypeOK
<1>3. bold \in Nat
  BY <1>2 DEF Aggressive, HigherOf
<1>4. raised \in Nat
  BY <1>3, BiddingAssumption DEF WhaleRaised, LowerOf
<1>5. Smoothed(raised) \in Nat
  <2>1. lastWin.pct \in Nat
    BY DEF BiddingTypeOK
  <2> HIDE DEF raised
  <2> QED
    BY <1>4, <2>1 DEF Smoothed
<1> QED
  BY <1>5, ClampedRange DEF TieredBribe

\* calculate_bribe returns between 5 and MAX_BRIBE_PCT percent on every path.
LEMMA BribeRange ==
    ASSUME BiddingTypeOK, NEW t \in Trades
    PROVE  Bribe(t, streak) \in 5 .. MaxBribe
<1>1. CASE t.ai
  BY <1>1, BiddingAssumption DEF Bribe, LowerOf
<1>2. CASE ~t.ai /\ t.rival
  BY <1>2, BiddingAssumption DEF Bribe, LowerOf
<1>3. CASE ~t.ai /\ ~t.rival /\ t.tier = 0
  BY <1>3, BiddingAssumption DEF Bribe
<1>4. CASE ~t.ai /\ ~t.rival /\ t.tier # 0
  <2>1. TieredBribe(t, streak) \in 10 .. MaxBribe
    BY <1>4, TieredRange
  <2>2. Bribe(t, streak) = TieredBribe(t, streak)
    BY <1>4 DEF Bribe
  <2> QED
    BY <2>1, <2>2, BiddingAssumption
<1> QED
  BY <1>1, <1>2, <1>3, <1>4 DEF Trades

\* A quote keeps the engine's types.
LEMMA QuoteTyped ==
    ASSUME BiddingTypeOK, NEW t \in Trades, CalculateBribe(t)
    PROVE  /\ pressure' \in Nat /\ quiet' \in Nat /\ heat' \in Nat /\ quote' \in 5 .. MaxBribe
           /\ UNCHANGED <<streak, lastWin, rivalRecord, gwei>>
<1>1. Bled \in Nat
  BY DEF Bled, BiddingTypeOK
<1>2. Heat \in Nat
  BY <1>1 DEF Heat, BiddingTypeOK
<1>3. quote' \in 5 .. MaxBribe
  BY BribeRange DEF CalculateBribe
<1>4. pressure' \in Nat /\ quiet' \in Nat
  BY <1>1 DEF CalculateBribe, Bleed, BiddingTypeOK
<1>5. heat' \in Nat
  BY <1>2 DEF CalculateBribe, BiddingTypeOK
<1> QED
  BY <1>3, <1>4, <1>5 DEF CalculateBribe

\* What the executor bids, and record_success remembers, is within the cap.
LEMMA BidRange ==
    ASSUME BiddingTypeOK
    PROVE  BidPct \in 0 .. MaxBribe
BY BiddingAssumption DEF BidPct, LowerOf, BiddingTypeOK

\* Every step of the executor's use of the engine keeps the types.
LEMMA NextTyped == BiddingTypeOK /\ [BiddingNext]_biddingVars => BiddingTypeOK'
<1> SUFFICES ASSUME BiddingTypeOK, [BiddingNext]_biddingVars
             PROVE  BiddingTypeOK'
  OBVIOUS
<1>0. NoTrade \in Trades /\ 10 \in 5 .. MaxBribe
  BY BiddingAssumption DEF NoTrade, Trades
<1>1. ASSUME NEW t \in Trades, QuoteForCheck(t)
      PROVE  BiddingTypeOK'
  <2>1. CalculateBribe(t) /\ stage' = "quoted" /\ trade' = t
    BY <1>1 DEF QuoteForCheck
  <2> QED
    BY <2>1, QuoteTyped DEF BiddingTypeOK
<1>2. CASE QuoteForBid
  <2>1. trade \in Trades /\ CalculateBribe(trade) /\ stage' = "bid" /\ UNCHANGED trade
    BY <1>2 DEF QuoteForBid, BiddingTypeOK
  <2> QED
    BY <2>1, QuoteTyped DEF BiddingTypeOK
<1>3. CASE VetoTrade
  BY <1>0, <1>3 DEF VetoTrade, EndTrade, BiddingTypeOK, engine
<1>4. CASE WinBid
  <2>1. lastWin' \in [age : Nat, pct : 0 .. MaxBribe]
    BY <1>4, BidRange DEF WinBid
  <2>2. rivalRecord' \in [wins : Nat, losses : Nat]
    BY <1>4 DEF WinBid, BiddingTypeOK
  <2> QED
    BY <1>0, <1>4, <2>1, <2>2 DEF WinBid, EndTrade, BiddingTypeOK
<1>5. CASE LoseBid
  <2>1. rivalRecord' \in [wins : Nat, losses : Nat]
    BY <1>5 DEF LoseBid, BiddingTypeOK
  <2>2. streak' \in Nat
    BY <1>5 DEF LoseBid, BiddingTypeOK
  <2> QED
    BY <1>0, <1>5, <2>1, <2>2 DEF LoseBid, EndTrade, BiddingTypeOK
<1>6. ASSUME NEW g \in GweiFees, NewBaseFee(g)
      PROVE  BiddingTypeOK'
  BY <1>6, BiddingAssumption DEF NewBaseFee, BiddingTypeOK, engine
<1>7. CASE BiddingTick
  <2>1. lastWin' \in [age : Nat, pct : 0 .. MaxBribe]
    BY <1>7 DEF BiddingTick, BiddingTypeOK
  <2>2. quiet' \in Nat
    BY <1>7 DEF BiddingTick, BiddingTypeOK
  <2> QED
    BY <1>7, <2>1, <2>2 DEF BiddingTick, BiddingTypeOK
<1>8. CASE UNCHANGED biddingVars
  BY <1>8 DEF biddingVars, engine, BiddingTypeOK
<1> QED
  BY <1>1, <1>2, <1>3, <1>4, <1>5, <1>6, <1>7, <1>8 DEF BiddingNext

\* Every quote lies between 5 and MAX_BRIBE_PCT percent and every remembered bid
\* within the cap, for every history: what the execution pipeline assumes of
\* calculate_bribe.
THEOREM BribesInRange == BiddingSpec => []BiddingTypeOK
<1>1. BiddingInit => BiddingTypeOK
  <2> SUFFICES ASSUME BiddingInit PROVE BiddingTypeOK
    OBVIOUS
  <2>1. NoTrade \in Trades /\ 10 \in 5 .. MaxBribe /\ 0 \in 0 .. MaxBribe
    BY BiddingAssumption DEF NoTrade, Trades
  <2>2. lastWin \in [age : Nat, pct : 0 .. MaxBribe]
    BY <2>1, BiddingAssumption DEF BiddingInit, NoWin
  <2>3. rivalRecord \in [wins : Nat, losses : Nat] /\ gwei \in Nat
    BY BiddingAssumption DEF BiddingInit
  <2> QED
    BY <2>1, <2>2, <2>3 DEF BiddingInit, BiddingTypeOK
<1> QED
  BY <1>1, NextTyped, PTL DEF BiddingSpec

-----------------------------------------------------------------------------
(* The losing streak.                                                      *)

\* The two stages that look at the streak do not fall with it.
LEMMA StreakStages ==
    ASSUME NEW base \in 0 .. MaxBribe - 9, NEW losses \in Nat, NEW rising \in BOOLEAN
    PROVE  LET low  == Aggressive(Ramped(base, losses), losses, rising)
               high == Aggressive(Ramped(base, losses + 1), losses + 1, rising)
           IN  low \in Nat /\ high \in Nat /\ low <= high
<1>1. MaxBribe \in 95 .. 99
  BY BiddingAssumption
<1>2. /\ Ramped(base, losses) \in Nat /\ Ramped(base, losses + 1) \in Nat
      /\ Ramped(base, losses) <= Ramped(base, losses + 1)
  BY <1>1 DEF Ramped, LowerOf
<1> QED
  BY <1>2 DEF Aggressive, HigherOf

\* The stages after them keep the order of what they are given.
LEMMA LaterStages ==
    ASSUME BiddingTypeOK, NEW low \in Nat, NEW high \in Nat, low <= high, NEW whale
    PROVE  Clamped(Smoothed(WhaleRaised(low, whale))) <= Clamped(Smoothed(WhaleRaised(high, whale)))
<1>1. MaxBribe \in 95 .. 99 /\ lastWin.pct \in Nat
  BY BiddingAssumption DEF BiddingTypeOK
<1>2. /\ WhaleRaised(low, whale) \in Nat /\ WhaleRaised(high, whale) \in Nat
      /\ WhaleRaised(low, whale) <= WhaleRaised(high, whale)
  BY <1>1 DEF WhaleRaised, LowerOf
<1>3. ASSUME NEW a \in Nat, NEW b \in Nat, a <= b
      PROVE  Smoothed(a) \in Nat /\ Smoothed(b) \in Nat /\ Smoothed(a) <= Smoothed(b)
  BY <1>1, <1>3 DEF Smoothed
<1>4. ASSUME NEW a \in Nat, NEW b \in Nat, a <= b
      PROVE  Clamped(a) <= Clamped(b)
  BY <1>1, <1>4 DEF Clamped, LowerOf, HigherOf
<1> QED
  BY <1>2, <1>3, <1>4

\* A losing streak never lowers the bribe: one more loss quotes the same trade at
\* least as much, whatever the engine remembers and for every table of tiers.
THEOREM StreakRaises == BiddingSpec => []StreakNeverLowers
<1>1. BiddingTypeOK => StreakNeverLowers
  <2> SUFFICES ASSUME BiddingTypeOK, NEW t \in Trades
               PROVE  Bribe(t, streak) <= Bribe(t, streak + 1)
    BY DEF StreakNeverLowers
  <2>1. CASE t.ai \/ t.rival \/ t.tier = 0
    <3>1. Bribe(t, streak) = Bribe(t, streak + 1)
      BY <2>1 DEF Bribe, Trades
    <3> QED
      BY <3>1, BribeRange
  <2>2. CASE ~t.ai /\ ~t.rival /\ t.tier # 0
    <3>1. TierPct[t.tier] \in 0 .. MaxBribe - 9 /\ streak \in Nat /\ HeatRising \in BOOLEAN
      BY <2>2, BiddingAssumption DEF Trades, BiddingTypeOK, HeatRising
    <3>2. TieredBribe(t, streak) <= TieredBribe(t, streak + 1)
      BY <3>1, StreakStages, LaterStages DEF TieredBribe
    <3> QED
      BY <2>2, <3>2 DEF Bribe
  <2> QED
    BY <2>1, <2>2
<1> QED
  BY <1>1, BribesInRange, PTL

=============================================================================
