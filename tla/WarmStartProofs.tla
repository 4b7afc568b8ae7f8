--------------------------- MODULE WarmStartProofs ---------------------------
(***************************************************************************)
(* The scan of the warm start reads every block of its range, and none     *)
(* twice, and a provider under cooldown is used only when all of them are: *)
(* for every height, range, batch size and number of providers.            *)
(***************************************************************************)
EXTENDS WarmStart, TLAPS

Reading == {"pick", "fetch", "sleep", "done"}

\* Whole batches have been read, up to startBlock, or everything has.
AtBatch ==
    \/ startBlock = height + 1
    \/ /\ startBlock <= height
       /\ \E k \in Nat : startBlock = Lowest(height) + k * (BatchSpan + 1)

\* The blocks read are the range below startBlock.
ScanInv ==
    /\ height \in Nat /\ startBlock \in Nat
    /\ scanPc \in {"off", "height"} \cup Reading
    /\ scanPc \in {"off", "height"} => scanned = {}
    /\ scanPc \in Reading =>
          /\ height \in Heights \cup {0}
          /\ scanned = Lowest(height) .. (startBlock - 1)
          /\ Lowest(height) <= startBlock
          /\ AtBatch
    /\ scanPc = "fetch" => startBlock < height
    /\ scanPc = "done" => startBlock >= height
    /\ ~rescanned

\* The range is not a whole number of batches: no batch starts at its last block.
LEMMA NotWhole ==
    ASSUME NEW k \in Nat
    PROVE  k * (BatchSpan + 1) # Lookback
<1> SUFFICES ASSUME k * (BatchSpan + 1) = Lookback PROVE FALSE
  OBVIOUS
<1>1. BatchSpan \in Nat /\ Lookback \in Nat /\ k * BatchSpan \in Nat
  BY WarmStartAssumption
<1>2. k * (BatchSpan + 1) = k * BatchSpan + k
  BY <1>1
<1>3. k \in 0 .. Lookback
  BY <1>1, <1>2
<1> QED
  BY <1>3, WarmStartAssumption

\* The next batch starts a whole number of batches further on, or nowhere.
LEMMA NextBatch ==
    ASSUME ScanInv, scanPc = "fetch", startBlock' = EndBatch + 1, height' = height
    PROVE  AtBatch' /\ EndBatch \in Nat /\ startBlock <= EndBatch
<1>1. BatchSpan \in Nat /\ height \in Nat /\ startBlock \in Nat /\ startBlock < height
  BY WarmStartAssumption DEF ScanInv
<1>2. EndBatch \in Nat /\ startBlock <= EndBatch
  BY <1>1 DEF EndBatch
<1>3. Lowest(height) \in Nat /\ Lowest(height)' = Lowest(height)
  BY <1>1, WarmStartAssumption DEF Lowest
<1>4. PICK k \in Nat : startBlock = Lowest(height) + k * (BatchSpan + 1)
  BY <1>1 DEF ScanInv, AtBatch, Reading
<1>5. CASE startBlock + BatchSpan < height
  <2>1. startBlock' = startBlock + (BatchSpan + 1)
    BY <1>1, <1>5 DEF EndBatch
  <2>2. k * (BatchSpan + 1) + (BatchSpan + 1) = (k + 1) * (BatchSpan + 1)
    BY <1>1
  <2>3. k * (BatchSpan + 1) \in Nat /\ k + 1 \in Nat
    BY <1>1
  <2>4. startBlock' = Lowest(height)' + (k + 1) * (BatchSpan + 1) /\ startBlock' <= height'
    BY <1>1, <1>3, <1>4, <1>5, <2>1, <2>2, <2>3
  <2> QED
    BY <1>2, <2>3, <2>4 DEF AtBatch
<1>6. CASE ~(startBlock + BatchSpan < height)
  BY <1>1, <1>2, <1>6 DEF EndBatch, AtBatch
<1> QED
  BY <1>5, <1>6

\* Every step of the scan, and time, keep the invariant.
LEMMA ScanStep == ScanInv /\ [WarmNext]_warmVars => ScanInv'
<1> SUFFICES ASSUME ScanInv, [WarmNext]_warmVars PROVE ScanInv'
  OBVIOUS
<1> USE DEF ScanInv, Reading
<1>1. CASE Launch
  BY <1>1 DEF Launch
<1>2. ASSUME NEW n \in Heights \cup {0}, ReadHeight(n)
      PROVE  ScanInv'
  <2>1. n \in Nat /\ Lowest(n) \in Nat /\ Lowest(n) <= n
    BY WarmStartAssumption DEF Lowest
  <2>2. /\ height' = n /\ startBlock' = Lowest(n) /\ scanPc' = "pick"
        /\ scanned' = {} /\ rescanned' = rescanned
    BY <1>2 DEF ReadHeight
  <2>3. AtBatch'
    <3>1. BatchSpan \in Nat /\ 0 * (BatchSpan + 1) = 0 /\ Lowest(height)' = Lowest(n)
      BY <2>2, WarmStartAssumption DEF Lowest
    <3>2. startBlock' = Lowest(height)' + 0 * (BatchSpan + 1) /\ startBlock' <= height'
      BY <2>1, <2>2, <3>1
    <3> QED
      BY <3>2 DEF AtBatch
  <2>4. Lowest(n) .. (Lowest(n) - 1) = {}
    BY <2>1
  <2> QED
    BY <2>1, <2>2, <2>3, <2>4 DEF Lowest
<1>3. CASE (\E h \in Heads : PickHead(h)) \/ Finish
  BY <1>3 DEF PickHead, Finish, AtBatch, Lowest
<1>4. CASE FetchOk
  <2>1. /\ scanPc = "fetch" /\ scanPc' = "sleep" /\ height' = height
        /\ startBlock' = EndBatch + 1 /\ scanned' = scanned \cup Batch
        /\ rescanned' = (rescanned \/ Batch \cap scanned # {})
    BY <1>4 DEF FetchOk
  <2>2. AtBatch' /\ EndBatch \in Nat /\ startBlock <= EndBatch
    BY <2>1, NextBatch
  <2>3. Lowest(height) \in Nat /\ Lowest(height)' = Lowest(height)
    BY <2>1, WarmStartAssumption DEF Lowest
  <2>4. Batch \cap scanned = {} /\ scanned' = Lowest(height) .. EndBatch
    BY <2>1, <2>2, <2>3 DEF Batch
  <2>5. scanned' = Lowest(height)' .. (startBlock' - 1) /\ Lowest(height)' <= startBlock'
    BY <2>1, <2>2, <2>3, <2>4
  <2>6. ~rescanned'
    BY <2>1, <2>4
  <2>7. startBlock' \in Nat /\ height' \in Heights \cup {0} /\ height' \in Nat
    BY <2>1, <2>2
  <2> QED
    BY <2>1, <2>2, <2>5, <2>6, <2>7
<1>5. CASE FetchError \/ Wake \/ WarmTick \/ UNCHANGED warmVars
  BY <1>5 DEF FetchError, Wake, WarmTick, warmVars, scanVars, AtBatch, Lowest
<1> QED
  BY <1>1, <1>2, <1>3, <1>4, <1>5 DEF WarmNext

\* When the scan says it is complete it has read every block it set out to read,
\* and no block twice, whatever failed on the way and for every range that is not
\* a whole number of batches, as 2000 blocks in batches of 251 are not.
THEOREM ScanComplete == WarmSpec => []RangeScannedOnce
<1>1. WarmInit => ScanInv
  BY DEF WarmInit, ScanInv, Reading
<1>2. ScanInv => RangeScannedOnce
  <2> SUFFICES ASSUME ScanInv, scanPc = "done", height # 0
               PROVE  Lowest(height) .. height \subseteq scanned
    BY DEF ScanInv, RangeScannedOnce
  <2>1. height \in Heights /\ height >= Lookback /\ Lookback \in Nat /\ height \in Nat
    BY WarmStartAssumption DEF ScanInv, Reading
  <2>2. Lowest(height) + Lookback = height
    BY <2>1 DEF Lowest
  <2>3. startBlock # height
    <3> SUFFICES ASSUME startBlock = height PROVE FALSE
      OBVIOUS
    <3>1. PICK k \in Nat : height = Lowest(height) + k * (BatchSpan + 1)
      BY <2>1 DEF ScanInv, Reading, AtBatch
    <3>2. k * (BatchSpan + 1) \in Nat /\ Lowest(height) \in Nat
      BY <2>1, WarmStartAssumption DEF Lowest
    <3>3. k * (BatchSpan + 1) = Lookback
      BY <2>1, <2>2, <3>1, <3>2
    <3> QED
      BY <3>3, NotWhole
  <2>4. startBlock = height + 1
    BY <2>1, <2>3 DEF ScanInv, Reading, AtBatch
  <2> QED
    BY <2>1, <2>4 DEF ScanInv, Reading
<1> QED
  BY <1>1, <1>2, ScanStep, PTL DEF WarmSpec

-----------------------------------------------------------------------------
(* The rotation.                                                           *)

\* Every head is within one turn of the rotor.
LEMMA WithinATurn ==
    ASSUME rotor \in Heads, NEW g \in Heads
    PROVE  \E k \in Heads : (rotor + k) % NumHeads = g
<1>1. NumHeads \in Nat /\ NumHeads > 0 /\ rotor \in 0 .. NumHeads - 1 /\ g \in 0 .. NumHeads - 1
  BY PoolAssumption DEF Heads
<1>2. CASE g >= rotor
  <2>1. g - rotor \in Heads /\ rotor + (g - rotor) = g /\ g % NumHeads = g
    BY <1>1, <1>2 DEF Heads
  <2> QED
    BY <2>1
<1>3. CASE g < rotor
  <2> DEFINE k == g - rotor + NumHeads
  <2>1. k \in Heads /\ rotor + k = g + NumHeads
    BY <1>1, <1>3 DEF Heads
  <2>2. (g + NumHeads) % NumHeads = g
    BY <1>1
  <2> QED
    BY <2>1, <2>2
<1> QED
  BY <1>1, <1>2, <1>3

\* The rotor names a head.
RotorInv == rotor \in Heads

LEMMA RotorInvariance == WarmSpec => []RotorInv
<1>1. WarmInit => RotorInv
  BY PoolAssumption DEF WarmInit, PoolInit, RotorInv, Heads
<1>2. RotorInv /\ [WarmNext]_warmVars => RotorInv'
  <2> SUFFICES ASSUME rotor \in Heads, [WarmNext]_warmVars PROVE rotor' \in Heads
    BY DEF RotorInv, Heads
  <2>1. ASSUME NEW h \in Heads, PickHead(h) PROVE rotor' \in Heads
    BY <2>1, PoolAssumption DEF PickHead, NextHead, Heads
  <2> QED
    BY <2>1 DEF WarmNext, warmVars, poolVars, Launch, ReadHeight, Finish, FetchOk, FetchError,
                MarkUnhealthy, Wake, WarmTick, PoolTick
<1> QED
  BY <1>1, <1>2, PTL DEF WarmSpec

\* The rotation hands out a head under cooldown only when every head is under
\* cooldown, for any number of heads and wherever the rotor stands.
THEOREM CoolingHeadsLast == WarmSpec => BlockedHeadLast
<1> DEFINE Last == \A h \in Heads : PickHead(h) =>
                      blockedFor[h] = 0 \/ \A g \in Heads : blockedFor[g] # 0
<1>1. rotor \in Heads => Last
  <2> SUFFICES ASSUME rotor \in Heads, NEW h \in Heads, NextHead(h),
                      NEW g \in Heads, blockedFor[g] = 0
               PROVE  blockedFor[h] = 0
    BY DEF PickHead
  <2>1. FreeSteps # {}
    BY WithinATurn DEF FreeSteps
  <2> QED
    BY <2>1 DEF NextHead, FreeSteps
<1>2. RotorInv /\ [WarmNext]_warmVars => [Last]_warmVars
  BY <1>1 DEF RotorInv
<1> QED
  BY <1>2, RotorInvariance, PTL DEF WarmSpec, BlockedHeadLast

=============================================================================
