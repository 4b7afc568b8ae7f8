--------------------------- MODULE ExecPipelineBids ---------------------------
(***************************************************************************)
(* What the execution pipeline sends, proved for every set of paths,       *)
(* tokens and tasks, every outcome of the simulations and every value of   *)
(* the bounds: no honeypot, no loss, one opportunity per nonce, one        *)
(* acceptance per transaction; and how long a losing streak can get.  Each *)
(* property has an invariant of its own beside the pipeline's IInv.        *)
(***************************************************************************)
EXTENDS ExecPipelineProofs

\* A step of a task moves that task alone, and leaves the main loop and the
\* opportunities being executed as they are.
LEMMA TaskShape ==
    ASSUME IInv, NEW t \in Tasks, TaskStep(t) \/ Hang(t)
    PROVE  /\ \A u \in Tasks \ {t} : pc'[u] = pc[u]
           /\ UNCHANGED <<arrivals, mainPc, mainPath, opp, path>>
<1>1. \E label : Goto(t, label)
  BY DEF TaskStep, Enter, BreakerGate, CheckCollision, LockPools, VetState, ProbeTokens,
         Simulate, Veto, SignTx, Broadcast, RelaysAccept, RelaysStale, RelaysReject,
         RegisterHarvest, Release, Hang
<1>2. \A u \in Tasks \ {t} : pc'[u] = pc[u]
  BY <1>1 DEF IInv, TypeOK, Goto
<1>3. UNCHANGED <<arrivals, mainPc, mainPath, opp, path>>
  BY DEF TaskStep, Enter, BreakerGate, CheckCollision, LockPools, VetState, ProbeTokens,
         Simulate, Veto, SignTx, Broadcast, RelaysAccept, RelaysStale, RelaysReject,
         RegisterHarvest, Release, Hang, mainVars, execVars
<1> QED
  BY <1>2, <1>3

\* The steps of the main loop but the spawn, the heartbeat's and time.
Aside == (\E p \in Paths : ReceiveOpp(p)) \/ DropOpp \/ HeartbeatStep \/ Tick

\* None of them touches an execution, its bundles, the vetted tokens or the nonce.
LEMMA AsideShape ==
    ASSUME Aside
    PROVE  UNCHANGED <<pc, execVars, outVars, vetted, nonce>>
BY DEF Aside, ReceiveOpp, DropOpp, HeartbeatStep, SyncBlock, RecordDrift, TrackBlock, Tick

-----------------------------------------------------------------------------
(* Honeypots.                                                              *)

\* The stages that follow the probe.
Probed == {"sim", "veto", "sign", "send", "await"}

\* What was once vetted is safe, and so is every path past the probe.
HoneyInv ==
    /\ vetted \cap Honeypots = {}
    /\ \A t \in Tasks : pc[t] \in Probed => TokensOutOf(path[t]) \cap Honeypots = {}
    /\ NoHoneypotFired

\* The probe skips tokens vetted before and the core tokens, which is sound.
LEMMA ProbeSound ==
    ASSUME HoneyInv, NEW t \in Tasks, ToProbe(t) \cap Honeypots = {}
    PROVE  TokensOutOf(path[t]) \cap Honeypots = {}
BY PipelineAssumption DEF HoneyInv, ToProbe

\* Every step of the process keeps honeypots out.
LEMMA HoneyStep == IInv /\ HoneyInv /\ [Next]_vars => HoneyInv'
<1> SUFFICES ASSUME IInv, HoneyInv, [Next]_vars PROVE HoneyInv'
  OBVIOUS
<1>1. CASE Aside \/ UNCHANGED vars
  <2>1. UNCHANGED <<pc, execVars, outVars, vetted>>
    BY <1>1, AsideShape DEF vars
  <2> QED
    BY <2>1 DEF HoneyInv, NoHoneypotFired, execVars, outVars, TokensOutOf
<1>2. ASSUME NEW t \in Tasks, Spawn(t)
      PROVE  HoneyInv'
  <2>1. /\ pc' = [pc EXCEPT ![t] = "enter"] /\ path' = [path EXCEPT ![t] = mainPath]
        /\ UNCHANGED <<vetted, submitted>>
    BY <1>2 DEF Spawn, Goto, outVars
  <2> QED
    BY <2>1 DEF HoneyInv, NoHoneypotFired, IInv, TypeOK, Probed, TokensOutOf
<1>3. ASSUME NEW t \in Tasks, TaskStep(t) \/ Hang(t)
      PROVE  HoneyInv'
  <2>1. (\A u \in Tasks \ {t} : pc'[u] = pc[u]) /\ UNCHANGED path
    BY <1>3, TaskShape
  <2>2. CASE ProbeTokens(t)
    <3>1. UNCHANGED submitted
      BY <2>2 DEF ProbeTokens, outVars
    <3>2. CASE ToProbe(t) \cap Honeypots = {} /\ vetted' = vetted \cup TokensOutOf(path[t])
      BY <2>1, <3>1, <3>2, ProbeSound DEF HoneyInv, NoHoneypotFired, TokensOutOf
    <3>3. CASE Goto(t, "done") /\ UNCHANGED vetted
      BY <2>1, <3>1, <3>3 DEF HoneyInv, NoHoneypotFired, Goto, IInv, TypeOK, Probed, TokensOutOf
    <3> QED
      BY <2>2, <3>2, <3>3 DEF ProbeTokens
  <2>3. CASE Broadcast(t)
    <3>1. submitted' = submitted \cup {Bundle(t)} /\ Bundle(t).path = path[t]
          /\ pc[t] \in Probed /\ UNCHANGED vetted
      BY <2>3 DEF Broadcast, Bundle, Probed
    <3> QED
      BY <2>1, <3>1 DEF HoneyInv, NoHoneypotFired, TokensOutOf
  <2>4. CASE ~ProbeTokens(t) /\ ~Broadcast(t)
    <3>1. UNCHANGED <<vetted, submitted>>
      BY <1>3, <2>4
         DEF TaskStep, Enter, BreakerGate, CheckCollision, LockPools, VetState, Simulate, Veto,
             SignTx, RelaysAccept, RelaysStale, RelaysReject, RegisterHarvest, Release, Hang,
             outVars
    <3>2. pc'[t] \in Probed => pc[t] \in Probed
      BY <1>3, <2>4
         DEF TaskStep, Enter, BreakerGate, CheckCollision, LockPools, VetState, Simulate, Veto,
             SignTx, RelaysAccept, RelaysStale, RelaysReject, RegisterHarvest, Release, Hang,
             Goto, IInv, TypeOK, Probed
    <3> QED
      BY <2>1, <3>1, <3>2 DEF HoneyInv, NoHoneypotFired, TokensOutOf
  <2> QED
    BY <2>2, <2>3, <2>4
<1> QED
  BY <1>1, <1>2, <1>3 DEF Next, Aside

\* No bundle routes through a token that the honeypot probe rejects, for every
\* set of tokens and paths: vetted_tokens only ever gains tokens that were probed,
\* vetted before, or core tokens.
THEOREM NoHoneypots == Spec => []NoHoneypotFired
<1>1. Init => HoneyInv
  BY DEF Init, HoneyInv, NoHoneypotFired, Probed
<1>2. HoneyInv => NoHoneypotFired
  BY DEF HoneyInv
<1> QED
  BY <1>1, <1>2, HoneyStep, Invariance, PTL DEF Spec

-----------------------------------------------------------------------------
(* Losing streaks.                                                         *)

\* An execution that may still fail.
Fresh(t) == pc[t] \notin {"idle", "won", "done", "hung"}

\* From the failure that raises GLOBAL_PAUSE on, at most one execution is still
\* to come: the one that runs, or the one about to be admitted.
LossInv ==
    /\ LossRunBounded
    /\ TotalFailures > CriticalFailures =>
          /\ globalPause
          /\ mainPc = "admit" => \A t \in Tasks : ~Fresh(t)
    /\ TotalFailures > CriticalFailures + 1 =>
          mainPc # "admit" /\ \A t \in Tasks : ~Fresh(t)

\* The sum of the counters is a number, and one failure adds one to it.
LEMMA FailureCounts ==
    ASSUME BreakerTypeOK
    PROVE  /\ TotalFailures \in Nat
           /\ \A f \in FailureTypes : RecordFailure(f) =>
                 /\ TotalFailures' = TotalFailures + 1
                 /\ globalPause' = (globalPause \/ TotalFailures' > CriticalFailures)
BY DEF BreakerTypeOK, TotalFailures, SumOf, RecordFailure, FailureTypes

\* A step that counts no failure keeps the invariant when it brings no new
\* execution past the pause check.
LEMMA LossQuiet ==
    ASSUME BreakerTypeOK, LossInv, UNCHANGED <<failures, globalPause>>,
           mainPc' = "admit" => mainPc = "admit" \/ ~globalPause,
           \A t \in Tasks : Fresh(t)' => Fresh(t)
    PROVE  LossInv'
<1>1. TotalFailures' = TotalFailures /\ TotalFailures \in Nat /\ CriticalFailures \in Nat
  BY BreakerAssumption, FailureCounts DEF TotalFailures, SumOf
<1>2. globalPause' <=> globalPause
  OBVIOUS
<1>3. TotalFailures > CriticalFailures /\ mainPc' = "admit" => mainPc = "admit"
  BY DEF LossInv
<1> QED
  BY <1>1, <1>2, <1>3 DEF LossInv, LossRunBounded, Fresh

\* Every step of the process keeps the losing streak bounded.
LEMMA LossStep == IInv /\ LossInv /\ [Next]_vars => LossInv'
<1> SUFFICES ASSUME IInv, LossInv, [Next]_vars PROVE LossInv'
  OBVIOUS
<1>0. BreakerTypeOK /\ TotalFailures \in Nat /\ CriticalFailures \in Nat
  BY BreakerAssumption, FailureCounts DEF IInv, TypeOK
<1>1. CASE Aside \/ UNCHANGED vars
  <2>1. UNCHANGED pc
    BY <1>1, AsideShape DEF vars
  <2>2. UNCHANGED <<failures, globalPause>>
    BY <1>1 DEF Aside, ReceiveOpp, DropOpp, HeartbeatStep, SyncBlock, RecordDrift, TrackBlock,
                Tick, RecordSequencerDrift, BreakerTick, breakerVars, vars
  <2>3. mainPc' = "admit" => mainPc = "admit" \/ ~globalPause
    BY <1>1 DEF Aside, ReceiveOpp, DropOpp, HeartbeatStep, SyncBlock, RecordDrift, TrackBlock,
                Tick, mainVars, vars
  <2> QED
    BY <1>0, <2>1, <2>2, <2>3, LossQuiet DEF Fresh
<1>2. ASSUME NEW t \in Tasks, Spawn(t)
      PROVE  LossInv'
  <2>1. /\ mainPc = "admit" /\ mainPc' = "recv" /\ UNCHANGED <<failures, globalPause>>
    BY <1>2 DEF Spawn, breakerVars
  <2>2. TotalFailures' = TotalFailures
    BY <2>1 DEF TotalFailures, SumOf
  <2> QED
    BY <1>0, <2>1, <2>2 DEF LossInv, LossRunBounded
<1>3. ASSUME NEW t \in Tasks, TaskStep(t) \/ Hang(t)
      PROVE  LossInv'
  <2>1. (\A u \in Tasks \ {t} : pc'[u] = pc[u]) /\ UNCHANGED mainPc
    BY <1>3, TaskShape
  <2>2. Fresh(t)' => Fresh(t)
    BY <1>3 DEF TaskStep, Enter, BreakerGate, CheckCollision, LockPools, VetState, ProbeTokens,
                Simulate, Veto, SignTx, Broadcast, RelaysAccept, RelaysStale, RelaysReject,
                RegisterHarvest, Release, Hang, Goto, Fresh, IInv, TypeOK
  <2>3. CASE \E a \in Answers : RelaysReject(t, a)
    <3>1. PICK f \in FailureTypes : RecordFailure(f)
      BY <2>3 DEF RelaysReject, FailureTypes
    <3>2. /\ TotalFailures' = TotalFailures + 1
          /\ globalPause' = (globalPause \/ TotalFailures' > CriticalFailures)
      BY <1>0, <3>1, FailureCounts
    <3>3. Fresh(t) /\ ~Fresh(t)'
      BY <2>3 DEF RelaysReject, Goto, Fresh, IInv, TypeOK
    <3>4. \A u \in Tasks : ~Fresh(u)'
      BY <2>1, <3>3 DEF IInv, SingleFlight, Active, Fresh
    <3>5. TotalFailures <= CriticalFailures + 1
      BY <1>0, <3>3 DEF LossInv, LossRunBounded
    <3>6. TotalFailures > CriticalFailures => mainPc # "admit"
      BY <3>3 DEF LossInv
    <3>7. TotalFailures' > CriticalFailures => globalPause'
      BY <3>2
    <3>8. LossRunBounded' /\ (TotalFailures' > CriticalFailures + 1 => mainPc' # "admit")
      BY <1>0, <2>1, <3>2, <3>5, <3>6 DEF LossRunBounded
    <3> QED
      BY <3>4, <3>7, <3>8 DEF LossInv, Fresh
  <2>4. CASE \E a \in Answers : RelaysAccept(t, a)
    <3>1. TotalFailures' = 0
      BY <2>4 DEF RelaysAccept, RecordSuccess, TotalFailures, SumOf, FailureTypes
    <3> QED
      BY <1>0, <3>1 DEF LossInv, LossRunBounded
  <2>5. CASE /\ ~(\E a \in Answers : RelaysReject(t, a))
             /\ ~(\E a \in Answers : RelaysAccept(t, a))
    <3>1. UNCHANGED <<failures, globalPause>>
      BY <1>3, <2>5
         DEF TaskStep, Enter, BreakerGate, CheckCollision, LockPools, VetState, ProbeTokens,
             Simulate, Veto, SignTx, Broadcast, RelaysStale, RegisterHarvest, Release, Hang,
             breakerVars
    <3> QED
      BY <1>0, <2>1, <2>2, <3>1, LossQuiet DEF Fresh
  <2> QED
    BY <2>3, <2>4, <2>5
<1> QED
  BY <1>1, <1>2, <1>3 DEF Next, Aside

\* GLOBAL_PAUSE bounds a losing streak: after the failure that raises it at most
\* one more execution fails, the one admitted between the pause check and
\* try_acquire, for every number of tasks and every critical count.
THEOREM LossesBounded == Spec => []LossRunBounded
<1>1. Init => LossInv
  BY BreakerAssumption
     DEF Init, BreakerInit, LossInv, LossRunBounded, TotalFailures, SumOf, FailureTypes, Fresh
<1>2. LossInv => LossRunBounded
  BY DEF LossInv
<1> QED
  BY <1>1, <1>2, LossStep, Invariance, PTL DEF Spec

-----------------------------------------------------------------------------
(* Bundles and their nonces.                                               *)

\* The stages before an execution has signed anything.
Unsigned == {"enter", "gate", "check", "lock", "vet", "probe", "sim", "veto", "sign"}

\* Bundles belong to opportunities received so far, and the one being admitted
\* has none yet.
Dated ==
    /\ \A b \in submitted : b.opp <= arrivals /\ b.nonce \in Nat /\ b.nonce < nonce
    /\ \A t \in Tasks : Active(t) => opp[t] <= arrivals
    /\ mainPc = "admit" => /\ \A b \in submitted : b.opp < arrivals
                           /\ \A t \in Tasks : Active(t) => opp[t] < arrivals

\* What an execution has sent carries its nonce and precedes what it sends next.
OwnBids ==
    \A t \in Tasks, b \in submitted :
        /\ pc[t] \in Unsigned => b.opp # opp[t]
        /\ pc[t] \in Signed =>
              /\ b.nonce = txNonce[t] <=> b.opp = opp[t]
              /\ b.opp = opp[t] => b.block + retries[t] = target[t] + b.retry
        /\ pc[t] = "send" /\ b.opp = opp[t] => b.retry < retries[t]
        /\ pc[t] = "await" /\ b.opp = opp[t] => b.retry <= retries[t]

SignedBelow == \A t \in Tasks : pc[t] \in Signed => txNonce[t] < nonce

\* An opportunity is offered once per retry.
OncePerRetry ==
    \A a, b \in submitted : a.opp = b.opp /\ a.retry = b.retry => a = b

\* What an execution may still send, no relay has taken.
Untaken ==
    /\ accepted \subseteq submitted
    /\ \A t \in Tasks, b \in accepted : Fresh(t) => b.opp # opp[t]

BidInv ==
    /\ Dated /\ OwnBids /\ SignedBelow /\ OncePerRetry /\ OneOpportunityPerNonce
    /\ Untaken /\ AcceptedOnce

\* The fields of the bundles sent, and of the one about to be, are numbers.
LEMMA BidTypes ==
    ASSUME IInv
    PROVE  /\ nonce \in Nat /\ arrivals \in Nat
           /\ \A b \in submitted : b.opp \in Nat /\ b.block \in Nat /\ b.retry \in Nat
           /\ \A t \in Tasks : /\ opp[t] \in Nat /\ target[t] \in Nat
                               /\ retries[t] \in Nat /\ txNonce[t] \in Nat
BY PipelineAssumption DEF IInv, TypeOK, BidsLocked, Blocks

\* A step that leaves the bundles, the nonces and the executions' data alone
\* keeps the invariant when no execution signs, sends or hears from the relays.
LEMMA BidQuiet ==
    ASSUME IInv, BidInv,
           UNCHANGED <<nonce, opp, target, txNonce, retries, submitted, accepted>>,
           arrivals' \in Nat, arrivals' >= arrivals,
           mainPc' = "admit" => mainPc = "admit" \/ arrivals' > arrivals,
           \A t \in Tasks : \/ pc'[t] = pc[t]
                            \/ Active(t) /\ pc'[t] \in {"won", "done", "hung"}
                            \/ pc'[t] = "idle"
    PROVE  BidInv'
<1>1. \A t \in Tasks : /\ Active(t)' => Active(t)
                       /\ Fresh(t)' => Fresh(t)
                       /\ pc'[t] \in Unsigned => pc[t] \in Unsigned
                       /\ pc'[t] \in Signed => pc'[t] = pc[t]
  BY DEF Active, Fresh, Unsigned, Signed
<1>2. Dated'
  BY <1>1, BidTypes DEF BidInv, Dated
<1>3. OwnBids' /\ SignedBelow'
  BY <1>1 DEF BidInv, OwnBids, SignedBelow, Signed
<1>4. OncePerRetry' /\ OneOpportunityPerNonce' /\ AcceptedOnce'
  BY DEF BidInv, OncePerRetry, OneOpportunityPerNonce, AcceptedOnce
<1>5. Untaken'
  BY <1>1 DEF BidInv, Untaken
<1> QED
  BY <1>2, <1>3, <1>4, <1>5 DEF BidInv

\* The opportunity admitted is newer than everything sent.
LEMMA BidSpawn ==
    ASSUME IInv, BidInv, NEW t \in Tasks, Spawn(t)
    PROVE  BidInv'
<1>1. /\ mainPc = "admit" /\ mainPc' = "recv"
      /\ pc' = [pc EXCEPT ![t] = "enter"] /\ opp' = [opp EXCEPT ![t] = arrivals]
      /\ UNCHANGED <<arrivals, nonce, submitted, accepted>>
  BY DEF Spawn, Goto, outVars
<1>2. \A u \in Tasks : ~Active(u)
  BY PipelineAssumption DEF Spawn, CanAcquire, IInv, SingleFlight
<1>3. pc'[t] = "enter" /\ opp'[t] = arrivals /\ \A u \in Tasks \ {t} : pc'[u] = "idle"
  BY <1>1, <1>2 DEF Active, IInv, TypeOK
<1>4. \A b \in submitted : b.opp < arrivals /\ b.opp \in Nat /\ arrivals \in Nat
  BY <1>1, BidTypes DEF BidInv, Dated
<1>5. Dated'
  BY <1>1, <1>3, <1>4, BidTypes DEF BidInv, Dated, Active
<1>6. OwnBids' /\ SignedBelow'
  BY <1>1, <1>3, <1>4 DEF OwnBids, SignedBelow, Unsigned, Signed
<1>7. Untaken'
  BY <1>1, <1>3, <1>4 DEF BidInv, Untaken, Fresh
<1>8. OncePerRetry' /\ OneOpportunityPerNonce' /\ AcceptedOnce'
  BY <1>1 DEF BidInv, OncePerRetry, OneOpportunityPerNonce, AcceptedOnce
<1> QED
  BY <1>5, <1>6, <1>7, <1>8 DEF BidInv

\* NonceManager::next hands out a nonce that no bundle carries.
LEMMA BidSign ==
    ASSUME IInv, BidInv, NEW t \in Tasks, SignTx(t)
    PROVE  BidInv'
<1>1. /\ pc[t] = "sign" /\ \E label \in {"send", "done"} : pc' = [pc EXCEPT ![t] = label]
      /\ txNonce' = [txNonce EXCEPT ![t] = nonce] /\ nonce' = nonce + 1
      /\ UNCHANGED <<arrivals, mainPc, opp, target, retries, submitted, accepted>>
  BY DEF SignTx, Goto, mainVars, outVars
<1>2. /\ pc'[t] \in {"send", "done"} /\ txNonce'[t] = nonce
      /\ \A u \in Tasks \ {t} : pc'[u] = pc[u] /\ txNonce'[u] = txNonce[u]
  BY <1>1 DEF IInv, TypeOK
<1>3. \A b \in submitted : b.opp # opp[t] /\ b.nonce \in Nat /\ b.nonce < nonce
  BY <1>1 DEF BidInv, OwnBids, Dated, Unsigned
<1>4. Dated'
  BY <1>1, <1>2, BidTypes DEF BidInv, Dated, Active
<1>5. SignedBelow'
  BY <1>1, <1>2, BidTypes DEF BidInv, SignedBelow
<1>6. OwnBids'
  BY <1>1, <1>2, <1>3, BidTypes DEF BidInv, OwnBids, Unsigned, Signed
<1>7. Untaken'
  BY <1>1, <1>2 DEF BidInv, Untaken, Fresh
<1>8. OncePerRetry' /\ OneOpportunityPerNonce' /\ AcceptedOnce'
  BY <1>1 DEF BidInv, OncePerRetry, OneOpportunityPerNonce, AcceptedOnce
<1> QED
  BY <1>4, <1>5, <1>6, <1>7, <1>8 DEF BidInv

\* A bundle that is sent is the first of its opportunity and retry.
LEMMA BidBroadcast ==
    ASSUME IInv, BidInv, NEW t \in Tasks, Broadcast(t)
    PROVE  BidInv'
<1> DEFINE new == Bundle(t)
<1>1. /\ pc[t] = "send" /\ pc' = [pc EXCEPT ![t] = "await"]
      /\ submitted' = submitted \cup {new}
      /\ UNCHANGED <<arrivals, mainPc, nonce, opp, target, txNonce, retries, accepted>>
  BY DEF Broadcast, Goto, mainVars, execVars
<1>2. /\ new.opp = opp[t] /\ new.block = target[t] /\ new.nonce = txNonce[t]
      /\ new.retry = retries[t]
  BY DEF Bundle
<1> HIDE DEF new
<1>3. pc'[t] = "await" /\ \A u \in Tasks \ {t} : pc'[u] = pc[u] /\ ~Active(u)
  BY <1>1 DEF IInv, TypeOK, SingleFlight, Active
<1>4. \A b \in submitted :
        /\ b.nonce = new.nonce <=> b.opp = new.opp
        /\ b.opp = new.opp => b.block + new.retry = new.block + b.retry /\ b.retry < new.retry
  BY <1>1, <1>2 DEF BidInv, OwnBids, Signed
<1>5. txNonce[t] < nonce /\ opp[t] <= arrivals /\ (mainPc = "admit" => opp[t] < arrivals)
  BY <1>1 DEF BidInv, SignedBelow, Dated, Signed, Active
<1>6. Dated'
  BY <1>1, <1>2, <1>3, <1>5, BidTypes DEF BidInv, Dated, Active
<1>7. SignedBelow'
  BY <1>1, <1>3, <1>5 DEF BidInv, SignedBelow
<1>8. OwnBids'
  BY <1>1, <1>2, <1>3, <1>4, BidTypes DEF OwnBids, Unsigned, Signed, Active
<1>9. OncePerRetry'
  BY <1>1, <1>2, <1>4, BidTypes DEF BidInv, OncePerRetry
<1>10. OneOpportunityPerNonce'
  BY <1>1, <1>2, <1>4, BidTypes DEF BidInv, OneOpportunityPerNonce
<1>11. Untaken' /\ AcceptedOnce'
  BY <1>1, <1>3 DEF BidInv, Untaken, AcceptedOnce, Fresh, Active
<1> QED
  BY <1>6, <1>7, <1>8, <1>9, <1>10, <1>11 DEF BidInv

\* A relay's acceptance ends the execution, so its transaction is not offered
\* again.
LEMMA BidAccept ==
    ASSUME IInv, BidInv, NEW t \in Tasks, NEW a \in Answers, RelaysAccept(t, a)
    PROVE  BidInv'
<1>1. /\ pc[t] = "await" /\ pc' = [pc EXCEPT ![t] = "won"]
      /\ accepted' = accepted \cup Taken(t, a)
      /\ UNCHANGED <<arrivals, mainPc, nonce, opp, target, txNonce, retries, submitted>>
  BY DEF RelaysAccept, Goto, mainVars, execVars
<1>2. pc'[t] = "won" /\ \A u \in Tasks \ {t} : pc'[u] = pc[u] /\ ~Active(u)
  BY <1>1 DEF IInv, TypeOK, SingleFlight, Active
<1>3. \A b \in Taken(t, a) : b \in submitted /\ b.opp = opp[t] /\ b.block = target[t]
  BY DEF Taken
<1>4. Dated' /\ OwnBids' /\ SignedBelow' /\ OncePerRetry' /\ OneOpportunityPerNonce'
  BY <1>1, <1>2 DEF BidInv, Dated, OwnBids, SignedBelow, OncePerRetry,
                    OneOpportunityPerNonce, Unsigned, Signed, Active
<1>5. Untaken'
  BY <1>1, <1>2, <1>3 DEF BidInv, Untaken, Fresh, Active
<1>6. AcceptedOnce'
  <2> SUFFICES ASSUME NEW b \in accepted', NEW c \in accepted', b.nonce = c.nonce
               PROVE  b = c
    BY DEF AcceptedOnce
  <2>1. /\ b \in submitted /\ c \in submitted /\ b.opp = c.opp
        /\ b.block + c.retry = c.block + b.retry
    BY <1>1, <1>3 DEF BidInv, Untaken, OneOpportunityPerNonce
  <2>2. \A d \in accepted : d.opp # opp[t]
    BY <1>1 DEF BidInv, Untaken, Fresh
  <2>3. CASE b \in accepted /\ c \in accepted
    BY <2>3 DEF BidInv, AcceptedOnce
  <2>4. CASE b \in Taken(t, a) /\ c \in Taken(t, a)
    <3>1. b.block = c.block
      BY <1>3, <2>4
    <3>2. b.retry = c.retry
      BY <2>1, <3>1, BidTypes
    <3> QED
      BY <2>1, <3>2 DEF BidInv, OncePerRetry
  <2> QED
    BY <1>1, <1>3, <2>1, <2>2, <2>3, <2>4
<1> QED
  BY <1>4, <1>5, <1>6 DEF BidInv

\* Block-skip resilience moves the target and the retry on together.
LEMMA BidStale ==
    ASSUME IInv, BidInv, NEW t \in Tasks, NEW a \in Answers, RelaysStale(t, a)
    PROVE  BidInv'
<1>1. /\ pc[t] = "await" /\ pc' = [pc EXCEPT ![t] = "send"]
      /\ target' = [target EXCEPT ![t] = target[t] + 1]
      /\ retries' = [retries EXCEPT ![t] = retries[t] + 1]
      /\ UNCHANGED <<arrivals, mainPc, nonce, opp, txNonce, submitted, accepted>>
  BY DEF RelaysStale, Goto, mainVars, Taken
<1>2. /\ pc'[t] = "send" /\ target'[t] = target[t] + 1 /\ retries'[t] = retries[t] + 1
      /\ \A u \in Tasks \ {t} : pc'[u] = pc[u] /\ ~Active(u)
  BY <1>1 DEF IInv, TypeOK, SingleFlight, Active
<1>3. \A b \in submitted :
        /\ b.nonce = txNonce[t] <=> b.opp = opp[t]
        /\ b.opp = opp[t] => b.block + retries[t] = target[t] + b.retry /\ b.retry <= retries[t]
  BY <1>1 DEF BidInv, OwnBids, Signed
<1>4. OwnBids'
  BY <1>1, <1>2, <1>3, BidTypes DEF OwnBids, Unsigned, Signed, Active
<1>5. Dated' /\ SignedBelow'
  BY <1>1, <1>2 DEF BidInv, Dated, SignedBelow, Signed, Active
<1>6. Untaken'
  BY <1>1, <1>2 DEF BidInv, Untaken, Fresh, Active
<1>7. OncePerRetry' /\ OneOpportunityPerNonce' /\ AcceptedOnce'
  BY <1>1 DEF BidInv, OncePerRetry, OneOpportunityPerNonce, AcceptedOnce
<1> QED
  BY <1>4, <1>5, <1>6, <1>7 DEF BidInv

\* Every step of the process keeps the bundles and their nonces apart.
LEMMA BidStep == IInv /\ BidInv /\ [Next]_vars => BidInv'
<1> SUFFICES ASSUME IInv, BidInv, [Next]_vars PROVE BidInv'
  OBVIOUS
<1>1. CASE Aside \/ UNCHANGED vars
  <2>1. UNCHANGED <<pc, execVars, outVars, nonce>>
    BY <1>1, AsideShape DEF vars
  <2>2. /\ arrivals' \in Nat /\ arrivals' >= arrivals
        /\ mainPc' = "admit" => mainPc = "admit" \/ arrivals' > arrivals
    BY <1>1, BidTypes DEF Aside, ReceiveOpp, DropOpp, HeartbeatStep, SyncBlock, RecordDrift,
                          TrackBlock, Tick, mainVars, vars
  <2> QED
    BY <2>1, <2>2, BidQuiet DEF execVars, outVars
<1>2. CASE \E t \in Tasks : Spawn(t)
  BY <1>2, BidSpawn
<1>3. ASSUME NEW t \in Tasks, TaskStep(t) \/ Hang(t)
      PROVE  BidInv'
  <2>0. /\ \A u \in Tasks \ {t} : pc'[u] = pc[u]
        /\ UNCHANGED <<arrivals, mainPc, opp>>
    BY <1>3, TaskShape
  <2>1. CASE SignTx(t)
    BY <2>1, BidSign
  <2>2. CASE Broadcast(t)
    BY <2>2, BidBroadcast
  <2>3. CASE \E a \in Answers : RelaysAccept(t, a) \/ RelaysStale(t, a)
    BY <2>3, BidAccept, BidStale
  <2>4. CASE \/ Enter(t) \/ BreakerGate(t) \/ CheckCollision(t) \/ LockPools(t) \/ VetState(t)
             \/ ProbeTokens(t) \/ Simulate(t) \/ Veto(t)
    <3>1. UNCHANGED <<nonce, txNonce, retries, submitted, accepted>>
      BY <2>4 DEF Enter, BreakerGate, CheckCollision, LockPools, VetState, ProbeTokens,
                  Simulate, Veto, execVars, outVars
    <3>2. /\ pc[t] \in Unsigned /\ pc'[t] \in Unsigned \cup {"done"} /\ Active(t)
      BY <2>4 DEF Enter, BreakerGate, CheckCollision, LockPools, VetState, ProbeTokens,
                  Simulate, Veto, Goto, Unsigned, Active, IInv, TypeOK
    <3>3. \A u \in Tasks \ {t} : target'[u] = target[u]
      BY <2>4 DEF Enter, BreakerGate, CheckCollision, LockPools, VetState, ProbeTokens,
                  Simulate, Veto, execVars, IInv, TypeOK
    <3>4. \A u \in Tasks : pc'[u] \in Signed => u # t
      BY <3>2 DEF Unsigned, Signed
    <3>5. Dated' /\ SignedBelow' /\ Untaken'
      BY <2>0, <3>1, <3>2 DEF BidInv, Dated, SignedBelow, Untaken, Unsigned, Signed, Active, Fresh
    <3>6. OwnBids'
      BY <2>0, <3>1, <3>2, <3>3, <3>4 DEF BidInv, OwnBids, Unsigned, Signed
    <3>7. OncePerRetry' /\ OneOpportunityPerNonce' /\ AcceptedOnce'
      BY <3>1 DEF BidInv, OncePerRetry, OneOpportunityPerNonce, AcceptedOnce
    <3> QED
      BY <3>5, <3>6, <3>7 DEF BidInv
  <2>5. CASE \/ \E a \in Answers : RelaysReject(t, a)
             \/ RegisterHarvest(t) \/ Release(t) \/ Hang(t)
    <3>1. UNCHANGED <<nonce, target, txNonce, retries, submitted, accepted>>
      BY <2>5 DEF RelaysReject, RegisterHarvest, Release, Hang, Taken, execVars, outVars
    <3>2. Active(t) /\ pc'[t] \in {"idle", "done", "hung"}
      BY <2>5 DEF RelaysReject, RegisterHarvest, Release, Hang, Goto, Active, IInv, TypeOK
    <3> QED
      BY <2>0, <3>1, <3>2, BidTypes, BidQuiet
  <2> QED
    BY <1>3, <2>1, <2>2, <2>3, <2>4, <2>5 DEF TaskStep
<1> QED
  BY <1>1, <1>2, <1>3 DEF Next, Aside

\* BidInv holds in every state of every behaviour of the pipeline.
LEMMA BidInvariance == Spec => []BidInv
<1>1. Init => BidInv
  BY DEF Init, BidInv, Dated, OwnBids, SignedBelow, OncePerRetry, OneOpportunityPerNonce,
         Untaken, AcceptedOnce, Active, Signed
<1> QED
  BY <1>1, BidStep, Invariance, PTL DEF Spec

\* A nonce belongs to one opportunity and its transaction is offered for
\* consecutive blocks, whatever the relays answer and however often it is retried.
THEOREM NonceOwned == Spec => []OneOpportunityPerNonce
<1>1. BidInv => OneOpportunityPerNonce
  BY DEF BidInv
<1> QED
  BY <1>1, BidInvariance, PTL

\* Block-skip resilience never offers again what some relay took: every nonce is
\* accepted for one block at most.
THEOREM AcceptedAtMostOnce == Spec => []AcceptedOnce
<1>1. BidInv => AcceptedOnce
  BY DEF BidInv
<1> QED
  BY <1>1, BidInvariance, PTL

-----------------------------------------------------------------------------
(* Profits.                                                                *)

\* A candidate's figures are numbers, and its net profit is what is left after
\* the fees the executor estimated.
Priced(c) ==
    /\ c.profit \in Nat /\ c.l1 \in Nat /\ c.l2 \in Nat
    /\ c.net = SatSub(c.profit, c.l1 + c.l2)

\* What is signed nets something, and its bribe leaves some of that.
PayInv ==
    /\ cand = [t \in Tasks |-> cand[t]] /\ bribe = [t \in Tasks |-> bribe[t]]
    /\ \A t \in Tasks :
          /\ pc[t] \in {"veto", "sign", "send", "await"} => Priced(cand[t])
          /\ pc[t] \in {"sign", "send", "await"} => cand[t].net >= MinNet
          /\ pc[t] \in {"send", "await"} =>
                cand[t].profit > cand[t].l1 + cand[t].l2 + bribe[t]
    /\ PaysForItself

\* A lender that has results has a top branch.
LEMMA FirstBranch ==
    ASSUME NEW S, NEW s \in Seq(S), s # <<>>
    PROVE  s[1] \in S
OBVIOUS

\* The candidate made from a lender's top branch has its net profit.
LEMMA CandidatePriced ==
    ASSUME NEW lender, NEW top, top.profit \in Nat, top.gas \in Nat,
           NEW price \in Nat, NEW l1 \in Nat
    PROVE  Priced(Candidate(lender, top, price, l1))
<1>1. top.gas * price \in Nat
  OBVIOUS
<1> QED
  BY <1>1 DEF Priced, Candidate

\* So has the one that is better than every other lender's.
LEMMA SelectPriced ==
    ASSUME NEW sims \in [Lenders -> SimOutcomes], NEW price \in Nat, NEW l1 \in Nat,
           SelectBest(sims, price, l1) # NoCandidate
    PROVE  Priced(SelectBest(sims, price, l1))
<1>1. ASSUME NEW lender \in Lenders, Viable(sims[lender])
      PROVE  Priced(Candidate(lender, sims[lender][1], price, l1))
  <2>1. sims[lender] \in Seq([success : BOOLEAN, profit : Nat, gas : Nat])
    BY PipelineAssumption
  <2>2. sims[lender][1] \in [success : BOOLEAN, profit : Nat, gas : Nat]
    BY <1>1, <2>1, FirstBranch DEF Viable
  <2> QED
    BY <2>2, CandidatePriced
<1>2. \/ SelectBest(sims, price, l1) = NoCandidate
      \/ \E lender \in Lenders :
            /\ Viable(sims[lender])
            /\ SelectBest(sims, price, l1) = Candidate(lender, sims[lender][1], price, l1)
  BY DEF SelectBest, Consider, Better, Lenders
<1> QED
  BY <1>1, <1>2

\* The bribe takes less than all of a net profit.
LEMMA BribeLeavesProfit ==
    ASSUME NEW net \in Nat, net > 0, NEW pct \in 0 .. 99
    PROVE  (net * pct) \div 100 < net
<1>1. net * pct \in Nat /\ net * pct <= net * 99
  OBVIOUS
<1>2. net * pct < net * 100
  BY <1>1
<1> QED
  BY <1>1, <1>2

\* Signing keeps the bribe below the net profit, whatever the second quote is.
LEMMA BribeBelowNet ==
    ASSUME NEW c, Priced(c), c.net >= MinNet, NEW pct \in BribePcts, NEW competitor \in BOOLEAN
    PROVE  c.profit > c.l1 + c.l2 + BribeOf(c, FinalBribePct(pct, competitor))
<1>1. FinalBribePct(pct, competitor) \in 0 .. 99
  BY SelectionAssumption, PipelineAssumption DEF FinalBribePct
<1>2. c.net \in Nat /\ c.net > 0 /\ c.profit = c.l1 + c.l2 + c.net
  BY SelectionAssumption DEF Priced, SatSub
<1>3. BribeOf(c, FinalBribePct(pct, competitor)) < c.net
  BY <1>1, <1>2, BribeLeavesProfit DEF BribeOf
<1>4. BribeOf(c, FinalBribePct(pct, competitor)) \in Nat
  BY <1>1, <1>2 DEF BribeOf
<1> QED
  BY <1>2, <1>3, <1>4 DEF Priced

\* Every step of the process keeps what is sent profitable.
LEMMA PayStep == IInv /\ PayInv /\ [Next]_vars => PayInv'
<1> SUFFICES ASSUME IInv, PayInv, [Next]_vars PROVE PayInv'
  OBVIOUS
<1>1. CASE Aside \/ UNCHANGED vars
  <2>1. UNCHANGED <<pc, cand, bribe, submitted>>
    BY <1>1, AsideShape DEF vars, execVars, outVars
  <2> QED
    BY <2>1 DEF PayInv, PaysForItself
<1>2. ASSUME NEW t \in Tasks, Spawn(t)
      PROVE  PayInv'
  <2>1. /\ pc' = [pc EXCEPT ![t] = "enter"] /\ cand' = [cand EXCEPT ![t] = NoCandidate]
        /\ UNCHANGED <<bribe, submitted>>
    BY <1>2 DEF Spawn, Goto, outVars
  <2> QED
    BY <2>1 DEF PayInv, PaysForItself, IInv, TypeOK
<1>3. ASSUME NEW t \in Tasks, TaskStep(t) \/ Hang(t)
      PROVE  PayInv'
  <2>0. \A u \in Tasks \ {t} : pc'[u] = pc[u]
    BY <1>3, TaskShape
  <2>1. CASE Simulate(t)
    <3>1. PICK sims \in [Lenders -> SimOutcomes] :
            LET best == SelectBest(sims, baseFee + PriorityFee, L1Estimate) IN
            /\ cand' = [cand EXCEPT ![t] = best]
            /\ Goto(t, IF best = NoCandidate THEN "done" ELSE "veto")
      BY <2>1 DEF Simulate
    <3>2. baseFee + PriorityFee \in Nat /\ L1Estimate \in Nat
      BY PipelineAssumption DEF IInv, TypeOK, L1Estimate
    <3>3. pc'[t] \in {"done", "veto"} /\ (pc'[t] = "veto" => Priced(cand'[t]))
      BY <3>1, <3>2, SelectPriced DEF Goto, IInv, TypeOK, PayInv
    <3>4. UNCHANGED <<bribe, submitted>>
      BY <2>1 DEF Simulate, outVars
    <3> QED
      BY <2>0, <3>1, <3>3, <3>4 DEF PayInv, PaysForItself
  <2>2. CASE Veto(t)
    <3>1. UNCHANGED <<cand, bribe, submitted>> /\ pc[t] = "veto"
      BY <2>2 DEF Veto, execVars, outVars
    <3>2. pc'[t] \in {"done", "sign"} /\ (pc'[t] = "sign" => cand[t].net >= MinNet)
      BY <2>2 DEF Veto, PassesVetoes, WorthFiring, Goto, IInv, TypeOK
    <3> QED
      BY <2>0, <3>1, <3>2 DEF PayInv, PaysForItself
  <2>3. CASE SignTx(t)
    <3>1. PICK pct \in BribePcts, competitor \in BOOLEAN :
            bribe' = [bribe EXCEPT ![t] = BribeOf(cand[t], FinalBribePct(pct, competitor))]
      BY <2>3 DEF SignTx
    <3>2. UNCHANGED <<cand, submitted>> /\ pc[t] = "sign" /\ pc'[t] \in {"done", "send"}
      BY <2>3 DEF SignTx, Goto, outVars, IInv, TypeOK
    <3>3. cand[t].profit > cand[t].l1 + cand[t].l2 + bribe'[t]
      BY <3>1, <3>2, BribeBelowNet DEF PayInv
    <3> QED
      BY <2>0, <3>1, <3>2, <3>3 DEF PayInv, PaysForItself
  <2>4. CASE Broadcast(t)
    <3>1. /\ pc[t] = "send" /\ pc'[t] = "await" /\ submitted' = submitted \cup {Bundle(t)}
          /\ UNCHANGED <<cand, bribe>>
      BY <2>4 DEF Broadcast, Goto, execVars, IInv, TypeOK
    <3>2. Bundle(t).profit > Bundle(t).fees + Bundle(t).bribe
      BY <3>1 DEF Bundle, PayInv
    <3> QED
      BY <2>0, <3>1, <3>2 DEF PayInv, PaysForItself
  <2>5. CASE ~Simulate(t) /\ ~Veto(t) /\ ~SignTx(t) /\ ~Broadcast(t)
    <3>1. UNCHANGED <<cand, bribe, submitted>>
      BY <1>3, <2>5
         DEF TaskStep, Enter, BreakerGate, CheckCollision, LockPools, VetState, ProbeTokens,
             RelaysAccept, RelaysStale, RelaysReject, RegisterHarvest, Release, Hang,
             execVars, outVars
    <3>2. \/ pc'[t] \notin {"veto", "sign", "send", "await"}
          \/ pc'[t] = "send" /\ pc[t] = "await"
      BY <1>3, <2>5
         DEF TaskStep, Enter, BreakerGate, CheckCollision, LockPools, VetState, ProbeTokens,
             RelaysAccept, RelaysStale, RelaysReject, RegisterHarvest, Release, Hang,
             Goto, IInv, TypeOK
    <3> QED
      BY <2>0, <3>1, <3>2 DEF PayInv, PaysForItself
  <2> QED
    BY <2>1, <2>2, <2>3, <2>4, <2>5
<1> QED
  BY <1>1, <1>2, <1>3 DEF Next, Aside

\* What is sent earns more than the fees the executor estimated plus the bribe
\* finally bid, for every outcome of the simulations, every fee and every pair of
\* quotes within MAX_BRIBE_PCT.
THEOREM BidsPay == Spec => []PaysForItself
<1>1. Init => PayInv
  BY DEF Init, PayInv, PaysForItself
<1>2. PayInv => PaysForItself
  BY DEF PayInv
<1> QED
  BY <1>1, <1>2, PayStep, Invariance, PTL DEF Spec

-----------------------------------------------------------------------------
(***************************************************************************)
(* The pipeline implements SerialExec.  Most of its steps change nothing   *)
(* SerialExec speaks of; a spawn begins an opportunity, a broadcast makes  *)
(* an offer, an acceptance takes the last one, a release ends.             *)
(***************************************************************************)

\* Every slot, also one that is idle again, holds an id that has arrived, and the
\* opportunity being admitted is newer than all of them.
SlotsDated ==
    \A t \in Tasks : opp[t] <= arrivals /\ (mainPc = "admit" => opp[t] < arrivals)

\* A signed transaction has a nonce above those of all other opportunities.
OthersBelow ==
    \A t \in Tasks, b \in submitted :
        pc[t] \in Signed /\ b.opp # opp[t] => b.nonce < txNonce[t]

\* What an execution offers next is for the block after its last offer.
LastOffer ==
    \A t \in Tasks :
        /\ pc[t] \in Unsigned => retries[t] = 0
        /\ pc[t] = "send" /\ retries[t] # 0 =>
              \E b \in submitted : b.opp = opp[t] /\ b.block + 1 = target[t]
        /\ pc[t] = "await" =>
              \E b \in submitted : b.opp = opp[t] /\ b.block = target[t]

SerialInv == SlotsDated /\ OthersBelow /\ LastOffer

\* A step of a task that neither signs, nor sends, nor retries.
LEMMA SerialQuiet ==
    ASSUME IInv, SerialInv, NEW t \in Tasks,
           UNCHANGED <<arrivals, mainPc, opp, retries, submitted>>,
           \A u \in Tasks \ {t} : pc'[u] = pc[u] /\ target'[u] = target[u] /\ txNonce'[u] = txNonce[u],
           \/ pc'[t] \notin Unsigned \cup Signed
           \/ pc[t] \in Unsigned /\ pc'[t] \in Unsigned
    PROVE  SerialInv'
<1>1. pc'[t] \notin Signed /\ pc'[t] \notin {"send", "await"}
  BY DEF Unsigned, Signed
<1>2. \A u \in Tasks : pc'[u] \in Signed \cup {"send", "await"} => u # t
  BY <1>1
<1>3. SlotsDated'
  BY DEF SerialInv, SlotsDated
<1>4. OthersBelow'
  BY <1>2 DEF SerialInv, OthersBelow
<1>5. LastOffer'
  BY <1>2 DEF SerialInv, LastOffer
<1> QED
  BY <1>3, <1>4, <1>5 DEF SerialInv

\* The nonce drawn is above all that were sent.
LEMMA SerialSign ==
    ASSUME IInv, BidInv, SerialInv, NEW t \in Tasks, SignTx(t)
    PROVE  SerialInv'
<1>1. /\ pc[t] = "sign" /\ txNonce' = [txNonce EXCEPT ![t] = nonce]
      /\ UNCHANGED <<arrivals, mainPc, opp, target, retries, submitted>>
  BY DEF SignTx, mainVars, outVars
<1>2. /\ pc'[t] \in {"send", "done"} /\ txNonce'[t] = nonce
      /\ \A u \in Tasks \ {t} : pc'[u] = pc[u] /\ txNonce'[u] = txNonce[u]
  BY <1>1 DEF SignTx, Goto, IInv, TypeOK
<1>3. retries[t] = 0
  BY <1>1 DEF SerialInv, LastOffer, Unsigned
<1>4. \A b \in submitted : b.nonce < nonce
  BY DEF BidInv, Dated
<1>5. SlotsDated'
  BY <1>1 DEF SerialInv, SlotsDated
<1>6. OthersBelow'
  BY <1>1, <1>2, <1>4 DEF SerialInv, OthersBelow
<1>7. LastOffer'
  BY <1>1, <1>2, <1>3 DEF SerialInv, LastOffer, Unsigned
<1> QED
  BY <1>5, <1>6, <1>7 DEF SerialInv

\* What was sent last is the bundle for the target.
LEMMA SerialBroadcast ==
    ASSUME IInv, SerialInv, NEW t \in Tasks, Broadcast(t)
    PROVE  SerialInv'
<1>1. /\ pc[t] = "send" /\ submitted' = submitted \cup {Bundle(t)}
      /\ UNCHANGED <<arrivals, mainPc, opp, target, retries, txNonce>>
  BY DEF Broadcast, mainVars, execVars
<1>2. /\ pc'[t] = "await" /\ \A u \in Tasks \ {t} : pc'[u] = pc[u] /\ ~Active(u)
  BY <1>1 DEF Broadcast, Goto, IInv, TypeOK, SingleFlight, Active
<1>3. Bundle(t).opp = opp[t] /\ Bundle(t).block = target[t]
  BY DEF Bundle
<1>4. SlotsDated'
  BY <1>1 DEF SerialInv, SlotsDated
<1>5. OthersBelow'
  BY <1>1, <1>2, <1>3 DEF SerialInv, OthersBelow, Signed, Active
<1>6. LastOffer'
  BY <1>1, <1>2, <1>3 DEF SerialInv, LastOffer, Unsigned, Active
<1> QED
  BY <1>4, <1>5, <1>6 DEF SerialInv

\* A retry moves on to the next block.
LEMMA SerialStale ==
    ASSUME IInv, SerialInv, NEW t \in Tasks, NEW a \in Answers, RelaysStale(t, a)
    PROVE  SerialInv'
<1>1. /\ pc[t] = "await" /\ pc' = [pc EXCEPT ![t] = "send"]
      /\ target' = [target EXCEPT ![t] = target[t] + 1]
      /\ retries' = [retries EXCEPT ![t] = retries[t] + 1]
      /\ UNCHANGED <<arrivals, mainPc, opp, txNonce, submitted>>
  BY DEF RelaysStale, Goto, mainVars
<1>2. /\ pc'[t] = "send" /\ target'[t] = target[t] + 1
      /\ \A u \in Tasks \ {t} : pc'[u] = pc[u] /\ ~Active(u)
  BY <1>1 DEF IInv, TypeOK, SingleFlight, Active
<1>3. PICK b \in submitted : b.opp = opp[t] /\ b.block = target[t]
  BY <1>1 DEF SerialInv, LastOffer
<1>4. SlotsDated'
  BY <1>1 DEF SerialInv, SlotsDated
<1>5. OthersBelow'
  BY <1>1, <1>2 DEF SerialInv, OthersBelow, Signed, Active
<1>6. LastOffer'
  BY <1>1, <1>2, <1>3 DEF LastOffer, Unsigned, Active
<1> QED
  BY <1>4, <1>5, <1>6 DEF SerialInv

\* Every step of the process keeps the invariant.
LEMMA SerialStep == IInv /\ BidInv /\ SerialInv /\ [Next]_vars => SerialInv'
<1> SUFFICES ASSUME IInv, BidInv, SerialInv, [Next]_vars PROVE SerialInv'
  OBVIOUS
<1>1. CASE Aside \/ UNCHANGED vars
  <2>1. UNCHANGED <<pc, execVars, outVars>>
    BY <1>1, AsideShape DEF vars
  <2>2. \/ UNCHANGED <<arrivals, mainPc>>
        \/ arrivals' = arrivals /\ mainPc' = "recv"
        \/ arrivals' = arrivals + 1
    BY <1>1 DEF Aside, ReceiveOpp, DropOpp, HeartbeatStep, SyncBlock, RecordDrift, TrackBlock,
                Tick, mainVars, vars
  <2>3. SlotsDated'
    BY <2>1, <2>2, BidTypes DEF SerialInv, SlotsDated, execVars
  <2>4. OthersBelow' /\ LastOffer'
    BY <2>1 DEF SerialInv, OthersBelow, LastOffer, execVars, outVars
  <2> QED
    BY <2>3, <2>4 DEF SerialInv
<1>2. ASSUME NEW t \in Tasks, Spawn(t)
      PROVE  SerialInv'
  <2>1. /\ mainPc' = "recv" /\ pc' = [pc EXCEPT ![t] = "enter"]
        /\ opp' = [opp EXCEPT ![t] = arrivals] /\ retries' = [retries EXCEPT ![t] = 0]
        /\ UNCHANGED <<arrivals, target, txNonce, submitted>>
    BY <1>2 DEF Spawn, Goto, outVars
  <2>2. /\ pc'[t] = "enter" /\ opp'[t] = arrivals /\ retries'[t] = 0
        /\ \A u \in Tasks \ {t} : pc'[u] = pc[u] /\ opp'[u] = opp[u] /\ retries'[u] = retries[u]
    BY <2>1 DEF IInv, TypeOK
  <2>3. SlotsDated'
    BY <2>1, <2>2, BidTypes DEF SerialInv, SlotsDated
  <2>4. OthersBelow'
    BY <2>1, <2>2 DEF SerialInv, OthersBelow, Signed
  <2>5. LastOffer'
    BY <2>1, <2>2 DEF SerialInv, LastOffer
  <2> QED
    BY <2>3, <2>4, <2>5 DEF SerialInv
<1>3. ASSUME NEW t \in Tasks, TaskStep(t) \/ Hang(t)
      PROVE  SerialInv'
  <2>0. /\ \A u \in Tasks \ {t} : pc'[u] = pc[u]
        /\ UNCHANGED <<arrivals, mainPc, opp>>
    BY <1>3, TaskShape
  <2>1. CASE SignTx(t)
    BY <2>1, SerialSign
  <2>2. CASE Broadcast(t)
    BY <2>2, SerialBroadcast
  <2>3. CASE \E a \in Answers : RelaysStale(t, a)
    BY <2>3, SerialStale
  <2>4. CASE \/ Enter(t) \/ BreakerGate(t) \/ CheckCollision(t) \/ LockPools(t) \/ VetState(t)
             \/ ProbeTokens(t) \/ Simulate(t) \/ Veto(t)
    <3>1. UNCHANGED <<txNonce, retries, submitted>>
      BY <2>4 DEF Enter, BreakerGate, CheckCollision, LockPools, VetState, ProbeTokens,
                  Simulate, Veto, execVars, outVars
    <3>2. pc[t] \in Unsigned /\ pc'[t] \in Unsigned \cup {"done"}
      BY <2>4 DEF Enter, BreakerGate, CheckCollision, LockPools, VetState, ProbeTokens,
                  Simulate, Veto, Goto, Unsigned, IInv, TypeOK
    <3>3. \A u \in Tasks \ {t} : target'[u] = target[u]
      BY <2>4 DEF Enter, BreakerGate, CheckCollision, LockPools, VetState, ProbeTokens,
                  Simulate, Veto, execVars, IInv, TypeOK
    <3>4. "done" \notin Unsigned \cup Signed
      BY DEF Unsigned, Signed
    <3> QED
      BY <2>0, <3>1, <3>2, <3>3, <3>4, SerialQuiet
  <2>5. CASE \/ \E a \in Answers : RelaysAccept(t, a) \/ RelaysReject(t, a)
             \/ RegisterHarvest(t) \/ Release(t) \/ Hang(t)
    <3>1. UNCHANGED <<target, txNonce, retries, submitted>>
      BY <2>5 DEF RelaysAccept, RelaysReject, RegisterHarvest, Release, Hang, execVars, outVars
    <3>2. pc'[t] \in {"won", "done", "idle", "hung"}
      BY <2>5 DEF RelaysAccept, RelaysReject, RegisterHarvest, Release, Hang, Goto, IInv, TypeOK
    <3>3. pc'[t] \notin Unsigned \cup Signed
      BY <3>2 DEF Unsigned, Signed
    <3> QED
      BY <2>0, <3>1, <3>3, SerialQuiet
  <2> QED
    BY <1>3, <2>1, <2>2, <2>3, <2>4, <2>5 DEF TaskStep
<1> QED
  BY <1>1, <1>2, <1>3 DEF Next, Aside

-----------------------------------------------------------------------------
\* What SerialExec sees is running is the one active task's opportunity.
LEMMA RunningOne ==
    ASSUME IInv, NEW t \in Tasks, Active(t)
    PROVE  Running = {opp[t]}
BY DEF Running, Active, IInv, SingleFlight

\* A step that moves one active task on, and neither sends nor hears of an
\* acceptance, is not seen.
LEMMA SerialStutter ==
    ASSUME IInv, NEW t \in Tasks, Active(t), pc'[t] # "idle",
           \A u \in Tasks \ {t} : pc'[u] = pc[u],
           UNCHANGED <<opp, submitted, accepted>>
    PROVE  UNCHANGED Serial!serialVars
<1>1. {u \in Tasks : pc'[u] # "idle"} = {u \in Tasks : pc[u] # "idle"}
  BY DEF Active
<1>2. Running' = Running
  BY <1>1 DEF Running
<1> QED
  BY <1>2 DEF Serial!serialVars, Past, Offers, TakenOffers

\* A spawn begins the opportunity that arrived last.
LEMMA SpawnBegins ==
    ASSUME IInv, SerialInv, NEW t \in Tasks, Spawn(t)
    PROVE  Serial!SerialNext
<1>1. /\ mainPc = "admit" /\ permits > 0 /\ pc' = [pc EXCEPT ![t] = "enter"]
      /\ opp' = [opp EXCEPT ![t] = arrivals] /\ UNCHANGED <<submitted, accepted>>
  BY DEF Spawn, CanAcquire, Goto, outVars
<1>2. \A u \in Tasks : pc[u] = "idle"
  BY <1>1 DEF IInv, SingleFlight, Active
<1>3. /\ \A u \in Tasks : opp[u] \in Nat /\ opp[u] < arrivals
      /\ arrivals \in Nat /\ arrivals # 0
  BY <1>1, BidTypes DEF SerialInv, SlotsDated, IInv, LiveIds
<1>4. /\ pc'[t] = "enter" /\ opp'[t] = arrivals
      /\ \A u \in Tasks \ {t} : pc'[u] = "idle" /\ opp'[u] = opp[u]
  BY <1>1, <1>2 DEF IInv, TypeOK
<1>5. Running = {} /\ Running' = {arrivals}
  BY <1>2, <1>4 DEF Running
<1>6. Past' = 1 .. arrivals
  <2>1. \A u \in Tasks : 1 .. opp'[u] \subseteq 1 .. arrivals
    BY <1>3, <1>4
  <2> QED
    BY <1>4, <2>1 DEF Past
<1>7. arrivals \notin Past /\ arrivals \in Past'
  BY <1>3, <1>6 DEF Past
<1>8. UNCHANGED <<Offers, TakenOffers>>
  BY <1>1 DEF Offers, TakenOffers
<1>9. Serial!Begin(arrivals)
  BY <1>5, <1>6, <1>7, <1>8 DEF Serial!Begin
<1> QED
  BY <1>7, <1>9 DEF Serial!SerialNext

\* A broadcast offers the opportunity for a block no offer of it was for.
LEMMA BroadcastOffers ==
    ASSUME IInv, BidInv, SerialInv, NEW t \in Tasks, Broadcast(t)
    PROVE  Serial!SerialNext
<1> DEFINE x == OfferOf(Bundle(t))
<1>1. /\ pc[t] = "send" /\ submitted' = submitted \cup {Bundle(t)}
      /\ UNCHANGED <<opp, accepted>>
  BY DEF Broadcast, execVars
<1>2. pc'[t] = "await" /\ \A u \in Tasks \ {t} : pc'[u] = pc[u]
  BY <1>1 DEF Broadcast, Goto, IInv, TypeOK
<1>3. /\ x.opp = opp[t] /\ x.block = target[t] /\ x.nonce = txNonce[t]
  BY DEF OfferOf, Bundle
<1>4. Running = {opp[t]} /\ UNCHANGED <<Past, Running, TakenOffers>>
  <2>1. Active(t) /\ {u \in Tasks : pc'[u] # "idle"} = {u \in Tasks : pc[u] # "idle"}
    BY <1>1, <1>2 DEF Active
  <2> QED
    BY <1>1, <2>1, RunningOne DEF Past, Running, TakenOffers
<1>5. Offers' = Offers \cup {x}
  BY <1>1 DEF Offers
<1>6. ASSUME NEW b \in submitted, b.opp = opp[t]
      PROVE  /\ b.nonce = txNonce[t] /\ b.block < target[t] /\ retries[t] # 0
             /\ OfferOf(b) \notin TakenOffers
  <2>1. b.nonce = txNonce[t] /\ b.block + retries[t] = target[t] + b.retry /\ b.retry < retries[t]
    BY <1>1, <1>6 DEF BidInv, OwnBids, Signed
  <2>2. b.block < target[t] /\ retries[t] # 0
    BY <2>1, BidTypes
  <2>3. \A c \in accepted : c.opp # opp[t]
    BY <1>1 DEF BidInv, Untaken, Fresh
  <2>4. \A y \in TakenOffers : y.opp # opp[t]
    BY <2>3 DEF TakenOffers, OfferOf
  <2>5. OfferOf(b).opp = opp[t]
    BY <1>6 DEF OfferOf
  <2> QED
    BY <2>1, <2>2, <2>4, <2>5
<1>7. ASSUME NEW y \in Offers
      PROVE  IF y.opp = x.opp
             THEN y.nonce = x.nonce /\ y.block < x.block /\ y \notin TakenOffers
             ELSE y.nonce < x.nonce
  <2>1. PICK b \in submitted : y = OfferOf(b)
    BY DEF Offers
  <2>2. y.opp = b.opp /\ y.block = b.block /\ y.nonce = b.nonce
    BY <2>1 DEF OfferOf
  <2>3. CASE b.opp = opp[t]
    BY <1>3, <1>6, <2>1, <2>2, <2>3
  <2>4. CASE b.opp # opp[t]
    <3>1. b.nonce < txNonce[t]
      BY <1>1, <2>4 DEF SerialInv, OthersBelow, Signed
    <3> QED
      BY <1>3, <2>2, <2>4, <3>1
  <2> QED
    BY <2>3, <2>4
<1>8. \/ \A y \in Offers : y.opp # x.opp
      \/ \E y \in Offers : y.opp = x.opp /\ y.block + 1 = x.block
  <2>1. CASE retries[t] = 0
    <3>1. \A b \in submitted : b.opp # opp[t]
      BY <1>6, <2>1
    <3> QED
      BY <1>3, <3>1 DEF Offers, OfferOf
  <2>2. CASE retries[t] # 0
    <3>1. PICK b \in submitted : b.opp = opp[t] /\ b.block + 1 = target[t]
      BY <1>1, <2>2 DEF SerialInv, LastOffer
    <3>2. OfferOf(b) \in Offers /\ OfferOf(b).opp = b.opp /\ OfferOf(b).block = b.block
      BY DEF Offers, OfferOf
    <3> QED
      BY <1>3, <3>1, <3>2
  <2> QED
    BY <2>1, <2>2
<1> HIDE DEF x
<1>9. x.opp \in Running
  BY <1>3, <1>4
<1>10. Serial!MayOffer(x)
  BY <1>7, <1>8, <1>9 DEF Serial!MayOffer
<1>11. Serial!Offer
  BY <1>4, <1>5, <1>10 DEF Serial!Offer
<1> QED
  BY <1>11 DEF Serial!SerialNext

\* Two bundles of an opportunity for the same block are one.
LEMMA TakenOnce ==
    ASSUME IInv, BidInv, NEW t \in Tasks, pc[t] = "await", NEW a \in Answers,
           NEW b \in Taken(t, a), NEW c \in Taken(t, a)
    PROVE  b = c
<1>1. /\ b \in submitted /\ c \in submitted /\ b.opp = opp[t] /\ c.opp = opp[t]
      /\ b.block = target[t] /\ c.block = target[t]
  BY DEF Taken
<1>2. /\ b.block + retries[t] = target[t] + b.retry
      /\ c.block + retries[t] = target[t] + c.retry
  BY <1>1 DEF BidInv, OwnBids, Signed
<1>3. b.retry = c.retry
  BY <1>1, <1>2, BidTypes
<1> QED
  BY <1>1, <1>3 DEF BidInv, OncePerRetry

\* An acceptance takes the offer for the target, and is the first of its opportunity.
LEMMA AcceptTakes ==
    ASSUME IInv, BidInv, NEW t \in Tasks, NEW a \in Answers, RelaysAccept(t, a)
    PROVE  Serial!SerialNext \/ UNCHANGED Serial!serialVars
<1>1. /\ pc[t] = "await" /\ accepted' = accepted \cup Taken(t, a)
      /\ UNCHANGED <<opp, submitted>>
  BY DEF RelaysAccept, execVars
<1>2. pc'[t] = "won" /\ \A u \in Tasks \ {t} : pc'[u] = pc[u]
  BY DEF RelaysAccept, Goto, IInv, TypeOK
<1>3. Active(t)
  BY <1>1 DEF Active
<1>4. CASE Taken(t, a) = {}
  BY <1>1, <1>2, <1>3, <1>4, SerialStutter
<1>5. ASSUME NEW b \in Taken(t, a)
      PROVE  Serial!SerialNext
  <2>1. Taken(t, a) = {b}
    BY <1>1, TakenOnce
  <2>2. b \in submitted /\ b.opp = opp[t]
    BY DEF Taken
  <2>3. TakenOffers' = TakenOffers \cup {OfferOf(b)}
    BY <1>1, <2>1 DEF TakenOffers
  <2>4. OfferOf(b) \in Offers /\ OfferOf(b).opp = opp[t]
    BY <2>2 DEF Offers, OfferOf
  <2>5. Running = {opp[t]} /\ UNCHANGED <<Past, Running, Offers>>
    <3>1. {u \in Tasks : pc'[u] # "idle"} = {u \in Tasks : pc[u] # "idle"}
      BY <1>2, <1>3 DEF Active
    <3> QED
      BY <1>1, <1>3, <3>1, RunningOne DEF Past, Running, Offers
  <2>6. \A y \in TakenOffers : y.opp # opp[t]
    <3>1. \A c \in accepted : c.opp # opp[t]
      BY <1>1 DEF BidInv, Untaken, Fresh
    <3> QED
      BY <3>1 DEF TakenOffers, OfferOf
  <2>7. Serial!Take
    BY <2>3, <2>4, <2>5, <2>6 DEF Serial!Take
  <2> QED
    BY <2>7 DEF Serial!SerialNext
<1> QED
  BY <1>4, <1>5

\* A release ends the execution.
LEMMA ReleaseEnds ==
    ASSUME IInv, NEW t \in Tasks, Release(t)
    PROVE  Serial!SerialNext
<1>1. pc[t] = "done" /\ UNCHANGED <<opp, submitted, accepted>>
  BY DEF Release, execVars, outVars
<1>2. Active(t)
  BY <1>1 DEF Active
<1>3. \A u \in Tasks : pc'[u] = "idle"
  BY <1>2 DEF Release, Goto, IInv, TypeOK, SingleFlight, Active
<1>4. Running = {opp[t]} /\ Running' = {}
  BY <1>2, <1>3, RunningOne DEF Running
<1>5. UNCHANGED <<Past, Offers, TakenOffers>>
  BY <1>1 DEF Past, Offers, TakenOffers
<1>6. Serial!End
  BY <1>4, <1>5 DEF Serial!End
<1> QED
  BY <1>6 DEF Serial!SerialNext

\* Every step of the process is a step of SerialExec, or none.
LEMMA StepSerial ==
    IInv /\ BidInv /\ SerialInv /\ [Next]_vars => [Serial!SerialNext]_(Serial!serialVars)
<1> SUFFICES ASSUME IInv, BidInv, SerialInv, [Next]_vars
             PROVE  Serial!SerialNext \/ UNCHANGED Serial!serialVars
  OBVIOUS
<1>1. CASE Aside \/ UNCHANGED vars
  <2>1. UNCHANGED <<pc, opp, submitted, accepted>>
    BY <1>1, AsideShape DEF vars, execVars, outVars
  <2> QED
    BY <2>1 DEF Serial!serialVars, Past, Running, Offers, TakenOffers
<1>2. CASE \E t \in Tasks : Spawn(t)
  BY <1>2, SpawnBegins
<1>3. ASSUME NEW t \in Tasks, TaskStep(t) \/ Hang(t)
      PROVE  Serial!SerialNext \/ UNCHANGED Serial!serialVars
  <2>1. CASE Broadcast(t)
    BY <2>1, BroadcastOffers
  <2>2. CASE \E a \in Answers : RelaysAccept(t, a)
    BY <2>2, AcceptTakes
  <2>3. CASE Release(t)
    BY <2>3, ReleaseEnds
  <2>4. CASE ~Broadcast(t) /\ ~(\E a \in Answers : RelaysAccept(t, a)) /\ ~Release(t)
    <3>1. (\A u \in Tasks \ {t} : pc'[u] = pc[u]) /\ UNCHANGED opp
      BY <1>3, TaskShape
    <3>2. Active(t) /\ pc'[t] # "idle"
      BY <1>3, <2>4
         DEF TaskStep, Enter, BreakerGate, CheckCollision, LockPools, VetState, ProbeTokens,
             Simulate, Veto, SignTx, RelaysStale, RelaysReject, RegisterHarvest, Hang,
             Goto, Active, IInv, TypeOK
    <3>3. UNCHANGED <<submitted, accepted>>
      BY <1>3, <2>4
         DEF TaskStep, Enter, BreakerGate, CheckCollision, LockPools, VetState, ProbeTokens,
             Simulate, Veto, SignTx, RelaysStale, RelaysReject, RegisterHarvest, Hang,
             Taken, outVars
    <3> QED
      BY <3>1, <3>2, <3>3, SerialStutter
  <2> QED
    BY <2>1, <2>2, <2>3, <2>4, <1>3
<1> QED
  BY <1>1, <1>2, <1>3 DEF Next, Aside

\* The pipeline implements SerialExec, for every number of tasks, opportunities,
\* relays and retries: one opportunity at a time, in the order of arrival, with
\* rising nonces, and one block after the other until a relay takes the transaction.
THEOREM PipelineIsSerial == Spec => ExecutesSerially
<1>1. Init => SerialInv
  BY DEF Init, SerialInv, SlotsDated, OthersBelow, LastOffer, Unsigned, Signed
<1>2. Init => Serial!SerialInit
  BY DEF Init, Serial!SerialInit, Past, Running, Offers, TakenOffers
<1>3. Spec => []SerialInv
  BY <1>1, SerialStep, Invariance, BidInvariance, PTL DEF Spec
<1> QED
  BY <1>2, <1>3, StepSerial, Invariance, BidInvariance, PTL
     DEF Spec, ExecutesSerially, Serial!SerialSpec

=============================================================================
