------------------------- MODULE ExecPipelineProofs -------------------------
(***************************************************************************)
(* Proofs about ExecPipeline for every set of pools, paths, relays and     *)
(* tasks and every value of the bounds.  One inductive invariant, IInv,    *)
(* carries all of them.                                                    *)
(***************************************************************************)
EXTENDS ExecPipeline, TLAPS

Active(t) == pc[t] # "idle"

\* The permit is held exactly while a task is active, by one task.
SingleFlight ==
    /\ \A t, u \in Tasks : Active(t) /\ Active(u) => t = u
    /\ \A t \in Tasks : Active(t) => permits = 0

\* An execution carries the id of an opportunity, never 0.
LiveIds ==
    /\ mainPc = "admit" => arrivals # 0
    /\ \A t \in Tasks : Active(t) => opp[t] # 0

\* Each retry moves the target one block beyond the tracker's.
TargetBound ==
    \A t \in Tasks :
        pc[t] \notin {"idle", "enter"} => target[t] <= MaxBlock + 1 + retries[t]

\* Between the collision check and the lock nobody takes the pools.
CheckedFree ==
    \A t \in Tasks : pc[t] = "lock" => ~Collides(t)

\* A retry happens only once a transaction exists.
RetryLate ==
    \A t \in Tasks : pc[t] \in {"enter", "gate", "check", "lock"} => retries[t] = 0

\* A first bid keeps the locks of its pools for ever.
BidsLocked ==
    \A b \in submitted :
        /\ b.opp \in 1 .. MaxOpps
        /\ b.block \in Blocks
        /\ b.path \in Paths
        /\ b.retry \in Nat
        /\ b.retry = 0 => \A p \in PoolsOf(b.path) : occupied[b.block][p] = b.opp

\* The inductive invariant.
IInv ==
    /\ TypeOK
    /\ SingleFlight
    /\ LiveIds
    /\ TargetBound
    /\ CheckedFree
    /\ RetryLate
    /\ LocksHeld
    /\ BidsLocked
    /\ CooldownRespected

-----------------------------------------------------------------------------

\* The pools of a detector's path are known pools.
LEMMA PathPools ==
    ASSUME NEW p \in Paths
    PROVE  PoolsOf(p) \subseteq Pools
BY PipelineAssumption DEF PoolsOf

\* The tokens of a detector's path are known tokens.
LEMMA PathTokens ==
    ASSUME NEW p \in Paths
    PROVE  TokensInOf(p) \subseteq Tokens /\ TokensOutOf(p) \subseteq Tokens
BY PipelineAssumption DEF TokensInOf, TokensOutOf

\* The state main.rs starts from satisfies the invariant.
LEMMA InitIInv == Init => IInv
<1> SUFFICES ASSUME Init PROVE IInv
  OBVIOUS
<1> USE BreakerAssumption, PipelineAssumption DEF Init, BreakerInit
<1>1. TypeOK
  <2>1. AgeCap \in Nat
    BY DEF AgeCap
  <2>2. BreakerTypeOK
    BY <2>1 DEF BreakerTypeOK
  <2>3. BlockAgeCap \in Nat /\ 1 \in Blocks /\ 0 \in 0 .. MaxResilience - 1
    BY DEF BlockAgeCap, Blocks
  <2>4. 0 \in 0 .. MaxOpps /\ 0 \in 0 .. MaxBlock /\ Permits \in 0 .. Permits
    OBVIOUS
  <2>5. occupied \in [Blocks -> [Pools -> 0 .. MaxOpps]]
    BY <2>4
  <2> QED
    BY <2>2, <2>3, <2>4, <2>5 DEF TypeOK, PcValues
<1>2. SingleFlight /\ LiveIds /\ CheckedFree /\ RetryLate /\ LocksHeld /\ BidsLocked
  BY DEF SingleFlight, LiveIds, CheckedFree, RetryLate, LocksHeld, BidsLocked, Active,
         Locked, Gated
<1>3. TargetBound
  BY DEF TargetBound
<1>4. CooldownRespected
  BY DEF CooldownRespected, Gated
<1> QED
  BY <1>1, <1>2, <1>3, <1>4 DEF IInv

-----------------------------------------------------------------------------
(* The breaker's part: nothing but RecordFailure starts a cooldown.        *)

\* record_success clears the counters, which ends any cooldown.
LEMMA SuccessEndsCooldown ==
    ASSUME BreakerTypeOK, RecordSuccess
    PROVE  BreakerTypeOK' /\ ~CoolingDown'
BY BreakerAssumption
   DEF BreakerTypeOK, RecordSuccess, CoolingDown, TotalFailures, SumOf, FailureTypes

\* The passing of time never starts a cooldown.
LEMMA TickKeepsCooled ==
    ASSUME BreakerTypeOK, BreakerTick
    PROVE  BreakerTypeOK' /\ (~CoolingDown => ~CoolingDown')
<1>1. BreakerTypeOK'
  BY DEF BreakerTypeOK, BreakerTick
<1>2. Cooldown \in Nat /\ Cooldown' = Cooldown /\ TotalFailures' = TotalFailures
  BY BreakerAssumption DEF BreakerTypeOK, BreakerTick, Cooldown, TotalFailures, SumOf, FailureTypes
<1>3. failureAge \in Nat /\ failureAge' \in Nat /\ failureAge' >= failureAge
  BY DEF BreakerTypeOK, BreakerTick
<1> QED
  BY <1>1, <1>2, <1>3 DEF CoolingDown

\* record_failure keeps the breaker's types.
LEMMA FailureTyped ==
    ASSUME BreakerTypeOK, NEW f \in FailureTypes, RecordFailure(f)
    PROVE  BreakerTypeOK'
BY DEF BreakerTypeOK, RecordFailure

\* record_sequencer_drift has no effect on the cooldown.
LEMMA DriftKeepsCooled ==
    ASSUME BreakerTypeOK, NEW d \in Nat, RecordSequencerDrift(d)
    PROVE  BreakerTypeOK' /\ CoolingDown' = CoolingDown
BY BreakerAssumption
   DEF BreakerTypeOK, RecordSequencerDrift, CoolingDown, TotalFailures, SumOf, Cooldown

\* A step that leaves the breaker alone leaves its cooldown alone.
LEMMA QuietBreaker ==
    ASSUME UNCHANGED breakerVars
    PROVE  (BreakerTypeOK => BreakerTypeOK') /\ CoolingDown' = CoolingDown
BY DEF breakerVars, BreakerTypeOK, CoolingDown, TotalFailures, SumOf, Cooldown

-----------------------------------------------------------------------------
(* Two kinds of steps leave most of the invariant alone: those that do not *)
(* touch a task, and those that only move one task forward.                *)

\* A step of the main loop or the heartbeat that touches no execution keeps the
\* invariant.
LEMMA TasksQuiet ==
    ASSUME IInv, TypeOK',
           UNCHANGED <<permits, occupied, pc, opp, path, target, retries, submitted>>,
           ~CoolingDown => ~CoolingDown',
           mainPc' = "admit" => arrivals' # 0
    PROVE  IInv'
<1>1. SingleFlight' /\ LiveIds' /\ TargetBound' /\ RetryLate'
  BY DEF IInv, SingleFlight, LiveIds, TargetBound, RetryLate, Active
<1>2. CheckedFree' /\ LocksHeld' /\ BidsLocked'
  BY DEF IInv, CheckedFree, Collides, LocksHeld, BidsLocked, PoolsOf
<1>3. CooldownRespected'
  BY DEF IInv, CooldownRespected
<1> QED
  BY <1>1, <1>2, <1>3 DEF IInv

\* The stages before the pools are locked.
Early == {"enter", "gate", "check", "lock"}

\* A step that only moves one execution to its next stage keeps the invariant when
\* the new stage does not ask for more than the old one had.
LEMMA PcMove ==
    ASSUME IInv,
           NEW t \in Tasks, NEW label \in PcValues \ {"idle"},
           Active(t), pc[t] # "enter", Goto(t, label),
           label \in Gated => ~CoolingDown,
           label \in Locked => pc[t] \in Locked,
           label = "lock" => ~Collides(t),
           label \in Early => pc[t] \in Early,
           UNCHANGED <<breakerVars, mainVars, hbVars, occupied, opp, path, target, retries,
                       submitted>>,
           vetted' \subseteq Tokens, harvest' \subseteq Tokens, nonce' \in Nat,
           txNonce' \in [Tasks -> Nat]
    PROVE  IInv'
<1>0. CoolingDown' = CoolingDown /\ BreakerTypeOK'
  BY QuietBreaker DEF IInv, TypeOK
<1>1. TypeOK'
  BY <1>0 DEF IInv, TypeOK, Goto, mainVars, hbVars
<1>2. pc \in [Tasks -> PcValues] /\ pc' = [pc EXCEPT ![t] = label]
  BY DEF IInv, TypeOK, Goto
<1>3. \A u \in Tasks : Active(u)' => Active(u)
  BY <1>2 DEF Active
<1>4. SingleFlight' /\ LiveIds'
  BY <1>3 DEF IInv, SingleFlight, LiveIds, mainVars
<1>4a. TargetBound'
  BY <1>2 DEF IInv, TargetBound, Active
<1>5. CheckedFree'
  BY <1>2 DEF IInv, CheckedFree, Collides, PoolsOf
<1>6. RetryLate'
  BY <1>2 DEF IInv, RetryLate, Early
<1>7. LocksHeld' /\ BidsLocked'
  BY <1>2 DEF IInv, LocksHeld, BidsLocked, PoolsOf
<1>8. CooldownRespected'
  BY <1>0, <1>2 DEF IInv, CooldownRespected
<1> QED
  BY <1>1, <1>4, <1>4a, <1>5, <1>6, <1>7, <1>8 DEF IInv

-----------------------------------------------------------------------------
(* The environment of the tasks.                                           *)

\* Receiving or dropping an opportunity in the select! loop keeps the invariant.
LEMMA MainStep ==
    ASSUME IInv, (\E p \in Paths : ReceiveOpp(p)) \/ DropOpp
    PROVE  IInv'
<1>1. UNCHANGED <<breakerVars, permits, occupied, pc, opp, path, target, retries, submitted>>
  BY DEF ReceiveOpp, DropOpp, execVars, outVars
<1>2. CoolingDown' = CoolingDown /\ BreakerTypeOK'
  BY <1>1, QuietBreaker DEF IInv, TypeOK
<1>3. TypeOK'
  BY <1>2, PipelineAssumption
     DEF IInv, TypeOK, ReceiveOpp, DropOpp, execVars, hbVars, outVars
<1>4. mainPc' = "admit" => arrivals' # 0
  BY DEF IInv, TypeOK, ReceiveOpp, DropOpp
<1> QED
  BY <1>1, <1>2, <1>3, <1>4, TasksQuiet

\* The heartbeat's three calls per block, and time, keep the invariant.
LEMMA HeartbeatOrTick ==
    ASSUME IInv, HeartbeatStep \/ Tick
    PROVE  IInv'
<1>1. UNCHANGED <<permits, occupied, pc, opp, path, target, retries, submitted, mainPc,
                  arrivals, mainPath, harvest, vetted, nonce, txNonce>>
  BY DEF HeartbeatStep, SyncBlock, RecordDrift, TrackBlock, Tick, mainVars, execVars, outVars
<1>2. BreakerTypeOK' /\ (~CoolingDown => ~CoolingDown')
  <2>1. CASE RecordDrift
    BY <2>1, DriftKeepsCooled DEF RecordDrift, IInv, TypeOK
  <2>2. CASE Tick
    BY <2>2, TickKeepsCooled DEF Tick, IInv, TypeOK
  <2>3. CASE UNCHANGED breakerVars
    BY <2>3, QuietBreaker DEF IInv, TypeOK
  <2> QED
    BY <2>1, <2>2, <2>3 DEF HeartbeatStep, SyncBlock, TrackBlock
<1>3. /\ hbPc' \in {"recv", "drift", "track"} /\ hbBlock' \in 0 .. MaxBlock
      /\ synced' \in BOOLEAN /\ blockAge' \in Nat /\ baseFee' \in Nat
      /\ blockTracker' \in 0 .. MaxBlock
  <2>1. BaseFees \subseteq Nat /\ MaxBlock \in Nat /\ 0 .. BlockAgeCap \subseteq Nat
    BY PipelineAssumption, BreakerAssumption DEF BlockAgeCap
  <2>2. CASE \E n \in 1 .. MaxBlock, fee \in BaseFees, age \in 0 .. BlockAgeCap :
                 SyncBlock(n, fee, age)
    BY <2>1, <2>2 DEF SyncBlock, IInv, TypeOK
  <2>3. CASE RecordDrift \/ TrackBlock
    BY <2>3 DEF RecordDrift, TrackBlock, IInv, TypeOK
  <2>4. CASE Tick
    BY <2>4 DEF Tick, IInv, TypeOK
  <2> QED
    BY <2>2, <2>3, <2>4 DEF HeartbeatStep
<1>4. TypeOK'
  BY <1>1, <1>2, <1>3 DEF IInv, TypeOK
<1>5. mainPc' = "admit" => arrivals' # 0
  BY <1>1 DEF IInv, LiveIds
<1> QED
  BY <1>1, <1>2, <1>4, <1>5, TasksQuiet

-----------------------------------------------------------------------------
(* One lemma per step of a task.                                           *)

\* try_acquire_owned starts an execution only when none is active.
LEMMA SpawnStep ==
    ASSUME IInv, NEW t \in Tasks, Spawn(t)
    PROVE  IInv'
<1> USE DEF IInv
<1>1. permits = 1 /\ permits' = 0 /\ \A u \in Tasks : ~Active(u)
  BY PipelineAssumption DEF Spawn, CanAcquire, TypeOK, SingleFlight
<1>2. CoolingDown' = CoolingDown /\ BreakerTypeOK'
  BY QuietBreaker DEF TypeOK, Spawn
<1>3. /\ pc' = [pc EXCEPT ![t] = "enter"] /\ opp' = [opp EXCEPT ![t] = arrivals]
      /\ path' = [path EXCEPT ![t] = mainPath] /\ retries' = [retries EXCEPT ![t] = 0]
      /\ UNCHANGED <<arrivals, mainPath, hbVars, occupied, vetted, nonce, harvest, target,
                     txNonce, submitted>>
      /\ mainPc = "admit" /\ mainPc' = "recv"
  BY DEF Spawn, Goto, outVars
<1>4. TypeOK'
  BY <1>1, <1>2, <1>3, PipelineAssumption DEF TypeOK, PcValues, hbVars
<1>5. SingleFlight' /\ LiveIds'
  BY <1>1, <1>3 DEF SingleFlight, LiveIds, Active, TypeOK
<1>6. TargetBound'
  BY <1>1, <1>3 DEF TargetBound, Active, TypeOK
<1>7. CheckedFree' /\ RetryLate' /\ LocksHeld' /\ CooldownRespected'
  BY <1>1, <1>3 DEF CheckedFree, RetryLate, LocksHeld, CooldownRespected, Active, Locked,
                    Gated, TypeOK
<1>8. BidsLocked'
  BY <1>3 DEF BidsLocked, PoolsOf
<1> QED
  BY <1>4, <1>5, <1>6, <1>7, <1>8

\* Reading the target block from the BlockTracker keeps the invariant.
LEMMA EnterStep ==
    ASSUME IInv, NEW t \in Tasks, Enter(t)
    PROVE  IInv'
<1> USE DEF IInv
<1>1. /\ target' = [target EXCEPT ![t] = blockTracker + 1]
      /\ pc[t] = "enter" /\ pc' = [pc EXCEPT ![t] = "gate"]
      /\ UNCHANGED <<breakerVars, mainVars, hbVars, occupied, vetted, nonce, harvest,
                     opp, path, txNonce, retries, submitted>>
  BY DEF Enter, Goto, outVars
<1>2. CoolingDown' = CoolingDown /\ BreakerTypeOK'
  BY <1>1, QuietBreaker DEF TypeOK
<1>3. blockTracker + 1 \in Blocks /\ blockTracker + 1 <= MaxBlock + 1
  BY PipelineAssumption DEF TypeOK, Blocks
<1>4. TypeOK'
  BY <1>1, <1>2, <1>3 DEF TypeOK, PcValues, mainVars, hbVars
<1>5. \A u \in Tasks : Active(u)' => Active(u)
  BY <1>1 DEF Active, TypeOK
<1>6. SingleFlight' /\ LiveIds'
  BY <1>1, <1>5 DEF SingleFlight, LiveIds, mainVars
<1>7. TargetBound'
  BY <1>1, <1>3, PipelineAssumption DEF TargetBound, TypeOK
<1>8. RetryLate' /\ BidsLocked'
  BY <1>1 DEF RetryLate, BidsLocked, PoolsOf, TypeOK
<1>9. CheckedFree' /\ LocksHeld' /\ CooldownRespected'
  BY <1>1, <1>2 DEF CheckedFree, LocksHeld, CooldownRespected, Collides, PoolsOf, Locked,
                    Gated, TypeOK
<1> QED
  BY <1>4, <1>6, <1>7, <1>8, <1>9

\* Locking the pools gives them to this execution and takes none from the bids
\* already made: the collision check saw them free and nobody ran in between.
LEMMA LockStep ==
    ASSUME IInv, NEW t \in Tasks, LockPools(t)
    PROVE  IInv'
<1> USE DEF IInv
<1>1. /\ pc[t] = "lock" /\ pc' = [pc EXCEPT ![t] = "vet"]
      /\ occupied' = [occupied EXCEPT ![target[t]] =
             [p \in Pools |-> IF p \in PoolsOf(path[t]) THEN opp[t]
                              ELSE occupied[target[t]][p]]]
      /\ UNCHANGED <<breakerVars, mainVars, hbVars, vetted, nonce, harvest, opp, path,
                     target, txNonce, retries, submitted>>
  BY DEF LockPools, Goto, execVars, outVars
<1>2. CoolingDown' = CoolingDown /\ BreakerTypeOK'
  BY <1>1, QuietBreaker DEF TypeOK
<1>3. PoolsOf(path[t]) \subseteq Pools /\ target[t] \in Blocks
  BY PathPools DEF TypeOK
<1>4. TypeOK'
  <2>1. occupied' \in [Blocks -> [Pools -> 0 .. MaxOpps]]
    BY <1>1, <1>3 DEF TypeOK
  <2> QED
    BY <1>1, <1>2, <2>1 DEF TypeOK, PcValues, mainVars, hbVars
<1>5. \A u \in Tasks : u # t => ~Active(u)
  BY <1>1 DEF SingleFlight, Active
<1>6. \A u \in Tasks : Active(u)' => u = t
  BY <1>1, <1>5 DEF Active, TypeOK
<1>7. SingleFlight' /\ LiveIds'
  BY <1>1, <1>6 DEF SingleFlight, LiveIds, mainVars, Active
<1>8. TargetBound' /\ RetryLate' /\ CheckedFree'
  BY <1>1, <1>5 DEF TargetBound, RetryLate, CheckedFree, TypeOK, Active
<1>9. LocksHeld'
  <2> SUFFICES ASSUME NEW p \in PoolsOf(path[t])
               PROVE  occupied'[target[t]][p] = opp[t]
    BY <1>1, <1>6 DEF LocksHeld, Locked, Gated, Active, PoolsOf
  <2> QED
    BY <1>1, <1>3 DEF TypeOK
<1>10. CooldownRespected'
  BY <1>1, <1>2 DEF CooldownRespected, TypeOK, Gated
<1>11. BidsLocked'
  <2> SUFFICES ASSUME NEW b \in submitted, b.retry = 0, NEW p \in PoolsOf(b.path)
               PROVE  occupied'[b.block][p] = b.opp
    BY <1>1 DEF BidsLocked, PoolsOf
  <2>1. /\ b.opp \in 1 .. MaxOpps /\ b.block \in Blocks /\ p \in Pools
        /\ occupied[b.block][p] = b.opp
    BY PathPools DEF BidsLocked
  <2>2. CASE b.block = target[t] /\ p \in PoolsOf(path[t])
    <3>1. occupied[target[t]][p] = 0
      BY <1>1, <2>2 DEF CheckedFree, Collides
    <3> QED
      BY <2>1, <2>2, <3>1
  <2>3. CASE b.block # target[t] \/ p \notin PoolsOf(path[t])
    BY <1>1, <1>3, <2>1, <2>3 DEF TypeOK
  <2> QED
    BY <2>2, <2>3
<1> QED
  BY <1>4, <1>7, <1>8, <1>9, <1>10, <1>11

\* The breaker check lets an execution through only when nothing cools down.
LEMMA GateStep ==
    ASSUME IInv, NEW t \in Tasks, BreakerGate(t)
    PROVE  IInv'
<1>1. PICK label \in {"done", "check"} :
        Goto(t, label) /\ (label = "check" => ~CoolingDown)
  BY DEF BreakerGate, IsOpen
<1>2. /\ Active(t) /\ pc[t] = "gate"
      /\ UNCHANGED <<breakerVars, mainVars, hbVars, occupied, opp, path, target, retries,
                     submitted, vetted, harvest, nonce, txNonce>>
  BY DEF BreakerGate, Active, execVars, outVars
<1>3. /\ label \in PcValues \ {"idle"} /\ label \notin Locked /\ label # "lock"
      /\ pc[t] \in Early /\ (label \in Gated => ~CoolingDown)
  BY <1>1, <1>2 DEF PcValues, Locked, Gated, Early
<1> QED
  BY <1>1, <1>2, <1>3, PcMove DEF IInv, TypeOK

\* The collision check lets an execution through only when its pools are free.
LEMMA CheckStep ==
    ASSUME IInv, NEW t \in Tasks, CheckCollision(t)
    PROVE  IInv'
<1>1. PICK label \in {"done", "lock"} :
        Goto(t, label) /\ (label = "lock" => ~Collides(t))
  BY DEF CheckCollision
<1>2. /\ Active(t) /\ pc[t] = "check"
      /\ UNCHANGED <<breakerVars, mainVars, hbVars, occupied, opp, path, target, retries,
                     submitted, vetted, harvest, nonce, txNonce>>
  BY DEF CheckCollision, Active, execVars, outVars
<1>3. ~CoolingDown
  BY <1>2 DEF IInv, CooldownRespected, Gated
<1>4. /\ label \in PcValues \ {"idle"} /\ label \notin Locked /\ pc[t] \in Early
  BY <1>1, <1>2 DEF PcValues, Locked, Gated, Early
<1> QED
  BY <1>1, <1>2, <1>3, <1>4, PcMove DEF IInv, TypeOK

\* The steps between the lock and the broadcast, the hang and the harvest.
LEMMA ForwardStep ==
    ASSUME IInv, NEW t \in Tasks,
           \/ VetState(t) \/ ProbeTokens(t) \/ Simulate(t) \/ Veto(t) \/ SignTx(t)
           \/ Hang(t) \/ RegisterHarvest(t)
    PROVE  IInv'
<1>1. PICK label \in {"done", "probe", "sim", "veto", "sign", "send", "hung"} :
        /\ Goto(t, label)
        /\ label # "done" => pc[t] \in Locked
  BY DEF VetState, ProbeTokens, Simulate, Veto, SignTx, Hang, RegisterHarvest, Locked, Gated
<1>2. /\ Active(t) /\ pc[t] # "enter"
      /\ UNCHANGED <<breakerVars, mainVars, hbVars, occupied, opp, path, target, retries,
                     submitted>>
  BY DEF VetState, ProbeTokens, Simulate, Veto, SignTx, Hang, RegisterHarvest, Active,
         execVars, outVars
<1>3. vetted' \subseteq Tokens /\ harvest' \subseteq Tokens
  <2>1. TokensInOf(path[t]) \subseteq Tokens /\ TokensOutOf(path[t]) \subseteq Tokens
    BY PathTokens DEF IInv, TypeOK
  <2> QED
    BY <2>1 DEF VetState, ProbeTokens, Simulate, Veto, SignTx, Hang, RegisterHarvest, IInv,
                TypeOK
<1>4. nonce' \in Nat /\ txNonce' \in [Tasks -> Nat]
  BY DEF VetState, ProbeTokens, Simulate, Veto, SignTx, Hang, RegisterHarvest, execVars,
         IInv, TypeOK
<1>5. label \in Gated => ~CoolingDown
  <2>1. pc[t] \in Locked => pc[t] \in Gated
    BY DEF Locked
  <2>2. label \in Gated => label # "done"
    BY DEF Gated
  <2> QED
    BY <1>1, <2>1, <2>2 DEF IInv, CooldownRespected
<1>6. /\ label \in PcValues \ {"idle"} /\ label # "lock" /\ label \notin Early
      /\ label \in Locked => label # "done"
  BY <1>1 DEF PcValues, Locked, Gated, Early
<1> QED
  BY <1>1, <1>2, <1>3, <1>4, <1>5, <1>6, PcMove

\* A bundle is sent only by a task that holds the locks of its pools, or that
\* retries: broadcast_bundle keeps the invariant.
LEMMA BroadcastStep ==
    ASSUME IInv, NEW t \in Tasks, Broadcast(t)
    PROVE  IInv'
<1> USE DEF IInv
<1>1. /\ pc[t] = "send" /\ pc' = [pc EXCEPT ![t] = "await"]
      /\ submitted' = submitted \cup {Bundle(t)}
      /\ UNCHANGED <<breakerVars, mainVars, hbVars, occupied, vetted, nonce, harvest, opp,
                     path, target, txNonce, retries>>
  BY DEF Broadcast, Goto, execVars
<1>2. CoolingDown' = CoolingDown /\ BreakerTypeOK'
  BY <1>1, QuietBreaker DEF TypeOK
<1>3. TypeOK'
  BY <1>1, <1>2 DEF TypeOK, PcValues, mainVars, hbVars
<1>4. \A u \in Tasks : Active(u)' => Active(u)
  BY <1>1 DEF Active, TypeOK
<1>5. SingleFlight' /\ LiveIds'
  BY <1>1, <1>4 DEF SingleFlight, LiveIds, mainVars
<1>6. TargetBound' /\ RetryLate' /\ CheckedFree'
  BY <1>1 DEF TargetBound, RetryLate, CheckedFree, Collides, PoolsOf, TypeOK
<1>7. LocksHeld' /\ CooldownRespected'
  BY <1>1, <1>2 DEF LocksHeld, CooldownRespected, PoolsOf, TypeOK, Locked, Gated
<1>8. BidsLocked'
  <2>1. /\ Bundle(t).opp = opp[t] /\ Bundle(t).block = target[t]
        /\ Bundle(t).path = path[t] /\ Bundle(t).retry = retries[t]
    BY DEF Bundle
  <2>2. /\ opp[t] \in 1 .. MaxOpps /\ target[t] \in Blocks /\ path[t] \in Paths
        /\ retries[t] \in Nat
    BY <1>1, PipelineAssumption DEF TypeOK, LiveIds, Active
  <2>3. retries[t] = 0 => \A p \in PoolsOf(path[t]) : occupied[target[t]][p] = opp[t]
    BY <1>1 DEF LocksHeld, Locked, Gated
  <2> QED
    BY <1>1, <2>1, <2>2, <2>3 DEF BidsLocked, PoolsOf
<1> QED
  BY <1>3, <1>5, <1>6, <1>7, <1>8

\* An accepted bundle clears the failure counters, so nothing cools down.
LEMMA AcceptStep ==
    ASSUME IInv, NEW t \in Tasks, NEW a \in Answers, RelaysAccept(t, a)
    PROVE  IInv'
<1> USE DEF IInv
<1>1. /\ pc[t] = "await" /\ pc' = [pc EXCEPT ![t] = "won"]
      /\ UNCHANGED <<mainVars, hbVars, occupied, vetted, nonce, harvest, opp, path, target,
                     txNonce, retries, submitted>>
  BY DEF RelaysAccept, Goto, execVars
<1>2. ~CoolingDown' /\ BreakerTypeOK'
  BY SuccessEndsCooldown DEF RelaysAccept, TypeOK
<1>3. TypeOK'
  BY <1>1, <1>2 DEF TypeOK, PcValues, mainVars, hbVars
<1>4. \A u \in Tasks : Active(u)' => Active(u)
  BY <1>1 DEF Active, TypeOK
<1>5. SingleFlight' /\ LiveIds'
  BY <1>1, <1>4 DEF SingleFlight, LiveIds, mainVars
<1>6. TargetBound' /\ RetryLate' /\ CheckedFree'
  BY <1>1 DEF TargetBound, RetryLate, CheckedFree, Collides, PoolsOf, TypeOK
<1>7. LocksHeld' /\ BidsLocked'
  BY <1>1 DEF LocksHeld, BidsLocked, PoolsOf, TypeOK, Locked, Gated
<1>8. CooldownRespected'
  BY <1>2 DEF CooldownRespected
<1> QED
  BY <1>3, <1>5, <1>6, <1>7, <1>8

\* Block-skip resilience moves the target one block on: it stays within the
\* attempts of max_resilience_attempts.
LEMMA StaleStep ==
    ASSUME IInv, NEW t \in Tasks, NEW a \in Answers, RelaysStale(t, a)
    PROVE  IInv'
<1> USE DEF IInv
<1>1. /\ pc[t] = "await" /\ pc' = [pc EXCEPT ![t] = "send"]
      /\ target' = [target EXCEPT ![t] = target[t] + 1]
      /\ retries' = [retries EXCEPT ![t] = retries[t] + 1]
      /\ retries[t] + 1 < MaxResilience
      /\ UNCHANGED <<breakerVars, mainVars, hbVars, occupied, vetted, nonce, harvest, opp,
                     path, txNonce, submitted>>
  BY DEF RelaysStale, Goto, MayRetry
<1>2. CoolingDown' = CoolingDown /\ BreakerTypeOK'
  BY <1>1, QuietBreaker DEF TypeOK
<1>3. /\ retries[t] + 1 \in 1 .. MaxResilience - 1
      /\ target[t] \in Nat /\ target[t] >= 1
      /\ target[t] <= MaxBlock + 1 + retries[t]
  <2>1. /\ retries[t] \in 0 .. MaxResilience - 1 /\ target[t] \in Blocks
        /\ MaxBlock \in Nat /\ MaxResilience \in Nat
    BY PipelineAssumption DEF TypeOK
  <2>2. target[t] <= MaxBlock + 1 + retries[t]
    BY <1>1 DEF TargetBound
  <2> QED
    BY <1>1, <2>1, <2>2 DEF Blocks
<1>4. target[t] + 1 \in Blocks
  <2>1. retries[t] \in Nat /\ MaxBlock \in Nat /\ MaxResilience \in Nat
    BY PipelineAssumption DEF TypeOK
  <2> QED
    BY <1>1, <1>3, <2>1 DEF Blocks
<1>5. TypeOK'
  <2>1. /\ target' \in [Tasks -> Blocks]
        /\ retries' \in [Tasks -> 0 .. MaxResilience - 1]
    BY <1>1, <1>3, <1>4 DEF TypeOK
  <2> QED
    BY <1>1, <1>2, <2>1 DEF TypeOK, PcValues, mainVars, hbVars
<1>6. \A u \in Tasks : Active(u)' => Active(u)
  BY <1>1 DEF Active, TypeOK
<1>7. SingleFlight' /\ LiveIds'
  BY <1>1, <1>6 DEF SingleFlight, LiveIds, mainVars
<1>8. TargetBound'
  <2> SUFFICES ASSUME NEW u \in Tasks, pc'[u] \notin {"idle", "enter"}
               PROVE  target'[u] <= MaxBlock + 1 + retries'[u]
    BY DEF TargetBound
  <2>1. CASE u = t
    <3>1. retries[t] \in Nat /\ MaxBlock \in Nat
      BY PipelineAssumption DEF TypeOK
    <3> QED
      BY <1>1, <1>3, <2>1, <3>1 DEF TypeOK
  <2>2. CASE u # t
    BY <1>1, <2>2 DEF TypeOK, TargetBound
  <2> QED
    BY <2>1, <2>2
<1>9. RetryLate' /\ CheckedFree'
  BY <1>1 DEF RetryLate, CheckedFree, Collides, PoolsOf, TypeOK
<1>10. LocksHeld'
  <2>1. retries'[t] # 0
    BY <1>1, <1>3 DEF TypeOK
  <2> QED
    BY <1>1, <2>1 DEF LocksHeld, PoolsOf, TypeOK
<1>11. BidsLocked' /\ CooldownRespected'
  BY <1>1, <1>2 DEF BidsLocked, CooldownRespected, PoolsOf, TypeOK, Gated
<1> QED
  BY <1>5, <1>7, <1>8, <1>9, <1>10, <1>11

\* A recorded failure ends the execution in the same step, and no other is
\* active: the cooldown starts with nothing in flight.
LEMMA RejectStep ==
    ASSUME IInv, NEW t \in Tasks, NEW a \in Answers, RelaysReject(t, a)
    PROVE  IInv'
<1> USE DEF IInv
<1>1. /\ pc[t] = "await" /\ pc' = [pc EXCEPT ![t] = "done"]
      /\ UNCHANGED <<mainVars, hbVars, occupied, vetted, nonce, harvest, opp, path, target,
                     txNonce, retries, submitted>>
  BY DEF RelaysReject, Goto, execVars
<1>2. BreakerTypeOK'
  <2>1. PICK f \in FailureTypes : RecordFailure(f)
    BY DEF RelaysReject, FailureTypes
  <2> QED
    BY <2>1, FailureTyped DEF TypeOK
<1>3. TypeOK'
  BY <1>1, <1>2 DEF TypeOK, PcValues, mainVars, hbVars
<1>4. \A u \in Tasks : u # t => ~Active(u)
  BY <1>1 DEF SingleFlight, Active
<1>5. \A u \in Tasks : Active(u)' => u = t
  BY <1>1, <1>4 DEF Active, TypeOK
<1>6. SingleFlight' /\ LiveIds'
  BY <1>1, <1>5 DEF SingleFlight, LiveIds, mainVars, Active
<1>7. TargetBound' /\ RetryLate' /\ CheckedFree'
  BY <1>1 DEF TargetBound, RetryLate, CheckedFree, Collides, PoolsOf, TypeOK
<1>8. LocksHeld' /\ BidsLocked'
  BY <1>1 DEF LocksHeld, BidsLocked, PoolsOf, TypeOK, Locked, Gated
<1>9. CooldownRespected'
  BY <1>1, <1>4 DEF CooldownRespected, Active, Gated, TypeOK
<1> QED
  BY <1>3, <1>6, <1>7, <1>8, <1>9

\* drop(permit) leaves every task idle and the permit free.
LEMMA ReleaseStep ==
    ASSUME IInv, NEW t \in Tasks, Release(t)
    PROVE  IInv'
<1> USE DEF IInv
<1>1. /\ pc[t] = "done" /\ pc' = [pc EXCEPT ![t] = "idle"]
      /\ permits' = permits + 1
      /\ UNCHANGED <<breakerVars, arrivals, mainPc, mainPath, hbVars, occupied, vetted,
                     nonce, harvest, opp, path, target, txNonce, retries, submitted>>
  BY DEF Release, Goto, execVars, outVars
<1>2. CoolingDown' = CoolingDown /\ BreakerTypeOK'
  BY <1>1, QuietBreaker DEF TypeOK
<1>3. permits = 0 /\ \A u \in Tasks : u # t => ~Active(u)
  BY <1>1 DEF SingleFlight, Active
<1>4. \A u \in Tasks : ~Active(u)'
  BY <1>1, <1>3 DEF Active, TypeOK
<1>5. TypeOK'
  <2>1. permits' \in 0 .. Permits
    BY <1>1, <1>3, PipelineAssumption
  <2> QED
    BY <1>1, <1>2, <2>1 DEF TypeOK, PcValues, hbVars
<1>6. SingleFlight' /\ LiveIds'
  BY <1>1, <1>4 DEF SingleFlight, LiveIds
<1>7. TargetBound' /\ RetryLate' /\ CheckedFree' /\ LocksHeld' /\ CooldownRespected'
  BY <1>4 DEF TargetBound, RetryLate, CheckedFree, LocksHeld, CooldownRespected, Active,
              Locked, Gated
<1>8. BidsLocked'
  BY <1>1 DEF BidsLocked, PoolsOf
<1> QED
  BY <1>5, <1>6, <1>7, <1>8

-----------------------------------------------------------------------------
(* The invariant and what follows from it.                                 *)

\* Every step of the process, a stutter included, keeps the invariant.
LEMMA NextIInv == IInv /\ [Next]_vars => IInv'
<1> SUFFICES ASSUME IInv, [Next]_vars
             PROVE  IInv'
  OBVIOUS
<1>1. CASE (\E p \in Paths : ReceiveOpp(p)) \/ DropOpp
  BY <1>1, MainStep
<1>2. CASE HeartbeatStep \/ Tick
  BY <1>2, HeartbeatOrTick
<1>3. CASE \E t \in Tasks : Spawn(t)
  BY <1>3, SpawnStep
<1>4. ASSUME NEW t \in Tasks, TaskStep(t) \/ Hang(t)
      PROVE  IInv'
  <2>1. CASE Enter(t)
    BY <2>1, EnterStep
  <2>2. CASE BreakerGate(t)
    BY <2>2, GateStep
  <2>3. CASE CheckCollision(t)
    BY <2>3, CheckStep
  <2>4. CASE LockPools(t)
    BY <2>4, LockStep
  <2>5. CASE \/ VetState(t) \/ ProbeTokens(t) \/ Simulate(t) \/ Veto(t) \/ SignTx(t)
             \/ Hang(t) \/ RegisterHarvest(t)
    BY <2>5, ForwardStep
  <2>6. CASE Broadcast(t)
    BY <2>6, BroadcastStep
  <2>7. ASSUME NEW a \in Answers, RelaysAccept(t, a) \/ RelaysStale(t, a) \/ RelaysReject(t, a)
        PROVE  IInv'
    BY <2>7, AcceptStep, StaleStep, RejectStep
  <2>8. CASE Release(t)
    BY <2>8, ReleaseStep
  <2> QED
    BY <1>4, <2>1, <2>2, <2>3, <2>4, <2>5, <2>6, <2>7, <2>8 DEF TaskStep
<1>5. CASE UNCHANGED vars
  <2>1. UNCHANGED <<breakerVars, mainVars, hbVars, occupied, vetted, nonce, harvest, pc,
                    execVars, outVars>>
    BY <1>5 DEF vars
  <2>2. CoolingDown' = CoolingDown /\ BreakerTypeOK'
    BY <2>1, QuietBreaker DEF IInv, TypeOK
  <2>3. TypeOK'
    BY <2>1, <2>2 DEF IInv, TypeOK, mainVars, hbVars, execVars
  <2>4. mainPc' = "admit" => arrivals' # 0
    BY <2>1 DEF IInv, LiveIds, mainVars
  <2> QED
    BY <2>1, <2>2, <2>3, <2>4, TasksQuiet DEF mainVars, execVars, outVars
<1> QED
  BY <1>1, <1>2, <1>3, <1>4, <1>5 DEF Next

\* IInv holds in every state of every behaviour of the pipeline.
LEMMA Invariance == Spec => []IInv
BY InitIInv, NextIInv, PTL DEF Spec

\* Every variable keeps its type: in particular the target block of a retried
\* bundle never leaves the blocks that max_resilience_attempts allows, and the
\* semaphore never holds more than its one permit.
THEOREM TypeCorrect == Spec => []TypeOK
<1>1. IInv => TypeOK
  BY DEF IInv
<1> QED
  BY <1>1, Invariance, PTL

\* The pools that simulate_and_execute locked for its target block stay its own
\* while it runs, for every number of tasks, pools and blocks.
THEOREM LocksSafe == Spec => []LocksHeld
<1>1. IInv => LocksHeld
  BY DEF IInv
<1> QED
  BY <1>1, Invariance, PTL

\* The bundle sequencer keeps first bids apart: two opportunities are offered
\* for one pool and block only after a block-skip retry of one of them.
THEOREM FirstBidsSafe == Spec => []FirstBidsDisjoint
<1>1. IInv => FirstBidsDisjoint
  <2> SUFFICES ASSUME BidsLocked,
                      NEW a \in submitted, NEW b \in submitted,
                      a.block = b.block, a.opp # b.opp,
                      NEW p \in PoolsOf(a.path) \cap PoolsOf(b.path),
                      ~(a.retry > 0), ~(b.retry > 0)
               PROVE  FALSE
    BY DEF IInv, FirstBidsDisjoint
  <2>1. a.retry = 0 /\ b.retry = 0
    BY DEF BidsLocked
  <2>2. occupied[a.block][p] = a.opp /\ occupied[b.block][p] = b.opp
    BY <2>1 DEF BidsLocked
  <2> QED
    BY <2>2
<1> QED
  BY <1>1, Invariance, PTL

\* No execution past the breaker check runs while the breaker cools down, although
\* is_open is consulted once and the permit is all that keeps executions apart.
THEOREM CooldownSafe == Spec => []CooldownRespected
<1>1. IInv => CooldownRespected
  BY DEF IInv
<1> QED
  BY <1>1, Invariance, PTL

=============================================================================
