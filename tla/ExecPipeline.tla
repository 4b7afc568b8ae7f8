---------------------------- MODULE ExecPipeline ----------------------------
(***************************************************************************)
(* The execution pipeline: the opportunity loop of main.rs with its        *)
(* one-permit semaphore, the tasks it spawns (simulate_and_execute of      *)
(* flash_loan_executor.rs, from the target block to the relays' answers),  *)
(* the heartbeat that feeds it blocks, and the circuit breaker they share. *)
(*                                                                         *)
(* Every action of a task runs from one await, or one access to state      *)
(* another task writes, to the next.  The simulator, the honeypot probe,   *)
(* the bribe quotes and the relays are external here: their answers are    *)
(* chosen from constant sets.                                              *)
(***************************************************************************)
EXTENDS CircuitBreaker, TradeSelection

CONSTANTS
    Tasks,           \* slots for spawned executions
    Permits,         \* Semaphore::new(1)
    Pools, Tokens,
    CoreTokens,      \* CORE_TOKENS, never probed
    Honeypots,       \* tokens check_honeypot rejects
    Weth,            \* TOKEN_WETH
    SafeTokens,      \* SAFE_TOKENS, registered for harvest from the start
    Paths,           \* the paths the detector may propose
    HopsOf,          \* Paths -> their hops, [pool, tokenIn, tokenOut] records
    LiveExecutor,    \* executor_address is set; FALSE is the dry run
    SimOutcomes,     \* result sequences a lender's simulations may return
    BribePcts,       \* quotes calculate_bribe may return
    BaseFees,        \* base fees a block may carry
    PriorityFee,     \* priority fee of gas_state
    GasCap,          \* 0.1 gwei cap of suggest_priority_fee
    MinTip,          \* MIN_BUILDER_TIP_WEI
    MaxResilience,   \* max_resilience_attempts
    Relays,          \* PRIVATE_RELAYS
    MaxOpps,         \* bound: opportunities the detector sends
    MaxBlock         \* bound: last block the heartbeat sees

ASSUME PipelineAssumption ==
    /\ Permits = 1
    /\ CoreTokens \cap Honeypots = {}
    /\ SafeTokens \subseteq Tokens
    /\ HopsOf \in [Paths -> SUBSET [pool : Pools, tokenIn : Tokens, tokenOut : Tokens]]
    /\ LiveExecutor \in BOOLEAN
    /\ SimOutcomes \subseteq Seq([success : BOOLEAN, profit : Nat, gas : Nat])
    /\ BribePcts \subseteq 0 .. MaxBribePct
    /\ BaseFees \subseteq Nat
    /\ PriorityFee \in Nat /\ GasCap \in Nat /\ MinTip \in Nat \ {0}
    /\ MaxResilience \in Nat \ {0}
    /\ MaxOpps \in Nat /\ MaxBlock \in Nat

VARIABLES
    \* main loop
    arrivals,      \* opportunities received so far; the number is the opp's id
    mainPc,        \* "recv", or "admit" between the pause check and try_acquire
    mainPath,      \* path of the opportunity being admitted
    permits,       \* exec_sem
    harvest,       \* InventoryManager::harvest_registry
    \* heartbeat and what it publishes
    hbPc,          \* "recv", "drift" or "track": the three calls per block
    hbBlock,       \* number of the last block received
    synced,        \* last_block_timestamp # 0
    blockAge,      \* now - last_block_timestamp, saturated
    baseFee,       \* gas_state.base_fee
    blockTracker,  \* BlockTracker::current_block
    \* executor
    occupied,      \* occupied_pools: block -> pool -> opp id, 0 when absent
    vetted,        \* vetted_tokens
    nonce,         \* NonceManager::current
    pc, opp, path, target, cand, bribe, tip, txNonce, retries,  \* per task
    \* what left the process
    submitted,     \* bundles sent to the relays
    accepted       \* those at least one relay took

mainVars == <<arrivals, mainPc, mainPath, permits>>
hbVars   == <<hbPc, hbBlock, synced, blockAge, baseFee, blockTracker>>
execVars == <<opp, path, target, cand, bribe, tip, txNonce, retries>>
outVars  == <<submitted, accepted>>
vars == <<breakerVars, mainVars, hbVars, occupied, vetted, nonce, harvest, pc,
          execVars, outVars>>

BlockAgeCap == MaxNodeLag + 1
Blocks      == 1 .. MaxBlock + MaxResilience

PoolsOf(p)     == {h.pool : h \in HopsOf[p]}
TokensInOf(p)  == {h.tokenIn : h \in HopsOf[p]}
TokensOutOf(p) == {h.tokenOut : h \in HopsOf[p]}

PcValues == {"idle", "enter", "gate", "check", "lock", "vet", "probe", "sim", "veto",
             "sign", "send", "await", "won", "done", "hung"}

Bundle(t) ==
    [opp |-> opp[t], path |-> path[t], block |-> target[t], nonce |-> txNonce[t],
     tip |-> tip[t], bribe |-> bribe[t], profit |-> cand[t].profit,
     fees |-> cand[t].l1 + cand[t].l2, retry |-> retries[t]]

Init ==
    /\ BreakerInit
    /\ arrivals = 0 /\ mainPc = "recv" /\ mainPath \in Paths /\ permits = Permits
    /\ harvest = SafeTokens
    /\ hbPc = "recv" /\ hbBlock = 0 /\ synced = FALSE /\ blockAge = BlockAgeCap
    /\ baseFee = 0 /\ blockTracker = 0
    /\ occupied = [b \in Blocks |-> [p \in Pools |-> 0]]
    /\ vetted = {} /\ nonce = 0
    /\ pc = [t \in Tasks |-> "idle"]
    /\ opp = [t \in Tasks |-> 0]
    /\ path = [t \in Tasks |-> mainPath]
    /\ target = [t \in Tasks |-> 1]
    /\ cand = [t \in Tasks |-> NoCandidate]
    /\ bribe = [t \in Tasks |-> 0]
    /\ tip = [t \in Tasks |-> 0]
    /\ txNonce = [t \in Tasks |-> 0]
    /\ retries = [t \in Tasks |-> 0]
    /\ submitted = {} /\ accepted = {}

Goto(t, label) == pc' = [pc EXCEPT ![t] = label]

-----------------------------------------------------------------------------
(* The main loop: one select! iteration per opportunity.                   *)

\* Mutant: the loop forgets GLOBAL_PAUSE.
ReceiveOppUnpaused(p) ==
    /\ mainPc = "recv" /\ arrivals < MaxOpps
    /\ arrivals' = arrivals + 1
    /\ mainPath' = p
    /\ mainPc' = IF LiveExecutor THEN "admit" ELSE "recv"
    /\ UNCHANGED <<breakerVars, permits, hbVars, occupied, vetted, nonce, harvest,
                   pc, execVars, outVars>>

\* opp_rx.recv(), then the GLOBAL_PAUSE check: a paused loop, like a dry run,
\* drops the opportunity.
ReceiveOpp(p) ==
    /\ mainPc = "recv" /\ arrivals < MaxOpps
    /\ arrivals' = arrivals + 1
    /\ mainPath' = p
    /\ mainPc' = IF globalPause \/ ~LiveExecutor THEN "recv" ELSE "admit"
    /\ UNCHANGED <<breakerVars, permits, hbVars, occupied, vetted, nonce, harvest,
                   pc, execVars, outVars>>

CanAcquire == permits > 0

\* Mutant: the permit is dropped as soon as it is acquired.
SpawnUncounted(t) ==
    /\ mainPc = "admit" /\ CanAcquire /\ pc[t] = "idle"
    /\ mainPc' = "recv"
    /\ Goto(t, "enter")
    /\ opp' = [opp EXCEPT ![t] = arrivals]
    /\ path' = [path EXCEPT ![t] = mainPath]
    /\ cand' = [cand EXCEPT ![t] = NoCandidate]
    /\ retries' = [retries EXCEPT ![t] = 0]
    /\ UNCHANGED <<breakerVars, permits, arrivals, mainPath, hbVars, occupied, vetted, nonce,
                   harvest, target, bribe, tip, txNonce, outVars>>

\* try_acquire_owned succeeded: spawn the execution.
Spawn(t) ==
    /\ mainPc = "admit" /\ CanAcquire /\ pc[t] = "idle"
    /\ mainPc' = "recv"
    /\ permits' = permits - 1
    /\ Goto(t, "enter")
    /\ opp' = [opp EXCEPT ![t] = arrivals]
    /\ path' = [path EXCEPT ![t] = mainPath]
    /\ cand' = [cand EXCEPT ![t] = NoCandidate]
    /\ retries' = [retries EXCEPT ![t] = 0]
    /\ UNCHANGED <<breakerVars, arrivals, mainPath, hbVars, occupied, vetted, nonce,
                   harvest, target, bribe, tip, txNonce, outVars>>

\* The permit is taken: the opportunity is dropped.
DropOpp ==
    /\ mainPc = "admit" /\ ~CanAcquire
    /\ mainPc' = "recv"
    /\ UNCHANGED <<breakerVars, arrivals, mainPath, permits, hbVars, occupied, vetted,
                   nonce, harvest, pc, execVars, outVars>>

-----------------------------------------------------------------------------
(* The heartbeat task: sync_block, record_sequencer_drift and              *)
(* block_tracker.update are three calls, and other tasks run between them. *)

\* A block header arrives; missed blocks (a reconnect) leave a gap.
SyncBlock(n, fee, age) ==
    /\ hbPc = "recv" /\ n > hbBlock
    /\ hbPc' = "drift"
    /\ hbBlock' = n
    /\ synced' = TRUE
    /\ blockAge' = age
    /\ baseFee' = fee
    /\ UNCHANGED <<breakerVars, mainVars, blockTracker, occupied, vetted, nonce, harvest,
                   pc, execVars, outVars>>

RecordDrift ==
    /\ hbPc = "drift"
    /\ hbPc' = "track"
    /\ RecordSequencerDrift(blockAge)
    /\ UNCHANGED <<mainVars, hbBlock, synced, blockAge, baseFee, blockTracker, occupied,
                   vetted, nonce, harvest, pc, execVars, outVars>>

TrackBlock ==
    /\ hbPc = "track"
    /\ hbPc' = "recv"
    /\ blockTracker' = hbBlock
    /\ UNCHANGED <<breakerVars, mainVars, hbBlock, synced, blockAge, baseFee, occupied,
                   vetted, nonce, harvest, pc, execVars, outVars>>

Tick ==
    /\ BreakerTick
    /\ blockAge' = IF blockAge < BlockAgeCap THEN blockAge + 1 ELSE blockAge
    /\ UNCHANGED <<mainVars, hbPc, hbBlock, synced, baseFee, blockTracker, occupied,
                   vetted, nonce, harvest, pc, execVars, outVars>>

-----------------------------------------------------------------------------
(* simulate_and_execute, one execution per task.                           *)

Enter(t) ==
    /\ pc[t] = "enter"
    /\ target' = [target EXCEPT ![t] = blockTracker + 1]
    /\ Goto(t, "gate")
    /\ UNCHANGED <<breakerVars, mainVars, hbVars, occupied, vetted, nonce, harvest,
                   opp, path, cand, bribe, tip, txNonce, retries, outVars>>

BreakerGate(t) ==
    /\ pc[t] = "gate"
    /\ Goto(t, IF IsOpen THEN "done" ELSE "check")
    /\ UNCHANGED <<breakerVars, mainVars, hbVars, occupied, vetted, nonce, harvest,
                   execVars, outVars>>

\* Mutant: the collision check looks at the tracker's block, not at the target.
CollidesNow(t) == blockTracker > 0 /\ \E p \in PoolsOf(path[t]) : occupied[blockTracker][p] # 0

Collides(t) == \E p \in PoolsOf(path[t]) : occupied[target[t]][p] # 0

CheckCollision(t) ==
    /\ pc[t] = "check"
    /\ Goto(t, IF Collides(t) THEN "done" ELSE "lock")
    /\ UNCHANGED <<breakerVars, mainVars, hbVars, occupied, vetted, nonce, harvest,
                   execVars, outVars>>

\* Mutant: the target block is read again when the pools are locked.
LockPoolsAgain(t) ==
    /\ pc[t] = "lock"
    /\ occupied' = [occupied EXCEPT ![blockTracker + 1] =
                      [p \in Pools |-> IF p \in PoolsOf(path[t]) THEN opp[t] ELSE @[p]]]
    /\ Goto(t, "vet")
    /\ UNCHANGED <<breakerVars, mainVars, hbVars, vetted, nonce, harvest, execVars, outVars>>

LockPools(t) ==
    /\ pc[t] = "lock"
    /\ occupied' = [occupied EXCEPT ![target[t]] =
                      [p \in Pools |-> IF p \in PoolsOf(path[t]) THEN opp[t] ELSE @[p]]]
    /\ Goto(t, "vet")
    /\ UNCHANGED <<breakerVars, mainVars, hbVars, vetted, nonce, harvest, execVars, outVars>>

\* verify_state_freshness.  detect_wash_trap follows it and never rejects:
\* trader_registry stays empty because record_trader has no caller.
StateFresh == ~synced \/ blockAge <= MaxNodeLag

VetState(t) ==
    /\ pc[t] = "vet"
    /\ Goto(t, IF StateFresh THEN "probe" ELSE "done")
    /\ UNCHANGED <<breakerVars, mainVars, hbVars, occupied, vetted, nonce, harvest,
                   execVars, outVars>>

ToProbe(t) == (TokensOutOf(path[t]) \ vetted) \ CoreTokens

\* Mutant: tokens are remembered before the probes' verdicts are read.
ProbeTokensEarly(t) ==
    /\ pc[t] = "probe"
    /\ vetted' = vetted \cup TokensOutOf(path[t])
    /\ Goto(t, IF ToProbe(t) \cap Honeypots # {} THEN "done" ELSE "sim")
    /\ UNCHANGED <<breakerVars, mainVars, hbVars, occupied, nonce, harvest, execVars, outVars>>

\* Bytecode fetches and honeypot probes, awaited; every token of the path is
\* then remembered as vetted.
ProbeTokens(t) ==
    /\ pc[t] = "probe"
    /\ \/ /\ ToProbe(t) \cap Honeypots # {}
          /\ Goto(t, "done")
          /\ UNCHANGED vetted
       \/ /\ ToProbe(t) \cap Honeypots = {}
          /\ vetted' = vetted \cup TokensOutOf(path[t])
          /\ Goto(t, "sim")
    /\ UNCHANGED <<breakerVars, mainVars, hbVars, occupied, nonce, harvest, execVars, outVars>>

\* L1DataFeeCalculator::estimate_l1_fee fails until refresh_scalars has run,
\* which nothing calls; the executor then takes 0.
L1Estimate == 0

Simulate(t) ==
    /\ pc[t] = "sim"
    /\ \E sims \in [Lenders -> SimOutcomes] :
         LET best == SelectBest(sims, baseFee + PriorityFee, L1Estimate) IN
         /\ cand' = [cand EXCEPT ![t] = best]
         /\ Goto(t, IF best = NoCandidate THEN "done" ELSE "veto")
    /\ UNCHANGED <<breakerVars, mainVars, hbVars, occupied, vetted, nonce, harvest,
                   opp, path, target, bribe, tip, txNonce, retries, outVars>>

Veto(t) ==
    /\ pc[t] = "veto"
    /\ \E pct \in BribePcts :
         Goto(t, IF PassesVetoes(cand[t], balance, pct) THEN "sign" ELSE "done")
    /\ UNCHANGED <<breakerVars, mainVars, hbVars, occupied, vetted, nonce, harvest,
                   execVars, outVars>>

\* suggest_priority_fee for an opportunity without a competing gas price.
SuggestedTip ==
    IF baseFee > GasCap THEN 0 ELSE IF PriorityFee >= MinTip THEN PriorityFee ELSE MinTip

\* Mutant: the nonce is read, not taken.
SignTxPeek(t) ==
    /\ pc[t] = "sign"
    /\ \E pct \in BribePcts :
         bribe' = [bribe EXCEPT ![t] = BribeOf(cand[t], FinalBribePct(pct, FALSE))]
    /\ tip' = [tip EXCEPT ![t] = SuggestedTip]
    /\ txNonce' = [txNonce EXCEPT ![t] = nonce]
    /\ Goto(t, "send")
    /\ UNCHANGED <<breakerVars, mainVars, hbVars, occupied, vetted, nonce, harvest,
                   opp, path, target, cand, retries, outVars>>

\* The nonce is taken before signing, so a signing error burns it.
SignTx(t) ==
    /\ pc[t] = "sign"
    /\ \E pct \in BribePcts, competitor \in BOOLEAN :
         bribe' = [bribe EXCEPT ![t] = BribeOf(cand[t], FinalBribePct(pct, competitor))]
    /\ tip' = [tip EXCEPT ![t] = SuggestedTip]
    /\ txNonce' = [txNonce EXCEPT ![t] = nonce]
    /\ nonce' = nonce + 1
    /\ \E signed \in BOOLEAN : Goto(t, IF signed THEN "send" ELSE "done")
    /\ UNCHANGED <<breakerVars, mainVars, hbVars, occupied, vetted, harvest,
                   opp, path, target, cand, retries, outVars>>

Broadcast(t) ==
    /\ pc[t] = "send"
    /\ submitted' = submitted \cup {Bundle(t)}
    /\ Goto(t, "await")
    /\ UNCHANGED <<breakerVars, mainVars, hbVars, occupied, vetted, nonce, harvest,
                   execVars, accepted>>

\* The answers of one broadcast, one per relay: "ok", or an error text that
\* mentions an expired block, the contract's shield, or neither.
Answers == [Relays -> {"ok", "stale", "shield", "error"}]

Says(answers, text) == \E r \in Relays : answers[r] = text

\* Mutant: one attempt too many.
MayRetryOnceMore(t) == retries[t] < MaxResilience

MayRetry(t) == retries[t] + 1 < MaxResilience

\* What the relays keep of the bundle just offered.
Taken(t, answers) ==
    {b \in submitted : Says(answers, "ok") /\ b.opp = opp[t] /\ b.block = target[t]}

RelaysAccept(t, answers) ==
    /\ pc[t] = "await" /\ Says(answers, "ok")
    /\ accepted' = accepted \cup Taken(t, answers)
    /\ RecordSuccess
    /\ Goto(t, "won")
    /\ UNCHANGED <<mainVars, hbVars, occupied, vetted, nonce, harvest, execVars, submitted>>

\* Mutant: one stale relay is enough, whatever the others answered.
RelaysStaleAny(t, answers) ==
    /\ pc[t] = "await"
    /\ Says(answers, "stale") /\ MayRetry(t)
    /\ target' = [target EXCEPT ![t] = @ + 1]
    /\ retries' = [retries EXCEPT ![t] = @ + 1]
    /\ accepted' = accepted \cup Taken(t, answers)
    /\ Goto(t, "send")
    /\ UNCHANGED <<breakerVars, mainVars, hbVars, occupied, vetted, nonce, harvest,
                   opp, path, cand, bribe, tip, txNonce, submitted>>

\* Block-skip resilience: the same signed transaction for the next block.
RelaysStale(t, answers) ==
    /\ pc[t] = "await" /\ ~Says(answers, "ok")
    /\ Says(answers, "stale") /\ MayRetry(t)
    /\ target' = [target EXCEPT ![t] = @ + 1]
    /\ retries' = [retries EXCEPT ![t] = @ + 1]
    /\ accepted' = accepted \cup Taken(t, answers)
    /\ Goto(t, "send")
    /\ UNCHANGED <<breakerVars, mainVars, hbVars, occupied, vetted, nonce, harvest,
                   opp, path, cand, bribe, tip, txNonce, submitted>>

RelaysReject(t, answers) ==
    /\ pc[t] = "await" /\ ~Says(answers, "ok")
    /\ ~(Says(answers, "stale") /\ MayRetry(t))
    /\ accepted' = accepted \cup Taken(t, answers)
    /\ RecordFailure(IF Says(answers, "shield") THEN "Slippage" ELSE "Other")
    /\ Goto(t, "done")
    /\ UNCHANGED <<mainVars, hbVars, occupied, vetted, nonce, harvest, execVars, submitted>>

\* A call without a timeout that never returns: the RPC fetch behind the probe
\* or a relay's HTTP request.
Hang(t) ==
    /\ pc[t] \in {"probe", "await"}
    /\ Goto(t, "hung")
    /\ UNCHANGED <<breakerVars, mainVars, hbVars, occupied, vetted, nonce, harvest,
                   execVars, outVars>>

RegisterHarvest(t) ==
    /\ pc[t] = "won"
    /\ harvest' = harvest \cup
                   ((TokensInOf(path[t]) \cup TokensOutOf(path[t])) \ {Weth})
    /\ Goto(t, "done")
    /\ UNCHANGED <<breakerVars, mainVars, hbVars, occupied, vetted, nonce, execVars, outVars>>

\* Mutant: only a won execution gives the permit back.
ReleaseWinner(t) ==
    /\ pc[t] = "done" /\ \E b \in accepted : b.opp = opp[t]
    /\ permits' = permits + 1
    /\ Goto(t, "idle")
    /\ UNCHANGED <<breakerVars, arrivals, mainPc, mainPath, hbVars, occupied, vetted,
                   nonce, harvest, execVars, outVars>>

\* drop(permit) at the end of the spawned task.
Release(t) ==
    /\ pc[t] = "done"
    /\ permits' = permits + 1
    /\ Goto(t, "idle")
    /\ UNCHANGED <<breakerVars, arrivals, mainPc, mainPath, hbVars, occupied, vetted,
                   nonce, harvest, execVars, outVars>>

\* Every step of a task but the hang.
TaskStep(t) ==
    \/ Enter(t) \/ BreakerGate(t) \/ CheckCollision(t) \/ LockPools(t) \/ VetState(t)
    \/ ProbeTokens(t) \/ Simulate(t) \/ Veto(t) \/ SignTx(t) \/ Broadcast(t)
    \/ \E a \in Answers : RelaysAccept(t, a) \/ RelaysStale(t, a) \/ RelaysReject(t, a)
    \/ RegisterHarvest(t) \/ Release(t)

HeartbeatStep ==
    \/ \E n \in 1 .. MaxBlock, fee \in BaseFees, age \in 0 .. BlockAgeCap : SyncBlock(n, fee, age)
    \/ RecordDrift
    \/ TrackBlock

Next ==
    \/ \E p \in Paths : ReceiveOpp(p)
    \/ \E t \in Tasks : Spawn(t)
    \/ DropOpp
    \/ HeartbeatStep
    \/ Tick
    \/ \E t \in Tasks : TaskStep(t) \/ Hang(t)

\* Tokio keeps polling a spawned task that is ready; an await that never
\* completes is the Hang step, so no answer is assumed of a relay.
Fairness == \A t \in Tasks : WF_vars(TaskStep(t))

Spec == Init /\ [][Next]_vars /\ Fairness

-----------------------------------------------------------------------------
(* Properties.                                                             *)

\* Types, with the bounds that carry meaning: the one permit of exec_sem, and a
\* retried target block within max_resilience_attempts of the tracker's.
TypeOK ==
    /\ BreakerTypeOK
    /\ arrivals \in 0 .. MaxOpps
    /\ mainPc \in {"recv", "admit"}
    /\ mainPath \in Paths
    /\ permits \in 0 .. Permits
    /\ harvest \subseteq Tokens
    /\ hbPc \in {"recv", "drift", "track"}
    /\ hbBlock \in 0 .. MaxBlock
    /\ synced \in BOOLEAN
    /\ blockAge \in Nat
    /\ baseFee \in Nat
    /\ blockTracker \in 0 .. MaxBlock
    /\ occupied \in [Blocks -> [Pools -> 0 .. MaxOpps]]
    /\ vetted \subseteq Tokens
    /\ nonce \in Nat
    /\ pc \in [Tasks -> PcValues]
    /\ opp \in [Tasks -> 0 .. MaxOpps]
    /\ path \in [Tasks -> Paths]
    /\ target \in [Tasks -> Blocks]
    /\ txNonce \in [Tasks -> Nat]
    /\ retries \in [Tasks -> 0 .. MaxResilience - 1]

\* The stages of an execution that has passed the breaker, the ones that
\* follow its pool locks, and the ones that hold a signed transaction.
Gated  == {"check", "lock", "vet", "probe", "sim", "veto", "sign", "send", "await", "hung"}
Locked == Gated \ {"check", "lock"}
Signed == {"send", "await"}

\* The pools an execution locked for its target block stay its own until it
\* ends (flash_loan_executor.rs, "Immediate Collision Locking"), as long as it
\* has not moved on to the next block.
LocksHeld ==
    \A t \in Tasks : pc[t] \in Locked /\ retries[t] = 0 =>
        \A p \in PoolsOf(path[t]) : occupied[target[t]][p] = opp[t]

\* The bundle sequencer keeps opportunities apart: two of them are offered for
\* the same pool and block only when one was re-broadcast for a later block.
FirstBidsDisjoint ==
    \A a, b \in submitted :
        /\ a.block = b.block /\ a.opp # b.opp
        /\ PoolsOf(a.path) \cap PoolsOf(b.path) # {}
        => a.retry > 0 \/ b.retry > 0

\* Nothing is in flight while the breaker cools down: an execution past the
\* breaker check has seen the last failure's whole cooldown pass, although the
\* check is made once, long before the bundle is sent.
CooldownRespected ==
    (\E t \in Tasks : pc[t] \in Gated) => ~CoolingDown

\* GLOBAL_PAUSE bounds a losing streak: after the failure that raises it at most
\* one more execution (admitted between the pause check and try_acquire) fails.
LossRunBounded == TotalFailures <= CriticalFailures + 2

\* A nonce belongs to one opportunity, and its transaction is offered for
\* consecutive blocks: each retry is for the next one.
OneOpportunityPerNonce ==
    \A a, b \in submitted : a.nonce = b.nonce =>
        /\ a.opp = b.opp
        /\ a.block + b.retry = b.block + a.retry

\* A transaction is accepted for one block only: block-skip resilience never
\* offers again what some relay already took.
AcceptedOnce ==
    \A a, b \in accepted : a.nonce = b.nonce => a = b

\* No bundle routes through a token that the honeypot probe rejects, although a
\* token is probed once and then trusted for good.
NoHoneypotFired ==
    \A b \in submitted : TokensOutOf(b.path) \cap Honeypots = {}

\* What is sent earns more than the fees the executor estimated plus the bribe
\* finally bid, even though the bribe is quoted again, and raised against
\* competitors, after the profitability check.
PaysForItself ==
    \A b \in submitted : b.profit > b.fees + b.bribe

\* What SerialExec sees of the pipeline.
Past    == UNION {1 .. opp[t] : t \in Tasks}
Running == {opp[t] : t \in {u \in Tasks : pc[u] # "idle"}}

OfferOf(b) == [opp |-> b.opp, block |-> b.block, nonce |-> b.nonce]

Offers == {OfferOf(b) : b \in submitted}
TakenOffers == {OfferOf(b) : b \in accepted}

Serial == INSTANCE SerialExec WITH
    past <- Past, running <- Running, offers <- Offers, taken <- TakenOffers

\* However its tasks, the main loop and the heartbeat interleave, the pipeline
\* executes one opportunity at a time, in the order of arrival: nonces rise with
\* the opportunities, and a transaction is offered for one block after the other
\* until it is taken, never again after that.
ExecutesSerially == Serial!SerialSpec

\* Every execution gives its permit back, unless a call without a timeout never
\* returns.
PermitReturned ==
    \A t \in Tasks : pc[t] = "enter" ~> pc[t] \in {"idle", "hung"}

-----------------------------------------------------------------------------
(* A claim of the repository that the code does not keep.                  *)

\* The bundle sequencer: two opportunities never hold the same pool in the same
\* block ("Self-collision detected").
NoSelfCollision ==
    \A a, b \in accepted :
        a.block = b.block /\ PoolsOf(a.path) \cap PoolsOf(b.path) # {} => a.opp = b.opp

=============================================================================
