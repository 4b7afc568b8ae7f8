--------------------------- MODULE CircuitBreaker ---------------------------
(***************************************************************************)
(* The CircuitBreaker of utils.rs: failure counters per kind, the time of  *)
(* the last failure, the health signals (kill switch, sequencer drift,     *)
(* relay latency, wallet balance) and the process-wide GLOBAL_PAUSE flag   *)
(* it raises.                                                              *)
(*                                                                         *)
(* Times are kept as ages.  The code stores the wall-clock second of the   *)
(* last failure and compares now - last with the cooldown; here            *)
(* failureAge is that difference, growing with Tick and saturating at      *)
(* AgeCap, which no cooldown exceeds.  A breaker that never failed has     *)
(* last_failure_time = 0, i.e. an age beyond every cooldown.               *)
(***************************************************************************)
EXTENDS Naturals

CONSTANTS
    MaxFailures,       \* CircuitBreaker::new(5, _)
    BaseCooldown,      \* CircuitBreaker::new(_, 30)
    CriticalFailures,  \* the literal 20 of record_failure
    MaxLatency,        \* MAX_BUILDER_LATENCY_MS
    MinBalance,        \* MIN_SEARCHER_BALANCE_WEI
    MaxNodeLag,        \* MAX_NODE_LAG_SECONDS
    CountCap           \* bound: failures of one kind that a run records

ASSUME BreakerAssumption ==
    /\ MaxFailures \in Nat \ {0}
    /\ BaseCooldown \in Nat \ {0}
    /\ CriticalFailures \in Nat
    /\ MaxLatency \in Nat
    /\ MinBalance \in Nat
    /\ MaxNodeLag \in Nat
    /\ CountCap \in Nat

VARIABLES
    failures,      \* failure_counts
    failureAge,    \* now - last_failure_time, saturated
    latency,       \* last_latency_ms
    balance,       \* current_balance, the cached wallet balance
    killSwitch,    \* manual_kill_switch
    stalled,       \* sequencer_stalled
    globalPause    \* constants::GLOBAL_PAUSE

breakerVars ==
    <<failures, failureAge, latency, balance, killSwitch, stalled, globalPause>>

FailureTypes == {"OutOfGas", "Slippage", "Revert", "Other"}

AgeCap == BaseCooldown * (1 + CountCap)

BreakerTypeOK ==
    /\ failures \in [FailureTypes -> Nat]
    /\ failureAge \in Nat
    /\ latency \in Nat
    /\ balance \in Nat
    /\ killSwitch \in BOOLEAN
    /\ stalled \in BOOLEAN
    /\ globalPause \in BOOLEAN

BreakerInit ==
    /\ failures = [f \in FailureTypes |-> 0]
    /\ failureAge = AgeCap
    /\ latency = 0
    /\ balance = 0
    /\ killSwitch = FALSE
    /\ stalled = FALSE
    /\ globalPause = FALSE

SumOf(counts) ==
    counts["OutOfGas"] + counts["Slippage"] + counts["Revert"] + counts["Other"]

TotalFailures == SumOf(failures)

Cooldown == BaseCooldown * (1 + failures["OutOfGas"])

\* Mutant: the breaker latches open.
CoolingForever == TotalFailures >= MaxFailures

CoolingDown ==
    /\ TotalFailures >= MaxFailures
    /\ failureAge < Cooldown

\* A zero latency or a zero balance means "not measured yet" to the code.
Healthy ==
    /\ ~killSwitch
    /\ ~stalled
    /\ latency <= MaxLatency
    /\ balance >= MinBalance \/ balance = 0

IsOpen == ~Healthy \/ CoolingDown

-----------------------------------------------------------------------------
(* The operations of the breaker.                                          *)

RecordFailure(f) ==
    LET counted == [failures EXCEPT ![f] = @ + 1] IN
    /\ failures' = counted
    /\ failureAge' = 0
    /\ globalPause' = (globalPause \/ SumOf(counted) > CriticalFailures)
    /\ UNCHANGED <<latency, balance, killSwitch, stalled>>

RecordSuccess ==
    /\ failures' = [f \in FailureTypes |-> 0]
    /\ UNCHANGED <<failureAge, latency, balance, killSwitch, stalled, globalPause>>

RecordSequencerDrift(drift) ==
    /\ stalled' = (drift > MaxNodeLag)
    /\ UNCHANGED <<failures, failureAge, latency, balance, killSwitch, globalPause>>

SetKillSwitch(on) ==
    /\ killSwitch' = on
    /\ UNCHANGED <<failures, failureAge, latency, balance, stalled, globalPause>>

RecordLatency(ms) ==
    /\ latency' = ms
    /\ UNCHANGED <<failures, failureAge, balance, killSwitch, stalled, globalPause>>

UpdateBalance(wei) ==
    /\ balance' = wei
    /\ UNCHANGED <<failures, failureAge, latency, killSwitch, stalled, globalPause>>

\* One second of wall-clock time.
BreakerTick ==
    /\ failureAge' = IF failureAge < AgeCap THEN failureAge + 1 ELSE failureAge
    /\ UNCHANGED <<failures, latency, balance, killSwitch, stalled, globalPause>>

-----------------------------------------------------------------------------
(* The breaker on its own: any caller may use any operation at any time.   *)

BreakerNext ==
    \/ \E f \in FailureTypes : failures[f] < CountCap /\ RecordFailure(f)
    \/ RecordSuccess
    \/ \E drift \in 0 .. MaxNodeLag + 1 : RecordSequencerDrift(drift)
    \/ \E on \in BOOLEAN : SetKillSwitch(on)
    \/ \E ms \in 0 .. MaxLatency + 1 : RecordLatency(ms)
    \/ \E wei \in 0 .. MinBalance : UpdateBalance(wei)
    \/ BreakerTick

BreakerSpec ==
    BreakerInit /\ [][BreakerNext]_breakerVars /\ WF_breakerVars(BreakerTick)

\* Once failures stop, the breaker stops cooling down for good, however long
\* the out-of-gas failures have made its cooldown (is_open).
EventuallyCools == <>[](failureAge # 0) => <>[]~CoolingDown

=============================================================================
