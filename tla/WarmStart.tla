------------------------------ MODULE WarmStart ------------------------------
(***************************************************************************)
(* Discovery::warm_start of discovery.rs: the background task that scans   *)
(* the last blocks for pools, batch by batch, each over the next head of   *)
(* the HTTP provider pool.                                                 *)
(*                                                                         *)
(* Time advances by Tick; a request that is under way may take any number  *)
(* of ticks, a sleep takes its own.  The RPC provider is external: it      *)
(* answers or fails, at most MaxErrors times.                              *)
(***************************************************************************)
EXTENDS ProviderPool

CONSTANTS
    Heights,      \* block numbers get_block_number may return
    Lookback,     \* 2000 blocks
    BatchSpan,    \* 250: a batch covers one block more
    Backoff,      \* the 10 second sleep after an error, in ticks
    Pause,        \* the 5 second sleep after every batch, in ticks
    MaxErrors     \* bound: failed requests

\* A range that is a whole number of batches plus one block would lose that
\* block; 2000 blocks in batches of 251 is not one.
ASSUME WarmStartAssumption ==
    /\ Lookback \in Nat /\ BatchSpan \in Nat /\ Backoff \in Nat /\ Pause \in Nat
    /\ \A k \in 0 .. Lookback : k * (BatchSpan + 1) # Lookback
    /\ \A n \in Heights : n \in Nat /\ n >= Lookback
    /\ MaxErrors \in Nat

VARIABLES
    scanPc,      \* "off", "height", "pick", "fetch", "sleep" or "done"
    height,      \* current_block, 0 when it could not be read
    startBlock,  \* start_block
    head,        \* idx of the batch's provider
    timer,       \* what is left of the sleep
    scanned,     \* blocks whose logs were sent to the pool channel
    rescanned,   \* some block's logs were sent twice
    errors       \* failed requests so far

scanVars == <<scanPc, height, startBlock, head, timer, scanned, rescanned, errors>>
warmVars == <<poolVars, scanVars>>

Lowest(n) == IF n >= Lookback THEN n - Lookback ELSE 0

EndBatch ==
    IF startBlock + BatchSpan <= height THEN startBlock + BatchSpan ELSE height

Batch == startBlock .. EndBatch

WarmInit ==
    /\ PoolInit
    /\ scanPc = "off" /\ height = 0 /\ startBlock = 0 /\ head = 0 /\ timer = 0
    /\ scanned = {} /\ rescanned = FALSE /\ errors = 0

\* warm_start spawns the scan and returns.
Launch ==
    /\ scanPc = "off"
    /\ scanPc' = "height"
    /\ UNCHANGED <<poolVars, height, startBlock, head, timer, scanned, rescanned, errors>>

\* get_block_number, unwrap_or_default.
ReadHeight(n) ==
    /\ scanPc = "height"
    /\ height' = n
    /\ startBlock' = Lowest(n)
    /\ scanPc' = "pick"
    /\ UNCHANGED <<poolVars, head, timer, scanned, rescanned, errors>>

PickHead(h) ==
    /\ scanPc = "pick" /\ startBlock < height
    /\ NextHead(h)
    /\ head' = h
    /\ scanPc' = "fetch"
    /\ UNCHANGED <<height, startBlock, timer, scanned, rescanned, errors>>

Finish ==
    /\ scanPc = "pick" /\ startBlock >= height
    /\ scanPc' = "done"
    /\ UNCHANGED <<poolVars, height, startBlock, head, timer, scanned, rescanned, errors>>

\* Mutant: a batch that was read is read again.
FetchStay ==
    /\ scanPc = "fetch"
    /\ rescanned' = (rescanned \/ Batch \cap scanned # {})
    /\ scanned' = scanned \cup Batch
    /\ timer' = Pause /\ scanPc' = "sleep"
    /\ UNCHANGED <<poolVars, height, startBlock, head, errors>>

FetchOk ==
    /\ scanPc = "fetch"
    /\ rescanned' = (rescanned \/ Batch \cap scanned # {})
    /\ scanned' = scanned \cup Batch
    /\ startBlock' = EndBatch + 1
    /\ timer' = Pause /\ scanPc' = "sleep"
    /\ UNCHANGED <<poolVars, height, head, errors>>

\* Mutant: a failed batch is skipped.
FetchSkip ==
    /\ scanPc = "fetch" /\ errors < MaxErrors
    /\ errors' = errors + 1
    /\ MarkUnhealthy(head, Backoff)
    /\ startBlock' = EndBatch + 1
    /\ timer' = Backoff + Pause /\ scanPc' = "sleep"
    /\ UNCHANGED <<height, head, scanned, rescanned>>

\* The head is blocked, for 120 seconds whatever is asked for, and the same
\* batch is tried again after both sleeps.
FetchError ==
    /\ scanPc = "fetch" /\ errors < MaxErrors
    /\ errors' = errors + 1
    /\ MarkUnhealthy(head, Backoff)
    /\ timer' = Backoff + Pause /\ scanPc' = "sleep"
    /\ UNCHANGED <<height, startBlock, head, scanned, rescanned>>

Wake ==
    /\ scanPc = "sleep" /\ timer = 0
    /\ scanPc' = "pick"
    /\ UNCHANGED <<poolVars, height, startBlock, head, timer, scanned, rescanned, errors>>

WarmTick ==
    /\ PoolTick
    /\ timer' = IF timer > 0 THEN timer - 1 ELSE 0
    /\ UNCHANGED <<scanPc, height, startBlock, head, scanned, rescanned, errors>>

WarmNext ==
    \/ Launch
    \/ \E n \in Heights \cup {0} : ReadHeight(n)
    \/ \E h \in Heads : PickHead(h)
    \/ Finish \/ FetchOk \/ FetchError \/ Wake
    \/ WarmTick

\* The scan task is polled, its requests are answered one way or the other, and
\* time passes.
WarmFairness ==
    /\ WF_warmVars(Launch)
    /\ WF_warmVars(\E n \in Heights \cup {0} : ReadHeight(n))
    /\ WF_warmVars(\E h \in Heads : PickHead(h))
    /\ WF_warmVars(Finish)
    /\ WF_warmVars(FetchOk \/ FetchError)
    /\ WF_warmVars(Wake)
    /\ WF_warmVars(WarmTick)

WarmSpec == WarmInit /\ [][WarmNext]_warmVars /\ WarmFairness

-----------------------------------------------------------------------------
(* Properties.                                                             *)

\* When the scan says it is complete it has read every block of the range it set
\* out to read, whatever failed on the way, and no block's pools were announced
\* twice.
RangeScannedOnce ==
    /\ scanPc = "done" /\ height # 0 => Lowest(height) .. height \subseteq scanned
    /\ ~rescanned

\* The rotation hands out a head under cooldown only when every head is.
BlockedHeadLast ==
    [][\A h \in Heads : PickHead(h) =>
          blockedFor[h] = 0 \/ \A g \in Heads : blockedFor[g] # 0]_warmVars

\* The scan ends, although every error blocks a head and repeats the batch, as
\* long as errors do not go on for ever.
ScanEnds == <>(scanPc = "done")

=============================================================================
