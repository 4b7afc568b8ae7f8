----------------------------- MODULE StateMirror -----------------------------
(***************************************************************************)
(* The mirror of the pools (state_mirror.rs) with everyone who writes it:  *)
(* the heartbeat that applies the logs of one WebSocket connection         *)
(* (main.rs, mempool_listener.rs), the multicall batches of the bootstrap  *)
(* and of the initialisation worker, the pruning task, and the checkpoint  *)
(* that outlives a crash.                                                  *)
(*                                                                         *)
(* The state of a pool is the number of swaps it has gone through; node    *)
(* and chain are external.  dirty_flag is left out: only                   *)
(* sync_all_pools_multicall_pooled reads it, and that has no caller.       *)
(***************************************************************************)
EXTENDS Naturals, Sequences, FiniteSets, SequencesExt

CONSTANTS
    Pools,
    V3Pools,       \* those a batch asks two questions about
    TopPools,      \* TOP_100_POOLS
    CorePools,     \* CORE_POOLS
    Absent, Unknown, Torn,
    ChunkSize,     \* min(batch_size, MULTICALL_BATCH_SIZE)
    MaxSwaps,      \* bound: swaps on chain
    MaxFaults      \* bound: connections lost and crashes

ASSUME MirrorAssumption ==
    /\ IsFiniteSet(Pools)
    /\ V3Pools \subseteq Pools /\ TopPools \subseteq Pools /\ CorePools \subseteq Pools
    /\ ChunkSize \in Nat \ {0}
    /\ MaxSwaps \in Nat /\ MaxFaults \in Nat

VARIABLES
    \* chain and node
    ver,        \* pool -> swaps so far
    swaps,      \* swaps on all pools
    sub,        \* the subscriptions of the heartbeat: "none", "both" or "headers"
    wire,       \* logs sent to the heartbeat and not received
    faults,
    \* the process
    phase,      \* "boot", "sync" or "live"
    mirror,     \* StateMirror::pools
    headerSeen, \* StateMirror::current_block # 0
    initQueue,  \* pools queued for initialisation
    jobs,       \* the batches: "boot" (the top pools, then the others) and "init"
    disk,       \* the checkpoint file
    suspect     \* history: pools with a log lost, or overtaken by an answer

chainVars == <<ver, swaps, sub, wire, faults>>
mirrorVars == <<chainVars, phase, mirror, headerSeen, initQueue, jobs, disk, suspect>>

Jobs == {"boot", "init"}

State(p, n) == [of |-> p, ver |-> n]

Present == {p \in Pools : mirror[p] # Absent}

EmptyMirror == [p \in Pools |-> Absent]

NoJob == [pc |-> "off", todo |-> {}, chunk |-> <<>>, answer |-> <<>>, raced |-> {}]

MirrorInit ==
    /\ ver = [p \in Pools |-> 0] /\ swaps = 0
    /\ sub = "none" /\ wire = <<>> /\ faults = 0
    /\ phase = "boot" /\ mirror = EmptyMirror /\ headerSeen = FALSE
    /\ initQueue = {}
    /\ jobs = [j \in Jobs |-> NoJob]
    /\ disk = Torn
    /\ suspect = {}

\* Sequences of n different members of S.
Orders(S, n) == {s \in [1 .. n -> S] : \A i, k \in 1 .. n : s[i] = s[k] => i = k}

\* The log of a swap in S has passed by the answers that are on their way.
Overtake(S) ==
    [j \in Jobs |->
        IF jobs[j].pc = "answer" THEN [jobs[j] EXCEPT !.raced = @ \cup S] ELSE jobs[j]]

-----------------------------------------------------------------------------
(* The chain and the connection.                                           *)

\* Without a subscription the log of a swap is lost.
Swap(p) ==
    /\ swaps < MaxSwaps
    /\ swaps' = swaps + 1
    /\ ver' = [ver EXCEPT ![p] = @ + 1]
    /\ wire' = IF sub = "both" THEN Append(wire, [pool |-> p, ver |-> ver'[p]]) ELSE wire
    /\ suspect' = IF sub = "both" THEN suspect ELSE suspect \cup {p}
    /\ jobs' = IF sub = "both" THEN jobs ELSE Overtake({p})
    /\ UNCHANGED <<sub, faults, phase, mirror, headerSeen, initQueue, disk>>

Connect ==
    /\ phase = "live" /\ sub = "none"
    /\ sub' = "both"
    /\ UNCHANGED <<ver, swaps, wire, faults, phase, mirror, headerSeen,
                   initQueue, jobs, disk, suspect>>

\* The loop ends when both streams have: with the log stream alone gone it goes on
\* with the headers, and subscribes to the logs again only when they end too.
Disconnect ==
    LET lost == {wire[i].pool : i \in DOMAIN wire} IN
    /\ sub # "none" /\ faults < MaxFaults
    /\ sub' \in {"none", "headers"} \ {sub} /\ faults' = faults + 1
    /\ wire' = <<>>
    /\ suspect' = suspect \cup lost
    /\ jobs' = Overtake(lost)
    /\ UNCHANGED <<ver, swaps, phase, mirror, headerSeen, initQueue, disk>>

-----------------------------------------------------------------------------
(* The heartbeat.                                                          *)

\* Mutant: the log is passed on, and its reserves are not applied.
ReceiveLogOnly ==
    /\ wire # <<>>
    /\ wire' = Tail(wire)
    /\ suspect' = suspect \ {Head(wire).pool}
    /\ jobs' = Overtake({Head(wire).pool})
    /\ UNCHANGED <<ver, swaps, sub, faults, phase, mirror, headerSeen,
                   initQueue, disk>>

\* update_mirror_state, which knows only pools that have an entry.
ReceiveLog ==
    LET log == Head(wire) IN
    /\ wire # <<>>
    /\ wire' = Tail(wire)
    /\ mirror' = IF log.pool \in Present
                 THEN [mirror EXCEPT ![log.pool] = State(log.pool, log.ver)]
                 ELSE mirror
    /\ suspect' = suspect \ {log.pool}
    /\ jobs' = Overtake({log.pool})
    /\ UNCHANGED <<ver, swaps, sub, faults, phase, headerSeen,
                   initQueue, disk>>

\* sync_block: headers and logs are separate streams, so the first header may
\* come before or after the logs of its block.
ReceiveHeader ==
    /\ sub # "none" /\ ~headerSeen
    /\ headerSeen' = TRUE
    /\ UNCHANGED <<chainVars, phase, mirror, initQueue, jobs, disk, suspect>>

-----------------------------------------------------------------------------
(* Batches: sync_batch_with_jitter, a chunk at a time.                     *)

Started(S) == IF S = {} THEN NoJob ELSE [NoJob EXCEPT !.pc = "chunk", !.todo = S]

Rest(job) == [job EXCEPT !.pc = IF job.todo = {} THEN "off" ELSE "chunk",
                         !.chunk = <<>>, !.answer = <<>>, !.raced = {}]

Calls(p) == IF p \in V3Pools THEN <<p, p>> ELSE <<p>>

AllCalls(chunk) == FlattenSeq([i \in DOMAIN chunk |-> Calls(chunk[i])])

\* One multicall reads the whole chunk at one block; the questions about a pool may
\* fail alone, or all of them.
Asked(job, chunk, failed) ==
    LET calls == AllCalls(chunk) IN
    [job EXCEPT !.pc = "answer", !.todo = @ \ Range(chunk), !.chunk = chunk, !.raced = {},
                !.answer = [i \in DOMAIN calls |->
                              IF calls[i] \in failed THEN Unknown ELSE State(calls[i], ver[calls[i]])]]

\* However long the answer takes.
AskChunk(j) ==
    LET n == IF Cardinality(jobs[j].todo) < ChunkSize THEN Cardinality(jobs[j].todo) ELSE ChunkSize
    IN
    /\ jobs[j].pc = "chunk"
    /\ \E chunk \in Orders(jobs[j].todo, n) : \E failed \in SUBSET Range(chunk) :
         jobs' = [jobs EXCEPT ![j] = Asked(@, chunk, failed)]
    /\ UNCHANGED <<chainVars, phase, mirror, headerSeen, initQueue, disk, suspect>>

\* Mutant: every pool takes one result off the list.
FirstResultFlat(chunk, i) == i

\* Where the results of the i-th pool of a chunk begin.
FirstResult(chunk, i) == Len(AllCalls(SubSeq(chunk, 1, i - 1))) + 1

\* What results_iter hands to the i-th pool; a pool with a failed question has
\* no update.
ResultsOf(job, i) ==
    LET p == job.chunk[i]
        first == FirstResult(job.chunk, i)
    IN  [k \in 1 .. Len(Calls(p)) |-> job.answer[first + k - 1]]

Decoded(job) ==
    {i \in DOMAIN job.chunk : \A k \in DOMAIN ResultsOf(job, i) : ResultsOf(job, i)[k] # Unknown}

\* batch_update_reserves takes the answer whatever the entry holds by now, and
\* brings back an entry that is gone; illiquid pools are then removed.  A chunk
\* without updates only costs the provider its turn.
ApplyChunk(j) ==
    LET job == jobs[j]
        at(p) == CHOOSE i \in DOMAIN job.chunk : job.chunk[i] = p
        decoded == {job.chunk[i] : i \in Decoded(job)}
    IN
    /\ job.pc = "answer"
    /\ \E thin \in SUBSET (decoded \ (V3Pools \cup TopPools)) :
         LET updated == decoded \ thin IN
         /\ mirror' = [p \in Pools |->
              IF updated = {} THEN mirror[p]
              ELSE IF p \in updated THEN ResultsOf(job, at(p))[1]
              ELSE IF p \in thin THEN Absent ELSE mirror[p]]
         /\ suspect' = (suspect \ updated) \cup (updated \cap job.raced)
    /\ jobs' = [jobs EXCEPT ![j] = Rest(@)]
    /\ UNCHANGED <<chainVars, phase, headerSeen, initQueue, disk>>

-----------------------------------------------------------------------------
(* The start.                                                              *)

\* smart_bootstrap: the top pools are awaited.
BeginBootstrap ==
    /\ phase = "boot"
    /\ phase' = "sync"
    /\ jobs' = [jobs EXCEPT !["boot"] = Started(Present \cap TopPools)]
    /\ UNCHANGED <<chainVars, mirror, headerSeen, initQueue, disk, suspect>>

\* The others are left to a task of their own, and the heartbeat and the pool feed
\* are spawned.
EndBootstrap ==
    /\ phase = "sync" /\ jobs["boot"].pc = "off"
    /\ phase' = "live"
    /\ jobs' = [jobs EXCEPT !["boot"] = Started(Present \ TopPools)]
    /\ UNCHANGED <<chainVars, mirror, headerSeen, initQueue, disk, suspect>>

\* try_join!: an error of ensure_ready drops the bootstrap where it stands, the
\* lazy batch with it; nobody looks at the error.
CancelBootstrap ==
    /\ phase = "sync"
    /\ phase' = "live"
    /\ jobs' = [jobs EXCEPT !["boot"] = NoJob]
    /\ UNCHANGED <<chainVars, mirror, headerSeen, initQueue, disk, suspect>>

-----------------------------------------------------------------------------
(* New pools, pruning.                                                     *)

\* The pool feed: entry().or_insert(default), then the queue of the worker.
RegisterPool(p) ==
    /\ phase = "live"
    /\ mirror' = IF p \in Present THEN mirror
                 ELSE [mirror EXCEPT ![p] = Unknown]
    /\ initQueue' = initQueue \cup {p}
    /\ UNCHANGED <<chainVars, phase, headerSeen, jobs, disk, suspect>>

\* The worker takes one pool at a time.
BeginInit(p) ==
    /\ p \in initQueue /\ jobs["init"].pc = "off"
    /\ initQueue' = initQueue \ {p}
    /\ jobs' = [jobs EXCEPT !["init"] = Started({p})]
    /\ UNCHANGED <<chainVars, phase, mirror, headerSeen, disk, suspect>>

\* prune_stale_pools: entries that have been idle and unread for long go, unless
\* they were never updated (block 0; so is an entry updated before the first
\* header, which may go here a little early).
Prune ==
    /\ headerSeen
    /\ \E idle \in SUBSET {p \in Present \ CorePools : mirror[p] # Unknown} :
         mirror' = [p \in Pools |-> IF p \in idle THEN Absent ELSE mirror[p]]
    /\ UNCHANGED <<chainVars, phase, headerSeen, initQueue, jobs, disk, suspect>>

-----------------------------------------------------------------------------
(* The checkpoint, and a crash at any moment.                              *)

\* save_state_checkpoint copies the entries, truncates the file and writes it.
\* Only a start reads it, and finds the copy, or nothing when the write failed or
\* the crash came before it ended.  What no modelled start reads is not saved.
SaveCheckpoint ==
    /\ faults < MaxFaults
    /\ disk' \in {mirror, Torn}
    /\ UNCHANGED <<chainVars, phase, mirror, headerSeen, initQueue, jobs, suspect>>

\* load_state_checkpoint restores all of a whole file and nothing of a torn one.
\* The file of the last modelled start is read by nobody and not followed.
Restart ==
    /\ faults < MaxFaults
    /\ faults' = faults + 1
    /\ sub' = "none" /\ wire' = <<>>
    /\ phase' = "boot" /\ headerSeen' = FALSE
    /\ mirror' = IF disk = Torn THEN EmptyMirror ELSE disk
    /\ initQueue' = {}
    /\ jobs' = [j \in Jobs |-> NoJob]
    /\ suspect' = Pools
    /\ disk' = IF faults' = MaxFaults THEN Torn ELSE disk
    /\ UNCHANGED <<ver, swaps>>

MirrorNext ==
    \/ \E p \in Pools : Swap(p)
    \/ Connect \/ Disconnect
    \/ ReceiveLog \/ ReceiveHeader
    \/ \E j \in Jobs : AskChunk(j) \/ ApplyChunk(j)
    \/ BeginBootstrap \/ EndBootstrap \/ CancelBootstrap
    \/ \E p \in Pools : RegisterPool(p) \/ BeginInit(p)
    \/ Prune
    \/ SaveCheckpoint
    \/ Restart

MirrorSpec == MirrorInit /\ [][MirrorNext]_mirrorVars

-----------------------------------------------------------------------------
(* Properties.                                                             *)

\* The states of a pool on their way into the mirror.
FillsOf(p) ==
    {State(p, wire[i].ver) : i \in {k \in DOMAIN wire : wire[k].pool = p}}
    \cup {a \in (UNION {Range(jobs[j].answer) : j \in Jobs}) \ {Unknown} : a.of = p}
    \cup (IF disk = Torn THEN {} ELSE {disk[p]} \ {Absent, Unknown})

Cache == INSTANCE PoolCache WITH
    head  <- ver,
    cache <- mirror,
    fills <- [p \in Pools |-> FillsOf(p)]

\* Whatever overtakes what, an entry is a state its own pool had when a log, a
\* multicall or the checkpoint captured it: no result goes to another pool of
\* its chunk, and no torn file is restored.
CacheHolds == Cache!CacheSpec

\* Swaps of p whose logs have come in or are lost.
Passed(p) == ver[p] - Cardinality({i \in DOMAIN wire : wire[i].pool = p})

\* The mirror lags behind the logs that have come in for two reasons only: a log
\* was lost with a connection, or a multicall answer was overtaken by a log; and
\* the next log of the pool, or a clean answer, mends it.
LagExplained ==
    \A p \in Present \ suspect :
        mirror[p] = Unknown \/ mirror[p].ver >= Passed(p)

=============================================================================
