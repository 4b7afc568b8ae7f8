------------------------------ MODULE PoolFeed ------------------------------
(***************************************************************************)
(* How an announced pool gets to the search: the broadcast channel with    *)
(* its two receivers, the pool feed with the queue of the initialisation   *)
(* worker (main.rs), and the registry and graph of the detector            *)
(* (arbitrage_detector.rs), each fed by its own copy of the announcement.  *)
(* What the batches read of a pool is StateMirror's; here an entry is read *)
(* or not.                                                                 *)
(***************************************************************************)
EXTENDS Naturals, Sequences

CONSTANTS
    Pools,
    FactoryOf,   \* pool -> the factory that created it
    KindOf,      \* pool -> "V2", "V3" or "Aerodrome", by the topic of its creation
    SeedDexOf,   \* pool -> the dex bootstrap_core_pools lists for it, or None
    TopPools,    \* TOP_100_POOLS
    CorePools,   \* CORE_POOLS
    None,
    Capacity,    \* of the broadcast channel
    QueueCap     \* of the queue of the worker

Kinds == {"V2", "V3", "Aerodrome"}

Dexes == {"Aerodrome", "BaseSwap", "PancakeSwap", "SushiSwap", "Maverick", "UniswapV3",
          "UniswapV2"}

Factories == {"aerodrome", "pancakeswap", "sushiswap", "maverick", "uniswap", "swapbased",
              "alienbase", "baseswap"}

Entries == [type : Kinds, read : BOOLEAN]

\* The Aerodrome factory logs no other topic, and the seeds name Aerodrome pools and
\* V3 pools for what they are.
ASSUME FeedAssumption ==
    /\ FactoryOf \in [Pools -> Factories] /\ KindOf \in [Pools -> Kinds]
    /\ SeedDexOf \in [Pools -> Dexes \cup {None}]
    /\ None \notin Dexes /\ None \notin Entries
    /\ \A p \in Pools :
          /\ FactoryOf[p] = "aerodrome" => KindOf[p] = "Aerodrome"
          /\ SeedDexOf[p] # None => /\ (SeedDexOf[p] = "Aerodrome") = (KindOf[p] = "Aerodrome")
                                   /\ (KindOf[p] = "V3" => SeedDexOf[p] = "UniswapV3")
    /\ TopPools \subseteq Pools /\ CorePools \subseteq Pools
    /\ Capacity \in Nat \ {0} /\ QueueCap \in Nat \ {0}

VARIABLES
    phase,      \* "setup", "hunting" (the detector runs) or "live" (the feed too)
    inbox,      \* receiver -> announcements it has not taken, oldest first
    lagged,     \* receivers that have lost some
    feed,       \* "off", "recv", "queue" or "dead"
    held,       \* the announcement the feed is queueing, or None
    queue,      \* init_tx: [pool, type]
    worker,     \* what is being initialised, or None
    lazy,       \* restored pools the background batch of the start still has to read
    mirror,     \* pool -> None or [type, read]
    registry,   \* pool -> the dex of pool_registry, or None
    grace,      \* alpha_grace_period, while no tick has come after it
    graph,      \* the pools of the graph
    owed        \* history: announced, not in the graph yet, and nothing has happened
                \* that would keep them out

feedVars == <<phase, inbox, lagged, feed, held, queue, worker, lazy, mirror, registry,
              grace, graph, owed>>

Receivers == {"detector", "feed"}

Present == {p \in Pools : mirror[p] # None}
Registered == {p \in Pools : registry[p] # None}

FeedInit ==
    \E restored \in SUBSET Pools :
        /\ phase = "setup"
        /\ inbox = [r \in Receivers |-> <<>>] /\ lagged = {}
        /\ feed = "off" /\ held = None /\ queue = <<>> /\ worker = None
        /\ lazy = restored \ TopPools
        /\ mirror = [p \in Pools |-> IF p \in restored
                       THEN [type |-> KindOf[p], read |-> TRUE] ELSE None]
        /\ registry = [p \in Pools |-> None] /\ grace = {} /\ graph = {}
        /\ owed = {}

-----------------------------------------------------------------------------
(* Announcements.                                                          *)

\* setup_factories: the second entry of a factory replaces the first.
FactoryMap ==
    [f \in Factories |->
        CASE f = "aerodrome"   -> "Aerodrome"
          [] f = "pancakeswap" -> "PancakeSwap"
          [] f = "sushiswap"   -> "SushiSwap"
          [] f = "maverick"    -> "Maverick"
          [] f \in {"swapbased", "alienbase"} -> "UniswapV2"
          [] f \in {"uniswap", "baseswap"} -> "UniswapV3"]

Event(p, v3, dex) == [pool |-> p, v3 |-> v3, dex |-> dex]

\* parse_factory_log: the dex is that of the factory.
Scanned(p) ==
    Event(p, KindOf[p] = "V3",
          IF KindOf[p] = "Aerodrome" THEN "Aerodrome" ELSE FactoryMap[FactoryOf[p]])

\* Mutant: the topic of Aerodrome passes for that of a pair.
HistoricalPair(p) == Event(p, KindOf[p] = "V3", IF KindOf[p] = "V3" THEN "UniswapV3" ELSE "UniswapV2")

\* parse_historical_log: the dex is that of the topic.
Historical(p) ==
    Event(p, KindOf[p] = "V3",
          CASE KindOf[p] = "V2" -> "UniswapV2"
            [] KindOf[p] = "V3" -> "UniswapV3"
            [] KindOf[p] = "Aerodrome" -> "Aerodrome")

\* bootstrap_core_pools: every seed is a V2 event.
Seeded(p) == Event(p, FALSE, SeedDexOf[p])

Subscribed == CASE phase = "setup" -> {}
                [] phase = "hunting" -> {"detector"}
                [] phase = "live" -> IF feed = "dead" THEN {"detector"} ELSE Receivers

PoolsOf(s) == {s[i].pool : i \in DOMAIN s}

\* pool_tx.send: a receiver that is Capacity behind loses its oldest one.
Send(e) ==
    LET full == {r \in Subscribed : Len(inbox[r]) = Capacity} IN
    /\ inbox' = [r \in Receivers |->
                   IF r \in full THEN Append(Tail(inbox[r]), e)
                   ELSE IF r \in Subscribed THEN Append(inbox[r], e) ELSE inbox[r]]
    /\ lagged' = lagged \cup full
    /\ owed' = ((owed \ {inbox[r][1].pool : r \in full})
                \cup (IF Subscribed = Receivers THEN {e.pool} ELSE {})) \ graph
    /\ UNCHANGED <<phase, feed, held, queue, worker, lazy, mirror, registry, grace, graph>>

\* The scanner runs from the setup on; it subscribes again after any failure.
ScanFactory(p) == Send(Scanned(p))

\* warm_start and bootstrap_core_pools come after the feed.
ReplayHistory(p) == phase = "live" /\ Send(Historical(p))
SeedPool(p) == phase = "live" /\ SeedDexOf[p] # None /\ Send(Seeded(p))

-----------------------------------------------------------------------------
(* The detector.                                                           *)

\* rebuild_graph: registered pools of the mirror, when they are top pools, new, in
\* their grace period, or for a reason not modelled (hot, niche, sweet spot).
\* What is in the graph is owed no longer.
Rebuild(reg, fresh, due) ==
    LET known == {p \in Present : reg[p] # None}
        must == {p \in known : p \in TopPools \/ p \in fresh \/ ~mirror[p].read}
    IN  \E other \in SUBSET (known \ must) :
            /\ graph' = must \cup other
            /\ owed' = due \ graph'

\* Mutant: the new pool is left to the next tick.
DetectorWaits ==
    LET e == inbox["detector"][1] IN
    /\ phase # "setup" /\ "detector" \notin lagged /\ inbox["detector"] # <<>>
    /\ inbox' = [inbox EXCEPT !["detector"] = Tail(@)]
    /\ registry' = [registry EXCEPT ![e.pool] = e.dex]
    /\ UNCHANGED <<phase, lagged, feed, held, queue, worker, lazy, mirror, grace, graph, owed>>

\* The registry entry, the grace period, and the graph at once.
DetectorTakes ==
    LET e == inbox["detector"][1] IN
    /\ phase # "setup" /\ "detector" \notin lagged /\ inbox["detector"] # <<>>
    /\ inbox' = [inbox EXCEPT !["detector"] = Tail(@)]
    /\ registry' = [registry EXCEPT ![e.pool] = e.dex]
    /\ grace' = grace \cup {e.pool}
    /\ Rebuild(registry', grace', owed)
    /\ UNCHANGED <<phase, lagged, feed, held, queue, worker, lazy, mirror>>

\* An Err disables the arm for one turn of the loop.
DetectorLags ==
    /\ "detector" \in lagged
    /\ lagged' = lagged \ {"detector"}
    /\ UNCHANGED <<phase, inbox, feed, held, queue, worker, lazy, mirror, registry, grace, graph, owed>>

\* Mutant: the graph is left to the next announcement.
SyncWithoutRebuild ==
    /\ phase # "setup"
    /\ registry' = [p \in Pools |-> IF p \in Present THEN registry[p] ELSE None]
    /\ owed' = owed \ (Registered \ Present)
    /\ grace' = {}
    /\ UNCHANGED <<phase, inbox, lagged, feed, held, queue, worker, lazy, mirror, graph>>

\* sync_registry, every minute: registered pools without an entry are forgotten,
\* also when the feed has not come to them yet.  A grace period of 30 minutes
\* outlasts the next tick for certain, and no later one.
SyncRegistry ==
    LET kept == [p \in Pools |-> IF p \in Present THEN registry[p] ELSE None] IN
    /\ phase # "setup"
    /\ registry' = kept
    /\ Rebuild(kept, grace, owed \ (Registered \ Present))
    /\ grace' = {}
    /\ UNCHANGED <<phase, inbox, lagged, feed, held, queue, worker, lazy, mirror>>

\* How the search prices a pool: the dex_type of a hop.
HopType(dex) ==
    CASE dex = "Aerodrome" -> "Aerodrome" [] dex = "UniswapV3" -> "V3" [] OTHER -> "V2"

-----------------------------------------------------------------------------
(* The pool feed and the worker.                                           *)

TypeOfEvent(e) ==
    IF e.v3 THEN "V3" ELSE IF e.dex = "Aerodrome" THEN "Aerodrome" ELSE "V2"

\* An error of recv, a lag included, ends the loop; nobody starts it again.
FeedDies ==
    /\ feed = "recv" /\ "feed" \in lagged
    /\ feed' = "dead" /\ inbox' = [inbox EXCEPT !["feed"] = <<>>]
    /\ lagged' = lagged \ {"feed"}
    /\ owed' = owed \ PoolsOf(inbox["feed"])
    /\ UNCHANGED <<phase, held, queue, worker, lazy, mirror, registry, grace, graph>>

\* Mutant: the entry is left to the worker.
FeedTakesOnly ==
    /\ feed = "recv" /\ "feed" \notin lagged /\ inbox["feed"] # <<>>
    /\ inbox' = [inbox EXCEPT !["feed"] = Tail(@)]
    /\ feed' = "queue" /\ held' = inbox["feed"][1]
    /\ UNCHANGED <<phase, lagged, queue, worker, lazy, mirror, registry, grace, graph, owed>>

\* entry().or_insert.
FeedTakes ==
    LET e == inbox["feed"][1] IN
    /\ feed = "recv" /\ "feed" \notin lagged /\ inbox["feed"] # <<>>
    /\ inbox' = [inbox EXCEPT !["feed"] = Tail(@)]
    /\ feed' = "queue" /\ held' = e
    /\ mirror' = [mirror EXCEPT ![e.pool] =
                    IF @ = None THEN [type |-> TypeOfEvent(e), read |-> FALSE] ELSE @]
    /\ UNCHANGED <<phase, lagged, queue, worker, lazy, registry, grace, graph, owed>>

\* init_tx.send waits for room; update_aerodrome_stable writes to what is left of
\* the entry by then, and counts as an update.
FeedQueues ==
    /\ feed = "queue" /\ Len(queue) < QueueCap
    /\ feed' = "recv" /\ held' = None
    /\ queue' = Append(queue, [pool |-> held.pool, type |-> TypeOfEvent(held)])
    /\ mirror' = IF TypeOfEvent(held) = "Aerodrome" /\ held.pool \in Present
                 THEN [mirror EXCEPT ![held.pool] = [type |-> "Aerodrome", read |-> TRUE]]
                 ELSE mirror
    /\ UNCHANGED <<phase, inbox, lagged, worker, lazy, registry, grace, graph, owed>>

FeedStep == FeedDies \/ FeedTakes \/ FeedQueues

WorkerTakes ==
    /\ worker = None /\ queue # <<>>
    /\ worker' = Head(queue) /\ queue' = Tail(queue)
    /\ UNCHANGED <<phase, inbox, lagged, feed, held, lazy, mirror, registry, grace, graph, owed>>

\* A batch that fails leaves the entry; one that succeeds would bring back a pool
\* that was pruned meanwhile, with the type it was queued with.
WorkerDone ==
    /\ worker # None
    /\ worker' = None
    /\ \E ok \in BOOLEAN :
         mirror' = IF ok THEN [mirror EXCEPT ![worker.pool] =
                                 [type |-> IF @ = None THEN worker.type ELSE @.type, read |-> TRUE]]
                   ELSE mirror
    /\ UNCHANGED <<phase, inbox, lagged, feed, held, queue, lazy, registry, grace, graph, owed>>

WorkerStep == WorkerTakes \/ WorkerDone

-----------------------------------------------------------------------------
(* Others who write the mirror, and the start.                             *)

\* Mutant: a log of an unknown pool makes an entry.
ApplyAnyLog(p) ==
    /\ phase = "live"
    /\ mirror' = [mirror EXCEPT ![p] = [type |-> KindOf[p], read |-> TRUE]]
    /\ UNCHANGED <<phase, inbox, lagged, feed, held, queue, worker, lazy, registry, grace, graph, owed>>

\* The log of a swap updates an entry, and creates none.
ApplyLog(p) ==
    /\ phase = "live" /\ p \in Present /\ ~mirror[p].read
    /\ mirror' = [mirror EXCEPT ![p].read = TRUE]
    /\ UNCHANGED <<phase, inbox, lagged, feed, held, queue, worker, lazy, registry, grace, graph, owed>>

Forget(S) ==
    /\ mirror' = [p \in Pools |-> IF p \in S THEN None ELSE mirror[p]]
    /\ owed' = owed \ S
    /\ UNCHANGED <<phase, inbox, lagged, feed, held, queue, worker, registry, grace, graph>>

\* prune_stale_pools.
PruneStale ==
    /\ phase = "live"
    /\ \E p \in Present \ CorePools : mirror[p].read /\ Forget({p})
    /\ UNCHANGED lazy

\* The background batch reads a restored pool and drops it when it is thin.
LazyBatch(p) ==
    /\ phase # "setup" /\ p \in lazy
    /\ lazy' = lazy \ {p}
    /\ Forget({p}) \/ UNCHANGED <<phase, inbox, lagged, feed, held, queue, worker, mirror,
                                  registry, grace, graph, owed>>

\* detector.run is spawned before the bootstrap, the feed after it.
Advance ==
    /\ phase # "live"
    /\ phase' = IF phase = "setup" THEN "hunting" ELSE "live"
    /\ feed' = IF phase = "hunting" THEN "recv" ELSE feed
    /\ UNCHANGED <<inbox, lagged, held, queue, worker, lazy, mirror, registry, grace, graph, owed>>

FeedNext ==
    \/ \E p \in Pools : ScanFactory(p) \/ ReplayHistory(p) \/ SeedPool(p)
    \/ DetectorTakes \/ DetectorLags \/ SyncRegistry
    \/ FeedStep \/ WorkerStep
    \/ \E p \in Pools : ApplyLog(p) \/ LazyBatch(p)
    \/ PruneStale
    \/ Advance

\* The loop of the detector polls every arm and is not outrun by announcements for
\* ever, the interval ticks, and a batch ends one way or the other.
FeedSpec ==
    /\ FeedInit /\ [][FeedNext]_feedVars
    /\ SF_feedVars(DetectorTakes) /\ WF_feedVars(DetectorLags)
    /\ WF_feedVars(SyncRegistry)
    /\ WF_feedVars(FeedStep)
    /\ WF_feedVars(WorkerStep)

-----------------------------------------------------------------------------
(* Properties.                                                             *)

\* An announced pool is not lost on the way by accident: until it is in the graph,
\* each half of it is in its table or still in its inbox.  Only a lag, the death
\* of the feed, a tick between the two halves, or pruning takes it away.
OwedOnItsWay ==
    \A p \in owed :
        /\ p \in Registered \/ p \in PoolsOf(inbox["detector"])
        /\ p \in Present \/ p \in PoolsOf(inbox["feed"])

\* ... and it gets there some day.
OwedIsPaid == \A p \in Pools : (p \in owed) ~> (p \notin owed)

\* A pool that has left the mirror leaves the graph some day, or comes back.
GraphCatchesUp ==
    \A p \in Pools : (p \in graph /\ p \notin Present) ~> (p \notin graph \/ p \in Present)

\* Once the feed is dead the mirror gains only what the worker is busy with, from
\* the queue the feed left: neither logs nor the batch of the start make an entry.
FrozenWhenDead ==
    [][feed = "dead" =>
         Present' \subseteq Present \cup (IF worker = None THEN {} ELSE {worker.pool})]_feedVars

\* Factories whose name in the map does not tell V2 pools from V3 pools.
Misnamed(p) ==
    /\ KindOf[p] # "Aerodrome"
    /\ (KindOf[p] = "V3") # (FactoryMap[FactoryOf[p]] = "UniswapV3")

\* Whoever announced a pool first to the mirror and last to the registry, it is
\* priced by the formula its reserves are read for, unless its factory or its seed
\* is filed under a dex of another kind.
PricedAsRead ==
    \A p \in Registered \cap Present :
        \/ HopType(registry[p]) = mirror[p].type
        \/ Misnamed(p)
        \/ SeedDexOf[p] = "UniswapV3"

=============================================================================
