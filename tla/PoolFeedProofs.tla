---------------------------- MODULE PoolFeedProofs ----------------------------
(***************************************************************************)
(* No announced pool is lost by accident, a dead feed adds nothing, and a  *)
(* pool is priced by its kind: for every set of pools, every size of the   *)
(* broadcast channel and of the queue, and every interleaving of the       *)
(* detector, the feed and the worker.                                      *)
(***************************************************************************)
EXTENDS PoolFeed, TLAPS

Events == [pool : Pools, v3 : BOOLEAN, dex : Dexes]

\* Types, and where the feed is: it runs when everything does.
FeedTypeOK ==
    /\ phase \in {"setup", "hunting", "live"}
    /\ inbox \in [Receivers -> Seq(Events)]
    /\ feed \in {"off", "recv", "queue", "dead"}
    /\ feed = "queue" => held \in Events
    /\ queue \in Seq([pool : Pools, type : Kinds])
    /\ worker \in [pool : Pools, type : Kinds] \cup {None}
    /\ mirror \in [Pools -> Entries \cup {None}]
    /\ registry \in [Pools -> Dexes \cup {None}]
    /\ owed \subseteq Pools

FeedInv == FeedTypeOK /\ OwedOnItsWay

-----------------------------------------------------------------------------
(* Inboxes.                                                                *)

\* Taking the oldest announcement leaves the others.
LEMMA TakeOldest ==
    ASSUME NEW s \in Seq(Events), s # <<>>
    PROVE  /\ s[1] \in Events /\ Tail(s) \in Seq(Events)
           /\ PoolsOf(s) \subseteq PoolsOf(Tail(s)) \cup {s[1].pool}
<1>1. s[1] \in Events /\ Tail(s) \in Seq(Events)
  OBVIOUS
<1>2. \A i \in DOMAIN s : i # 1 => i - 1 \in DOMAIN Tail(s) /\ Tail(s)[i - 1] = s[i]
  OBVIOUS
<1> QED
  BY <1>1, <1>2 DEF PoolsOf

\* The head and the tail of a queue.
LEMMA SplitQueue ==
    ASSUME NEW S, NEW s \in Seq(S), s # <<>>
    PROVE  Head(s) \in S /\ Tail(s) \in Seq(S)
OBVIOUS

\* A new announcement goes behind the others.
LEMMA AddNewest ==
    ASSUME NEW s \in Seq(Events), NEW e \in Events
    PROVE  /\ Append(s, e) \in Seq(Events)
           /\ PoolsOf(s) \cup {e.pool} \subseteq PoolsOf(Append(s, e))
<1>1. Append(s, e) \in Seq(Events)
  OBVIOUS
<1>2. /\ \A i \in DOMAIN s : i \in DOMAIN Append(s, e) /\ Append(s, e)[i] = s[i]
      /\ Len(s) + 1 \in DOMAIN Append(s, e) /\ Append(s, e)[Len(s) + 1] = e
  OBVIOUS
<1> QED
  BY <1>1, <1>2 DEF PoolsOf

\* Whatever source announces a pool, the announcement names it, and a dex.
LEMMA Announced ==
    ASSUME NEW p \in Pools
    PROVE  /\ Scanned(p) \in Events /\ Historical(p) \in Events
           /\ SeedDexOf[p] # None => Seeded(p) \in Events
<1>1. KindOf[p] \in Kinds /\ FactoryOf[p] \in Factories /\ SeedDexOf[p] \in Dexes \cup {None}
  BY FeedAssumption
<1>2. FactoryMap[FactoryOf[p]] \in Dexes
  BY <1>1 DEF FactoryMap, Factories, Dexes
<1> QED
  BY <1>1, <1>2 DEF Scanned, Historical, Seeded, Event, Events, Kinds, Dexes

-----------------------------------------------------------------------------
(* The steps.                                                              *)

\* A step that leaves the inboxes alone and forgets no owed pool.
LEMMA FeedQuiet ==
    ASSUME FeedInv, FeedTypeOK', UNCHANGED inbox, owed' \subseteq owed,
           \A p \in owed' : /\ p \in Registered => p \in Registered'
                            /\ p \in Present => p \in Present'
    PROVE  FeedInv'
BY DEF FeedInv, OwedOnItsWay

\* pool_tx.send: only a lag takes an owed pool out of an inbox.
LEMMA SendStep ==
    ASSUME FeedInv, NEW e \in Events, Send(e)
    PROVE  FeedInv'
<1> DEFINE full == {r \in Subscribed : Len(inbox[r]) = Capacity}
<1>1. Subscribed \subseteq Receivers
  BY DEF Subscribed, Receivers, FeedInv, FeedTypeOK
<1>2. /\ inbox' = [r \in Receivers |->
                     IF r \in full THEN Append(Tail(inbox[r]), e)
                     ELSE IF r \in Subscribed THEN Append(inbox[r], e) ELSE inbox[r]]
      /\ owed' = ((owed \ {inbox[r][1].pool : r \in full})
                  \cup (IF Subscribed = Receivers THEN {e.pool} ELSE {})) \ graph
      /\ UNCHANGED <<phase, feed, held, queue, worker, lazy, mirror, registry, grace, graph>>
  BY DEF Send
<1>3. \A r \in full : inbox[r] # <<>>
  BY <1>1, FeedAssumption DEF FeedInv, FeedTypeOK
<1> HIDE DEF full
<1>4. ASSUME NEW r \in Receivers
      PROVE  /\ inbox'[r] \in Seq(Events)
             /\ \A p \in PoolsOf(inbox[r]) :
                   p \in PoolsOf(inbox'[r]) \/ (r \in full /\ p = inbox[r][1].pool)
             /\ r \in Subscribed => e.pool \in PoolsOf(inbox'[r])
  <2>1. inbox[r] \in Seq(Events)
    BY DEF FeedInv, FeedTypeOK
  <2>2. CASE r \in full
    <3>1. inbox'[r] = Append(Tail(inbox[r]), e)
      BY <1>2, <2>2
    <3> QED
      BY <1>3, <2>1, <2>2, <3>1, TakeOldest, AddNewest
  <2>3. CASE r \notin full /\ r \in Subscribed
    <3>1. inbox'[r] = Append(inbox[r], e)
      BY <1>2, <2>3
    <3> QED
      BY <2>1, <3>1, AddNewest
  <2>4. CASE r \notin full /\ r \notin Subscribed
    BY <1>2, <2>1, <2>4
  <2> QED
    BY <2>2, <2>3, <2>4
<1>5. FeedTypeOK'
  <2>1. inbox' \in [Receivers -> Seq(Events)]
    BY <1>2, <1>4
  <2>2. owed' \subseteq Pools
    BY <1>2 DEF FeedInv, FeedTypeOK, Events
  <2> QED
    BY <1>2, <2>1, <2>2 DEF FeedInv, FeedTypeOK
<1>6. Registered' = Registered /\ Present' = Present
  BY <1>2 DEF Registered, Present
<1>7. ASSUME NEW p \in owed'
      PROVE  /\ p \in Registered \/ p \in PoolsOf(inbox'["detector"])
             /\ p \in Present \/ p \in PoolsOf(inbox'["feed"])
  <2>1. CASE Subscribed = Receivers /\ p = e.pool
    BY <1>4, <2>1 DEF Receivers
  <2>2. CASE p \in owed /\ \A r \in full : p # inbox[r][1].pool
    BY <1>4, <2>2 DEF FeedInv, OwedOnItsWay, Receivers
  <2> QED
    BY <1>2, <2>1, <2>2
<1> QED
  BY <1>5, <1>6, <1>7 DEF FeedInv, OwedOnItsWay

\* The detector registers what it takes out of its inbox.
LEMMA DetectorStep ==
    ASSUME FeedInv, DetectorTakes
    PROVE  FeedInv'
<1> DEFINE s == inbox["detector"]
<1>1. /\ s # <<>> /\ inbox' = [inbox EXCEPT !["detector"] = Tail(s)]
      /\ registry' = [registry EXCEPT ![s[1].pool] = s[1].dex]
      /\ owed' \subseteq owed
      /\ UNCHANGED <<phase, feed, held, queue, worker, mirror>>
  BY DEF DetectorTakes, Rebuild
<1>2. /\ s \in Seq(Events) /\ s[1] \in Events /\ Tail(s) \in Seq(Events)
      /\ PoolsOf(s) \subseteq PoolsOf(Tail(s)) \cup {s[1].pool}
  <2>1. s \in Seq(Events)
    BY DEF FeedInv, FeedTypeOK, Receivers
  <2> QED
    BY <1>1, <2>1, TakeOldest
<1> HIDE DEF s
<1>3. FeedTypeOK'
  <2>1. inbox' \in [Receivers -> Seq(Events)] /\ registry' \in [Pools -> Dexes \cup {None}]
    BY <1>1, <1>2 DEF FeedInv, FeedTypeOK, Events
  <2> QED
    BY <1>1, <2>1 DEF FeedInv, FeedTypeOK
<1>4. inbox'["detector"] = Tail(s) /\ inbox'["feed"] = inbox["feed"]
  BY <1>1 DEF FeedInv, FeedTypeOK, Receivers
<1>5. Present' = Present /\ Registered \cup {s[1].pool} \subseteq Registered'
  BY <1>1, <1>2, FeedAssumption DEF Present, Registered, FeedInv, FeedTypeOK, Events
<1>6. \A p \in owed : p \in Registered \/ p \in PoolsOf(s)
  BY DEF s, FeedInv, OwedOnItsWay
<1> QED
  BY <1>1, <1>2, <1>3, <1>4, <1>5, <1>6 DEF FeedInv, OwedOnItsWay

\* The tick forgets only pools that it no longer owes.
LEMMA SyncStep ==
    ASSUME FeedInv, SyncRegistry
    PROVE  FeedInv'
<1>1. /\ registry' = [p \in Pools |-> IF p \in Present THEN registry[p] ELSE None]
      /\ owed' \subseteq owed \ (Registered \ Present)
      /\ UNCHANGED <<phase, inbox, feed, held, queue, worker, mirror>>
  BY DEF SyncRegistry, Rebuild
<1>2. FeedTypeOK'
  BY <1>1 DEF FeedInv, FeedTypeOK
<1>3. /\ Present' = Present
      /\ \A p \in owed' : p \in Registered => p \in Registered'
  BY <1>1 DEF Present, Registered
<1> QED
  BY <1>1, <1>2, <1>3, FeedQuiet

\* The feed makes an entry for what it takes out of its inbox.
LEMMA FeedTakesStep ==
    ASSUME FeedInv, FeedTakes
    PROVE  FeedInv'
<1> DEFINE s == inbox["feed"]
           entry == [type |-> TypeOfEvent(s[1]), read |-> FALSE]
<1>1. /\ s # <<>> /\ inbox' = [inbox EXCEPT !["feed"] = Tail(s)]
      /\ mirror' = [mirror EXCEPT ![s[1].pool] = IF mirror[s[1].pool] = None THEN entry
                                                 ELSE mirror[s[1].pool]]
      /\ feed' = "queue" /\ held' = s[1]
      /\ UNCHANGED <<phase, queue, worker, registry, owed>>
  BY DEF FeedTakes
<1>2. /\ s \in Seq(Events) /\ s[1] \in Events /\ Tail(s) \in Seq(Events)
      /\ PoolsOf(s) \subseteq PoolsOf(Tail(s)) \cup {s[1].pool}
  <2>1. s \in Seq(Events)
    BY DEF FeedInv, FeedTypeOK, Receivers
  <2> QED
    BY <1>1, <2>1, TakeOldest
<1> HIDE DEF s
<1>3. entry \in Entries
  BY <1>2 DEF Entries, TypeOfEvent, Kinds
<1> HIDE DEF entry
<1>4. FeedTypeOK'
  <2>1. inbox' \in [Receivers -> Seq(Events)] /\ mirror' \in [Pools -> Entries \cup {None}]
    BY <1>1, <1>2, <1>3 DEF FeedInv, FeedTypeOK, Events
  <2> QED
    BY <1>1, <1>2, <2>1 DEF FeedInv, FeedTypeOK
<1>5. inbox'["feed"] = Tail(s) /\ inbox'["detector"] = inbox["detector"]
  BY <1>1 DEF FeedInv, FeedTypeOK, Receivers
<1>6. Registered' = Registered /\ Present \cup {s[1].pool} \subseteq Present'
  BY <1>1, <1>2, <1>3, FeedAssumption DEF Present, Registered, FeedInv, FeedTypeOK, Events
<1>7. \A p \in owed : p \in Present \/ p \in PoolsOf(s)
  BY DEF s, FeedInv, OwedOnItsWay
<1> QED
  BY <1>1, <1>2, <1>4, <1>5, <1>6, <1>7 DEF FeedInv, OwedOnItsWay

\* What a dying feed has not taken is owed no longer.
LEMMA FeedDiesStep ==
    ASSUME FeedInv, FeedDies
    PROVE  FeedInv'
<1>1. /\ feed' = "dead" /\ inbox' = [inbox EXCEPT !["feed"] = <<>>]
      /\ owed' = owed \ PoolsOf(inbox["feed"])
      /\ UNCHANGED <<phase, held, queue, worker, mirror, registry>>
  BY DEF FeedDies
<1>2. FeedTypeOK'
  <2>1. <<>> \in Seq(Events)
    OBVIOUS
  <2>2. inbox' \in [Receivers -> Seq(Events)]
    BY <1>1, <2>1 DEF FeedInv, FeedTypeOK
  <2> QED
    BY <1>1, <2>2 DEF FeedInv, FeedTypeOK
<1>3. inbox'["detector"] = inbox["detector"] /\ Present' = Present /\ Registered' = Registered
  BY <1>1 DEF FeedInv, FeedTypeOK, Receivers, Present, Registered
<1> QED
  BY <1>1, <1>2, <1>3 DEF FeedInv, OwedOnItsWay

\* The queue, the worker and the logs write entries and take none away.
LEMMA FillStep ==
    ASSUME FeedInv, FeedQueues \/ WorkerStep \/ \E p \in Pools : ApplyLog(p)
    PROVE  FeedInv' /\ Present \subseteq Present'
<1> USE FeedAssumption DEF FeedInv, FeedTypeOK
<1>1. UNCHANGED <<phase, inbox, registry, owed>>
  BY DEF FeedQueues, WorkerStep, WorkerTakes, WorkerDone, ApplyLog
<1>2. FeedTypeOK' /\ Present \subseteq Present'
  <2>1. CASE FeedQueues
    <3>1. held \in Events /\ TypeOfEvent(held) \in Kinds
      BY <2>1 DEF FeedQueues, TypeOfEvent, Kinds
    <3>2. [pool |-> held.pool, type |-> TypeOfEvent(held)] \in [pool : Pools, type : Kinds]
      BY <3>1 DEF Events
    <3>3. queue' \in Seq([pool : Pools, type : Kinds])
      BY <2>1, <3>2 DEF FeedQueues
    <3>4. [type |-> "Aerodrome", read |-> TRUE] \in Entries
      BY DEF Entries, Kinds
    <3>5. mirror' \in [Pools -> Entries \cup {None}] /\ Present \subseteq Present'
      BY <2>1, <3>1, <3>4 DEF FeedQueues, Present, Events
    <3> QED
      BY <1>1, <2>1, <3>3, <3>5 DEF FeedQueues
  <2>2. CASE WorkerTakes
    <3>1. worker' \in [pool : Pools, type : Kinds] /\ queue' \in Seq([pool : Pools, type : Kinds])
      BY <2>2, SplitQueue DEF WorkerTakes
    <3> QED
      BY <1>1, <2>2, <3>1 DEF WorkerTakes, Present
  <2>3. CASE WorkerDone
    <3>1. worker \in [pool : Pools, type : Kinds] /\ worker' = None
          /\ UNCHANGED <<feed, held, queue>>
      BY <2>3 DEF WorkerDone
    <3>2. CASE mirror' = mirror
      BY <1>1, <3>1, <3>2 DEF Present
    <3>3. CASE \E e \in Entries : mirror' = [mirror EXCEPT ![worker.pool] = e]
      BY <1>1, <3>1, <3>3 DEF Present
    <3>4. [type |-> IF mirror[worker.pool] = None THEN worker.type ELSE mirror[worker.pool].type,
           read |-> TRUE] \in Entries
      BY <3>1 DEF Entries
    <3> QED
      BY <2>3, <3>2, <3>3, <3>4 DEF WorkerDone
  <2>4. CASE \E p \in Pools : ApplyLog(p)
    <3>1. PICK p \in Pools : ApplyLog(p)
      BY <2>4
    <3>2. mirror[p] \in Entries /\ mirror' = [mirror EXCEPT ![p] = [mirror[p] EXCEPT !.read = TRUE]]
      BY <3>1 DEF ApplyLog, Present
    <3>3. [mirror[p] EXCEPT !.read = TRUE] \in Entries
      BY <3>2 DEF Entries
    <3>4. mirror' \in [Pools -> Entries \cup {None}] /\ Present \subseteq Present'
      BY <3>2, <3>3 DEF Present
    <3>5. UNCHANGED <<feed, held, queue, worker>>
      BY <3>1 DEF ApplyLog
    <3> QED
      BY <1>1, <3>4, <3>5
  <2> QED
    BY <2>1, <2>2, <2>3, <2>4 DEF WorkerStep
<1>3. Registered' = Registered
  BY <1>1 DEF Registered
<1> QED
  BY <1>1, <1>2, <1>3, FeedQuiet

\* Pruning forgets the debt with the entry.
LEMMA ForgetStep ==
    ASSUME FeedInv, NEW S, Forget(S)
    PROVE  FeedInv' /\ Present' \subseteq Present
<1>1. /\ mirror' = [p \in Pools |-> IF p \in S THEN None ELSE mirror[p]]
      /\ owed' = owed \ S
      /\ UNCHANGED <<phase, inbox, feed, held, queue, worker, registry>>
  BY DEF Forget
<1>2. FeedTypeOK'
  BY <1>1 DEF FeedInv, FeedTypeOK
<1>3. /\ Registered' = Registered /\ Present' \subseteq Present
      /\ \A p \in owed' : p \in Present => p \in Present'
  BY <1>1 DEF Registered, Present
<1> QED
  BY <1>1, <1>2, <1>3, FeedQuiet

\* Nothing else touches the inboxes, the tables or the debts.
LEMMA RestStep ==
    ASSUME FeedInv,
           \/ DetectorLags \/ Advance \/ UNCHANGED feedVars
           \/ UNCHANGED <<phase, inbox, lagged, feed, held, queue, worker, mirror, registry,
                          grace, graph, owed>>
    PROVE  FeedInv' /\ Present' = Present
<1>1. UNCHANGED <<inbox, held, queue, worker, mirror, registry, owed>>
  BY DEF DetectorLags, Advance, feedVars
<1>2. /\ phase' \in {"setup", "hunting", "live"} /\ feed' \in {"off", "recv", "queue", "dead"}
      /\ feed' = "queue" => feed = "queue"
  BY DEF DetectorLags, Advance, feedVars, FeedInv, FeedTypeOK
<1>3. FeedTypeOK'
  BY <1>1, <1>2 DEF FeedInv, FeedTypeOK
<1>4. Registered' = Registered /\ Present' = Present
  BY <1>1 DEF Registered, Present
<1> QED
  BY <1>1, <1>3, <1>4, FeedQuiet

\* Every step keeps the invariant.
LEMMA FeedInvStep == FeedInv /\ [FeedNext]_feedVars => FeedInv'
<1> SUFFICES ASSUME FeedInv, [FeedNext]_feedVars PROVE FeedInv'
  OBVIOUS
<1>1. ASSUME NEW p \in Pools, ScanFactory(p) \/ ReplayHistory(p) \/ SeedPool(p)
      PROVE  FeedInv'
  BY <1>1, Announced, SendStep DEF ScanFactory, ReplayHistory, SeedPool
<1>2. CASE DetectorTakes \/ SyncRegistry
  BY <1>2, DetectorStep, SyncStep
<1>3. CASE FeedStep \/ WorkerStep \/ \E p \in Pools : ApplyLog(p)
  BY <1>3, FeedTakesStep, FeedDiesStep, FillStep DEF FeedStep
<1>4. CASE (\E p \in Pools : LazyBatch(p)) \/ PruneStale
  BY <1>4, ForgetStep, RestStep DEF LazyBatch, PruneStale
<1>5. CASE DetectorLags \/ Advance \/ UNCHANGED feedVars
  BY <1>5, RestStep
<1> QED
  BY <1>1, <1>2, <1>3, <1>4, <1>5 DEF FeedNext

\* FeedInv holds in every state of every behaviour.
LEMMA FeedInvariance == FeedSpec => []FeedInv
<1>1. FeedInit => FeedInv
  <2> SUFFICES ASSUME FeedInit PROVE FeedInv
    OBVIOUS
  <2>1. \A p \in Pools : [type |-> KindOf[p], read |-> TRUE] \in Entries
    BY FeedAssumption DEF Entries
  <2>2. <<>> \in Seq(Events) /\ <<>> \in Seq([pool : Pools, type : Kinds])
    OBVIOUS
  <2>3. mirror \in [Pools -> Entries \cup {None}]
    BY <2>1 DEF FeedInit
  <2> QED
    BY <2>2, <2>3 DEF FeedInit, FeedInv, FeedTypeOK, OwedOnItsWay
<1> QED
  BY <1>1, FeedInvStep, PTL DEF FeedSpec

\* An announced pool is not lost on the way by accident: until the graph has it,
\* each half of it is in its table or still in its inbox, for every capacity of
\* the channel and the queue.
THEOREM NothingLostOnTheWay == FeedSpec => []OwedOnItsWay
<1>1. FeedInv => OwedOnItsWay
  BY DEF FeedInv
<1> QED
  BY <1>1, FeedInvariance, PTL

\* Once the feed is dead the mirror gains only what the worker is busy with.
THEOREM DeadFeedFreezes == FeedSpec => FrozenWhenDead
<1> DEFINE Gain == IF worker = None THEN {} ELSE {worker.pool}
           Frozen == feed = "dead" => Present' \subseteq Present \cup Gain
<1>1. FeedInv /\ [FeedNext]_feedVars => [Frozen]_feedVars
  <2> SUFFICES ASSUME FeedInv, FeedNext, feed = "dead"
               PROVE  Present' \subseteq Present \cup Gain
    OBVIOUS
  <2>1. CASE WorkerDone
    <3>1. \A p \in Pools : worker # None /\ p # worker.pool => mirror'[p] = mirror[p]
      BY <2>1 DEF WorkerDone, FeedInv, FeedTypeOK
    <3> QED
      BY <2>1, <3>1 DEF WorkerDone, Present
  <2>2. CASE \E p \in Pools : ApplyLog(p)
    BY <2>2 DEF ApplyLog, Present, FeedInv, FeedTypeOK
  <2>3. CASE (\E p \in Pools : LazyBatch(p)) \/ PruneStale
    BY <2>3, ForgetStep, RestStep DEF LazyBatch, PruneStale
  <2>4. CASE DetectorLags \/ Advance
    BY <2>4, RestStep
  <2>5. CASE \/ \E p \in Pools : ScanFactory(p) \/ ReplayHistory(p) \/ SeedPool(p)
             \/ DetectorTakes \/ SyncRegistry \/ FeedStep \/ WorkerTakes
    BY <2>5 DEF ScanFactory, ReplayHistory, SeedPool, Send, DetectorTakes, SyncRegistry,
                FeedStep, FeedDies, FeedTakes, FeedQueues, WorkerTakes, Present
  <2> QED
    BY <2>1, <2>2, <2>3, <2>4, <2>5 DEF FeedNext, WorkerStep
<1> QED
  BY <1>1, FeedInvariance, PTL DEF FeedSpec, FrozenWhenDead

-----------------------------------------------------------------------------
(* Names and formulas.                                                     *)

\* Pools whose factory and seed are filed under a dex of their kind.
WellNamed(p) == ~Misnamed(p) /\ SeedDexOf[p] # "UniswapV3"

\* Announcements, and items of the queue, that say what a well named pool is.
RightEvents ==
    {e \in Events : WellNamed(e.pool) =>
        TypeOfEvent(e) = KindOf[e.pool] /\ HopType(e.dex) = KindOf[e.pool]}

RightItems ==
    {w \in [pool : Pools, type : Kinds] : WellNamed(w.pool) => w.type = KindOf[w.pool]}

\* Nothing on its way, and nothing stored, calls a well named pool something else.
NameInv ==
    /\ inbox \in [Receivers -> Seq(RightEvents)]
    /\ feed = "queue" => held \in RightEvents
    /\ queue \in Seq(RightItems)
    /\ worker \in RightItems \cup {None}
    /\ mirror \in [Pools -> Entries \cup {None}]
    /\ registry \in [Pools -> Dexes \cup {None}]
    /\ \A p \in Pools : WellNamed(p) =>
          /\ mirror[p] # None => mirror[p].type = KindOf[p]
          /\ registry[p] # None => HopType(registry[p]) = KindOf[p]

\* Appending to a sequence.
LEMMA Enqueue ==
    ASSUME NEW S, NEW s \in Seq(S), NEW x \in S
    PROVE  Append(s, x) \in Seq(S)
OBVIOUS

\* Every source calls a well named pool by its kind.
LEMMA RightlyAnnounced ==
    ASSUME NEW p \in Pools
    PROVE  /\ Scanned(p) \in RightEvents /\ Historical(p) \in RightEvents
           /\ SeedDexOf[p] # None => Seeded(p) \in RightEvents
<1>1. /\ KindOf[p] \in Kinds /\ FactoryOf[p] \in Factories /\ SeedDexOf[p] \in Dexes \cup {None}
      /\ FactoryOf[p] = "aerodrome" => KindOf[p] = "Aerodrome"
      /\ SeedDexOf[p] # None => /\ (SeedDexOf[p] = "Aerodrome") = (KindOf[p] = "Aerodrome")
                                /\ (KindOf[p] = "V3" => SeedDexOf[p] = "UniswapV3")
  BY FeedAssumption
<1>2. /\ FactoryMap[FactoryOf[p]] \in Dexes
      /\ FactoryMap[FactoryOf[p]] = "Aerodrome" => FactoryOf[p] = "aerodrome"
  BY <1>1 DEF FactoryMap, Factories, Dexes
<1>3. Scanned(p) \in RightEvents
  BY <1>1, <1>2, Announced DEF Scanned, RightEvents, Event, WellNamed, Misnamed, TypeOfEvent,
     HopType, Kinds
<1>4. Historical(p) \in RightEvents
  BY <1>1, Announced DEF Historical, RightEvents, Event, WellNamed, TypeOfEvent, HopType, Kinds
<1>5. SeedDexOf[p] # None => Seeded(p) \in RightEvents
  BY <1>1, Announced DEF Seeded, RightEvents, Event, WellNamed, TypeOfEvent, HopType, Kinds
<1> QED
  BY <1>3, <1>4, <1>5

\* A step that only moves announcements about.
LEMMA InboxStep ==
    ASSUME NameInv, inbox' \in [Receivers -> Seq(RightEvents)],
           feed' = "queue" => feed = "queue",
           UNCHANGED <<held, queue, worker, mirror, registry>>
    PROVE  NameInv'
BY DEF NameInv

\* A new announcement.
LEMMA NameSend ==
    ASSUME NameInv, NEW e \in RightEvents, Send(e)
    PROVE  NameInv'
<1> DEFINE full == {r \in Subscribed : Len(inbox[r]) = Capacity}
<1>1. /\ inbox' = [r \in Receivers |->
                     IF r \in full THEN Append(Tail(inbox[r]), e)
                     ELSE IF r \in Subscribed THEN Append(inbox[r], e) ELSE inbox[r]]
      /\ UNCHANGED <<feed, held, queue, worker, mirror, registry>>
  BY DEF Send
<1>2. ASSUME NEW r \in Receivers PROVE inbox'[r] \in Seq(RightEvents)
  <2>1. inbox[r] \in Seq(RightEvents)
    BY DEF NameInv
  <2>2. r \in full => inbox[r] # <<>>
    BY <2>1, FeedAssumption
  <2> HIDE DEF full
  <2>3. r \in full => Tail(inbox[r]) \in Seq(RightEvents)
    BY <2>1, <2>2, SplitQueue
  <2> QED
    BY <1>1, <2>1, <2>3, Enqueue
<1>3. inbox' \in [Receivers -> Seq(RightEvents)]
  BY <1>1, <1>2
<1> QED
  BY <1>1, <1>3, InboxStep

\* The detector and the feed store what the announcement says.
LEMMA NameTake ==
    ASSUME NameInv, DetectorTakes \/ FeedTakes
    PROVE  NameInv'
<1>1. ASSUME NEW r \in Receivers, inbox[r] # <<>>, inbox' = [inbox EXCEPT ![r] = Tail(@)]
      PROVE  /\ inbox[r][1] \in RightEvents /\ inbox[r][1].pool \in Pools
             /\ inbox[r][1].dex \in Dexes /\ TypeOfEvent(inbox[r][1]) \in Kinds
             /\ inbox' \in [Receivers -> Seq(RightEvents)]
  <2>1. inbox[r] \in Seq(RightEvents)
    BY DEF NameInv
  <2>2. inbox[r][1] \in RightEvents /\ Tail(inbox[r]) \in Seq(RightEvents)
    BY <1>1, <2>1
  <2> QED
    BY <1>1, <2>2 DEF NameInv, RightEvents, Events, TypeOfEvent, Kinds
<1>2. CASE DetectorTakes
  <2> DEFINE e == inbox["detector"][1]
  <2>1. /\ e \in RightEvents /\ e.pool \in Pools /\ e.dex \in Dexes
        /\ inbox' \in [Receivers -> Seq(RightEvents)]
    BY <1>1, <1>2 DEF DetectorTakes, Receivers
  <2>2. registry' = [registry EXCEPT ![e.pool] = e.dex]
        /\ UNCHANGED <<feed, held, queue, worker, mirror>>
    BY <1>2 DEF DetectorTakes
  <2>3. WellNamed(e.pool) => HopType(e.dex) = KindOf[e.pool]
    BY <2>1 DEF RightEvents
  <2> HIDE DEF e
  <2> QED
    BY <2>1, <2>2, <2>3 DEF NameInv
<1>3. CASE FeedTakes
  <2> DEFINE e == inbox["feed"][1]
             entry == [type |-> TypeOfEvent(e), read |-> FALSE]
  <2>1. /\ e \in RightEvents /\ e.pool \in Pools /\ TypeOfEvent(e) \in Kinds
        /\ inbox' \in [Receivers -> Seq(RightEvents)]
    BY <1>1, <1>3 DEF FeedTakes, Receivers
  <2>2. /\ mirror' = [mirror EXCEPT ![e.pool] = IF mirror[e.pool] = None THEN entry
                                                ELSE mirror[e.pool]]
        /\ held' = e /\ UNCHANGED <<queue, worker, registry>>
    BY <1>3 DEF FeedTakes
  <2>3. WellNamed(e.pool) => TypeOfEvent(e) = KindOf[e.pool]
    BY <2>1 DEF RightEvents
  <2>4. entry \in Entries /\ entry.type = TypeOfEvent(e)
    BY <2>1 DEF Entries
  <2> HIDE DEF e, entry
  <2> QED
    BY <2>1, <2>2, <2>3, <2>4 DEF NameInv
<1> QED
  BY <1>2, <1>3

\* The queue and the worker pass on the type of the announcement.
LEMMA NameFill ==
    ASSUME NameInv, FeedQueues \/ WorkerStep \/ \E p \in Pools : ApplyLog(p)
    PROVE  NameInv'
<1> USE FeedAssumption DEF NameInv
<1>1. CASE FeedQueues
  <2>1. held \in RightEvents /\ held.pool \in Pools /\ TypeOfEvent(held) \in Kinds
    BY <1>1 DEF FeedQueues, RightEvents, Events, TypeOfEvent, Kinds
  <2>2. [pool |-> held.pool, type |-> TypeOfEvent(held)] \in RightItems
    BY <2>1 DEF RightItems, RightEvents
  <2>3. queue' \in Seq(RightItems)
    BY <1>1, <2>2, Enqueue DEF FeedQueues
  <2>4. /\ [type |-> "Aerodrome", read |-> TRUE] \in Entries
        /\ TypeOfEvent(held) = "Aerodrome" /\ WellNamed(held.pool) => KindOf[held.pool] = "Aerodrome"
    BY <2>1 DEF Entries, Kinds, RightEvents
  <2>5. /\ mirror' \in [Pools -> Entries \cup {None}]
        /\ \A p \in Pools : WellNamed(p) /\ mirror'[p] # None => mirror'[p].type = KindOf[p]
    BY <1>1, <2>1, <2>4 DEF FeedQueues
  <2> QED
    BY <1>1, <2>3, <2>5 DEF FeedQueues
<1>2. CASE WorkerTakes
  <2>1. worker' \in RightItems /\ queue' \in Seq(RightItems)
    BY <1>2, SplitQueue DEF WorkerTakes
  <2> QED
    BY <1>2, <2>1 DEF WorkerTakes
<1>3. CASE WorkerDone
  <2> DEFINE entry == [type |-> IF mirror[worker.pool] = None THEN worker.type
                                ELSE mirror[worker.pool].type, read |-> TRUE]
  <2>1. /\ worker.pool \in Pools /\ worker.type \in Kinds
        /\ WellNamed(worker.pool) => worker.type = KindOf[worker.pool]
    BY <1>3 DEF WorkerDone, RightItems
  <2>2. /\ worker' = None /\ UNCHANGED <<inbox, feed, held, queue, registry>>
        /\ mirror' = mirror \/ mirror' = [mirror EXCEPT ![worker.pool] = entry]
    BY <1>3 DEF WorkerDone
  <2>3. entry \in Entries /\ (WellNamed(worker.pool) => entry.type = KindOf[worker.pool])
    BY <2>1 DEF Entries
  <2> HIDE DEF entry
  <2>4. /\ mirror' \in [Pools -> Entries \cup {None}]
        /\ \A p \in Pools : WellNamed(p) /\ mirror'[p] # None => mirror'[p].type = KindOf[p]
    BY <2>1, <2>2, <2>3
  <2> QED
    BY <2>2, <2>4
<1>4. CASE \E p \in Pools : ApplyLog(p)
  <2>1. PICK p \in Pools : ApplyLog(p)
    BY <1>4
  <2> DEFINE entry == [mirror[p] EXCEPT !.read = TRUE]
  <2>2. mirror[p] \in Entries /\ mirror[p] # None /\ mirror' = [mirror EXCEPT ![p] = entry]
    BY <2>1 DEF ApplyLog, Present
  <2>3. entry \in Entries /\ entry.type = mirror[p].type
    BY <2>2 DEF Entries
  <2> HIDE DEF entry
  <2>4. /\ mirror' \in [Pools -> Entries \cup {None}]
        /\ \A q \in Pools : WellNamed(q) /\ mirror'[q] # None => mirror'[q].type = KindOf[q]
    BY <2>2, <2>3
  <2>5. UNCHANGED <<inbox, feed, held, queue, worker, registry>>
    BY <2>1 DEF ApplyLog
  <2> QED
    BY <2>4, <2>5
<1> QED
  BY <1>1, <1>2, <1>3, <1>4 DEF WorkerStep

\* Forgetting, dying and waiting call nothing by another name.
LEMMA NameRest ==
    ASSUME NameInv,
           \/ FeedDies \/ SyncRegistry \/ DetectorLags \/ Advance \/ UNCHANGED feedVars
           \/ \E S : Forget(S)
           \/ UNCHANGED <<phase, inbox, lagged, feed, held, queue, worker, mirror, registry,
                          grace, graph, owed>>
    PROVE  NameInv'
<1>1. CASE FeedDies
  <2>1. <<>> \in Seq(RightEvents)
    OBVIOUS
  <2>2. inbox' \in [Receivers -> Seq(RightEvents)]
    BY <1>1, <2>1 DEF FeedDies, NameInv
  <2> QED
    BY <1>1, <2>2, InboxStep DEF FeedDies
<1>2. CASE SyncRegistry
  BY <1>2 DEF SyncRegistry, NameInv
<1>3. CASE \E S : Forget(S)
  BY <1>3 DEF Forget, NameInv
<1>4. CASE \/ DetectorLags \/ Advance \/ UNCHANGED feedVars
           \/ UNCHANGED <<phase, inbox, lagged, feed, held, queue, worker, mirror, registry,
                          grace, graph, owed>>
  <2>1. inbox' \in [Receivers -> Seq(RightEvents)] /\ (feed' = "queue" => feed = "queue")
        /\ UNCHANGED <<held, queue, worker, mirror, registry>>
    BY <1>4 DEF DetectorLags, Advance, feedVars, NameInv
  <2> QED
    BY <2>1, InboxStep
<1> QED
  BY <1>1, <1>2, <1>3, <1>4

\* Whoever announced a pool first to the mirror and last to the registry, it is
\* priced by the formula its reserves are read for, for every set of pools and
\* factories, unless it is filed under a dex of another kind.
THEOREM PricedByItsKind == FeedSpec => []PricedAsRead
<1>1. FeedInit => NameInv
  <2> SUFFICES ASSUME FeedInit PROVE NameInv
    OBVIOUS
  <2>1. \A p \in Pools : [type |-> KindOf[p], read |-> TRUE] \in Entries
    BY FeedAssumption DEF Entries
  <2>2. <<>> \in Seq(RightEvents) /\ <<>> \in Seq(RightItems)
    OBVIOUS
  <2>3. /\ mirror \in [Pools -> Entries \cup {None}]
        /\ \A p \in Pools : mirror[p] # None => mirror[p].type = KindOf[p]
    BY <2>1 DEF FeedInit
  <2> QED
    BY <2>2, <2>3 DEF FeedInit, NameInv
<1>2. NameInv /\ [FeedNext]_feedVars => NameInv'
  <2> SUFFICES ASSUME NameInv, [FeedNext]_feedVars PROVE NameInv'
    OBVIOUS
  <2>1. ASSUME NEW p \in Pools, ScanFactory(p) \/ ReplayHistory(p) \/ SeedPool(p)
        PROVE  NameInv'
    BY <2>1, RightlyAnnounced, NameSend DEF ScanFactory, ReplayHistory, SeedPool
  <2>2. CASE DetectorTakes \/ FeedTakes
    BY <2>2, NameTake
  <2>3. CASE FeedQueues \/ WorkerStep \/ \E p \in Pools : ApplyLog(p)
    BY <2>3, NameFill
  <2>4. CASE (\E p \in Pools : LazyBatch(p)) \/ PruneStale
    BY <2>4, NameRest DEF LazyBatch, PruneStale
  <2>5. CASE FeedDies \/ SyncRegistry \/ DetectorLags \/ Advance \/ UNCHANGED feedVars
    BY <2>5, NameRest
  <2> QED
    BY <2>1, <2>2, <2>3, <2>4, <2>5 DEF FeedNext, FeedStep
<1>3. NameInv => PricedAsRead
  BY DEF NameInv, PricedAsRead, WellNamed, Registered, Present
<1> QED
  BY <1>1, <1>2, <1>3, PTL DEF FeedSpec

=============================================================================
