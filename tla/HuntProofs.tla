----------------------------- MODULE HuntProofs -----------------------------
(***************************************************************************)
(* Proofs about a search task: its recursion, for any graph, trigger and   *)
(* depth, and its golden-section search, for constants like the code's and *)
(* any reserves.                                                           *)
(***************************************************************************)
EXTENDS Hunt, WellFoundedInduction, TLAPS

\* A trail is what the recursion has on its stack: it leaves by the first edge,
\* goes on, and has not come to the target.
IsTrail(k, h) ==
    /\ Len(h) \in 1 .. MaxHops
    /\ h[1] = k.first
    /\ \A i \in 2 .. Len(h) : h[i].from = h[i - 1].to /\ h[i].pool # k.trigger
    /\ \A i, j \in 1 .. Len(h) : h[i].pool = h[j].pool => i = j
    /\ \A i \in 1 .. Len(h) : h[i].to # k.target

Marked(k, h) == ({k.trigger} \cap GraphPools) \cup {h[i].pool : i \in 1 .. Len(h)}

PathTypeOK ==
    /\ task \in Tasks
    /\ pc \in {"start", "dfs", "end"}
    /\ hops \in Seq(Edges)
    /\ frames \in Seq(SUBSET Edges)

\* The i-th frame holds edges that go on from the i-th hop, and a frame with edges
\* has room for one more hop.
FramesFollow ==
    /\ Len(frames) = Len(hops)
    /\ \A i \in 1 .. Len(frames) :
         /\ \A e \in frames[i] : e.from = hops[i].to
         /\ frames[i] # {} => i + 1 <= MaxHops

PathInv ==
    /\ PathTypeOK
    /\ pc = "start" => paths = {}
    /\ pc = "dfs" => IsTrail(task, hops) /\ FramesFollow /\ visited = Marked(task, hops)
    /\ PathsAreRoutes

-----------------------------------------------------------------------------
\* An edge belongs to a pool of the graph.
LEMMA EdgePool ==
    ASSUME NEW e \in Edges
    PROVE  e.pool \in GraphPools
  BY DEF Edges, Edge

\* The first edge of a task is one of the graph.
LEMMA TaskFirst ==
    ASSUME NEW k \in Tasks
    PROVE  k.first \in Edges /\ k.trigger \in Triggers
  BY DEF Tasks

\* What a call has to try: edges of its token, and none past the depth.
LEMMA CallFacts ==
    ASSUME NEW h \in Seq(Edges), h # <<>>
    PROVE  /\ Call(h) \in SUBSET Edges
           /\ \A e \in Call(h) : e.from = h[Len(h)].to
           /\ Call(h) # {} => Len(h) + 1 <= MaxHops
  <1>1. Len(h) \in Nat \ {0}
    OBVIOUS
  <1>2. CASE Len(h) + 1 > MaxHops
    BY <1>1, <1>2 DEF Call
  <1>3. CASE ~(Len(h) + 1 > MaxHops)
    BY <1>1, <1>3, PathAssumption DEF Call, EdgesFrom
  <1>4. QED
    BY <1>2, <1>3

\* A trail and an edge to a pool that is not marked make a longer one, or a route.
LEMMA LongerTrail ==
    ASSUME NEW k \in Tasks, NEW h \in Seq(Edges), IsTrail(k, h),
           NEW e \in Edges, e.from = h[Len(h)].to, e.pool \notin Marked(k, h),
           Len(h) + 1 <= MaxHops
    PROVE  /\ Append(h, e) \in Seq(Edges)
           /\ Append(h, e) # <<>>
           /\ Marked(k, Append(h, e)) = Marked(k, h) \cup {e.pool}
           /\ e.to # k.target => IsTrail(k, Append(h, e))
           /\ e.to = k.target => IsRoute(k, Append(h, e))
  <1> DEFINE g == Append(h, e)
             n == Len(h)
  <1>1. n \in Nat /\ n >= 1 /\ n + 1 <= MaxHops /\ MaxHops \in Nat
    BY PathAssumption DEF IsTrail
  <1>2. /\ g \in Seq(Edges) /\ Len(g) = n + 1 /\ g[n + 1] = e
        /\ \A i \in 1 .. n : g[i] = h[i]
    OBVIOUS
  <1>3. e.pool # k.trigger
    BY EdgePool DEF Marked
  <1>4. \A i \in 1 .. n : h[i].pool # e.pool
    BY DEF Marked
  <1> HIDE DEF g
  <1>5. Marked(k, g) = Marked(k, h) \cup {e.pool}
    <2>1. \A i \in 1 .. n + 1 : i \in 1 .. n \/ i = n + 1
      BY <1>1
    <2>2. {g[i].pool : i \in 1 .. n + 1} = {h[i].pool : i \in 1 .. n} \cup {e.pool}
      BY <2>1, <1>1, <1>2
    <2>3. QED
      BY <2>2, <1>2 DEF Marked
  <1>6. g[1] = k.first
    BY <1>1, <1>2 DEF IsTrail
  <1>7. ASSUME NEW i \in 2 .. n + 1
        PROVE  g[i].from = g[i - 1].to /\ g[i].pool # k.trigger
    <2>1. CASE i = n + 1
      BY <2>1, <1>1, <1>2, <1>3
    <2>2. CASE i # n + 1
      <3>1. i \in 2 .. n /\ i - 1 \in 1 .. n /\ i \in 1 .. n
        BY <2>2, <1>1, <1>7
      <3>2. QED
        BY <3>1, <1>2 DEF IsTrail
    <2>3. QED
      BY <2>1, <2>2
  <1>8. ASSUME NEW i \in 1 .. n + 1, NEW j \in 1 .. n + 1, g[i].pool = g[j].pool
        PROVE  i = j
    BY <1>1, <1>2, <1>4, <1>8 DEF IsTrail
  <1>9. \A i \in 1 .. n : g[i].to # k.target
    BY <1>2 DEF IsTrail
  <1>10. e.to # k.target => IsTrail(k, g)
    BY <1>1, <1>2, <1>6, <1>7, <1>8, <1>9 DEF IsTrail
  <1>11. e.to = k.target => IsRoute(k, g)
    <2>1. \A i \in 1 .. n + 1 : g[i] \in Edges
      BY <1>2
    <2>2. SUFFICES ASSUME e.to = k.target
                   PROVE  \A i \in 1 .. n + 1 : (g[i].to = k.target) = (i = n + 1)
      BY <2>1, <1>1, <1>2, <1>6, <1>7, <1>8 DEF IsRoute
    <2>3. QED
      BY <2>2, <1>1, <1>2, <1>9
  <1>12. QED
    BY <1>2, <1>1, <1>5, <1>10, <1>11 DEF g

\* A trail without its last hop is a trail, and its marks are those without it.
LEMMA ShorterTrail ==
    ASSUME NEW k \in Tasks, NEW h \in Seq(Edges), IsTrail(k, h), Len(h) # 1
    PROVE  LET g == SubSeq(h, 1, Len(h) - 1) IN
           /\ g \in Seq(Edges) /\ Len(g) = Len(h) - 1
           /\ \A i \in 1 .. Len(g) : g[i] = h[i]
           /\ IsTrail(k, g)
           /\ Marked(k, g) = Marked(k, h) \ {h[Len(h)].pool}
  <1> DEFINE g == SubSeq(h, 1, Len(h) - 1)
             n == Len(h)
  <1>1. n \in Nat /\ n >= 2 /\ n <= MaxHops /\ MaxHops \in Nat
    <2>1. MaxHops \in Nat /\ n \in 1 .. MaxHops /\ n # 1
      BY PathAssumption DEF IsTrail
    <2>2. \A m, l \in Nat : m \in 1 .. l /\ m # 1 => m >= 2 /\ m <= l
      OBVIOUS
    <2>3. n \in Nat
      OBVIOUS
    <2>4. QED
      BY <2>1, <2>2, <2>3
  <1>2. /\ g \in Seq(Edges) /\ Len(g) = n - 1
        /\ \A i \in 1 .. n - 1 : g[i] = h[i]
    BY <1>1
  <1> HIDE DEF g
  <1>3. IsTrail(k, g)
    <2>1. Len(g) \in 1 .. MaxHops /\ g[1] = k.first
      BY <1>1, <1>2 DEF IsTrail
    <2>2. \A i \in 1 .. Len(g) : i \in 1 .. n /\ g[i] = h[i]
      BY <1>1, <1>2
    <2>3. \A i \in 2 .. Len(g) : i \in 2 .. n /\ g[i] = h[i] /\ g[i - 1] = h[i - 1]
      BY <1>1, <1>2
    <2>4. /\ \A i \in 2 .. Len(g) : g[i].from = g[i - 1].to /\ g[i].pool # k.trigger
          /\ \A i, j \in 1 .. Len(g) : g[i].pool = g[j].pool => i = j
          /\ \A i \in 1 .. Len(g) : g[i].to # k.target
      <3>1. /\ \A i \in 2 .. n : h[i].from = h[i - 1].to /\ h[i].pool # k.trigger
            /\ \A i, j \in 1 .. n : h[i].pool = h[j].pool => i = j
            /\ \A i \in 1 .. n : h[i].to # k.target
        BY DEF IsTrail
      <3>2. \A i \in 2 .. Len(g) : g[i].from = g[i - 1].to /\ g[i].pool # k.trigger
        BY <2>3, <3>1, Zenon
      <3>3. \A i, j \in 1 .. Len(g) : g[i].pool = g[j].pool => i = j
        BY <2>2, <3>1, Zenon
      <3>4. \A i \in 1 .. Len(g) : g[i].to # k.target
        BY <2>2, <3>1, Zenon
      <3>5. QED
        BY <3>2, <3>3, <3>4
    <2>5. QED
      BY <2>1, <2>4, Zenon DEF IsTrail
  <1>4. h[n].pool # k.trigger
    BY <1>1 DEF IsTrail
  <1>5. \A i \in 1 .. n - 1 : h[i].pool # h[n].pool
    BY <1>1 DEF IsTrail
  <1>6. {h[i].pool : i \in 1 .. n} = {h[i].pool : i \in 1 .. n - 1} \cup {h[n].pool}
    <2>1. \A i \in 1 .. n : i \in 1 .. n - 1 \/ i = n
      BY <1>1
    <2>2. QED
      BY <2>1, <1>1
  <1>7. {g[i].pool : i \in 1 .. n - 1} = {h[i].pool : i \in 1 .. n - 1}
    BY <1>2
  <1>8. Marked(k, g) = Marked(k, h) \ {h[n].pool}
    BY <1>2, <1>4, <1>5, <1>6, <1>7 DEF Marked
  <1>9. QED
    BY <1>2, <1>3, <1>8 DEF g

-----------------------------------------------------------------------------
LEMMA PathInitInv == PathInit => PathInv
  BY PathAssumption DEF PathInit, PathInv, PathTypeOK, PathsAreRoutes

LEMMA StartInv == PathInv /\ Start => PathInv'
  <1> SUFFICES ASSUME PathInv, Start PROVE PathInv'
    OBVIOUS
  <1> DEFINE e == task.first
  <1>1. task \in Tasks /\ e \in Edges /\ MaxHops \in Nat /\ MaxHops >= 1
    BY TaskFirst, PathAssumption DEF PathInv, PathTypeOK
  <1>2. hops' = <<e>> /\ task' = task /\ pc = "start" /\ paths = {}
    BY DEF Start, PathInv
  <1>3. hops' \in Seq(Edges) /\ Len(hops') = 1 /\ hops'[1] = e /\ hops' # <<>>
    BY <1>1, <1>2
  <1>4. CASE e.to = task.target
    <2>1. pc' = "end" /\ paths' = {hops'} /\ frames' = frames
      BY <1>2, <1>4 DEF Start
    <2>2. IsRoute(task, hops')
      BY <1>1, <1>3, <1>4 DEF IsRoute
    <2>3. QED
      BY <1>1, <1>2, <1>3, <2>1, <2>2 DEF PathInv, PathTypeOK, PathsAreRoutes
  <1>5. CASE e.to # task.target
    <2>1. pc' = "dfs" /\ paths' = {} /\ frames' = <<Call(hops')>>
      BY <1>2, <1>5 DEF Start
    <2>2. IsTrail(task, hops')
      BY <1>1, <1>3, <1>5 DEF IsTrail
    <2>3. visited' = Marked(task, hops')
      <3>1. {hops'[i].pool : i \in 1 .. 1} = {e.pool}
        BY <1>3
      <3>2. QED
        BY <3>1, <1>3 DEF Start, Marked
    <2>4. /\ Call(hops') \in SUBSET Edges
          /\ \A x \in Call(hops') : x.from = hops'[Len(hops')].to
          /\ Call(hops') # {} => Len(hops') + 1 <= MaxHops
      BY <1>3, CallFacts
    <2>5. frames' \in Seq(SUBSET Edges) /\ Len(frames') = 1 /\ frames'[1] = Call(hops')
      BY <2>1, <2>4
    <2>6. FramesFollow'
      BY <1>3, <2>4, <2>5 DEF FramesFollow
    <2>7. QED
      BY <1>1, <1>2, <1>3, <2>1, <2>2, <2>3, <2>5, <2>6 DEF PathInv, PathTypeOK, PathsAreRoutes
  <1>6. QED
    BY <1>4, <1>5

\* What a step of the recursion finds at the top of its stack.
LEMMA TopFacts ==
    ASSUME PathInv, pc = "dfs"
    PROVE  /\ task \in Tasks /\ hops \in Seq(Edges) /\ frames \in Seq(SUBSET Edges)
           /\ IsTrail(task, hops) /\ FramesFollow /\ visited = Marked(task, hops)
           /\ Len(frames) = Len(hops) /\ Len(hops) \in Nat \ {0}
           /\ Top \in SUBSET Edges
           /\ \A e \in Top : e.from = hops[Len(hops)].to /\ Len(hops) + 1 <= MaxHops
  <1>1. /\ task \in Tasks /\ hops \in Seq(Edges) /\ frames \in Seq(SUBSET Edges)
        /\ IsTrail(task, hops) /\ FramesFollow /\ visited = Marked(task, hops)
    BY DEF PathInv, PathTypeOK
  <1>2. Len(frames) = Len(hops) /\ Len(hops) \in Nat \ {0}
    BY <1>1 DEF IsTrail, FramesFollow
  <1>3. Top \in SUBSET Edges
    BY <1>1, <1>2 DEF Top
  <1>4. \A e \in Top : e.from = hops[Len(hops)].to /\ Len(hops) + 1 <= MaxHops
    BY <1>1, <1>2 DEF Top, FramesFollow
  <1>5. QED
    BY <1>1, <1>2, <1>3, <1>4

\* An edge taken off the top frame leaves the frames as they should be.
LEMMA TriedFacts ==
    ASSUME PathInv, pc = "dfs", NEW e \in Edges
    PROVE  /\ Tried(e) \in Seq(SUBSET Edges) /\ Len(Tried(e)) = Len(hops)
           /\ \A i \in 1 .. Len(hops) : Tried(e)[i] \subseteq frames[i]
  BY TopFacts DEF Tried

LEMMA SkipInv ==
    ASSUME PathInv, NEW e \in Edges, Skip(e)
    PROVE  PathInv'
  <1>1. pc = "dfs" /\ frames' = Tried(e) /\ UNCHANGED <<task, pc, hops, visited, paths>>
    BY DEF Skip
  <1>2. frames' \in Seq(SUBSET Edges) /\ FramesFollow'
    BY <1>1, TopFacts, TriedFacts DEF FramesFollow
  <1>3. QED
    BY <1>1, <1>2 DEF PathInv, PathTypeOK, PathsAreRoutes

LEMMA RecordInv ==
    ASSUME PathInv, NEW e \in Edges, Record(e)
    PROVE  PathInv'
  <1>1. /\ pc = "dfs" /\ frames' = Tried(e) /\ UNCHANGED <<task, pc, hops, visited>>
        /\ e \in Top /\ e.pool \notin visited /\ e.to = task.target
        /\ paths' = paths \cup {Append(hops, e)}
    BY DEF Record
  <1>2. frames' \in Seq(SUBSET Edges) /\ FramesFollow'
    BY <1>1, TopFacts, TriedFacts DEF FramesFollow
  <1>3. IsRoute(task, Append(hops, e))
    BY <1>1, TopFacts, LongerTrail
  <1>4. PathsAreRoutes'
    BY <1>1, <1>3 DEF PathInv, PathsAreRoutes
  <1>5. QED
    BY <1>1, <1>2, <1>4 DEF PathInv, PathTypeOK

LEMMA DescendInv ==
    ASSUME PathInv, NEW e \in Edges, Descend(e)
    PROVE  PathInv'
  <1>1. /\ pc = "dfs" /\ UNCHANGED <<task, pc, paths>>
        /\ e \in Top /\ e.pool \notin visited /\ e.to # task.target
        /\ hops' = Append(hops, e) /\ visited' = visited \cup {e.pool}
        /\ frames' = Append(Tried(e), Call(hops'))
    BY DEF Descend
  <1>2. /\ hops' \in Seq(Edges) /\ hops' # <<>>
        /\ visited' = Marked(task, hops') /\ IsTrail(task, hops')
    BY <1>1, TopFacts, LongerTrail
  <1>3. /\ Len(hops') = Len(hops) + 1 /\ Len(hops) \in Nat
        /\ \A i \in 1 .. Len(hops) : hops'[i] = hops[i]
    BY <1>1, TopFacts
  <1>4. /\ Call(hops') \in SUBSET Edges
        /\ \A x \in Call(hops') : x.from = hops'[Len(hops')].to
        /\ Call(hops') # {} => Len(hops') + 1 <= MaxHops
    BY <1>2, CallFacts
  <1>5. /\ Tried(e) \in Seq(SUBSET Edges) /\ Len(Tried(e)) = Len(hops)
        /\ \A i \in 1 .. Len(hops) : Tried(e)[i] \subseteq frames[i]
    BY <1>1, TriedFacts
  <1>6. /\ frames' \in Seq(SUBSET Edges) /\ Len(frames') = Len(hops')
        /\ frames'[Len(hops')] = Call(hops')
        /\ \A i \in 1 .. Len(hops) : frames'[i] = Tried(e)[i]
    BY <1>1, <1>3, <1>4, <1>5
  <1>7. FramesFollow'
    <2>1. ASSUME NEW i \in 1 .. Len(hops')
          PROVE  /\ \A x \in frames'[i] : x.from = hops'[i].to
                 /\ frames'[i] # {} => i + 1 <= MaxHops
      <3>1. CASE i = Len(hops')
        BY <3>1, <1>4, <1>6
      <3>2. CASE i # Len(hops')
        <4>1. i \in 1 .. Len(hops)
          BY <3>2, <1>3, <2>1
        <4>2. frames'[i] \subseteq frames[i] /\ hops'[i] = hops[i]
          BY <4>1, <1>3, <1>5, <1>6
        <4>3. QED
          BY <4>1, <4>2, <1>1, TopFacts DEF FramesFollow
      <3>3. QED
        BY <3>1, <3>2
    <2>2. QED
      BY <2>1, <1>6 DEF FramesFollow
  <1>8. QED
    BY <1>1, <1>2, <1>6, <1>7 DEF PathInv, PathTypeOK, PathsAreRoutes

LEMMA ReturnInv == PathInv /\ Return => PathInv'
  <1> SUFFICES ASSUME PathInv, Return PROVE PathInv'
    OBVIOUS
  <1>1. /\ pc = "dfs" /\ UNCHANGED <<task, paths>>
        /\ frames' = SubSeq(frames, 1, Len(frames) - 1)
    BY DEF Return
  <1>2. /\ frames' \in Seq(SUBSET Edges) /\ Len(frames') = Len(hops) - 1
        /\ \A i \in 1 .. Len(hops) - 1 : frames'[i] = frames[i]
    BY <1>1, TopFacts
  <1>3. CASE Len(frames) = 1
    <2>1. pc' = "end" /\ UNCHANGED <<hops, visited>>
      BY <1>3 DEF Return
    <2>2. QED
      BY <1>1, <1>2, <2>1 DEF PathInv, PathTypeOK, PathsAreRoutes
  <1>4. CASE Len(frames) # 1
    <2>1. /\ pc' = pc /\ hops' = SubSeq(hops, 1, Len(hops) - 1)
          /\ visited' = visited \ {hops[Len(hops)].pool}
      BY <1>4 DEF Return
    <2>2. /\ hops' \in Seq(Edges) /\ Len(hops') = Len(hops) - 1
          /\ \A i \in 1 .. Len(hops') : hops'[i] = hops[i]
          /\ IsTrail(task, hops') /\ visited' = Marked(task, hops')
      BY <1>1, <1>4, <2>1, TopFacts, ShorterTrail
    <2>3. FramesFollow'
      BY <1>1, <1>2, <2>2, TopFacts DEF FramesFollow
    <2>4. QED
      BY <1>1, <1>2, <2>1, <2>2, <2>3 DEF PathInv, PathTypeOK, PathsAreRoutes
  <1>5. QED
    BY <1>3, <1>4

LEMMA PathStepInv == PathInv /\ [PathNext]_pathVars => PathInv'
  <1> SUFFICES ASSUME PathInv, [PathNext]_pathVars PROVE PathInv'
    OBVIOUS
  <1>1. CASE Start
    BY <1>1, StartInv
  <1>2. ASSUME NEW e \in Edges, Skip(e) \/ Record(e) \/ Descend(e)
        PROVE  PathInv'
    BY <1>2, SkipInv, RecordInv, DescendInv
  <1>3. CASE Return
    BY <1>3, ReturnInv
  <1>4. CASE UNCHANGED pathVars
    BY <1>4 DEF pathVars, PathInv, PathTypeOK, FramesFollow, PathsAreRoutes
  <1>5. QED
    BY <1>1, <1>2, <1>3, <1>4 DEF PathNext

LEMMA PathInvHolds == PathSpec => []PathInv
  BY PathInitInv, PathStepInv, PTL DEF PathSpec

LEMMA InvSafe == PathInv => PathsAreRoutes /\ BitmapTracksHops
  <1>1. PathInv => PathsAreRoutes
    BY DEF PathInv
  <1>2. PathInv => BitmapTracksHops
    <2>1. SUFFICES ASSUME PathInv, pc = "dfs"
                   PROVE  visited = ({task.trigger} \cap GraphPools)
                                    \cup {hops[i].pool : i \in DOMAIN hops}
      BY DEF BitmapTracksHops
    <2>2. visited = Marked(task, hops) /\ DOMAIN hops = 1 .. Len(hops)
      BY <2>1, TopFacts
    <2>3. QED
      BY <2>2 DEF Marked
  <1>3. QED
    BY <1>1, <1>2

\* Whatever the graph, the trigger and the depth, find_cycles_dfs records nothing
\* but routes of its task: connected, no pool twice, at the target only in the end.
THEOREM OnlyRoutes == PathSpec => []PathsAreRoutes
  BY InvSafe, PathInvHolds, PTL

\* The bitmap the whole recursion shares is given back by every call as it was: it
\* marks the trigger and the hops on the stack.
THEOREM BitmapSafe == PathSpec => []BitmapTracksHops
  BY InvSafe, PathInvHolds, PTL

-----------------------------------------------------------------------------
(***************************************************************************)
(* The recursion enumerates the routes of its task: every step of it finds *)
(* one more route, or ends with all of them, or changes nothing RouteEnum  *)
(* speaks of.                                                              *)
(***************************************************************************)

\* Routes have been found, or are still to come.
RoutesInv ==
    /\ paths \subseteq AllRoutes[task]
    /\ pc = "dfs" => \A r \in AllRoutes[task] : r \in paths \/ StillToCome(r)
    /\ pc = "end" => paths = AllRoutes[task]

-----------------------------------------------------------------------------
\* A route is a sequence of edges, and a sequence that is a route is among all.
LEMMA RouteShape ==
    ASSUME NEW k \in Tasks
    PROVE  /\ \A r \in AllRoutes[k] : /\ r \in Seq(Edges) /\ r \in [1 .. Len(r) -> Edges]
                                      /\ Len(r) \in 1 .. MaxHops /\ IsRoute(k, r)
           /\ \A r \in Seq(Edges) : IsRoute(k, r) => r \in AllRoutes[k]
<1>1. AllRoutes[k] = {r \in UNION {[1 .. n -> Edges] : n \in 1 .. MaxHops} : IsRoute(k, r)}
  BY DEF AllRoutes, Walks
<1>2. MaxHops \in Nat
  BY PathAssumption
<1>3. ASSUME NEW r \in AllRoutes[k]
      PROVE  /\ r \in Seq(Edges) /\ r \in [1 .. Len(r) -> Edges]
             /\ Len(r) \in 1 .. MaxHops /\ IsRoute(k, r)
  <2>1. PICK n \in 1 .. MaxHops : r \in [1 .. n -> Edges]
    BY <1>1
  <2>2. n \in Nat /\ r \in Seq(Edges) /\ Len(r) = n
    BY <1>2, <2>1
  <2> QED
    BY <1>1, <2>1, <2>2
<1>4. ASSUME NEW r \in Seq(Edges), IsRoute(k, r)
      PROVE  r \in AllRoutes[k]
  <2>1. Len(r) \in 1 .. MaxHops
    BY <1>4 DEF IsRoute
  <2>2. r \in [1 .. Len(r) -> Edges]
    OBVIOUS
  <2> QED
    BY <1>1, <1>4, <2>1, <2>2
<1> QED
  BY <1>3, <1>4

\* A call has the next edge of every route that comes by.
LEMMA CallHasNext ==
    ASSUME NEW k \in Tasks, NEW r \in AllRoutes[k], NEW h \in Seq(Edges), Len(h) >= 1,
           Len(r) > Len(h), r[Len(h)] = h[Len(h)]
    PROVE  r[Len(h) + 1] \in Call(h)
<1> DEFINE n == Len(h)
<1>1. /\ n \in Nat /\ MaxHops \in Nat /\ r \in Seq(Edges) /\ Len(r) \in 1 .. MaxHops
      /\ IsRoute(k, r)
  BY RouteShape, PathAssumption
<1>2. n + 1 \in 2 .. Len(r) /\ n + 1 <= MaxHops
  BY <1>1
<1>3. r[n + 1] \in Edges /\ r[n + 1].from = r[n].to
  BY <1>1, <1>2 DEF IsRoute
<1> QED
  BY <1>2, <1>1, <1>3 DEF Call, EdgesFrom

\* A route that follows the whole stack goes on through a pool that is not marked.
LEMMA NextUnmarked ==
    ASSUME PathInv, pc = "dfs", NEW r \in AllRoutes[task], Follows(r, Len(hops))
    PROVE  r[Len(hops) + 1].pool \notin visited
<1> DEFINE n == Len(hops)
<1>1. n \in Nat /\ n >= 1 /\ task \in Tasks /\ visited = Marked(task, hops)
  BY TopFacts
<1>2. r \in Seq(Edges) /\ Len(r) \in Nat /\ Len(r) > n /\ IsRoute(task, r)
  BY <1>1, RouteShape DEF Follows
<1>3. r[n + 1].pool # task.trigger
  BY <1>1, <1>2 DEF IsRoute
<1>4. \A j \in 1 .. n : hops[j].pool # r[n + 1].pool
  <2>1. \A j \in 1 .. n : hops[j] = r[j] /\ j \in 1 .. Len(r) /\ n + 1 \in 1 .. Len(r) /\ j # n + 1
    BY <1>1, <1>2 DEF Follows
  <2> QED
    BY <2>1, <1>2 DEF IsRoute
<1> QED
  BY <1>1, <1>3, <1>4 DEF Marked

\* When e is taken off the top frame, what was to come still is, unless it goes on
\* with e from here.
LEMMA TriedComes ==
    ASSUME PathInv, pc = "dfs", NEW e \in Edges, NEW r, StillToCome(r)
    PROVE  \/ \E i \in 1 .. Len(hops) : Follows(r, i) /\ r[i + 1] \in Tried(e)[i]
           \/ Follows(r, Len(hops)) /\ r[Len(hops) + 1] = e
<1>1. /\ frames \in Seq(SUBSET Edges) /\ Len(frames) = Len(hops) /\ Len(hops) \in Nat \ {0}
  BY TopFacts
<1>2. PICK i \in 1 .. Len(hops) : Follows(r, i) /\ r[i + 1] \in frames[i]
  BY <1>1 DEF StillToCome
<1>3. CASE i # Len(hops) \/ r[i + 1] # e
  <2>1. r[i + 1] \in Tried(e)[i]
    BY <1>1, <1>2, <1>3 DEF Tried
  <2> QED
    BY <1>2, <2>1
<1> QED
  BY <1>2, <1>3

-----------------------------------------------------------------------------
LEMMA PathInitRoutes == PathInit => RoutesInv
  BY DEF PathInit, RoutesInv

LEMMA StartRoutes == PathInv /\ RoutesInv /\ Start => RoutesInv'
<1> SUFFICES ASSUME PathInv, RoutesInv, Start PROVE RoutesInv'
  OBVIOUS
<1> DEFINE e == task.first
<1>1. task \in Tasks /\ e \in Edges /\ task' = task /\ hops' = <<e>> /\ paths = {}
  BY TaskFirst DEF PathInv, PathTypeOK, Start
<1>2. <<e>> \in Seq(Edges) /\ Len(<<e>>) = 1 /\ <<e>>[1] = e
  BY <1>1
<1>3. ASSUME NEW r \in AllRoutes[task]
      PROVE  /\ r \in Seq(Edges) /\ r \in [1 .. Len(r) -> Edges] /\ Len(r) \in Nat /\ Len(r) >= 1
             /\ r[1] = e /\ (e.to = task.target) = (Len(r) = 1)
  BY <1>1, RouteShape DEF IsRoute
<1>4. CASE e.to = task.target
  <2>1. pc' = "end" /\ paths' = {<<e>>}
    BY <1>4 DEF Start
  <2>2. IsRoute(task, <<e>>)
    BY <1>1, <1>2, <1>4, PathAssumption DEF IsRoute
  <2>3. \A r \in AllRoutes[task] : r = <<e>>
    BY <1>3, <1>4
  <2>4. AllRoutes[task] = {<<e>>}
    BY <1>1, <1>2, <2>2, <2>3, RouteShape
  <2> QED
    BY <1>1, <2>1, <2>4 DEF RoutesInv
<1>5. CASE e.to # task.target
  <2>1. pc' = "dfs" /\ paths' = {} /\ frames' = <<Call(<<e>>)>>
    BY <1>1, <1>5 DEF Start
  <2>2. ASSUME NEW r \in AllRoutes[task]
        PROVE  StillToCome(r)'
    <3>1. Len(r) > 1 /\ r[1] = e
      <4>1. Len(r) # 1
        BY <1>3, <1>5
      <4>2. Len(r) \in Nat /\ Len(r) >= 1 /\ r[1] = e
        BY <1>3
      <4>3. \A n \in Nat : n >= 1 /\ n # 1 => n > 1
        OBVIOUS
      <4> QED
        BY <4>1, <4>2, <4>3
    <3>2. r[2] \in Call(<<e>>)
      <4>1. \A h \in Seq(Edges) : Len(h) = 1 /\ h[1] = e => r[2] \in Call(h)
        BY <1>1, <3>1, CallHasNext
      <4> QED
        BY <1>2, <4>1
    <3>3. Len(frames') = 1 /\ frames'[1] = Call(<<e>>)
      BY <2>1
    <3> QED
      BY <1>1, <3>1, <3>2, <3>3 DEF StillToCome, Follows
  <2> QED
    BY <1>1, <2>1, <2>2 DEF RoutesInv
<1> QED
  BY <1>4, <1>5

LEMMA SkipRoutes ==
    ASSUME PathInv, RoutesInv, NEW e \in Edges, Skip(e)
    PROVE  RoutesInv'
<1>1. /\ pc = "dfs" /\ frames' = Tried(e) /\ UNCHANGED <<task, pc, hops, visited, paths>>
      /\ e.pool \in visited
  BY DEF Skip
<1>2. ASSUME NEW r \in AllRoutes[task], r \notin paths
      PROVE  StillToCome(r)'
  <2>1. StillToCome(r)
    BY <1>1, <1>2 DEF RoutesInv
  <2>2. ~(Follows(r, Len(hops)) /\ r[Len(hops) + 1] = e)
    BY <1>1, NextUnmarked
  <2>3. PICK i \in 1 .. Len(hops) : Follows(r, i) /\ r[i + 1] \in Tried(e)[i]
    BY <1>1, <2>1, <2>2, TriedComes
  <2>4. Len(frames') = Len(hops)
    BY <1>1, TriedFacts
  <2> QED
    BY <1>1, <2>3, <2>4 DEF StillToCome, Follows
<1> QED
  BY <1>1, <1>2 DEF RoutesInv

LEMMA RecordRoutes ==
    ASSUME PathInv, RoutesInv, NEW e \in Edges, Record(e)
    PROVE  RoutesInv' /\ Append(hops, e) \in AllRoutes[task]
<1>1. /\ pc = "dfs" /\ frames' = Tried(e) /\ UNCHANGED <<task, pc, hops, visited>>
      /\ e \in Top /\ e.pool \notin visited /\ e.to = task.target
      /\ paths' = paths \cup {Append(hops, e)}
  BY DEF Record
<1>2. /\ task \in Tasks /\ hops \in Seq(Edges) /\ Len(hops) \in Nat \ {0}
      /\ Append(hops, e) \in Seq(Edges) /\ IsRoute(task, Append(hops, e))
  BY <1>1, TopFacts, LongerTrail
<1>3. Append(hops, e) \in AllRoutes[task]
  BY <1>2, RouteShape
<1>4. ASSUME NEW r \in AllRoutes[task], r \notin paths'
      PROVE  StillToCome(r)'
  <2>1. StillToCome(r)
    BY <1>1, <1>4 DEF RoutesInv
  <2>2. ~(Follows(r, Len(hops)) /\ r[Len(hops) + 1] = e)
    <3> SUFFICES ASSUME Follows(r, Len(hops)), r[Len(hops) + 1] = e PROVE r = Append(hops, e)
      BY <1>1, <1>4
    <3>1. /\ r \in [1 .. Len(r) -> Edges] /\ Len(r) \in Nat /\ Len(r) > Len(hops)
          /\ IsRoute(task, r) /\ Len(hops) + 1 \in 1 .. Len(r)
      BY <1>2, RouteShape DEF Follows
    <3>2. Len(r) = Len(hops) + 1
      BY <1>1, <3>1 DEF IsRoute
    <3>3. \A j \in 1 .. Len(hops) + 1 : r[j] = Append(hops, e)[j]
      BY <1>2, <3>1 DEF Follows
    <3>4. Append(hops, e) \in [1 .. Len(hops) + 1 -> Edges]
      <4>1. Len(Append(hops, e)) = Len(hops) + 1
        BY <1>2
      <4>2. \A s \in Seq(Edges) : s \in [1 .. Len(s) -> Edges]
        OBVIOUS
      <4> QED
        BY <1>2, <4>1, <4>2
    <3> QED
      BY <3>1, <3>2, <3>3, <3>4
  <2>3. PICK i \in 1 .. Len(hops) : Follows(r, i) /\ r[i + 1] \in Tried(e)[i]
    BY <1>1, <2>1, <2>2, TriedComes
  <2>4. Len(frames') = Len(hops)
    BY <1>1, TriedFacts
  <2> QED
    BY <1>1, <2>3, <2>4 DEF StillToCome, Follows
<1> QED
  BY <1>1, <1>3, <1>4 DEF RoutesInv

LEMMA DescendRoutes ==
    ASSUME PathInv, RoutesInv, NEW e \in Edges, Descend(e)
    PROVE  RoutesInv'
<1>1. /\ pc = "dfs" /\ UNCHANGED <<task, pc, paths>>
      /\ e \in Top /\ e.to # task.target
      /\ hops' = Append(hops, e) /\ frames' = Append(Tried(e), Call(hops'))
  BY DEF Descend
<1>2. /\ task \in Tasks /\ hops \in Seq(Edges) /\ Len(hops) \in Nat \ {0}
      /\ hops' \in Seq(Edges) /\ Len(hops') = Len(hops) + 1 /\ hops'[Len(hops) + 1] = e
      /\ \A j \in 1 .. Len(hops) : hops'[j] = hops[j]
  BY <1>1, TopFacts
<1>3. /\ Tried(e) \in Seq(SUBSET Edges) /\ Len(Tried(e)) = Len(hops)
      /\ Call(hops') \in SUBSET Edges
  <2>1. hops' # <<>>
    BY <1>2
  <2> QED
    BY <1>1, <1>2, <2>1, TriedFacts, CallFacts
<1>4. /\ Len(frames') = Len(hops) + 1 /\ frames'[Len(hops) + 1] = Call(hops')
      /\ \A i \in 1 .. Len(hops) : frames'[i] = Tried(e)[i]
  BY <1>1, <1>2, <1>3
<1>5. ASSUME NEW r \in AllRoutes[task], r \notin paths
      PROVE  StillToCome(r)'
  <2>1. StillToCome(r)
    BY <1>1, <1>5 DEF RoutesInv
  <2>2. CASE Follows(r, Len(hops)) /\ r[Len(hops) + 1] = e
    <3>1. /\ Len(r) \in Nat /\ IsRoute(task, r) /\ Len(hops) + 1 \in 1 .. Len(r)
      BY <1>2, <2>2, RouteShape DEF Follows
    <3>2. Len(r) > Len(hops')
      BY <1>1, <1>2, <2>2, <3>1 DEF IsRoute
    <3>3. r[Len(hops') + 1] \in Call(hops')
      BY <1>2, <2>2, <3>2, CallHasNext
    <3>4. \A j \in 1 .. Len(hops') : r[j] = hops'[j]
      BY <1>2, <2>2 DEF Follows
    <3> QED
      BY <1>2, <1>4, <3>2, <3>3, <3>4 DEF StillToCome, Follows
  <2>3. CASE \E i \in 1 .. Len(hops) : Follows(r, i) /\ r[i + 1] \in Tried(e)[i]
    <3>1. PICK i \in 1 .. Len(hops) : Follows(r, i) /\ r[i + 1] \in Tried(e)[i]
      BY <2>3
    <3>2. i \in 1 .. Len(frames') /\ r[i + 1] \in frames'[i]
      BY <1>2, <1>4, <3>1
    <3>3. Len(r) > i /\ \A j \in 1 .. i : r[j] = hops'[j]
      BY <1>2, <3>1 DEF Follows
    <3> QED
      BY <3>2, <3>3 DEF StillToCome, Follows
  <2> QED
    BY <1>1, <2>1, <2>2, <2>3, TriedComes
<1> QED
  BY <1>1, <1>5 DEF RoutesInv

LEMMA ReturnRoutes == PathInv /\ RoutesInv /\ Return => RoutesInv'
<1> SUFFICES ASSUME PathInv, RoutesInv, Return PROVE RoutesInv'
  OBVIOUS
<1>1. /\ pc = "dfs" /\ Top = {} /\ UNCHANGED <<task, paths>>
      /\ frames' = SubSeq(frames, 1, Len(frames) - 1)
  BY DEF Return
<1>2. /\ hops \in Seq(Edges) /\ frames \in Seq(SUBSET Edges)
      /\ Len(frames) = Len(hops) /\ Len(hops) \in Nat \ {0}
  BY <1>1, TopFacts
<1>3. /\ Len(frames') = Len(hops) - 1
      /\ \A i \in 1 .. Len(hops) - 1 : frames'[i] = frames[i]
  BY <1>1, <1>2
<1>4. ASSUME NEW r \in AllRoutes[task], r \notin paths
      PROVE  \E i \in 1 .. Len(hops) - 1 : Follows(r, i) /\ r[i + 1] \in frames[i]
  <2>1. PICK i \in 1 .. Len(hops) : Follows(r, i) /\ r[i + 1] \in frames[i]
    BY <1>1, <1>2, <1>4 DEF RoutesInv, StillToCome
  <2>2. i # Len(hops)
    BY <1>1, <1>2, <2>1 DEF Top
  <2> QED
    BY <1>2, <2>1, <2>2
<1>5. CASE Len(frames) = 1
  <2>1. pc' = "end"
    BY <1>5 DEF Return
  <2>2. paths = AllRoutes[task]
    <3>1. 1 .. Len(hops) - 1 = {}
      BY <1>2, <1>5
    <3>2. AllRoutes[task] \subseteq paths
      BY <1>4, <3>1
    <3> QED
      BY <3>2 DEF RoutesInv
  <2> QED
    BY <1>1, <2>1, <2>2 DEF RoutesInv
<1>6. CASE Len(frames) # 1
  <2>1. pc' = pc /\ hops' = SubSeq(hops, 1, Len(hops) - 1)
    BY <1>6 DEF Return
  <2>2. \A j \in 1 .. Len(hops) - 1 : hops'[j] = hops[j]
    BY <1>2, <2>1
  <2>3. ASSUME NEW r \in AllRoutes[task], r \notin paths
        PROVE  StillToCome(r)'
    <3>1. PICK i \in 1 .. Len(hops) - 1 : Follows(r, i) /\ r[i + 1] \in frames[i]
      BY <2>3, <1>4
    <3>2. \A j \in 1 .. i : j \in 1 .. Len(hops) - 1
      BY <1>2, <3>1
    <3> QED
      BY <1>3, <2>2, <3>1, <3>2 DEF StillToCome, Follows
  <2> QED
    BY <1>1, <2>1, <2>3 DEF RoutesInv
<1> QED
  BY <1>5, <1>6

LEMMA RoutesStep == PathInv /\ RoutesInv /\ [PathNext]_pathVars => RoutesInv'
<1> SUFFICES ASSUME PathInv, RoutesInv, [PathNext]_pathVars PROVE RoutesInv'
  OBVIOUS
<1>1. CASE Start
  BY <1>1, StartRoutes
<1>2. ASSUME NEW e \in Edges, Skip(e) \/ Record(e) \/ Descend(e)
      PROVE  RoutesInv'
  BY <1>2, SkipRoutes, RecordRoutes, DescendRoutes
<1>3. CASE Return
  BY <1>3, ReturnRoutes
<1>4. CASE UNCHANGED pathVars
  BY <1>4 DEF pathVars, RoutesInv, StillToCome, Follows
<1> QED
  BY <1>1, <1>2, <1>3, <1>4 DEF PathNext

-----------------------------------------------------------------------------
\* A step of the recursion is one of the enumeration, or none.
LEMMA StepEnumerates ==
    PathInv /\ RoutesInv /\ RoutesInv' /\ [PathNext]_pathVars => [Enum!EnumNext]_(Enum!enumVars)
<1> SUFFICES ASSUME PathInv, RoutesInv, RoutesInv', [PathNext]_pathVars
             PROVE  Enum!EnumNext \/ UNCHANGED Enum!enumVars
  OBVIOUS
<1>1. CASE Start
  <2>1. task' = task /\ paths = {} /\ pc = "start"
    BY <1>1 DEF Start, PathInv
  <2>2. CASE task.first.to = task.target
    <3>1. pc' = "end" /\ paths' = {<<task.first>>}
      BY <1>1, <2>2 DEF Start
    <3>2. AllRoutes[task] = {<<task.first>>}
      BY <2>1, <3>1 DEF RoutesInv
    <3> QED
      BY <2>1, <3>1, <3>2 DEF Enum!EnumNext, Enum!Find
  <2>3. CASE task.first.to # task.target
    BY <1>1, <2>1, <2>3 DEF Start, Enum!enumVars
  <2> QED
    BY <2>2, <2>3
<1>2. ASSUME NEW e \in Edges, Skip(e) \/ Descend(e)
      PROVE  UNCHANGED Enum!enumVars
  BY <1>2 DEF Skip, Descend, Enum!enumVars
<1>3. ASSUME NEW e \in Edges, Record(e)
      PROVE  Enum!EnumNext \/ UNCHANGED Enum!enumVars
  <2>1. /\ pc = "dfs" /\ task' = task /\ pc' = pc /\ paths' = paths \cup {Append(hops, e)}
        /\ Append(hops, e) \in AllRoutes[task]
    BY <1>3, RecordRoutes DEF Record
  <2>2. CASE Append(hops, e) \in paths
    BY <2>1, <2>2 DEF Enum!enumVars
  <2>3. CASE Append(hops, e) \notin paths
    BY <2>1, <2>3 DEF Enum!EnumNext, Enum!Find
  <2> QED
    BY <2>2, <2>3
<1>4. CASE Return
  <2>1. pc = "dfs" /\ task' = task /\ paths' = paths /\ pc' \in {pc, "end"}
    BY <1>4 DEF Return
  <2>2. CASE pc' = "end"
    BY <2>1, <2>2 DEF RoutesInv, Enum!EnumNext, Enum!End
  <2>3. CASE pc' = pc
    BY <2>1, <2>3 DEF Enum!enumVars
  <2> QED
    BY <2>1, <2>2, <2>3
<1>5. CASE UNCHANGED pathVars
  BY <1>5 DEF pathVars, Enum!enumVars
<1> QED
  BY <1>1, <1>2, <1>3, <1>4, <1>5 DEF PathNext

\* The recursion implements the enumeration: find_cycles_dfs records routes of its
\* task one at a time, nothing else, and does not end before it has them all.
THEOREM EnumeratesRoutes == PathSpec => FindsAllRoutes
<1>1. PathInit => Enum!EnumInit
  BY DEF PathInit, Enum!EnumInit, AllRoutes
<1>2. PathSpec => []RoutesInv
  BY PathInitRoutes, RoutesStep, PathInvHolds, PTL DEF PathSpec
<1> QED
  BY <1>1, <1>2, PathInvHolds, StepEnumerates, PTL DEF PathSpec, FindsAllRoutes, Enum!EnumSpec

-----------------------------------------------------------------------------
\* A step of the task is one of its recursion, or none.
LEMMA HuntSearches == [HuntNext]_<<pathVars, huntVars>> => [PathNext]_pathVars
  BY DEF HuntNext, SearchStep, PickPath, FetchState, BeginSection, Narrow, Report, pathVars

\* The same of the whole task, which goes on with its paths when the recursion is over.
THEOREM HuntFindsRoutes ==
    HuntSpec => []PathsAreRoutes /\ []BitmapTracksHops /\ FindsAllRoutes
<1>1. HuntInit => PathInit
  BY DEF HuntInit
<1>2. HuntSpec => []PathInv
  BY <1>1, PathInitInv, PathStepInv, HuntSearches, PTL DEF HuntSpec
<1>3. HuntSpec => []RoutesInv
  BY <1>1, <1>2, PathInitRoutes, RoutesStep, HuntSearches, PTL DEF HuntSpec
<1>4. PathInit => Enum!EnumInit
  BY DEF PathInit, Enum!EnumInit, AllRoutes
<1>5. PathInv => PathsAreRoutes /\ BitmapTracksHops
  BY InvSafe
<1> QED
  BY <1>1, <1>2, <1>3, <1>4, <1>5, StepEnumerates, HuntSearches, PTL
     DEF HuntSpec, FindsAllRoutes, Enum!EnumSpec

-----------------------------------------------------------------------------
(***************************************************************************)
(* The recursion advances.  What is on the stack is not tried again, so    *)
(* that a step that takes an edge e off the top frame strikes off one      *)
(* sequence at least, the hops with e appended, and no push brings it back.*)
(***************************************************************************)

\* The hop a call has gone on with is not among those it has still to try.
StackTried == \A i \in 1 .. Len(hops) - 1 : hops[i + 1] \notin frames[i]

StackInv == pc = "dfs" => StackTried

\* The frames are those of an active recursion, with e just taken off the top.
LEMMA TopTried ==
    ASSUME PathInv, pc = "dfs", NEW e \in Edges
    PROVE  /\ Tried(e)[Len(hops)] = Top \ {e}
           /\ \A i \in 1 .. Len(hops) - 1 : Tried(e)[i] = frames[i]
<1>1. /\ frames \in Seq(SUBSET Edges) /\ Len(frames) = Len(hops) /\ Len(hops) \in Nat \ {0}
  BY TopFacts
<1> QED
  BY <1>1 DEF Tried, Top

\* The hops with e appended are a walk, and to come when e is on the top frame.
LEMMA NextPending ==
    ASSUME PathInv, pc = "dfs", NEW e \in Top
    PROVE  Append(hops, e) \in Pending
<1> DEFINE g == Append(hops, e)
           n == Len(hops)
<1>1. /\ hops \in Seq(Edges) /\ n \in Nat \ {0} /\ Len(frames) = n /\ e \in Edges
      /\ n + 1 <= MaxHops /\ MaxHops \in Nat
  BY TopFacts, PathAssumption
<1>2. /\ g \in [1 .. n + 1 -> Edges] /\ Len(g) = n + 1 /\ g[n + 1] = e
      /\ \A j \in 1 .. n : g[j] = hops[j]
  <2>1. /\ g \in Seq(Edges) /\ Len(g) = n + 1 /\ g[n + 1] = e
        /\ \A j \in 1 .. n : g[j] = hops[j]
    BY <1>1
  <2>2. \A s \in Seq(Edges) : s \in [1 .. Len(s) -> Edges]
    OBVIOUS
  <2> QED
    BY <2>1, <2>2
<1> HIDE DEF g
<1>3. g \in Walks
  <2>1. n + 1 \in 1 .. MaxHops
    BY <1>1
  <2> QED
    BY <1>2, <2>1 DEF Walks
<1>4. StillToCome(g)
  <2>1. Follows(g, n)
    BY <1>1, <1>2 DEF Follows
  <2>2. n \in 1 .. Len(frames) /\ g[n + 1] \in frames[n]
    BY <1>1, <1>2 DEF Top
  <2> QED
    BY <2>1, <2>2 DEF StillToCome
<1>5. g \in Pending
  BY <1>3, <1>4 DEF Pending
<1> QED
  BY <1>5 DEF g

\* No frame below the top has the hops with e appended to come, and the top has
\* not once e is taken off.
LEMMA NextStruck ==
    ASSUME PathInv, pc = "dfs", StackTried, NEW e \in Edges, NEW i \in 1 .. Len(hops)
    PROVE  Append(hops, e)[i + 1] \notin Tried(e)[i]
<1>1. hops \in Seq(Edges) /\ Len(hops) \in Nat \ {0}
  BY TopFacts
<1>2. CASE i = Len(hops)
  <2>1. Append(hops, e)[Len(hops) + 1] = e
    BY <1>1
  <2> QED
    BY <1>2, <2>1, TopTried
<1>3. CASE i # Len(hops)
  <2>1. i \in 1 .. Len(hops) - 1 /\ i + 1 \in 1 .. Len(hops)
    BY <1>1, <1>3
  <2>2. Append(hops, e)[i + 1] = hops[i + 1]
    BY <1>1, <2>1
  <2> QED
    BY <2>1, <2>2, TopTried DEF StackTried
<1> QED
  BY <1>2, <1>3

\* The same stack with an edge taken off its top.
LEMMA TryAdvances ==
    ASSUME PathInv, StackInv, pc = "dfs", NEW e \in Top, hops' = hops, frames' = Tried(e)
    PROVE  Pending' \subseteq Pending /\ Pending' # Pending /\ StackTried'
<1>1. /\ hops \in Seq(Edges) /\ Len(hops) \in Nat \ {0} /\ Len(frames) = Len(hops)
      /\ e \in Edges /\ StackTried
  BY TopFacts DEF StackInv
<1>2. /\ Len(frames') = Len(hops)
      /\ \A i \in 1 .. Len(hops) : frames'[i] \subseteq frames[i]
  BY <1>1, TriedFacts
<1>3. Pending' \subseteq Pending
  <2>1. ASSUME NEW r, StillToCome(r)'
        PROVE  StillToCome(r)
    <3>1. PICK i \in 1 .. Len(hops) : Follows(r, i) /\ r[i + 1] \in frames'[i]
      BY <1>2, <2>1 DEF StillToCome, Follows
    <3> QED
      BY <1>1, <1>2, <3>1 DEF StillToCome
  <2> QED
    BY <2>1 DEF Pending
<1>4. Append(hops, e) \notin Pending'
  <2>1. \A i \in 1 .. Len(frames') : Append(hops, e)[i + 1] \notin frames'[i]
    BY <1>1, <1>2, NextStruck
  <2>2. ~StillToCome(Append(hops, e))'
    BY <2>1, Zenon DEF StillToCome
  <2> QED
    BY <2>2 DEF Pending
<1>5. StackTried'
  <2>1. ASSUME NEW i \in 1 .. Len(hops) - 1
        PROVE  hops[i + 1] \notin frames'[i]
    <3>1. i \in 1 .. Len(hops)
      BY <1>1
    <3> QED
      BY <1>1, <1>2, <3>1 DEF StackTried
  <2> QED
    BY <2>1 DEF StackTried
<1> QED
  BY <1>3, <1>4, <1>5, NextPending

\* A push: the new frame has nothing to come that the edge taken had not.
LEMMA DescendAdvances ==
    ASSUME PathInv, StackInv, NEW e \in Edges, Descend(e)
    PROVE  Pending' \subseteq Pending /\ Pending' # Pending /\ StackTried'
<1> DEFINE n == Len(hops)
<1>1. /\ pc = "dfs" /\ e \in Top
      /\ hops' = Append(hops, e) /\ frames' = Append(Tried(e), Call(hops'))
  BY DEF Descend
<1>2. /\ hops \in Seq(Edges) /\ n \in Nat \ {0} /\ Len(frames) = n /\ StackTried
      /\ hops' \in Seq(Edges) /\ Len(hops') = n + 1 /\ hops'[n + 1] = e
      /\ \A j \in 1 .. n : hops'[j] = hops[j]
  BY <1>1, TopFacts DEF StackInv
<1>3. /\ Len(frames') = n + 1
      /\ \A i \in 1 .. n : frames'[i] = Tried(e)[i] /\ frames'[i] \subseteq frames[i]
  <2>1. hops' # <<>>
    BY <1>2
  <2>2. /\ Tried(e) \in Seq(SUBSET Edges) /\ Len(Tried(e)) = n
        /\ \A i \in 1 .. n : Tried(e)[i] \subseteq frames[i]
        /\ Call(hops') \in SUBSET Edges
    BY <1>1, <1>2, <2>1, TriedFacts, CallFacts
  <2> QED
    BY <1>1, <1>2, <2>2
<1>4. Pending' \subseteq Pending
  <2>1. ASSUME NEW r \in Walks, StillToCome(r)'
        PROVE  StillToCome(r)
    <3>1. PICK i \in 1 .. n + 1 : /\ Len(r) > i /\ \A j \in 1 .. i : r[j] = hops'[j]
                                  /\ r[i + 1] \in frames'[i]
      BY <1>3, <2>1 DEF StillToCome, Follows
    <3>2. CASE i \in 1 .. n
      <4>1. \A j \in 1 .. i : j \in 1 .. n
        BY <1>2, <3>2
      <4> QED
        BY <1>2, <1>3, <3>1, <3>2, <4>1 DEF StillToCome, Follows
    <3>3. CASE i = n + 1
      <4>1. Len(r) > n
        <5>1. PICK k \in 1 .. MaxHops : r \in [1 .. k -> Edges]
          BY DEF Walks
        <5>2. Len(r) \in Nat
          BY <5>1, PathAssumption
        <5> QED
          BY <1>2, <3>1, <3>3, <5>2
      <4>2. r[n + 1] = e /\ \A j \in 1 .. n : r[j] = hops[j]
        BY <1>2, <3>1, <3>3
      <4>3. n \in 1 .. Len(frames) /\ Follows(r, n) /\ r[n + 1] \in frames[n]
        BY <1>1, <1>2, <4>1, <4>2 DEF Follows, Top
      <4> QED
        BY <4>3 DEF StillToCome
    <3> QED
      BY <1>2, <3>1, <3>2, <3>3
  <2> QED
    BY <2>1 DEF Pending
<1>5. \A i \in 1 .. n : hops'[i + 1] \notin frames'[i]
  BY <1>1, <1>2, <1>3, NextStruck
<1>6. hops' \notin Pending'
  <2>1. ASSUME NEW i \in 1 .. Len(frames'), Len(hops') > i, hops'[i + 1] \in frames'[i]
        PROVE  FALSE
    <3>1. i \in 1 .. n
      BY <1>2, <1>3, <2>1
    <3> QED
      BY <1>5, <2>1, <3>1
  <2>2. ~StillToCome(hops)'
    BY <2>1, Zenon DEF StillToCome, Follows
  <2> QED
    BY <2>2 DEF Pending
<1>7. StackTried'
  BY <1>2, <1>5 DEF StackTried
<1> QED
  BY <1>1, <1>4, <1>6, <1>7, NextPending

\* A return: the frame given up has nothing left to try.
LEMMA ReturnAdvances ==
    ASSUME PathInv, StackInv, Return
    PROVE  /\ Pending' = Pending /\ Len(frames') < Len(frames)
           /\ pc' = "dfs" => StackTried'
<1> DEFINE n == Len(hops)
<1>1. pc = "dfs" /\ Top = {} /\ frames' = SubSeq(frames, 1, Len(frames) - 1)
  BY DEF Return
<1>2. /\ hops \in Seq(Edges) /\ frames \in Seq(SUBSET Edges)
      /\ Len(frames) = n /\ n \in Nat \ {0} /\ StackTried
  BY <1>1, TopFacts DEF StackInv
<1>3. Len(frames') = n - 1 /\ \A i \in 1 .. n - 1 : frames'[i] = frames[i]
  BY <1>1, <1>2
<1>4. \A i \in 1 .. n - 1 : hops'[i] = hops[i]
  <2>1. CASE Len(frames) = 1
    BY <1>2, <2>1
  <2>2. CASE Len(frames) # 1
    <3>1. hops' = SubSeq(hops, 1, Len(hops) - 1)
      BY <2>2 DEF Return
    <3> QED
      BY <1>2, <3>1
  <2> QED
    BY <2>1, <2>2
<1>5. ASSUME NEW r, NEW i \in 1 .. n - 1
      PROVE  Follows(r, i)' = Follows(r, i)
  <2>1. \A j \in 1 .. i : j \in 1 .. n - 1
    BY <1>2
  <2> QED
    BY <1>4, <2>1 DEF Follows
<1>6. ASSUME NEW r
      PROVE  StillToCome(r)' = StillToCome(r)
  <2>1. StillToCome(r)' <=> \E i \in 1 .. n - 1 : Follows(r, i) /\ r[i + 1] \in frames[i]
    BY <1>3, <1>5 DEF StillToCome
  <2>2. StillToCome(r) <=> \E i \in 1 .. n - 1 : Follows(r, i) /\ r[i + 1] \in frames[i]
    <3>1. frames[n] = {}
      BY <1>1, <1>2 DEF Top
    <3>2. \A i : i \in 1 .. n <=> i \in 1 .. n - 1 \/ i = n
      BY <1>2
    <3>3. StillToCome(r) <=> \E i \in 1 .. n : Follows(r, i) /\ r[i + 1] \in frames[i]
      BY <1>2 DEF StillToCome
    <3> QED
      BY <3>1, <3>2, <3>3
  <2> QED
    BY <2>1, <2>2 DEF StillToCome
<1>7. Pending' = Pending
  BY <1>6 DEF Pending
<1>8. ASSUME pc' = "dfs"
      PROVE  StackTried'
  <2>1. Len(frames) # 1
    BY <1>8 DEF Return
  <2>2. hops' = SubSeq(hops, 1, Len(hops) - 1)
    BY <2>1 DEF Return
  <2>3. Len(hops') = n - 1
    BY <1>2, <2>2
  <2>4. ASSUME NEW i \in 1 .. Len(hops') - 1
        PROVE  hops'[i + 1] \notin frames'[i]
    <3>1. i \in 1 .. n - 1 /\ i + 1 \in 1 .. n - 1
      BY <1>2, <2>3
    <3>2. hops'[i + 1] = hops[i + 1] /\ frames'[i] = frames[i]
      BY <1>3, <1>4, <3>1
    <3> QED
      BY <1>2, <3>1, <3>2 DEF StackTried
  <2> QED
    BY <2>4 DEF StackTried
<1> QED
  BY <1>2, <1>3, <1>7, <1>8

\* A step of the recursion advances, and what is on the stack stays tried.
LEMMA StepAdvances ==
    PathInv /\ StackInv /\ [PathNext]_pathVars =>
        /\ StackInv'
        /\ [pc = "dfs" =>
              \/ Pending' \subseteq Pending /\ Pending' # Pending
              \/ Pending' = Pending /\ Len(frames') < Len(frames)]_pathVars
<1> DEFINE Advance == \/ Pending' \subseteq Pending /\ Pending' # Pending
                      \/ Pending' = Pending /\ Len(frames') < Len(frames)
<1> SUFFICES ASSUME PathInv, StackInv, [PathNext]_pathVars
             PROVE  StackInv' /\ ((pc = "dfs" => Advance) \/ UNCHANGED pathVars)
  OBVIOUS
<1>1. CASE Start
  <2>1. pc = "start" /\ Len(hops') = 1
    BY <1>1 DEF Start
  <2>2. StackInv'
    BY <2>1 DEF StackInv, StackTried
  <2> QED
    BY <2>1, <2>2
<1>2. ASSUME NEW e \in Edges, Skip(e) \/ Record(e)
      PROVE  StackInv' /\ Advance
  <2>1. pc = "dfs" /\ e \in Top /\ hops' = hops /\ frames' = Tried(e)
    BY <1>2 DEF Skip, Record
  <2> QED
    BY <2>1, TryAdvances DEF StackInv
<1>3. ASSUME NEW e \in Edges, Descend(e)
      PROVE  StackInv' /\ Advance
  BY <1>3, DescendAdvances DEF StackInv
<1>4. CASE Return
  BY <1>4, ReturnAdvances DEF StackInv
<1>5. CASE UNCHANGED pathVars
  BY <1>5 DEF pathVars, StackInv, StackTried
<1> HIDE DEF Advance
<1> QED
  BY <1>1, <1>2, <1>3, <1>4, <1>5 DEF PathNext

\* Whatever the graph, the trigger and the depth, find_cycles_dfs never tries
\* again what it has tried: each of its steps strikes a sequence of hops off those
\* to come, or returns from a call.  There are finitely many within the depth, so
\* that a task that is polled ends.
THEOREM SearchStaysAhead == PathSpec => SearchAdvances
<1>1. PathInit => StackInv
  BY DEF PathInit, StackInv
<1> QED
  BY <1>1, PathInvHolds, StepAdvances, PTL DEF PathSpec, SearchAdvances

\* The same of the recursion inside the whole task.
THEOREM HuntStaysAhead == HuntSpec => SearchAdvances
<1>1. HuntInit => PathInit /\ StackInv
  BY DEF HuntInit, PathInit, StackInv
<1>2. HuntSpec => []PathInv
  BY <1>1, PathInitInv, PathStepInv, HuntSearches, PTL DEF HuntSpec
<1> QED
  BY <1>1, <1>2, StepAdvances, HuntSearches, PTL DEF HuntSpec, SearchAdvances

-----------------------------------------------------------------------------
(***************************************************************************)
(* The probes of the golden-section search.  Each iteration keeps one of   *)
(* two probes, where it is, though the section of the new interval would   *)
(* have it elsewhere: the golden ratio is a fraction, and its products are *)
(* floored.  The error of the kept probe grows from one iteration to the   *)
(* next while the interval shrinks, so order is a race the tolerance must  *)
(* end.                                                                    *)
(***************************************************************************)

Within(x, m) == 0 - m <= x /\ x <= m

\* What is left of the golden ratio's own equation by PHI_NUM / PHI_DEN, in squares
\* of PHI_DEN.
Gap == PhiNum * PhiNum + PhiNum * PhiDen - PhiDen * PhiDen

Size(x) == IF x < 0 THEN 0 - x ELSE x

Span == MaxIn - MinIn

\* How much further from its place one iteration may leave the probe it keeps, in
\* squares of PHI_DEN: a rounding, and the gap over the whole range.
Drift == PhiDen * PhiDen + Size(Gap) * Span

Worst == (MaxIter + 1) * Drift

\* An iteration leaves an interval at least this long, in squares of PHI_DEN.
Shortest == PhiDen * PhiNum * Tolerance - Worst

\* The tolerance stops the search before the drift of its probes is comparable to
\* the interval.
Steady ==
    /\ Span >= Tolerance
    /\ 2 * PhiNum >= PhiDen
    /\ (PhiDen - PhiNum) * Shortest >= PhiDen * Worst
    /\ (2 * PhiNum - PhiDen) * Shortest >= 2 * PhiDen * Worst

\* How far the probes are from the sections of the interval.
Low(a, b, c)  == PhiDen * (c - b) + PhiNum * (b - a)
High(a, b, d) == PhiDen * (d - a) - PhiNum * (b - a)

\* After n iterations no probe has drifted more than n + 1 times, one of them is fresh,
\* and the interval is not too short.
GoodProbes(a, b, c, d, n) ==
    /\ MinIn <= a /\ a <= b /\ b <= MaxIn
    /\ Within(PhiDen * Low(a, b, c), (n + 1) * Drift)
    /\ Within(PhiDen * High(a, b, d), (n + 1) * Drift)
    /\ Within(Low(a, b, c), PhiDen) \/ Within(High(a, b, d), PhiDen)
    /\ PhiDen * PhiDen * (b - a) >= Shortest

-----------------------------------------------------------------------------
\* A floored division.
LEMMA SectionBounds ==
    ASSUME NEW N \in Nat, NEW D \in Nat, D > 0, NEW l \in Int
    PROVE  /\ (l * N) \div D \in Int
           /\ D * ((l * N) \div D) <= N * l
           /\ N * l < D * ((l * N) \div D) + D
  <1>1. l * N \in Int /\ l * N = N * l
    OBVIOUS
  <1>2. \A p \in Int : p \div D \in Int /\ D * (p \div D) <= p /\ p < D * (p \div D) + D
    OBVIOUS
  <1>3. QED
    BY <1>1, <1>2

\* A product with a factor that is no loss is monotone.
LEMMA ProductUp ==
    ASSUME NEW k \in Int, k >= 0, NEW p \in Int, NEW r \in Int, p <= r
    PROVE  k * p <= k * r /\ p * k <= r * k
  OBVIOUS

\* A smaller factor stays within the bound of a larger one.
LEMMA ScaleWithin ==
    ASSUME NEW N \in Int, NEW D \in Int, 0 <= N, N <= D, NEW x \in Int, NEW B \in Int,
           Within(D * x, B)
    PROVE  Within(N * x, B)
  <1>1. CASE x >= 0
    <2>1. 0 * x <= N * x /\ N * x <= D * x
      BY <1>1, ProductUp
    <2>2. QED
      BY <2>1 DEF Within
  <1>2. CASE x < 0
    <2>1. (0 - x) >= 0 /\ 0 - x \in Int
      BY <1>2
    <2>2. 0 * (0 - x) <= N * (0 - x) /\ N * (0 - x) <= D * (0 - x)
      BY <2>1, ProductUp
    <2>3. N * (0 - x) = 0 - N * x /\ D * (0 - x) = 0 - D * x
      OBVIOUS
    <2>4. N * x \in Int /\ D * x \in Int
      OBVIOUS
    <2>5. QED
      BY <2>2, <2>3, <2>4 DEF Within
  <1>3. QED
    BY <1>1, <1>2

LEMMA FreshWithin ==
    ASSUME NEW D \in Int, 0 <= D, NEW x \in Int, Within(x, D)
    PROVE  Within(D * x, D * D)
  <1>1. D * x <= D * D /\ D * (0 - D) <= D * x
    BY ProductUp DEF Within
  <1>2. D * (0 - D) = 0 - D * D
    OBVIOUS
  <1>3. QED
    BY <1>1, <1>2 DEF Within

\* What the gap makes of an interval of the range.
LEMMA GapWithin ==
    ASSUME NEW g \in Int, NEW l \in Int, NEW R \in Int, 0 <= l, l <= R
    PROVE  Within(g * l, Size(g) * R)
  <1>1. CASE g >= 0
    <2>1. g * l <= g * R /\ 0 <= g * l
      BY <1>1, ProductUp
    <2>2. QED
      BY <1>1, <2>1 DEF Within, Size
  <1>2. CASE g < 0
    <2>1. (0 - g) * l <= (0 - g) * R /\ (0 - g) * 0 <= (0 - g) * l
      BY <1>2, ProductUp
    <2>2. (0 - g) * l = 0 - g * l /\ (0 - g) * R = 0 - g * R
      OBVIOUS
    <2>3. g * l \in Int /\ g * R \in Int
      OBVIOUS
    <2>4. QED
      BY <1>2, <2>1, <2>2, <2>3 DEF Within, Size
  <1>3. QED
    BY <1>1, <1>2

\* Of two errors one is fresh, no more than PHI_DEN, and only the other has grown: what
\* an iteration makes of them is no more than a rounding larger.
LEMMA ErrorGrows ==
    ASSUME NEW N \in Int, NEW D \in Int, 0 <= N, N <= D,
           NEW x \in Int, NEW y \in Int, NEW B \in Int,
           Within(D * x, B), Within(D * y, B), Within(x, D) \/ Within(y, D)
    PROVE  Within(D * y - N * x, D * D + B)
  <1>1. D * x \in Int /\ D * y \in Int /\ N * x \in Int /\ D * D \in Int
    OBVIOUS
  <1>2. CASE Within(y, D)
    <2>1. Within(D * y, D * D)
      BY <1>2, FreshWithin
    <2>2. Within(N * x, B)
      BY ScaleWithin
    <2>3. QED
      BY <1>1, <2>1, <2>2 DEF Within
  <1>3. CASE Within(x, D)
    <2>1. Within(D * x, D * D)
      BY <1>3, FreshWithin
    <2>2. Within(N * x, D * D)
      BY <2>1, <1>1, ScaleWithin
    <2>3. QED
      BY <1>1, <2>2 DEF Within
  <1>4. QED
    BY <1>2, <1>3

LEMMA NonNegative ==
    ASSUME NEW k \in Int, k > 0, NEW x \in Int, k * x >= 0
    PROVE  x >= 0
  <1>1. CASE x < 0
    <2>1. 1 * (0 - x) <= k * (0 - x) /\ k * (0 - x) = 0 - k * x
      BY <1>1, ProductUp
    <2>2. k * x \in Int
      OBVIOUS
    <2>3. QED
      BY <1>1, <2>1, <2>2
  <1>2. QED
    BY <1>1

\* The constants of the search.
LEMMA Golden ==
    /\ PhiDen \in Int /\ PhiNum \in Int /\ 0 < PhiNum /\ PhiNum < PhiDen
    /\ MinIn \in Nat /\ MaxIn \in Nat /\ MinIn <= MaxIn /\ Tolerance \in Nat /\ MaxIter \in Nat
    /\ PhiDen \in Nat /\ PhiNum \in Nat
    /\ Gap \in Int /\ Span \in Nat
  BY HuntAssumption DEF Gap, Span

LEMMA DriftFacts ==
    /\ Drift \in Int /\ Drift >= PhiDen * PhiDen /\ Drift > 0
    /\ PhiDen * PhiDen \in Int /\ PhiDen * PhiDen > 0
    /\ Worst \in Int /\ Worst > 0 /\ Shortest \in Int
  <1> DEFINE G == Size(Gap)
  <1>1. G \in Int /\ G >= 0
    BY Golden DEF Size
  <1>2. 1 * PhiDen <= PhiDen * PhiDen /\ 0 * Span <= G * Span /\ G * Span \in Int
    BY <1>1, Golden, ProductUp
  <1>3. /\ Drift \in Int /\ Drift >= PhiDen * PhiDen /\ Drift > 0
        /\ PhiDen * PhiDen \in Int /\ PhiDen * PhiDen > 0
    BY <1>2, Golden DEF Drift
  <1>4. 1 * Drift <= (MaxIter + 1) * Drift /\ (MaxIter + 1) * Drift \in Int
    BY <1>3, Golden, ProductUp
  <1>5. Worst \in Int /\ Worst > 0
    BY <1>3, <1>4 DEF Worst
  <1>6. PhiDen * PhiNum * Tolerance \in Int
    BY Golden
  <1>7. QED
    BY <1>3, <1>5, <1>6 DEF Shortest

\* The bound of an iteration is below that of the last.
LEMMA BoundGrows ==
    ASSUME NEW n \in Nat
    PROVE  /\ (n + 1) * Drift \in Int /\ (n + 1) * Drift >= Drift
           /\ (n + 1 + 1) * Drift = (n + 1) * Drift + Drift
           /\ n <= MaxIter => (n + 1) * Drift <= Worst
  <1>1. 1 * Drift <= (n + 1) * Drift /\ (n + 1) * Drift \in Int
    BY DriftFacts, ProductUp
  <1>2. (n + 1 + 1) * Drift = (n + 1) * Drift + Drift
    BY DriftFacts
  <1>3. n <= MaxIter => (n + 1) * Drift <= (MaxIter + 1) * Drift
    BY DriftFacts, Golden, ProductUp
  <1>4. QED
    BY <1>1, <1>2, <1>3, DriftFacts DEF Worst

LEMMA WithinMore ==
    ASSUME NEW x \in Int, NEW m \in Int, NEW n \in Int, Within(x, m), m <= n
    PROVE  Within(x, n)
  BY DEF Within

\* Probes that have drifted no more than Worst are in order in an interval that has
\* not become too short for it.
LEMMA ProbesInOrder ==
    ASSUME NEW a \in Int, NEW b \in Int, NEW c \in Int, NEW d \in Int, NEW n \in Nat,
           n <= MaxIter, Steady, GoodProbes(a, b, c, d, n)
    PROVE  a <= c /\ c <= d /\ d <= b
  <1> DEFINE lo == PhiDen * Low(a, b, c)
             hi == PhiDen * High(a, b, d)
             len == PhiDen * PhiDen * (b - a)
             cube == PhiDen * (PhiDen * PhiDen)
  <1>1. Low(a, b, c) \in Int /\ High(a, b, d) \in Int
    BY Golden DEF Low, High
  <1>2. lo \in Int /\ hi \in Int /\ len \in Int
    BY <1>1, Golden
  <1>3. Within(lo, Worst) /\ Within(hi, Worst)
    BY <1>2, BoundGrows, DriftFacts, WithinMore DEF GoodProbes
  <1>4. cube \in Int /\ cube > 0
    <2>1. PhiDen * 0 <= PhiDen * (PhiDen * PhiDen) /\ 1 * (PhiDen * PhiDen) <= PhiDen * (PhiDen * PhiDen)
      BY DriftFacts, Golden, ProductUp
    <2>2. QED
      BY <2>1, DriftFacts, Golden
  <1>5. /\ (PhiDen - PhiNum) * Shortest <= (PhiDen - PhiNum) * len
        /\ (2 * PhiNum - PhiDen) * Shortest <= (2 * PhiNum - PhiDen) * len
    BY <1>2, Golden, DriftFacts, ProductUp DEF Steady, GoodProbes
  <1>6. /\ PhiDen * (0 - Worst) <= PhiDen * lo /\ PhiDen * lo <= PhiDen * Worst
        /\ PhiDen * (0 - Worst) <= PhiDen * hi /\ PhiDen * hi <= PhiDen * Worst
        /\ PhiDen * (0 - Worst) = 0 - PhiDen * Worst
    BY <1>2, <1>3, Golden, DriftFacts, ProductUp DEF Within
  <1>7. /\ cube * (c - a) = (PhiDen - PhiNum) * len + PhiDen * lo
        /\ cube * (b - d) = (PhiDen - PhiNum) * len - PhiDen * hi
        /\ cube * (d - c) = (2 * PhiNum - PhiDen) * len + PhiDen * hi - PhiDen * lo
    BY Golden DEF Low, High
  <1>8. /\ (PhiDen - PhiNum) * len \in Int /\ (2 * PhiNum - PhiDen) * len \in Int
        /\ (PhiDen - PhiNum) * Shortest \in Int /\ (2 * PhiNum - PhiDen) * Shortest \in Int
        /\ PhiDen * lo \in Int /\ PhiDen * hi \in Int /\ PhiDen * Worst \in Int
        /\ 2 * PhiDen * Worst = PhiDen * Worst + PhiDen * Worst
    BY <1>2, Golden, DriftFacts
  <1>9. /\ (PhiDen - PhiNum) * Shortest >= PhiDen * Worst
        /\ (2 * PhiNum - PhiDen) * Shortest >= PhiDen * Worst + PhiDen * Worst
    BY <1>8 DEF Steady
  <1> HIDE DEF lo, hi, len, cube
  <1>10. cube * (c - a) >= 0 /\ cube * (b - d) >= 0 /\ cube * (d - c) >= 0
    BY <1>5, <1>6, <1>7, <1>8, <1>9
  <1>11. c - a >= 0 /\ b - d >= 0 /\ d - c >= 0
    BY <1>4, <1>10, NonNegative
  <1>12. QED
    BY <1>11

\* The first probes.
LEMMA FirstProbes ==
    ASSUME Steady
    PROVE  GoodProbes(MinIn, MaxIn, MaxIn - Section(MinIn, MaxIn), MinIn + Section(MinIn, MaxIn), 0)
  <1> DEFINE s == Section(MinIn, MaxIn)
             len == MaxIn - MinIn
             lo == Low(MinIn, MaxIn, MaxIn - s)
             hi == High(MinIn, MaxIn, MinIn + s)
  <1>1. len \in Int /\ len = Span
    BY Golden DEF Span
  <1>2. s \in Int /\ PhiDen * s <= PhiNum * len /\ PhiNum * len < PhiDen * s + PhiDen
    BY <1>1, Golden, SectionBounds DEF Section
  <1>3. PhiDen * s \in Int /\ PhiNum * len \in Int
    BY <1>1, <1>2, Golden
  <1>4. lo = PhiNum * len - PhiDen * s /\ hi = PhiDen * s - PhiNum * len
    BY <1>1, <1>2, Golden DEF Low, High
  <1>5. lo \in Int /\ hi \in Int /\ Within(lo, PhiDen) /\ Within(hi, PhiDen)
    BY <1>2, <1>3, <1>4, Golden DEF Within
  <1>6. Within(PhiDen * lo, PhiDen * PhiDen) /\ Within(PhiDen * hi, PhiDen * PhiDen)
    BY <1>5, Golden, FreshWithin
  <1>7. PhiDen * lo \in Int /\ PhiDen * hi \in Int
    BY <1>5, Golden
  <1>8. Within(PhiDen * lo, (0 + 1) * Drift) /\ Within(PhiDen * hi, (0 + 1) * Drift)
    BY <1>6, <1>7, DriftFacts DEF Within
  <1>9. PhiDen * PhiDen * len >= Shortest
    <2>1. PhiDen * PhiNum <= PhiDen * PhiDen /\ 0 <= PhiDen * PhiNum /\ PhiDen * PhiNum \in Int
      <3>1. PhiDen * 0 <= PhiDen * PhiNum
        BY Golden, ProductUp
      <3>2. QED
        BY <3>1, Golden, ProductUp
    <2>2. PhiDen * PhiNum * Tolerance <= PhiDen * PhiNum * len
      BY <2>1, <1>1, Golden, ProductUp DEF Steady
    <2>3. PhiDen * PhiNum * len <= PhiDen * PhiDen * len
      BY <2>1, <1>1, DriftFacts, Golden, ProductUp
    <2>4. PhiDen * PhiNum * Tolerance \in Int /\ PhiDen * PhiNum * len \in Int
          /\ PhiDen * PhiDen * len \in Int
      BY <1>1, Golden
    <2>5. QED
      BY <2>2, <2>3, <2>4, DriftFacts DEF Shortest
  <1>10. QED
    BY <1>5, <1>8, <1>9, Golden DEF GoodProbes

\* The new interval, of length m, ends at an old probe, whose error is e, and so it is
\* long enough.
LEMMA StillLong ==
    ASSUME NEW l \in Int, NEW m \in Int, NEW e \in Int, NEW n \in Nat,
           l >= Tolerance, n < MaxIter, PhiDen * m = PhiNum * l + e,
           Within(PhiDen * e, (n + 1) * Drift)
    PROVE  PhiDen * PhiDen * m >= Shortest
  <1>1. PhiDen * PhiDen * m = PhiDen * (PhiNum * l + e)
    BY Golden
  <1>2. PhiDen * (PhiNum * l + e) = PhiDen * PhiNum * l + PhiDen * e
    BY Golden
  <1>3. 0 <= PhiDen * PhiNum /\ PhiDen * PhiNum \in Int
    <2>1. PhiDen * 0 <= PhiDen * PhiNum
      BY Golden, ProductUp
    <2>2. QED
      BY <2>1, Golden
  <1>4. PhiDen * PhiNum * Tolerance <= PhiDen * PhiNum * l
    BY <1>3, Golden, ProductUp
  <1>5. /\ PhiDen * PhiNum * Tolerance \in Int /\ PhiDen * PhiNum * l \in Int
        /\ PhiDen * e \in Int
    BY Golden
  <1>6. (n + 1) * Drift <= Worst /\ (n + 1) * Drift \in Int
    BY BoundGrows, Golden
  <1>7. QED
    BY <1>1, <1>2, <1>4, <1>5, <1>6, DriftFacts DEF Within, Shortest

\* A fresh probe is at its section, up to rounding; the bound leaves room for it.
LEMMA FreshBound ==
    ASSUME NEW x \in Int, Within(x, PhiDen), NEW n \in Nat
    PROVE  Within(PhiDen * x, (n + 1) * Drift)
  <1>1. Within(PhiDen * x, PhiDen * PhiDen) /\ PhiDen * x \in Int
    BY Golden, FreshWithin
  <1>2. QED
    BY <1>1, BoundGrows, DriftFacts DEF Within

\* A kept probe drifts by no more than Drift.
LEMMA KeptBound ==
    ASSUME NEW x \in Int, NEW y \in Int, NEW z \in Int, NEW l \in Int, NEW n \in Nat,
           0 <= l, l <= Span,
           PhiDen * z = PhiDen * y - PhiNum * x + Gap * l
             \/ PhiDen * z = PhiDen * y - PhiNum * x - Gap * l,
           Within(PhiDen * x, (n + 1) * Drift), Within(PhiDen * y, (n + 1) * Drift),
           Within(x, PhiDen) \/ Within(y, PhiDen)
    PROVE  Within(PhiDen * z, (n + 1 + 1) * Drift)
  <1> DEFINE G == Size(Gap) * Span
             k == PhiDen * y - PhiNum * x
  <1>1. (n + 1) * Drift \in Int /\ (n + 1 + 1) * Drift = (n + 1) * Drift + Drift
    BY BoundGrows
  <1>2. Within(k, PhiDen * PhiDen + (n + 1) * Drift)
    <2>1. 0 <= PhiNum /\ PhiNum <= PhiDen /\ PhiNum \in Int /\ PhiDen \in Int
      BY Golden
    <2>2. QED
      BY <1>1, <2>1, ErrorGrows, Zenon
  <1>3. Within(Gap * l, G)
    <2>1. Gap \in Int /\ Span \in Int
      BY Golden
    <2>2. QED
      BY <2>1, GapWithin, Zenon
  <1>4. k \in Int /\ Gap * l \in Int /\ PhiDen * PhiDen \in Int
    BY Golden
  <1>5. G \in Int
    BY Golden DEF Size
  <1>6. Drift = PhiDen * PhiDen + G
    BY DEF Drift
  <1> HIDE DEF G, k
  <1>7. Within(k + Gap * l, PhiDen * PhiDen + (n + 1) * Drift + G)
        /\ Within(k - Gap * l, PhiDen * PhiDen + (n + 1) * Drift + G)
    BY <1>1, <1>2, <1>3, <1>4, <1>5 DEF Within
  <1>8. PhiDen * PhiDen + (n + 1) * Drift + G = (n + 1 + 1) * Drift
    BY <1>1, <1>4, <1>5, <1>6
  <1>9. QED
    BY <1>7, <1>8 DEF k

\* The left part of the interval is kept, with c as its upper probe.
LEMMA LeftProbes ==
    ASSUME NEW a \in Int, NEW b \in Int, NEW c \in Int, NEW d \in Int, NEW n \in Nat,
           n < MaxIter, b - a >= Tolerance, Steady, GoodProbes(a, b, c, d, n)
    PROVE  GoodProbes(a, d, d - Section(a, d), c, n + 1)
  <1> DEFINE s == Section(a, d)
             x == High(a, b, d)
             y == Low(a, b, c)
             lo == Low(a, d, d - s)
             hi == High(a, d, c)
  <1>1. MinIn <= a /\ a <= c /\ c <= d /\ d <= b /\ b <= MaxIn /\ n + 1 \in Nat
    BY ProbesInOrder, Golden DEF GoodProbes
  <1>2. 0 <= b - a /\ b - a <= Span /\ b - a \in Int
    BY <1>1, Golden DEF Span
  <1>3. s \in Int /\ PhiDen * s <= PhiNum * (d - a) /\ PhiNum * (d - a) < PhiDen * s + PhiDen
    BY Golden, SectionBounds DEF Section
  <1>4. lo = PhiNum * (d - a) - PhiDen * s /\ PhiDen * s \in Int /\ PhiNum * (d - a) \in Int
    BY <1>3, Golden DEF Low
  <1>5. lo \in Int /\ Within(lo, PhiDen)
    BY <1>3, <1>4, Golden DEF Within
  <1>6. Within(PhiDen * lo, (n + 1 + 1) * Drift)
    BY <1>1, <1>5, FreshBound
  <1>7. x \in Int /\ y \in Int /\ hi \in Int
    BY Golden DEF Low, High
  <1>8. /\ Within(PhiDen * x, (n + 1) * Drift) /\ Within(PhiDen * y, (n + 1) * Drift)
        /\ Within(x, PhiDen) \/ Within(y, PhiDen)
    BY DEF GoodProbes
  <1>9. PhiDen * hi = PhiDen * y - PhiNum * x - Gap * (b - a)
    BY Golden DEF Low, High, Gap
  <1>10. PhiDen * (d - a) = PhiNum * (b - a) + x
    BY Golden DEF High
  <1> HIDE DEF lo, hi, x, y, s
  <1>11. Within(PhiDen * hi, (n + 1 + 1) * Drift)
    BY <1>2, <1>7, <1>8, <1>9, KeptBound
  <1>12. PhiDen * PhiDen * (d - a) >= Shortest
    <2>1. d - a \in Int
      OBVIOUS
    <2>2. QED
      BY <1>2, <1>7, <1>8, <1>10, <2>1, StillLong
  <1>13. QED
    <2>1. MinIn <= a /\ a <= d /\ d <= MaxIn
      BY <1>1, Golden
    <2>2. QED
      BY <2>1, <1>5, <1>6, <1>11, <1>12 DEF GoodProbes, lo, hi, s

\* The right part is kept, with d as its lower probe.
LEMMA RightProbes ==
    ASSUME NEW a \in Int, NEW b \in Int, NEW c \in Int, NEW d \in Int, NEW n \in Nat,
           n < MaxIter, b - a >= Tolerance, Steady, GoodProbes(a, b, c, d, n)
    PROVE  GoodProbes(c, b, d, c + Section(c, b), n + 1)
  <1> DEFINE s == Section(c, b)
             x == Low(a, b, c)
             y == High(a, b, d)
             lo == Low(c, b, d)
             hi == High(c, b, c + s)
             e == 0 - x
  <1>1. MinIn <= a /\ a <= c /\ c <= d /\ d <= b /\ b <= MaxIn /\ n + 1 \in Nat
    BY ProbesInOrder, Golden DEF GoodProbes
  <1>2. 0 <= b - a /\ b - a <= Span /\ b - a \in Int
    BY <1>1, Golden DEF Span
  <1>3. s \in Int /\ PhiDen * s <= PhiNum * (b - c) /\ PhiNum * (b - c) < PhiDen * s + PhiDen
    BY Golden, SectionBounds DEF Section
  <1>4. hi = PhiDen * s - PhiNum * (b - c) /\ PhiDen * s \in Int /\ PhiNum * (b - c) \in Int
    BY <1>3, Golden DEF High
  <1>5. hi \in Int /\ Within(hi, PhiDen)
    BY <1>3, <1>4, Golden DEF Within
  <1>6. Within(PhiDen * hi, (n + 1 + 1) * Drift)
    BY <1>1, <1>5, FreshBound
  <1>7. x \in Int /\ y \in Int /\ lo \in Int /\ e \in Int
    BY Golden DEF Low, High
  <1>8. /\ Within(PhiDen * x, (n + 1) * Drift) /\ Within(PhiDen * y, (n + 1) * Drift)
        /\ Within(x, PhiDen) \/ Within(y, PhiDen)
    BY DEF GoodProbes
  <1>9. PhiDen * lo = PhiDen * y - PhiNum * x + Gap * (b - a)
    BY Golden DEF Low, High, Gap
  <1>10. PhiDen * (b - c) = PhiNum * (b - a) + e
    BY Golden DEF Low
  <1>11. Within(PhiDen * e, (n + 1) * Drift)
    <2>1. PhiDen * e = 0 - PhiDen * x /\ PhiDen * x \in Int
      BY <1>7, Golden
    <2>2. QED
      BY <2>1, <1>8, BoundGrows DEF Within
  <1> HIDE DEF lo, hi, x, y, s, e
  <1>12. Within(PhiDen * lo, (n + 1 + 1) * Drift)
    BY <1>2, <1>7, <1>8, <1>9, KeptBound
  <1>13. PhiDen * PhiDen * (b - c) >= Shortest
    <2>1. b - c \in Int
      OBVIOUS
    <2>2. QED
      BY <1>2, <1>7, <1>10, <1>11, <2>1, StillLong
  <1>14. QED
    <2>1. MinIn <= c /\ c <= b /\ b <= MaxIn
      BY <1>1, Golden
    <2>2. QED
      BY <2>1, <1>5, <1>6, <1>12, <1>13 DEF GoodProbes, lo, hi, s

-----------------------------------------------------------------------------
\* What holds of the search between two iterations.
ProbesInv ==
    gss # None =>
        /\ DOMAIN gss = {"a", "b", "c", "d", "fc", "fd", "iter", "blind"}
        /\ gss.a \in Int /\ gss.b \in Int /\ gss.c \in Int /\ gss.d \in Int
        /\ gss.iter \in 0 .. MaxIter
        /\ GoodProbes(gss.a, gss.b, gss.c, gss.d, gss.iter)

LEMMA SectionInt ==
    ASSUME NEW a \in Int, NEW b \in Int
    PROVE  Section(a, b) \in Int
  BY Golden, SectionBounds DEF Section

\* The steps of the search keep the invariant.
LEMMA BeginProbes ==
    ASSUME Steady, BeginSection
    PROVE  ProbesInv'
  <1> DEFINE c == MaxIn - Section(MinIn, MaxIn)
             d == MinIn + Section(MinIn, MaxIn)
  <1>1. gss' = [a |-> MinIn, b |-> MaxIn, c |-> c, d |-> d, fc |-> F(c), fd |-> F(d),
                iter |-> 0, blind |-> FALSE]
    BY DEF BeginSection
  <1>2. MinIn \in Int /\ MaxIn \in Int /\ c \in Int /\ d \in Int /\ 0 \in 0 .. MaxIter
    BY SectionInt, Golden
  <1>3. GoodProbes(MinIn, MaxIn, c, d, 0)
    BY FirstProbes
  <1> HIDE DEF c, d
  <1>4. DOMAIN gss' = {"a", "b", "c", "d", "fc", "fd", "iter", "blind"}
        /\ gss'.a = MinIn /\ gss'.b = MaxIn /\ gss'.c = c /\ gss'.d = d /\ gss'.iter = 0
    BY <1>1
  <1>5. QED
    BY <1>2, <1>3, <1>4 DEF ProbesInv

LEMMA NarrowProbes ==
    ASSUME Steady, ProbesInv, Narrow
    PROVE  ProbesInv'
  <1> DEFINE fields == {"a", "b", "c", "d", "fc", "fd", "iter", "blind"}
  <1>1. gss # None /\ gss.iter < MaxIter /\ gss.b - gss.a >= Tolerance
    BY DEF Narrow, GoesOn
  <1>2. /\ DOMAIN gss = fields
        /\ gss.a \in Int /\ gss.b \in Int /\ gss.c \in Int /\ gss.d \in Int
        /\ gss.iter \in Nat /\ gss.iter + 1 \in 0 .. MaxIter
        /\ GoodProbes(gss.a, gss.b, gss.c, gss.d, gss.iter)
    BY <1>1, Golden DEF ProbesInv
  <1>3. CASE gss.fc > gss.fd
    <2> DEFINE c == gss.d - Section(gss.a, gss.d)
    <2>1. gss' = [gss EXCEPT !.b = gss.d, !.d = gss.c, !.fd = gss.fc, !.c = c, !.fc = F(c),
                             !.iter = @ + 1]
      BY <1>3 DEF Narrow
    <2>2. c \in Int
      <3>1. Section(gss.a, gss.d) \in Int
        BY <1>2, SectionInt
      <3>2. QED
        BY <1>2, <3>1
    <2>3. GoodProbes(gss.a, gss.d, c, gss.c, gss.iter + 1)
      BY <1>1, <1>2, LeftProbes
    <2> HIDE DEF c
    <2>4. /\ DOMAIN gss' = fields /\ gss'.a = gss.a /\ gss'.b = gss.d
          /\ gss'.c = c /\ gss'.d = gss.c /\ gss'.iter = gss.iter + 1
      BY <1>2, <2>1
    <2>5. QED
      BY <1>2, <2>2, <2>3, <2>4 DEF ProbesInv
  <1>4. CASE ~(gss.fc > gss.fd)
    <2> DEFINE d == gss.c + Section(gss.c, gss.b)
    <2>1. gss' = [gss EXCEPT !.a = gss.c, !.c = gss.d, !.fc = gss.fd, !.d = d, !.fd = F(d),
                             !.iter = @ + 1, !.blind = @ \/ (gss.fc = 0 /\ gss.fd = 0)]
      BY <1>4 DEF Narrow
    <2>2. d \in Int
      <3>1. Section(gss.c, gss.b) \in Int
        BY <1>2, SectionInt
      <3>2. QED
        BY <1>2, <3>1
    <2>3. GoodProbes(gss.c, gss.b, gss.d, d, gss.iter + 1)
      BY <1>1, <1>2, RightProbes
    <2> HIDE DEF d
    <2>4. /\ DOMAIN gss' = fields /\ gss'.a = gss.c /\ gss'.b = gss.b
          /\ gss'.c = gss.d /\ gss'.d = d /\ gss'.iter = gss.iter + 1
      BY <1>2, <2>1
    <2>5. QED
      BY <1>2, <2>2, <2>3, <2>4 DEF ProbesInv
  <1>5. QED
    BY <1>3, <1>4

LEMMA HuntProbes ==
    ASSUME Steady
    PROVE  ProbesInv /\ [HuntNext]_<<pathVars, huntVars>> => ProbesInv'
  <1> SUFFICES ASSUME ProbesInv, [HuntNext]_<<pathVars, huntVars>>
               PROVE  ProbesInv'
    OBVIOUS
  <1>1. CASE BeginSection
    BY <1>1, BeginProbes
  <1>2. CASE Narrow
    BY <1>2, NarrowProbes
  <1>3. CASE Report
    BY <1>3 DEF Report, ProbesInv
  <1>4. CASE SearchStep \/ PickPath \/ FetchState \/ UNCHANGED <<pathVars, huntVars>>
    <2>1. gss' = gss
      BY <1>4 DEF SearchStep, PickPath, FetchState, huntVars
    <2>2. QED
      BY <2>1 DEF ProbesInv
  <1>5. QED
    BY <1>1, <1>2, <1>3, <1>4 DEF HuntNext

\* With steady constants find_optimal_input never has its probes out of order or outside
\* the range, however the outputs of the path compare: no subtraction of it underflows.
THEOREM ProbesStayOrdered ==
    ASSUME Steady
    PROVE  HuntSpec => []ProbesOrdered
  <1>1. HuntInit => ProbesInv
    BY DEF HuntInit, ProbesInv
  <1>2. ProbesInv => ProbesOrdered
    <2> SUFFICES ASSUME ProbesInv, gss # None
                 PROVE  MinIn <= gss.a /\ gss.a <= gss.c /\ gss.c <= gss.d /\ gss.d <= gss.b
                        /\ gss.b <= MaxIn
      BY DEF ProbesOrdered
    <2>1. gss.iter \in Nat /\ gss.iter <= MaxIter
      BY Golden DEF ProbesInv
    <2>2. QED
      BY <2>1, ProbesInOrder DEF ProbesInv, GoodProbes
  <1>3. QED
    BY <1>1, <1>2, HuntProbes, PTL DEF HuntSpec

-----------------------------------------------------------------------------
(***************************************************************************)
(* What the search is for.  Without its floors a hop pays p * x / (q + r * *)
(* x), and so does a whole path, with other coefficients: what it earns is *)
(* concave in the input, and the better of two probes tells which end to   *)
(* drop.  The floors spoil that by an amount that does not grow with the   *)
(* input, and an iteration gives up at most three times as much.           *)
(***************************************************************************)

\* What the search gives up when it drops an end in which y earns gy: no more than
\* three errors of the concavity.
LEMMA LeftLoses ==
    ASSUME NEW b \in Int, NEW c \in Int, NEW d \in Int, NEW y \in Int, NEW E \in Nat,
           NEW gc \in Int, NEW gd \in Int, NEW gy \in Int,
           c < d, d < y, y <= b, b - c <= 3 * (d - c), gd <= gc,
           (y - c) * (gd + E) >= (y - d) * gc + (d - c) * gy
    PROVE  gy <= gd + 3 * E
  <1>1. (y - d) * gd <= (y - d) * gc
    BY ProductUp
  <1>2. (y - c) * E <= (3 * (d - c)) * E
    BY ProductUp
  <1>3. /\ (y - c) * (gd + E) = (y - d) * gd + (d - c) * gd + (y - c) * E
        /\ (d - c) * (gd + 3 * E - gy) = (d - c) * gd + (3 * (d - c)) * E - (d - c) * gy
    OBVIOUS
  <1>4. /\ (y - d) * gd \in Int /\ (y - d) * gc \in Int /\ (y - c) * E \in Int
        /\ (d - c) * gd \in Int /\ (d - c) * gy \in Int /\ (3 * (d - c)) * E \in Int
    OBVIOUS
  <1>5. (d - c) * (gd + 3 * E - gy) >= 0
    BY <1>1, <1>2, <1>3, <1>4
  <1>6. gd + 3 * E - gy >= 0
    BY <1>5, NonNegative
  <1>7. QED
    BY <1>6

\* The same at the other end.
LEMMA RightLoses ==
    ASSUME NEW a \in Int, NEW c \in Int, NEW d \in Int, NEW y \in Int, NEW E \in Nat,
           NEW gc \in Int, NEW gd \in Int, NEW gy \in Int,
           y < c, c < d, a <= y, d - a <= 3 * (d - c), gc <= gd,
           (d - y) * (gc + E) >= (d - c) * gy + (c - y) * gd
    PROVE  gy <= gc + 3 * E
  <1>1. (c - y) * gc <= (c - y) * gd
    BY ProductUp
  <1>2. (d - y) * E <= (3 * (d - c)) * E
    BY ProductUp
  <1>3. /\ (d - y) * (gc + E) = (c - y) * gc + (d - c) * gc + (d - y) * E
        /\ (d - c) * (gc + 3 * E - gy) = (d - c) * gc + (3 * (d - c)) * E - (d - c) * gy
    OBVIOUS
  <1>4. /\ (c - y) * gd \in Int /\ (c - y) * gc \in Int /\ (d - y) * E \in Int
        /\ (d - c) * gc \in Int /\ (d - c) * gy \in Int /\ (3 * (d - c)) * E \in Int
    OBVIOUS
  <1>5. (d - c) * (gc + 3 * E - gy) >= 0
    BY <1>1, <1>2, <1>3, <1>4
  <1>6. gc + 3 * E - gy >= 0
    BY <1>5, NonNegative
  <1>7. QED
    BY <1>6

-----------------------------------------------------------------------------
\* A product of factors that are not negative.
LEMMA ProductSign ==
    ASSUME NEW p \in Int, NEW r \in Int, p >= 0, r >= 0
    PROVE  p * r \in Int /\ p * r >= 0 /\ (p > 0 /\ r > 0 => p * r > 0)
  <1>1. p * r \in Int /\ 0 * r <= p * r
    BY ProductUp
  <1>2. p > 0 => 1 * r <= p * r
    BY ProductUp
  <1>3. QED
    BY <1>1, <1>2

\* x |-> P * x / (Q + R * x) is concave; o is it, rounded.
LEMMA Concave ==
    ASSUME NEW P \in Nat, NEW Q \in Nat, NEW R \in Nat, Q > 0, NEW E \in Nat,
           NEW x \in Nat, NEW y \in Nat, NEW z \in Nat, x < y, y < z,
           NEW ox \in Int, NEW oy \in Int, NEW oz \in Int,
           ox * (Q + R * x) <= P * x, oz * (Q + R * z) <= P * z,
           P * y <= (oy + E) * (Q + R * y)
    PROVE  (z - x) * (oy + E) >= (z - y) * ox + (y - x) * oz
  <1> DEFINE A == Q + R * x
             B == Q + R * y
             C == Q + R * z
             rest == (z - x) * (oy + E) - (z - y) * ox - (y - x) * oz
  <1>1. A \in Int /\ A > 0 /\ B \in Int /\ B > 0 /\ C \in Int /\ C > 0
    BY ProductSign
  <1>2. PICK s \in Int, t \in Int, u \in Int :
          s = P * x - ox * A /\ s >= 0 /\ t = P * z - oz * C /\ t >= 0
          /\ u = (oy + E) * B - P * y /\ u >= 0
    <2>1. ox * A \in Int /\ P * x \in Int /\ oz * C \in Int /\ P * z \in Int
          /\ (oy + E) * B \in Int /\ P * y \in Int
      BY <1>1
    <2>2. QED
      BY <2>1
  <1>3. A * B * C * rest =
            ((z - x) * (A * C)) * u + ((z - y) * (B * C)) * s + ((y - x) * (A * B)) * t
            + (P * Q * R) * ((z - x) * ((z - y) * (y - x)))
    BY <1>2
  <1>4. /\ A * C \in Int /\ A * C >= 0 /\ B * C \in Int /\ B * C >= 0
        /\ A * B \in Int /\ A * B > 0 /\ (A * B) * C \in Int /\ (A * B) * C > 0
    BY <1>1, ProductSign
  <1>5. /\ (z - x) * (A * C) \in Int /\ (z - x) * (A * C) >= 0
        /\ (z - y) * (B * C) \in Int /\ (z - y) * (B * C) >= 0
        /\ (y - x) * (A * B) \in Int /\ (y - x) * (A * B) >= 0
        /\ (z - y) * (y - x) \in Int /\ (z - y) * (y - x) >= 0
    BY <1>4, ProductSign
  <1>6. /\ (z - x) * ((z - y) * (y - x)) \in Int /\ (z - x) * ((z - y) * (y - x)) >= 0
        /\ P * Q * R \in Int /\ P * Q * R >= 0
    BY <1>5, ProductSign
  <1>7. /\ ((z - x) * (A * C)) * u \in Int /\ ((z - x) * (A * C)) * u >= 0
        /\ ((z - y) * (B * C)) * s \in Int /\ ((z - y) * (B * C)) * s >= 0
        /\ ((y - x) * (A * B)) * t \in Int /\ ((y - x) * (A * B)) * t >= 0
        /\ (P * Q * R) * ((z - x) * ((z - y) * (y - x))) \in Int
        /\ (P * Q * R) * ((z - x) * ((z - y) * (y - x))) >= 0
    BY <1>2, <1>5, <1>6, ProductSign
  <1>8. rest \in Int
    OBVIOUS
  <1>9. rest >= 0
    <2>1. (A * B) * C * rest >= 0
      BY <1>3, <1>7
    <2> HIDE DEF rest, A, B, C
    <2>2. QED
      BY <2>1, <1>4, <1>8, NonNegative
  <1>10. (z - x) * (oy + E) \in Int /\ (z - y) * ox \in Int /\ (y - x) * oz \in Int
    OBVIOUS
  <1>11. QED
    BY <1>9, <1>10

\* o stands for u / v, at most e below it.
Approximates(o, u, v, e) == o * v <= u /\ u <= (o + e) * v

\* A hop that pays p * x / (q + r * x), floored, on an amount that approximates u / v: its
\* output approximates what it would pay on u / v, and the old error counts at its price.
LEMMA HopApproximates ==
    ASSUME NEW p \in Nat, NEW q \in Nat, NEW r \in Nat, q > 0, NEW w \in Nat, p <= w * q,
           NEW o \in Nat, NEW u \in Nat, NEW v \in Nat, v > 0, NEW e \in Nat,
           Approximates(o, u, v, e),
           NEW n \in Int, n * (q + r * o) <= p * o, p * o < n * (q + r * o) + (q + r * o)
    PROVE  Approximates(n, p * u, q * v + r * u, 1 + w * e)
  <1> DEFINE K == q + r * o
             V == q * v + r * u
  <1>1. K \in Int /\ K > 0 /\ V \in Int /\ V > 0
    BY ProductSign
  <1>2. PICK s \in Int, t \in Int, g \in Int, h \in Int, k \in Int :
          /\ s = u - o * v /\ s >= 0 /\ t = (o + e) * v - u /\ t >= 0
          /\ g = p * o - n * K /\ g >= 0 /\ h = n * K + K - p * o /\ h >= 0
          /\ k = w * q - p /\ k >= 0
    <2>1. o * v \in Int /\ (o + e) * v \in Int /\ p * o \in Int /\ n * K \in Int /\ w * q \in Int
      BY <1>1
    <2>2. QED
      BY <2>1, <1>1 DEF Approximates
  <1>3. n * V <= p * u
    <2>1. K * (p * u - n * V) = V * g + (p * q) * s
      BY <1>2
    <2>2. V * g \in Int /\ V * g >= 0 /\ p * q \in Int /\ p * q >= 0
      BY <1>1, <1>2, ProductSign
    <2>3. (p * q) * s \in Int /\ (p * q) * s >= 0
      BY <2>2, <1>2, ProductSign
    <2>4. p * u - n * V \in Int /\ p * u \in Int /\ n * V \in Int
      BY <1>1
    <2> HIDE DEF K, V
    <2>5. p * u - n * V >= 0
      BY <2>1, <2>2, <2>3, <2>4, <1>1, NonNegative
    <2>6. QED
      BY <2>4, <2>5
  <1>4. p * u <= (n + (1 + w * e)) * V
    <2> DEFINE rest == (n + (1 + w * e)) * V - p * u
    <2>1. K * rest = V * h + (p * q) * t + (e * q * v) * k
                     + (w * e * r) * (q * u + o * q * v + r * o * u)
      BY <1>2
    <2>2. /\ V * h \in Int /\ V * h >= 0 /\ p * q \in Int /\ p * q >= 0
          /\ e * q \in Int /\ e * q >= 0 /\ w * e \in Int /\ w * e >= 0
          /\ q * u \in Int /\ q * u >= 0 /\ o * q \in Int /\ o * q >= 0
          /\ r * o \in Int /\ r * o >= 0
      BY <1>1, <1>2, ProductSign
    <2>3. /\ (p * q) * t \in Int /\ (p * q) * t >= 0
          /\ (e * q) * v \in Int /\ (e * q) * v >= 0
          /\ (w * e) * r \in Int /\ (w * e) * r >= 0
          /\ (o * q) * v \in Int /\ (o * q) * v >= 0
          /\ (r * o) * u \in Int /\ (r * o) * u >= 0
      BY <2>2, <1>2, ProductSign
    <2>4. /\ ((e * q) * v) * k \in Int /\ ((e * q) * v) * k >= 0
          /\ ((w * e) * r) * (q * u + o * q * v + r * o * u) \in Int
          /\ ((w * e) * r) * (q * u + o * q * v + r * o * u) >= 0
      BY <2>2, <2>3, <1>2, ProductSign
    <2>5. K * rest >= 0
      BY <2>1, <2>2, <2>3, <2>4
    <2>6. rest \in Int /\ (n + (1 + w * e)) * V \in Int /\ p * u \in Int
      BY <1>1, <2>2
    <2> HIDE DEF K, V
    <2>7. QED
      <3>1. rest >= 0
        <4> HIDE DEF rest
        <4>1. QED
          BY <2>5, <2>6, <1>1, NonNegative
      <3>2. QED
        BY <3>1, <2>6
  <1>5. QED
    BY <1>3, <1>4 DEF Approximates

-----------------------------------------------------------------------------
\* The reserves of a hop's pool, the one it pays into first.
InOut(e, state) == IF e.from = EndsOf[e.pool][1] THEN state ELSE <<state[2], state[1]>>

\* What one wei put into a hop can pay, rounded up.
Price(e, state) ==
    LET io == InOut(e, state)
    IN  IF io[1] = 0 THEN 0 ELSE (997 * io[2]) \div (1000 * io[1]) + 1

\* What the floors of the hops may cost in the end: one wei each, at the prices of the
\* hops after it.
RoundingLoss(route, sts) ==
    LET loss[n \in 0 .. Len(route)] ==
            IF n = 0 THEN 0 ELSE 1 + Price(route[n], sts[n]) * loss[n - 1]
    IN  loss[Len(route)]

\* n is p * o / (q + r * o), floored.
Floors(n, p, q, r, o) ==
    n \in Nat /\ n * (q + r * o) <= p * o /\ p * o < n * (q + r * o) + (q + r * o)

\* A floored division of naturals.
LEMMA DivBounds ==
    ASSUME NEW k \in Nat, NEW m \in Nat, m > 0
    PROVE  k \div m \in Nat /\ (k \div m) * m <= k /\ k < (k \div m) * m + m
  OBVIOUS

\* get_v2_output is such a floor, with the fee in its coefficients.
LEMMA V2Shape ==
    ASSUME NEW rIn \in Nat, NEW rOut \in Nat, rIn > 0, rOut > 0, NEW o \in Nat
    PROVE  Floors(V2Output(o, rIn, rOut), 997 * rOut, 1000 * rIn, 997, o)
  <1> DEFINE k == o * 997 * rOut
             m == rIn * 1000 + o * 997
  <1>1. k \in Nat /\ m \in Nat /\ m > 0 /\ k = (997 * rOut) * o /\ m = 1000 * rIn + 997 * o
    <2>1. o * rOut \in Int /\ o * rOut >= 0
      BY ProductSign
    <2>2. o * 997 * rOut = 997 * (o * rOut) /\ (997 * rOut) * o = 997 * (o * rOut)
      OBVIOUS
    <2>3. QED
      BY <2>1, <2>2
  <1> HIDE DEF k, m
  <1>2. k \div m \in Nat /\ (k \div m) * m <= k /\ k < (k \div m) * m + m
    BY <1>1, DivBounds
  <1>3. CASE o = 0
    <2>1. V2Output(o, rIn, rOut) = 0
      BY <1>3 DEF V2Output
    <2>2. QED
      BY <1>3, <2>1 DEF Floors
  <1>4. CASE o # 0
    <2>1. V2Output(o, rIn, rOut) = k \div m
      BY <1>4 DEF V2Output, k, m
    <2>2. QED
      BY <1>1, <1>2, <2>1 DEF Floors
  <1>5. QED
    BY <1>3, <1>4

\* So is a hop, whatever its pool: one that pays nothing is the floor of 0 * o / 1.
LEMMA HopShape ==
    ASSUME NEW e \in Edges, NEW st \in ReserveChoices
    PROVE  /\ Price(e, st) \in Nat
           /\ \E p, q, r \in Nat :
                /\ q > 0 /\ p <= Price(e, st) * q
                /\ \A o \in Nat : Floors(HopOutput(e, st, o), p, q, r, o)
  <1> DEFINE io == InOut(e, st)
             w == Price(e, st)
  <1>1. st[1] \in Nat /\ st[2] \in Nat
    BY HuntAssumption
  <1>2. io[1] \in Nat /\ io[2] \in Nat
    BY <1>1 DEF InOut
  <1>3. \A o \in Nat : HopOutput(e, st, o) = IF e.pool \in V3Pools THEN 0
                                              ELSE V2Output(o, io[1], io[2])
    BY DEF HopOutput, InOut
  <1> HIDE DEF io
  <1>4. w \in Nat /\ (io[1] > 0 => 997 * io[2] <= w * (1000 * io[1]))
    <2>1. CASE io[1] = 0
      BY <2>1 DEF Price, io
    <2>2. CASE io[1] # 0
      <3> DEFINE k == 997 * io[2]
                 m == 1000 * io[1]
      <3>1. k \in Nat /\ m \in Nat /\ m > 0
        BY <1>2, <2>2
      <3>2. w = k \div m + 1
        BY <2>2 DEF Price, io
      <3> HIDE DEF k, m, w
      <3>3. k \div m \in Nat /\ k < (k \div m) * m + m
        BY <3>1, DivBounds
      <3>4. w \in Nat /\ w * m = (k \div m) * m + m /\ (k \div m) * m \in Nat
        BY <3>1, <3>2, <3>3
      <3>5. k <= w * m
        BY <3>1, <3>3, <3>4
      <3>6. QED
        BY <3>4, <3>5 DEF k, m
    <2>3. QED
      BY <2>1, <2>2
  <1> HIDE DEF w
  <1>5. CASE e.pool \in V3Pools \/ io[1] = 0 \/ io[2] = 0
    <2>1. \A o \in Nat : HopOutput(e, st, o) = 0
      BY <1>3, <1>5 DEF V2Output
    <2>2. \A o \in Nat : Floors(HopOutput(e, st, o), 0, 1, 0, o)
      BY <2>1 DEF Floors
    <2>3. 0 \in Nat /\ 1 \in Nat /\ 1 > 0 /\ 0 <= w * 1
      BY <1>4
    <2>4. QED
      BY <1>4, <2>2, <2>3 DEF w
  <1>6. CASE ~(e.pool \in V3Pools \/ io[1] = 0 \/ io[2] = 0)
    <2>1. io[1] > 0 /\ io[2] > 0
      BY <1>2, <1>6
    <2>2. \A o \in Nat : Floors(HopOutput(e, st, o), 997 * io[2], 1000 * io[1], 997, o)
      BY <1>2, <1>3, <1>6, <2>1, V2Shape
    <2>3. PICK p \in Nat, q \in Nat : p = 997 * io[2] /\ q = 1000 * io[1] /\ q > 0
      BY <1>2, <2>1
    <2>4. p <= w * q /\ \A o \in Nat : Floors(HopOutput(e, st, o), p, q, 997, o)
      BY <1>4, <2>1, <2>2, <2>3
    <2>5. QED
      BY <1>4, <2>3, <2>4 DEF w
  <1>7. QED
    BY <1>5, <1>6

-----------------------------------------------------------------------------
(* The output of a path is a recursive function of its hops, which has the *)
(* values of its equation only where a function satisfies it; this and the *)
(* inductions over the hops go by the least counterexample.                *)

\* What the library says of a well-founded relation, for a set of numbers.
LEMMA Minimal ==
    ASSUME NEW R, IsWellFoundedOn(R, Nat), NEW T, T \subseteq Nat, T # {}
    PROVE  \E m \in T : \A k \in T : ~ (<<k, m>> \in R)
  BY WFMin, Zenon

\* A relation that is well founded and orders the numbers finds the least of a set.
LEMMA LeastOf ==
    ASSUME NEW R, IsWellFoundedOn(R, Nat), \A k, m \in Nat : k < m => <<k, m>> \in R,
           NEW T, T \subseteq Nat, T # {}
    PROVE  \E m \in T : \A k \in T : m <= k
  <1>1. PICK m \in T : \A k \in T : ~ (<<k, m>> \in R)
    BY Minimal, Zenon
  <1>2. \A k \in T : ~ (k < m) /\ k \in Nat /\ m \in Nat
    BY <1>1
  <1>3. \A k \in T : m <= k
    BY <1>2
  <1>4. QED
    BY <1>3

\* A set of numbers has a least one.
LEMMA LeastNat ==
    ASSUME NEW T, T \subseteq Nat, T # {}
    PROVE  \E m \in T : \A k \in T : m <= k
  <1>1. PICK R : R = OpToRel(<, Nat)
    OBVIOUS
  <1>2. IsWellFoundedOn(R, Nat)
    BY <1>1, NatLessThanWellFounded
  <1>3. \A k, m \in Nat : k < m => <<k, m>> \in R
    BY <1>1 DEF OpToRel
  <1>4. QED
    BY <1>2, <1>3, LeastOf, Zenon

\* The first number of 0 .. n outside a set that 0 is in: the one before it is inside.
LEMMA FirstOutside ==
    ASSUME NEW n \in Nat, NEW G, 0 \in G, \A i \in 1 .. n : i - 1 \in G => i \in G
    PROVE  \A i \in 0 .. n : i \in G
  <1> DEFINE T == {i \in 0 .. n : i \notin G}
  <1>1. SUFFICES ASSUME T # {} PROVE FALSE
    OBVIOUS
  <1>2. PICK m \in T : \A k \in T : m <= k
    <2>1. T \subseteq Nat
      OBVIOUS
    <2>2. QED
      BY <1>1, <2>1, LeastNat, Zenon
  <1>3. m \in 1 .. n /\ m - 1 \in 0 .. n
    <2>1. m # 0
      BY <1>2
    <2>2. QED
      BY <1>2, <2>1
  <1>4. m - 1 \in G
    BY <1>2, <1>3
  <1>5. QED
    BY <1>2, <1>3, <1>4

\* f begins with x and goes on by the steps.
Runs(f, n, x, step) == f = [i \in 0 .. n |-> IF i = 0 THEN x ELSE step[i][f[i - 1]]]

\* Something runs, as far as there are steps.
LEMMA RunsExist ==
    ASSUME NEW n \in Nat, NEW x \in Nat, NEW step \in [1 .. n -> [Nat -> Nat]]
    PROVE  \E f : Runs(f, n, x, step)
  <1> DEFINE G == {m \in 0 .. n : \E f : Runs(f, m, x, step)}
  <1>1. 0 \in G
    <2> DEFINE f == [i \in 0 .. 0 |-> x]
    <2>1. Runs(f, 0, x, step)
      BY DEF Runs
    <2>2. QED
      BY <2>1
  <1>2. ASSUME NEW m \in 1 .. n, m - 1 \in G
        PROVE  m \in G
    <2>1. PICK f : Runs(f, m - 1, x, step)
      BY <1>2
    <2> DEFINE h == [i \in 0 .. m |-> IF i = m THEN step[m][f[m - 1]] ELSE f[i]]
    <2>2. \A i \in 0 .. m - 1 : h[i] = f[i]
      OBVIOUS
    <2>3. ASSUME NEW i \in 0 .. m
          PROVE  h[i] = IF i = 0 THEN x ELSE step[i][h[i - 1]]
      <3>1. CASE i = m
        <4>1. i # 0 /\ i - 1 \in 0 .. m - 1
          BY <3>1
        <4>2. h[i - 1] = f[m - 1]
          BY <2>2, <3>1, <4>1
        <4>3. QED
          BY <3>1, <4>1, <4>2
      <3>2. CASE i # m
        <4>1. i \in 0 .. m - 1 /\ (i # 0 => i - 1 \in 0 .. m - 1)
          BY <3>2
        <4>2. f[i] = IF i = 0 THEN x ELSE step[i][f[i - 1]]
          BY <2>1, <4>1 DEF Runs
        <4>3. QED
          BY <2>2, <4>1, <4>2
      <3>3. QED
        BY <3>1, <3>2
    <2> HIDE DEF h
    <2>4. h = [i \in 0 .. m |-> h[i]]
      BY DEF h
    <2>5. Runs(h, m, x, step)
      BY <2>3, <2>4 DEF Runs
    <2>6. QED
      BY <2>5, <1>2
  <1>3. \A i \in 0 .. n : i \in G
    <2> HIDE DEF G
    <2>1. QED
      BY <1>1, <1>2, FirstOutside
  <1>4. QED
    BY <1>3

\* What runs has the values of its steps, numbers all of them.
LEMMA RunsValues ==
    ASSUME NEW n \in Nat, NEW x \in Nat, NEW step \in [1 .. n -> [Nat -> Nat]]
    PROVE  \E f :
             /\ f = [i \in 0 .. n |-> f[i]]
             /\ f[0] = x
             /\ \A i \in 0 .. n : f[i] \in Nat
             /\ \A i \in 1 .. n : f[i] = step[i][f[i - 1]]
  <1>0. PICK f : Runs(f, n, x, step)
    BY RunsExist
  <1>1. f[0] = x
    BY <1>0 DEF Runs
  <1>2. \A i \in 1 .. n : i # 0 /\ i \in 0 .. n
    OBVIOUS
  <1>3. \A i \in 1 .. n : f[i] = step[i][f[i - 1]]
    BY <1>0, <1>2 DEF Runs
  <1> DEFINE G == {m \in 0 .. n : f[m] \in Nat}
  <1>4. 0 \in G
    BY <1>1
  <1>5. ASSUME NEW m \in 1 .. n, m - 1 \in G
        PROVE  m \in G
    <2>1. step[m] \in [Nat -> Nat] /\ f[m - 1] \in Nat /\ m \in 0 .. n
      BY <1>5
    <2>2. step[m][f[m - 1]] \in Nat
      BY <2>1
    <2>3. QED
      BY <1>3, <2>1, <2>2
  <1>6. \A i \in 0 .. n : i \in G
    <2> HIDE DEF G
    <2>1. QED
      BY <1>4, <1>5, FirstOutside
  <1>7. f = [i \in 0 .. n |-> f[i]]
    BY <1>0 DEF Runs
  <1>8. QED
    BY <1>1, <1>3, <1>6, <1>7

\* The outputs of a path, hop by hop.
LEMMA PathRuns ==
    ASSUME NEW route \in Seq(Edges), NEW sts \in Seq(ReserveChoices), Len(sts) = Len(route),
           NEW x \in Nat
    PROVE  \E out :
             /\ out[0] = x
             /\ \A i \in 0 .. Len(route) : out[i] \in Nat
             /\ \A i \in 1 .. Len(route) : out[i] = HopOutput(route[i], sts[i], out[i - 1])
             /\ PathOutput(route, sts, x) = out[Len(route)]
  <1> DEFINE n == Len(route)
             step == [i \in 1 .. n |-> [o \in Nat |-> HopOutput(route[i], sts[i], o)]]
             out == CHOOSE h : h = [i \in 0 .. n |-> IF i = 0 THEN x
                                                     ELSE HopOutput(route[i], sts[i], h[i - 1])]
  <1>1. n \in Nat /\ \A i \in 1 .. n : route[i] \in Edges /\ sts[i] \in ReserveChoices
    OBVIOUS
  <1>2. \A i \in 1 .. n : \A o \in Nat : HopOutput(route[i], sts[i], o) \in Nat
    BY <1>1, HopShape DEF Floors
  <1>3. PathOutput(route, sts, x) = out[n]
    BY DEF PathOutput
  <1>4. step \in [1 .. n -> [Nat -> Nat]]
    BY <1>2
  <1>5. \A i \in 1 .. n : \A o \in Nat : step[i][o] = HopOutput(route[i], sts[i], o)
    OBVIOUS
  <1> HIDE DEF step
  <1>6. PICK g :
          /\ g = [i \in 0 .. n |-> g[i]]
          /\ g[0] = x
          /\ \A i \in 0 .. n : g[i] \in Nat
          /\ \A i \in 1 .. n : g[i] = step[i][g[i - 1]]
    BY <1>1, <1>4, RunsValues
  <1>8. g = [i \in 0 .. n |-> IF i = 0 THEN x ELSE HopOutput(route[i], sts[i], g[i - 1])]
    <2>1. ASSUME NEW i \in 0 .. n
          PROVE  g[i] = IF i = 0 THEN x ELSE HopOutput(route[i], sts[i], g[i - 1])
      <3>1. CASE i # 0
        <4>1. i \in 1 .. n /\ i - 1 \in 0 .. n
          BY <1>1, <3>1
        <4>2. QED
          BY <1>5, <1>6, <3>1, <4>1
      <3>2. QED
        BY <1>6, <3>1
    <2>2. QED
      BY <1>6, <2>1
  <1>9. out = [i \in 0 .. n |-> IF i = 0 THEN x ELSE HopOutput(route[i], sts[i], out[i - 1])]
    BY <1>8
  <1> HIDE DEF out
  <1>10. out[0] = x
    BY <1>1, <1>9
  <1>11. \A i \in 1 .. n : out[i] = HopOutput(route[i], sts[i], out[i - 1])
    <2>1. \A i \in 1 .. n : i \in 0 .. n /\ i # 0
      BY <1>1
    <2>2. QED
      BY <1>9, <2>1
  <1>12. \A i \in 0 .. n : out[i] \in Nat
    <2> DEFINE G == {i \in 0 .. n : out[i] \in Nat}
    <2>1. 0 \in G
      BY <1>1, <1>10
    <2>2. ASSUME NEW m \in 1 .. n, m - 1 \in G
          PROVE  m \in G
      <3>1. m \in 0 .. n /\ out[m] = HopOutput(route[m], sts[m], out[m - 1])
        BY <1>1, <1>11
      <3>2. QED
        BY <1>2, <2>2, <3>1
    <2>3. \A i \in 0 .. n : i \in G
      <3> HIDE DEF G
      <3>1. QED
        BY <1>1, <2>1, <2>2, FirstOutside
    <2>4. QED
      BY <2>3
  <1>13. QED
    BY <1>3, <1>10, <1>11, <1>12

\* The losses of a path, hop by hop.
LEMMA LossRuns ==
    ASSUME NEW route \in Seq(Edges), NEW sts \in Seq(ReserveChoices), Len(sts) = Len(route)
    PROVE  \E loss :
             /\ loss[0] = 0
             /\ \A i \in 0 .. Len(route) : loss[i] \in Nat
             /\ \A i \in 1 .. Len(route) : loss[i] = 1 + Price(route[i], sts[i]) * loss[i - 1]
             /\ RoundingLoss(route, sts) = loss[Len(route)]
  <1> DEFINE n == Len(route)
             step == [i \in 1 .. n |-> [o \in Nat |-> 1 + Price(route[i], sts[i]) * o]]
             loss == CHOOSE h : h = [i \in 0 .. n |-> IF i = 0 THEN 0
                                                      ELSE 1 + Price(route[i], sts[i]) * h[i - 1]]
  <1>1. n \in Nat /\ \A i \in 1 .. n : route[i] \in Edges /\ sts[i] \in ReserveChoices
    OBVIOUS
  <1>2. \A i \in 1 .. n : \A o \in Nat : 1 + Price(route[i], sts[i]) * o \in Nat
    <2>1. \A i \in 1 .. n : Price(route[i], sts[i]) \in Nat
      BY <1>1, HopShape
    <2>2. \A k, o \in Nat : 1 + k * o \in Nat
      BY ProductSign
    <2>3. QED
      BY <2>1, <2>2
  <1>3. RoundingLoss(route, sts) = loss[n]
    BY DEF RoundingLoss
  <1>4. step \in [1 .. n -> [Nat -> Nat]]
    BY <1>2
  <1>5. \A i \in 1 .. n : \A o \in Nat : step[i][o] = 1 + Price(route[i], sts[i]) * o
    OBVIOUS
  <1> HIDE DEF step
  <1>6. PICK g :
          /\ g = [i \in 0 .. n |-> g[i]]
          /\ g[0] = 0
          /\ \A i \in 0 .. n : g[i] \in Nat
          /\ \A i \in 1 .. n : g[i] = step[i][g[i - 1]]
    <2>1. 0 \in Nat /\ n \in Nat
      BY <1>1
    <2>2. QED
      BY <1>4, <2>1, RunsValues, Zenon
  <1>8. g = [i \in 0 .. n |-> IF i = 0 THEN 0 ELSE 1 + Price(route[i], sts[i]) * g[i - 1]]
    <2>1. ASSUME NEW i \in 0 .. n
          PROVE  g[i] = IF i = 0 THEN 0 ELSE 1 + Price(route[i], sts[i]) * g[i - 1]
      <3>1. CASE i # 0
        <4>1. i \in 1 .. n /\ i - 1 \in 0 .. n
          BY <1>1, <3>1
        <4>2. QED
          BY <1>5, <1>6, <3>1, <4>1
      <3>2. QED
        BY <1>6, <3>1
    <2>2. QED
      BY <1>6, <2>1
  <1>9. loss = [i \in 0 .. n |-> IF i = 0 THEN 0 ELSE 1 + Price(route[i], sts[i]) * loss[i - 1]]
    BY <1>8
  <1> HIDE DEF loss
  <1>10. loss[0] = 0
    BY <1>1, <1>9
  <1>11. \A i \in 1 .. n : loss[i] = 1 + Price(route[i], sts[i]) * loss[i - 1]
    <2>1. \A i \in 1 .. n : i \in 0 .. n /\ i # 0
      BY <1>1
    <2>2. QED
      BY <1>9, <2>1
  <1>12. \A i \in 0 .. n : loss[i] \in Nat
    <2> DEFINE G == {i \in 0 .. n : loss[i] \in Nat}
    <2>1. 0 \in G
      BY <1>1, <1>10
    <2>2. ASSUME NEW m \in 1 .. n, m - 1 \in G
          PROVE  m \in G
      <3>1. m \in 0 .. n /\ loss[m] = 1 + Price(route[m], sts[m]) * loss[m - 1]
        BY <1>1, <1>11
      <3>2. QED
        BY <1>2, <2>2, <3>1
    <2>3. \A i \in 0 .. n : i \in G
      <3> HIDE DEF G
      <3>1. QED
        BY <1>1, <2>1, <2>2, FirstOutside
    <2>4. QED
      BY <2>3
  <1>13. QED
    BY <1>3, <1>10, <1>11, <1>12

\* A product of naturals.
LEMMA ProductNat ==
    ASSUME NEW p \in Nat, NEW r \in Nat
    PROVE  p * r \in Nat
  BY ProductSign

\* The output of a path approximates a hyperbola.
LEMMA PathShape ==
    ASSUME NEW route \in Seq(Edges), NEW sts \in Seq(ReserveChoices), Len(sts) = Len(route)
    PROVE  /\ RoundingLoss(route, sts) \in Nat
           /\ \A x \in Nat : PathOutput(route, sts, x) \in Nat
           /\ \E P, Q, R \in Nat :
                /\ Q > 0
                /\ \A x \in Nat : Approximates(PathOutput(route, sts, x), P * x, Q + R * x,
                                               RoundingLoss(route, sts))
  <1> DEFINE n == Len(route)
             Good(out, x) ==
               /\ out[0] = x
               /\ \A i \in 0 .. n : out[i] \in Nat
               /\ \A i \in 1 .. n : out[i] = HopOutput(route[i], sts[i], out[i - 1])
               /\ PathOutput(route, sts, x) = out[n]
             O == [x \in Nat |-> CHOOSE out : Good(out, x)]
  <1>1. n \in Nat /\ \A i \in 1 .. n : route[i] \in Edges /\ sts[i] \in ReserveChoices
    OBVIOUS
  <1>2. ASSUME NEW x \in Nat
        PROVE  Good(O[x], x)
    <2>1. \E out : Good(out, x)
      BY PathRuns
    <2> HIDE DEF Good
    <2>2. QED
      BY <2>1
  <1> HIDE DEF O
  <1>3. PICK loss :
          /\ loss[0] = 0
          /\ \A i \in 0 .. n : loss[i] \in Nat
          /\ \A i \in 1 .. n : loss[i] = 1 + Price(route[i], sts[i]) * loss[i - 1]
          /\ RoundingLoss(route, sts) = loss[n]
    BY LossRuns
  <1> DEFINE Shape(i, P, Q, R) ==
               Q > 0 /\ \A x \in Nat : Approximates(O[x][i], P * x, Q + R * x, loss[i])
             G == {i \in 0 .. n : \E P, Q, R \in Nat : Shape(i, P, Q, R)}
  <1>4. 0 \in G
    <2>1. \A x \in Nat : Approximates(x, 1 * x, 1 + 0 * x, 0)
      BY DEF Approximates
    <2>2. \A x \in Nat : O[x][0] = x
      BY <1>2
    <2>3. \A x \in Nat : Approximates(O[x][0], 1 * x, 1 + 0 * x, loss[0])
      BY <1>3, <2>1, <2>2, Zenon
    <2>4. Shape(0, 1, 1, 0)
      BY <2>3
    <2> HIDE DEF Shape
    <2>5. QED
      BY <1>1, <2>4
  <1>5. ASSUME NEW m \in 1 .. n, m - 1 \in G
        PROVE  m \in G
    <2>1. m \in 0 .. n /\ m - 1 \in 0 .. n
      BY <1>1
    <2>2. PICK P \in Nat, Q \in Nat, R \in Nat : Shape(m - 1, P, Q, R)
      BY <1>5
    <2>3. PICK w \in Nat : w = Price(route[m], sts[m])
      BY <1>1, HopShape
    <2>4. PICK p \in Nat, q \in Nat, r \in Nat :
             /\ q > 0 /\ p <= w * q
             /\ \A o \in Nat : Floors(HopOutput(route[m], sts[m], o), p, q, r, o)
      BY <1>1, <2>3, HopShape
    <2>5. PICK A \in Nat, B \in Nat, C \in Nat : A = p * P /\ B = q * Q /\ C = q * R + r * P /\ B > 0
      <3>1. p * P \in Nat /\ q * Q \in Nat /\ q * R + r * P \in Nat /\ q * Q > 0
        <4>1. p * P \in Nat /\ q * Q \in Nat /\ q * R \in Nat /\ r * P \in Nat
          BY ProductNat
        <4>2. q * Q > 0
          <5>1. Q > 0 /\ q > 0 /\ q >= 0 /\ Q >= 0 /\ q \in Int /\ Q \in Int
            BY <2>2, <2>4
          <5>2. QED
            BY <5>1, ProductSign
        <4>3. QED
          BY <4>1, <4>2
      <3>2. QED
        BY <3>1
    <2>6. ASSUME NEW x \in Nat
          PROVE  Approximates(O[x][m], A * x, B + C * x, loss[m])
      <3>1. PICK o \in Nat, k \in Nat, e \in Nat, u \in Nat, v \in Nat :
               /\ o = O[x][m - 1] /\ k = O[x][m] /\ e = loss[m - 1]
               /\ u = P * x /\ v = Q + R * x /\ v > 0
        <4>1. O[x][m - 1] \in Nat /\ O[x][m] \in Nat /\ loss[m - 1] \in Nat
          BY <1>2, <1>3, <2>1
        <4>2. P * x \in Nat /\ Q + R * x \in Nat /\ Q + R * x > 0
          <5>1. P * x \in Nat /\ R * x \in Nat /\ Q > 0
            BY <2>2, ProductNat
          <5>2. QED
            BY <5>1
        <4>3. QED
          BY <4>1, <4>2
      <3>2. Approximates(o, u, v, e)
        BY <2>2, <3>1
      <3>3. Floors(k, p, q, r, o)
        <4>1. k = HopOutput(route[m], sts[m], o)
          BY <1>2, <3>1
        <4>2. QED
          BY <2>4, <4>1
      <3>4. Approximates(k, p * u, q * v + r * u, 1 + w * e)
        <4>1. k \in Int /\ k * (q + r * o) <= p * o
              /\ p * o < k * (q + r * o) + (q + r * o)
          BY <3>3 DEF Floors
        <4>2. QED
          BY <2>4, <3>1, <3>2, <4>1, HopApproximates
      <3>5. p * u = A * x /\ q * v + r * u = B + C * x
        BY <2>5, <3>1
      <3>6. loss[m] = 1 + w * e
        BY <1>3, <2>3, <3>1
      <3>7. QED
        BY <3>1, <3>4, <3>5, <3>6
    <2>7. Shape(m, A, B, C)
      BY <2>5, <2>6
    <2> HIDE DEF Shape
    <2>8. QED
      BY <2>1, <2>7
  <1>6. n \in G
    <2> HIDE DEF G
    <2>1. \A i \in 0 .. n : i \in G
      BY <1>1, <1>4, <1>5, FirstOutside
    <2>2. QED
      BY <1>1, <2>1
  <1>7. \A x \in Nat : PathOutput(route, sts, x) = O[x][n] /\ O[x][n] \in Nat
    BY <1>1, <1>2
  <1>8. PICK P \in Nat, Q \in Nat, R \in Nat : Shape(n, P, Q, R)
    BY <1>6
  <1>9. \A x \in Nat : Approximates(PathOutput(route, sts, x), P * x, Q + R * x,
                                    RoundingLoss(route, sts))
    BY <1>3, <1>7, <1>8
  <1>10. RoundingLoss(route, sts) \in Nat
    BY <1>1, <1>3
  <1>11. QED
    BY <1>7, <1>8, <1>9, <1>10

-----------------------------------------------------------------------------
(* The best input of the range stays within reach of the interval.         *)

\* The drift leaves the probes apart, by a third of either part they bound.
Spread ==
    /\ Tolerance > 0
    /\ 5 * PhiNum >= 3 * PhiDen
    /\ (5 * PhiNum - 3 * PhiDen) * Shortest >= 5 * PhiDen * Worst

\* Steady probes with some spread are as far apart as that.
LEMMA ProbesApart ==
    ASSUME NEW a \in Int, NEW b \in Int, NEW c \in Int, NEW d \in Int, NEW n \in Nat,
           n <= MaxIter, Steady, Spread, GoodProbes(a, b, c, d, n), b - a >= Tolerance
    PROVE  c < d /\ b - c <= 3 * (d - c) /\ d - a <= 3 * (d - c)
  <1> DEFINE lo == PhiDen * Low(a, b, c)
             hi == PhiDen * High(a, b, d)
             len == PhiDen * PhiDen * (b - a)
             cube == PhiDen * (PhiDen * PhiDen)
             K == 5 * PhiNum - 3 * PhiDen
  <1>1. Low(a, b, c) \in Int /\ High(a, b, d) \in Int
    BY Golden DEF Low, High
  <1>2. lo \in Int /\ hi \in Int /\ len \in Int /\ K \in Int
    BY <1>1, Golden
  <1>3. Within(lo, Worst) /\ Within(hi, Worst)
    BY <1>2, BoundGrows, DriftFacts, WithinMore DEF GoodProbes
  <1>4. cube \in Int /\ cube > 0
    BY DriftFacts, Golden, ProductSign
  <1>5. K * Shortest <= K * len
    BY <1>2, Golden, DriftFacts, ProductUp DEF Spread, GoodProbes
  <1>6. /\ PhiDen * (0 - Worst) <= PhiDen * lo /\ PhiDen * lo <= PhiDen * Worst
        /\ PhiDen * (0 - Worst) <= PhiDen * hi /\ PhiDen * hi <= PhiDen * Worst
        /\ PhiDen * (0 - Worst) = 0 - PhiDen * Worst
    BY <1>2, <1>3, Golden, DriftFacts, ProductUp DEF Within
  <1>7. /\ cube * (3 * (d - c) - (b - c)) = K * len + 3 * (PhiDen * hi) - 2 * (PhiDen * lo)
        /\ cube * (3 * (d - c) - (d - a)) = K * len + 2 * (PhiDen * hi) - 3 * (PhiDen * lo)
    BY Golden DEF Low, High
  <1>8. /\ K * len \in Int /\ K * Shortest \in Int
        /\ PhiDen * lo \in Int /\ PhiDen * hi \in Int /\ PhiDen * Worst \in Int
        /\ 5 * PhiDen * Worst = 5 * (PhiDen * Worst)
    BY <1>2, Golden, DriftFacts
  <1>9. K * Shortest >= 5 * (PhiDen * Worst)
    BY <1>8 DEF Spread
  <1> HIDE DEF lo, hi, len, cube, K
  <1>10. cube * (3 * (d - c) - (b - c)) >= 0 /\ cube * (3 * (d - c) - (d - a)) >= 0
    BY <1>5, <1>6, <1>7, <1>8, <1>9
  <1>11. 3 * (d - c) - (b - c) >= 0 /\ 3 * (d - c) - (d - a) >= 0
    BY <1>4, <1>10, NonNegative
  <1>12. b - a > 0
    BY Golden DEF Spread
  <1>13. QED
    BY <1>11, <1>12

\* The input is as much of either side.
LEMMA NetOfInput ==
    ASSUME NEW x \in Int, NEW y \in Int, NEW z \in Int, NEW E \in Int,
           NEW ox \in Int, NEW oy \in Int, NEW oz \in Int,
           (z - x) * (oy + E) >= (z - y) * ox + (y - x) * oz
    PROVE  (z - x) * ((oy - y) + E) >= (z - y) * (ox - x) + (y - x) * (oz - z)
  <1>1. /\ (z - x) * ((oy - y) + E) = (z - x) * (oy + E) - (z - x) * y
        /\ (z - y) * (ox - x) + (y - x) * (oz - z) = (z - y) * ox + (y - x) * oz - (z - x) * y
    OBVIOUS
  <1>2. /\ (z - x) * (oy + E) \in Int /\ (z - x) * y \in Int
        /\ (z - y) * ox \in Int /\ (y - x) * oz \in Int
    OBVIOUS
  <1>3. QED
    BY <1>1, <1>2

\* Up to the rounding of its hops, what a path earns is a concave function of its input.
LEMMA EarningsConcave ==
    ASSUME NEW route \in Seq(Edges), NEW sts \in Seq(ReserveChoices), Len(sts) = Len(route),
           NEW E \in Nat, RoundingLoss(route, sts) <= E,
           NEW x \in Nat, NEW y \in Nat, NEW z \in Nat, x < y, y < z,
           NEW gx \in Int, gx = PathOutput(route, sts, x) - x,
           NEW gy \in Int, gy = PathOutput(route, sts, y) - y,
           NEW gz \in Int, gz = PathOutput(route, sts, z) - z
    PROVE  (z - x) * (gy + E) >= (z - y) * gx + (y - x) * gz
  <1>1. PICK ox \in Nat, oy \in Nat, oz \in Nat, loss \in Nat :
          /\ ox = PathOutput(route, sts, x) /\ oy = PathOutput(route, sts, y)
          /\ oz = PathOutput(route, sts, z) /\ loss = RoundingLoss(route, sts)
          /\ loss <= E
    <2>1. RoundingLoss(route, sts) \in Nat
          /\ \A i \in Nat : PathOutput(route, sts, i) \in Nat
      BY PathShape
    <2>2. QED
      BY <2>1
  <1>2. PICK P \in Nat, Q \in Nat, R \in Nat :
          /\ Q > 0
          /\ \A i \in Nat : Approximates(PathOutput(route, sts, i), P * i, Q + R * i,
                                         RoundingLoss(route, sts))
    BY PathShape
  <1>3. /\ ox * (Q + R * x) <= P * x /\ oz * (Q + R * z) <= P * z
        /\ P * y <= (oy + loss) * (Q + R * y)
    BY <1>1, <1>2 DEF Approximates
  <1>4. (oy + loss) * (Q + R * y) <= (oy + E) * (Q + R * y)
    <2>1. R * y \in Nat
      BY ProductNat
    <2>2. Q + R * y \in Int /\ Q + R * y >= 0
      BY <2>1
    <2>3. oy + loss \in Int /\ oy + E \in Int /\ oy + loss <= oy + E
      <3>1. loss <= E
        BY <1>1, Zenon
      <3>2. QED
        BY <3>1
    <2>4. QED
      BY <2>2, <2>3, ProductUp
  <1>5. P * y <= (oy + E) * (Q + R * y)
    <2>1. P * y \in Int /\ (oy + loss) * (Q + R * y) \in Int /\ (oy + E) * (Q + R * y) \in Int
      OBVIOUS
    <2>2. QED
      BY <1>3, <1>4, <2>1
  <1>6. (z - x) * (oy + E) >= (z - y) * ox + (y - x) * oz
    <2>1. ox \in Int /\ oy \in Int /\ oz \in Int /\ Q > 0
      BY <1>2
    <2>2. QED
      BY <1>3, <1>5, <2>1, Concave
  <1>7. gx = ox - x /\ gy = oy - y /\ gz = oz - z
    BY <1>1
  <1>8. (z - x) * ((oy - y) + E) >= (z - y) * (ox - x) + (y - x) * (oz - z)
    BY <1>6, NetOfInput
  <1>9. QED
    BY <1>7, <1>8, Zenon

-----------------------------------------------------------------------------
\* What a path earns, before a loss is made zero, and after.
LEMMA ProfitFacts ==
    ASSUME NEW route \in Seq(Edges), NEW sts \in Seq(ReserveChoices), Len(sts) = Len(route),
           NEW x \in Nat
    PROVE  \E g \in Int : /\ g = PathOutput(route, sts, x) - x
                          /\ ProfitOf(route, sts, x) = IF g > 0 THEN g ELSE 0
  <1>1. PICK o \in Nat : o = PathOutput(route, sts, x)
    BY PathShape
  <1>2. ProfitOf(route, sts, x) = IF o > x THEN o - x ELSE 0
    BY <1>1 DEF ProfitOf
  <1>3. PICK g \in Int : g = o - x
    OBVIOUS
  <1>4. QED
    BY <1>1, <1>2, <1>3

\* A profit is a natural: it saturates.
LEMMA ProfitNat ==
    ASSUME NEW route \in Seq(Edges), NEW sts \in Seq(ReserveChoices), Len(sts) = Len(route),
           NEW x \in Nat
    PROVE  ProfitOf(route, sts, x) \in Nat
  <1>1. PICK g \in Int : ProfitOf(route, sts, x) = IF g > 0 THEN g ELSE 0
    BY ProfitFacts
  <1>2. QED
    BY <1>1

\* The left part keeps the best input, up to three roundings, when its probe pays more.
LEMMA LeftKeeps ==
    ASSUME NEW route \in Seq(Edges), NEW sts \in Seq(ReserveChoices), Len(sts) = Len(route),
           NEW E \in Nat, RoundingLoss(route, sts) <= E,
           NEW a \in Nat, NEW b \in Nat, NEW c \in Nat, NEW d \in Nat,
           a <= c, c < d, d <= b, b - c <= 3 * (d - c),
           ProfitOf(route, sts, c) > ProfitOf(route, sts, d),
           NEW y \in a .. b
    PROVE  \E k \in a .. d : ProfitOf(route, sts, k) + 3 * E >= ProfitOf(route, sts, y)
  <1>1. y \in Nat /\ a <= y /\ y <= b
    OBVIOUS
  <1>2. ProfitOf(route, sts, y) \in Nat
    BY <1>1, ProfitNat
  <1>3. CASE y <= d
    <2>1. y \in a .. d
      BY <1>1, <1>3
    <2>2. ProfitOf(route, sts, y) + 3 * E >= ProfitOf(route, sts, y)
      BY <1>2
    <2>3. QED
      BY <2>1, <2>2
  <1>4. CASE d < y
    <2>1. PICK gc \in Int : /\ gc = PathOutput(route, sts, c) - c
                            /\ ProfitOf(route, sts, c) = IF gc > 0 THEN gc ELSE 0
      BY ProfitFacts
    <2>2. PICK gd \in Int : /\ gd = PathOutput(route, sts, d) - d
                            /\ ProfitOf(route, sts, d) = IF gd > 0 THEN gd ELSE 0
      BY ProfitFacts
    <2>3. PICK gy \in Int : /\ gy = PathOutput(route, sts, y) - y
                            /\ ProfitOf(route, sts, y) = IF gy > 0 THEN gy ELSE 0
      BY <1>1, ProfitFacts
    <2>4. (y - c) * (gd + E) >= (y - d) * gc + (d - c) * gy
      BY <1>1, <1>4, <2>1, <2>2, <2>3, EarningsConcave
    <2>5. gd <= gc
      BY <2>1, <2>2
    <2>6. gy <= gd + 3 * E
      <3>1. b \in Int /\ c \in Int /\ d \in Int /\ y \in Int
        BY <1>1
      <3>2. QED
        BY <1>1, <1>4, <2>4, <2>5, <3>1, LeftLoses
    <2>7. ProfitOf(route, sts, d) + 3 * E >= ProfitOf(route, sts, y)
      BY <2>2, <2>3, <2>6
    <2>8. d \in a .. d
      OBVIOUS
    <2>9. QED
      BY <2>7, <2>8
  <1>5. QED
    BY <1>1, <1>3, <1>4

\* The right part keeps it when its probe pays no less, and anything.
LEMMA RightKeeps ==
    ASSUME NEW route \in Seq(Edges), NEW sts \in Seq(ReserveChoices), Len(sts) = Len(route),
           NEW E \in Nat, RoundingLoss(route, sts) <= E,
           NEW a \in Nat, NEW b \in Nat, NEW c \in Nat, NEW d \in Nat,
           a <= c, c < d, d <= b, d - a <= 3 * (d - c),
           ~ (ProfitOf(route, sts, c) > ProfitOf(route, sts, d)),
           ~ (ProfitOf(route, sts, c) = 0 /\ ProfitOf(route, sts, d) = 0),
           NEW y \in a .. b
    PROVE  \E k \in c .. b : ProfitOf(route, sts, k) + 3 * E >= ProfitOf(route, sts, y)
  <1>1. y \in Nat /\ a <= y /\ y <= b
    OBVIOUS
  <1>2. ProfitOf(route, sts, y) \in Nat
    BY <1>1, ProfitNat
  <1>3. CASE c <= y
    <2>1. y \in c .. b
      BY <1>1, <1>3
    <2>2. ProfitOf(route, sts, y) + 3 * E >= ProfitOf(route, sts, y)
      BY <1>2
    <2>3. QED
      BY <2>1, <2>2
  <1>4. CASE y < c
    <2>1. PICK gc \in Int : /\ gc = PathOutput(route, sts, c) - c
                            /\ ProfitOf(route, sts, c) = IF gc > 0 THEN gc ELSE 0
      BY ProfitFacts
    <2>2. PICK gd \in Int : /\ gd = PathOutput(route, sts, d) - d
                            /\ ProfitOf(route, sts, d) = IF gd > 0 THEN gd ELSE 0
      BY ProfitFacts
    <2>3. PICK gy \in Int : /\ gy = PathOutput(route, sts, y) - y
                            /\ ProfitOf(route, sts, y) = IF gy > 0 THEN gy ELSE 0
      BY <1>1, ProfitFacts
    <2>4. (d - y) * (gc + E) >= (d - c) * gy + (c - y) * gd
      BY <1>1, <1>4, <2>1, <2>2, <2>3, EarningsConcave
    <2>5. gc <= gd
      BY <2>1, <2>2
    <2>6. gy <= gc + 3 * E
      <3>1. a \in Int /\ c \in Int /\ d \in Int /\ y \in Int
        BY <1>1
      <3>2. QED
        BY <1>1, <1>4, <2>4, <2>5, <3>1, RightLoses
    <2>7. ProfitOf(route, sts, c) + 3 * E >= ProfitOf(route, sts, y)
      BY <2>1, <2>3, <2>6
    <2>8. c \in c .. b
      OBVIOUS
    <2>9. QED
      BY <2>7, <2>8
  <1>5. QED
    BY <1>1, <1>3, <1>4

-----------------------------------------------------------------------------
\* No path of a task loses more than E to the floors of its hops, whatever the reserves.
RoundingsWithin(E) ==
    \A k \in Tasks : \A r \in AllRoutes[k] : \A sts \in [1 .. Len(r) -> ReserveChoices] :
        RoundingLoss(r, sts) <= E

\* The paths a task looks at are routes, and the states of one are fetched before its
\* search begins.
StatesInv ==
    /\ task \in Tasks
    /\ left \subseteq AllRoutes[task]
    /\ cur # <<>> => cur \in AllRoutes[task]
    /\ states \in Seq(ReserveChoices)
    /\ gss # None => cur # <<>> /\ Len(states) = Len(cur)

\* The probes are priced as the path stands, and the interval has lost three roundings
\* an iteration.
BestInv(E) ==
    gss # None =>
        /\ gss.fc = F(gss.c) /\ gss.fd = F(gss.d) /\ gss.blind \in BOOLEAN
        /\ gss.blind \/ \A x \in MinIn .. MaxIn : \E y \in gss.a .. gss.b :
                            F(y) + gss.iter * (3 * E) >= F(x)

-----------------------------------------------------------------------------
\* Every step keeps the path at hand a route, and its states with it.
LEMMA StatesStep ==
    ASSUME StatesInv, RoutesInv', [HuntNext]_<<pathVars, huntVars>>
    PROVE  StatesInv'
  <1>1. CASE SearchStep
    <2>1. task' = task /\ cur' = cur /\ states' = states /\ gss' = gss
          /\ (left' = paths' \/ left' = left)
      BY <1>1 DEF SearchStep, PathNext, Start, Skip, Record, Descend, Return
    <2>2. paths' \subseteq AllRoutes[task']
      BY DEF RoutesInv
    <2>3. QED
      BY <2>1, <2>2 DEF StatesInv
  <1>2. CASE PickPath
    <2>1. PICK r \in left : cur' = r /\ left' = left \ {r}
      BY <1>2 DEF PickPath
    <2>2. task' = task /\ gss' = gss /\ gss = None /\ states' = <<>>
      BY <1>2 DEF PickPath, StatesInv, pathVars
    <2>3. QED
      BY <2>1, <2>2 DEF StatesInv
  <1>3. CASE FetchState
    <2>1. task' = task /\ gss' = gss /\ left' = left
      BY <1>3 DEF FetchState, pathVars
    <2>2. gss = None
      BY <1>3 DEF FetchState, StatesInv
    <2>3. states' \in Seq(ReserveChoices) /\ (cur' = cur \/ cur' = <<>>)
      <3>1. CASE \E reserves \in ReserveChoices :
                   states' = Append(states, reserves) /\ UNCHANGED cur
        BY <3>1 DEF StatesInv
      <3>2. CASE cur' = <<>> /\ states' = <<>>
        BY <3>2
      <3>3. QED
        BY <1>3, <3>1, <3>2 DEF FetchState
    <2>4. QED
      BY <2>1, <2>2, <2>3 DEF StatesInv
  <1>4. CASE BeginSection
    <2>1. task' = task /\ left' = left /\ cur' = cur /\ states' = states
          /\ cur # <<>> /\ Len(states) = Len(cur)
      BY <1>4 DEF BeginSection, pathVars
    <2>2. QED
      BY <2>1 DEF StatesInv
  <1>5. CASE Narrow
    <2>1. task' = task /\ left' = left /\ cur' = cur /\ states' = states /\ gss # None
      BY <1>5 DEF Narrow, pathVars
    <2>2. QED
      BY <2>1 DEF StatesInv
  <1>6. CASE Report
    <2>1. task' = task /\ left' = left /\ cur' = <<>> /\ states' = <<>> /\ gss' = None
      BY <1>6 DEF Report, pathVars
    <2>2. QED
      BY <2>1 DEF StatesInv
  <1>7. CASE UNCHANGED <<pathVars, huntVars>>
    BY <1>7 DEF StatesInv, pathVars, huntVars
  <1>8. QED
    BY <1>1, <1>2, <1>3, <1>4, <1>5, <1>6, <1>7 DEF HuntNext

\* The path a search is about, as the lemmas on paths take it.
LEMMA PathAtHand ==
    ASSUME StatesInv, cur # <<>>, Len(states) = Len(cur), NEW E \in Nat, RoundingsWithin(E)
    PROVE  /\ cur \in Seq(Edges) /\ states \in Seq(ReserveChoices)
           /\ RoundingLoss(cur, states) <= E
  <1>1. task \in Tasks /\ cur \in AllRoutes[task] /\ states \in Seq(ReserveChoices)
    BY DEF StatesInv
  <1>2. cur \in Seq(Edges)
    BY <1>1, RouteShape
  <1>3. states \in [1 .. Len(cur) -> ReserveChoices]
    BY <1>1
  <1>4. QED
    BY <1>1, <1>2, <1>3 DEF RoundingsWithin

\* The first interval is the whole range.
LEMMA BeginBest ==
    ASSUME NEW E \in Nat, RoundingsWithin(E), StatesInv, BeginSection
    PROVE  BestInv(E)'
  <1> DEFINE c == MaxIn - Section(MinIn, MaxIn)
             d == MinIn + Section(MinIn, MaxIn)
  <1>1. /\ gss' = [a |-> MinIn, b |-> MaxIn, c |-> c, d |-> d, fc |-> F(c), fd |-> F(d),
                   iter |-> 0, blind |-> FALSE]
        /\ cur' = cur /\ states' = states /\ cur # <<>> /\ Len(states) = Len(cur)
    BY DEF BeginSection
  <1>2. cur \in Seq(Edges) /\ states \in Seq(ReserveChoices)
    BY <1>1, PathAtHand
  <1> HIDE DEF c, d
  <1>3. /\ gss'.a = MinIn /\ gss'.b = MaxIn /\ gss'.c = c /\ gss'.d = d
        /\ gss'.fc = F(c) /\ gss'.fd = F(d) /\ gss'.iter = 0 /\ gss'.blind = FALSE
    BY <1>1
  <1>4. \A k : F(k)' = F(k)
    BY <1>1 DEF F
  <1>5. ASSUME NEW x \in MinIn .. MaxIn
        PROVE  \E y \in MinIn .. MaxIn : F(y) + 0 * (3 * E) >= F(x)
    <2>1. x \in Nat
      BY Golden
    <2>2. F(x) \in Nat
      BY <1>1, <1>2, <2>1, ProfitNat DEF F
    <2>3. F(x) + 0 * (3 * E) >= F(x)
      BY <2>2
    <2>4. QED
      BY <2>3
  <1>6. QED
    BY <1>3, <1>4, <1>5 DEF BestInv

\* What an iteration keeps of the best input.
LEMMA NarrowLoses ==
    ASSUME NEW E \in Nat, NEW n \in Nat, NEW f, NEW X, NEW S, NEW T,
           \A k \in S \cup T \cup X : f[k] \in Nat,
           \A x \in X : \E y \in S : f[y] + n * (3 * E) >= f[x],
           \A y \in S : \E k \in T : f[k] + 3 * E >= f[y]
    PROVE  \A x \in X : \E k \in T : f[k] + (n + 1) * (3 * E) >= f[x]
  <1> SUFFICES ASSUME NEW x \in X
               PROVE  \E k \in T : f[k] + (n + 1) * (3 * E) >= f[x]
    OBVIOUS
  <1>1. PICK y \in S : f[y] + n * (3 * E) >= f[x]
    OBVIOUS
  <1>2. PICK k \in T : f[k] + 3 * E >= f[y]
    OBVIOUS
  <1>3. f[x] \in Nat /\ f[y] \in Nat /\ f[k] \in Nat
    OBVIOUS
  <1>4. (n + 1) * (3 * E) = n * (3 * E) + 3 * E /\ n * (3 * E) \in Int
    OBVIOUS
  <1>5. QED
    BY <1>1, <1>2, <1>3, <1>4

\* An iteration gives up three roundings.
LEMMA NarrowBest ==
    ASSUME NEW E \in Nat, RoundingsWithin(E), Steady, Spread,
           StatesInv, ProbesInv, BestInv(E), Narrow
    PROVE  BestInv(E)'
  <1>1. /\ gss # None /\ gss.iter < MaxIter /\ gss.b - gss.a >= Tolerance
        /\ cur' = cur /\ states' = states
    BY DEF Narrow, GoesOn
  <1>2. PICK a \in Int, b \in Int, c \in Int, d \in Int, n \in Nat :
          /\ a = gss.a /\ b = gss.b /\ c = gss.c /\ d = gss.d /\ n = gss.iter
          /\ GoodProbes(a, b, c, d, n) /\ n <= MaxIter
    BY <1>1, Golden DEF ProbesInv
  <1>3. a \in Nat /\ b \in Nat /\ c \in Nat /\ d \in Nat /\ a <= c /\ d <= b /\ b <= MaxIn
        /\ c < d /\ b - c <= 3 * (d - c) /\ d - a <= 3 * (d - c)
    <2>1. MinIn <= a /\ a <= c /\ c <= d /\ d <= b /\ b <= MaxIn
      BY <1>2, ProbesInOrder DEF GoodProbes
    <2>2. c < d /\ b - c <= 3 * (d - c) /\ d - a <= 3 * (d - c)
      BY <1>1, <1>2, ProbesApart
    <2>3. QED
      BY <2>1, <2>2, Golden
  <1>4. cur # <<>> /\ Len(states) = Len(cur)
    BY <1>1 DEF StatesInv
  <1>5. cur \in Seq(Edges) /\ states \in Seq(ReserveChoices) /\ RoundingLoss(cur, states) <= E
    BY <1>4, PathAtHand
  <1>6. DOMAIN gss = {"a", "b", "c", "d", "fc", "fd", "iter", "blind"}
    BY <1>1 DEF ProbesInv
  <1>7. gss.fc = F(c) /\ gss.fd = F(d) /\ gss.blind \in BOOLEAN
    BY <1>1, <1>2 DEF BestInv
  <1>8. \A k : F(k)' = F(k)
    BY <1>1 DEF F
  <1> DEFINE f == [k \in Nat |-> F(k)]
  <1>9. \A k \in Nat : f[k] = ProfitOf(cur, states, k) /\ f[k] \in Nat /\ f[k] = F(k)
    BY <1>4, <1>5, ProfitNat DEF F
  <1>10. gss.blind \/ \A x \in MinIn .. MaxIn : \E y \in a .. b : f[y] + n * (3 * E) >= f[x]
    <2>1. \A x \in MinIn .. MaxIn : x \in Nat
      BY Golden
    <2>2. \A y \in a .. b : y \in Nat
      BY <1>3
    <2>3. gss.blind \/ \A x \in MinIn .. MaxIn : \E y \in a .. b : F(y) + n * (3 * E) >= F(x)
      BY <1>1, <1>2 DEF BestInv
    <2>4. QED
      BY <1>9, <2>1, <2>2, <2>3
  <1> HIDE DEF f
  <1>11. CASE gss.fc > gss.fd
    <2> DEFINE e == d - Section(a, d)
    <2>1. gss' = [gss EXCEPT !.b = d, !.d = c, !.fd = gss.fc, !.c = e, !.fc = F(e),
                             !.iter = @ + 1]
      BY <1>2, <1>11 DEF Narrow
    <2> HIDE DEF e
    <2>2. /\ gss'.a = a /\ gss'.b = d /\ gss'.c = e /\ gss'.d = c /\ gss'.iter = n + 1
          /\ gss'.fc = F(e) /\ gss'.fd = F(c) /\ gss'.blind = gss.blind
      BY <1>2, <1>6, <1>7, <2>1
    <2>3. ProfitOf(cur, states, c) > ProfitOf(cur, states, d)
      BY <1>7, <1>11 DEF F
    <2>4. ASSUME NEW y \in a .. b
          PROVE  \E k \in a .. d : f[k] + 3 * E >= f[y]
      <3>1. PICK k \in a .. d : ProfitOf(cur, states, k) + 3 * E >= ProfitOf(cur, states, y)
        BY <1>3, <1>4, <1>5, <2>3, LeftKeeps
      <3>2. k \in Nat /\ y \in Nat
        BY <1>3
      <3>3. QED
        BY <1>9, <3>1, <3>2
    <2>5. gss.blind \/ \A x \in MinIn .. MaxIn : \E k \in a .. d :
                          f[k] + (n + 1) * (3 * E) >= f[x]
      <3>1. \A k \in (a .. b) \cup (a .. d) \cup (MinIn .. MaxIn) : f[k] \in Nat
        BY <1>3, <1>9, Golden
      <3>2. QED
        BY <1>10, <2>4, <3>1, NarrowLoses
    <2>6. gss.blind \/ \A x \in MinIn .. MaxIn : \E k \in a .. d :
                          F(k) + (n + 1) * (3 * E) >= F(x)
      <3>1. (\A x \in MinIn .. MaxIn : x \in Nat) /\ \A k \in a .. d : k \in Nat
        BY <1>3, Golden
      <3>2. QED
        BY <1>9, <2>5, <3>1
    <2>7. QED
      BY <1>7, <1>8, <2>2, <2>6 DEF BestInv
  <1>12. CASE ~ (gss.fc > gss.fd)
    <2> DEFINE e == c + Section(c, b)
               blind == gss.blind \/ (gss.fc = 0 /\ gss.fd = 0)
    <2>1. gss' = [gss EXCEPT !.a = c, !.c = d, !.fc = gss.fd, !.d = e, !.fd = F(e),
                             !.iter = @ + 1, !.blind = blind]
      BY <1>2, <1>12 DEF Narrow
    <2>2. blind \in BOOLEAN /\ (~ blind => ~ gss.blind /\ ~ (gss.fc = 0 /\ gss.fd = 0))
      BY <1>7
    <2> HIDE DEF e, blind
    <2>3. /\ gss'.a = c /\ gss'.b = b /\ gss'.c = d /\ gss'.d = e /\ gss'.iter = n + 1
          /\ gss'.fc = F(d) /\ gss'.fd = F(e) /\ gss'.blind = blind
      BY <1>2, <1>6, <1>7, <2>1
    <2>4. ASSUME ~ blind, NEW y \in a .. b
          PROVE  \E k \in c .. b : f[k] + 3 * E >= f[y]
      <3>1. ~ (ProfitOf(cur, states, c) > ProfitOf(cur, states, d))
            /\ ~ (ProfitOf(cur, states, c) = 0 /\ ProfitOf(cur, states, d) = 0)
        BY <1>7, <1>12, <2>2, <2>4 DEF F
      <3>2. PICK k \in c .. b : ProfitOf(cur, states, k) + 3 * E >= ProfitOf(cur, states, y)
        BY <1>3, <1>4, <1>5, <3>1, RightKeeps
      <3>3. k \in Nat /\ y \in Nat
        BY <1>3
      <3>4. QED
        BY <1>9, <3>2, <3>3
    <2>5. ASSUME ~ blind
          PROVE  \A x \in MinIn .. MaxIn : \E k \in c .. b : f[k] + (n + 1) * (3 * E) >= f[x]
      <3>1. \A k \in (a .. b) \cup (c .. b) \cup (MinIn .. MaxIn) : f[k] \in Nat
        BY <1>3, <1>9, Golden
      <3>2. \A x \in MinIn .. MaxIn : \E y \in a .. b : f[y] + n * (3 * E) >= f[x]
        BY <1>10, <2>2, <2>5
      <3>3. QED
        BY <2>4, <2>5, <3>1, <3>2, NarrowLoses
    <2>6. blind \/ \A x \in MinIn .. MaxIn : \E k \in c .. b :
                      F(k) + (n + 1) * (3 * E) >= F(x)
      <3>1. (\A x \in MinIn .. MaxIn : x \in Nat) /\ \A k \in c .. b : k \in Nat
        BY <1>3, Golden
      <3>2. QED
        BY <1>9, <2>5, <3>1
    <2>7. QED
      BY <1>8, <2>2, <2>3, <2>6 DEF BestInv
  <1>13. QED
    BY <1>11, <1>12

\* No other step touches the interval.
LEMMA BestStep ==
    ASSUME NEW E \in Nat, RoundingsWithin(E), Steady, Spread,
           StatesInv, ProbesInv, BestInv(E), [HuntNext]_<<pathVars, huntVars>>
    PROVE  BestInv(E)'
  <1>1. CASE BeginSection
    BY <1>1, BeginBest
  <1>2. CASE Narrow
    BY <1>2, NarrowBest
  <1>3. CASE Report
    BY <1>3 DEF Report, BestInv
  <1>4. CASE PickPath \/ FetchState
    <2>1. gss' = gss /\ gss = None
      BY <1>4 DEF PickPath, FetchState, StatesInv
    <2>2. QED
      BY <2>1 DEF BestInv
  <1>5. CASE SearchStep \/ UNCHANGED <<pathVars, huntVars>>
    <2>1. gss' = gss /\ cur' = cur /\ states' = states
      BY <1>5 DEF SearchStep, huntVars
    <2>2. QED
      BY <2>1 DEF BestInv, F
  <1>6. QED
    BY <1>1, <1>2, <1>3, <1>4, <1>5 DEF HuntNext

\* find_optimal_input gives up no more than three roundings of its path an iteration: when
\* it ends without having compared two losses, its interval holds an input that earns, up
\* to that, as much as any of the range.
THEOREM BestIsKept ==
    ASSUME NEW E \in Nat, RoundingsWithin(E), Steady, Spread, MaxIter * (3 * E) <= Slack
    PROVE  HuntSpec => []IntervalKeepsBest
  <1>1. HuntInit => PathInit /\ StatesInv /\ ProbesInv /\ BestInv(E)
    BY DEF HuntInit, PathInit, StatesInv, ProbesInv, BestInv
  <1>2. StatesInv /\ ProbesInv /\ BestInv(E) => IntervalKeepsBest
    <2> SUFFICES ASSUME StatesInv, ProbesInv, BestInv(E), gss # None, ~ gss.blind,
                        NEW x \in MinIn .. MaxIn
                 PROVE  \E y \in gss.a .. gss.b : F(y) + Slack >= F(x)
      BY DEF IntervalKeepsBest
    <2>1. PICK y \in gss.a .. gss.b : F(y) + gss.iter * (3 * E) >= F(x)
      BY DEF BestInv
    <2>2. gss.iter \in Nat /\ gss.iter <= MaxIter /\ gss.a \in Nat /\ x \in Nat
      BY Golden DEF ProbesInv, GoodProbes
    <2>3. y \in Nat
      BY <2>2 DEF ProbesInv
    <2>4. F(x) \in Nat /\ F(y) \in Nat
      BY <2>2, <2>3, PathAtHand, ProfitNat DEF F, StatesInv
    <2>5. gss.iter * (3 * E) <= MaxIter * (3 * E) /\ gss.iter * (3 * E) \in Int
          /\ MaxIter * (3 * E) \in Int /\ Slack \in Nat
      BY <2>2, Golden, HuntAssumption, ProductUp
    <2>6. F(y) + Slack >= F(x)
      BY <2>1, <2>4, <2>5
    <2>7. QED
      BY <2>6
  <1>3. HuntSpec => []PathInv
    BY <1>1, PathInitInv, PathStepInv, HuntSearches, PTL DEF HuntSpec
  <1>4. HuntSpec => []RoutesInv
    BY <1>1, <1>3, PathInitRoutes, RoutesStep, HuntSearches, PTL DEF HuntSpec
  <1>5. StatesInv /\ RoutesInv' /\ [HuntNext]_<<pathVars, huntVars>> => StatesInv'
    BY StatesStep
  <1>6. StatesInv /\ ProbesInv /\ BestInv(E) /\ [HuntNext]_<<pathVars, huntVars>> => BestInv(E)'
    BY BestStep
  <1>7. QED
    BY <1>1, <1>2, <1>4, <1>5, <1>6, HuntProbes, PTL DEF HuntSpec

-----------------------------------------------------------------------------
(* The code's constants.                                                   *)

\* The constants of find_optimal_input and of its caller: 10^15 and 100 * 10^18 wei,
\* a tolerance of 10^11.
CodeConstants ==
    /\ PhiNum = 618033988749895 /\ PhiDen = 1000000000000000
    /\ MinIn = PhiDen /\ MaxIn = 100000 * PhiDen
    /\ Tolerance = 100000000000
    /\ MaxIter = 40

\* PHI_NUM / PHI_DEN is nearly the golden ratio (its digits are split, for the products
\* are longer than the machine words some provers work in).
LEMMA GapIsSmall ==
    ASSUME CodeConstants
    PROVE  0 <= Gap /\ 100 * Gap <= 34 * PhiDen
  <1> DEFINE Rest(p, q, m, B) == ((p * p + p * m - m * m) * B + 2 * (p * q) + q * m) * B + q * q
  <1>1. \E p, q, m, B \in Int :
           /\ PhiNum = p * B + q /\ PhiDen = m * B
           /\ 0 <= Rest(p, q, m, B) /\ 100 * Rest(p, q, m, B) <= 34 * PhiDen
    <2>1. PhiNum = 6180339 * 100000000 + 88749895 /\ PhiDen = 10000000 * 100000000
      BY SMT DEF CodeConstants
    <2>2. /\ 0 <= Rest(6180339, 88749895, 10000000, 100000000)
          /\ 100 * Rest(6180339, 88749895, 10000000, 100000000) <= 34 * PhiDen
      BY SMT DEF CodeConstants
    <2>3. QED
      BY <2>1, <2>2, SMT
  <1>2. PICK p \in Int, q \in Int, m \in Int, B \in Int :
           /\ PhiNum = p * B + q /\ PhiDen = m * B
           /\ 0 <= Rest(p, q, m, B) /\ 100 * Rest(p, q, m, B) <= 34 * PhiDen
    BY <1>1, SMT
  <1>3. Gap = Rest(p, q, m, B)
    BY <1>2, SMT DEF Gap
  <1>4. QED
    BY <1>2, <1>3, SMT

\* What the code's constants come to.
LEMMA CodeSizes ==
    ASSUME CodeConstants
    PROVE  /\ PhiDen * PhiDen \in Int /\ PhiDen * PhiDen > 0
           /\ PhiDen * (PhiDen * PhiDen) \in Int /\ PhiDen * (PhiDen * PhiDen) > 0
           /\ Shortest >= 50000000000 * (PhiDen * PhiDen)
           /\ PhiDen * Worst \in Int
           /\ PhiDen * Worst <= 1394041 * (PhiDen * (PhiDen * PhiDen))
  <1> DEFINE sq == PhiDen * PhiDen
  <1>1. 10 * PhiNum >= 6 * PhiDen
    BY SMT DEF CodeConstants
  <1>2. Span = 99999 * PhiDen /\ Span >= Tolerance /\ MaxIter = 40
    BY Golden, SMT DEF CodeConstants, Span
  <1>3. Tolerance = 100000000000
    BY SMT DEF CodeConstants
  <1>4. sq \in Int /\ sq > 0
    BY DriftFacts, SMT
  <1>5. Drift <= 34001 * sq
    <2>1. Drift = sq + 99999 * (Gap * PhiDen)
      BY <1>2, GapIsSmall, Golden, SMT DEF Drift, Size
    <2>2. (100 * Gap) * PhiDen <= (34 * PhiDen) * PhiDen
      BY Golden, GapIsSmall, ProductUp, SMT
    <2>3. (100 * Gap) * PhiDen = 100 * (Gap * PhiDen) /\ (34 * PhiDen) * PhiDen = 34 * sq
          /\ Gap * PhiDen \in Int
      BY Golden, SMT
    <2> HIDE DEF sq
    <2>4. QED
      BY <2>1, <2>2, <2>3, <1>4, SMT
  <1>6. Worst <= 1394041 * sq
    <2>1. Worst = 41 * Drift
      BY <1>2, SMT DEF Worst
    <2> HIDE DEF sq
    <2>2. QED
      BY <2>1, <1>4, <1>5, DriftFacts, SMT
  <1>7. Shortest >= 50000000000 * sq
    <2>1. PhiDen * (6 * PhiDen) <= PhiDen * (10 * PhiNum)
      BY <1>1, Golden, ProductUp, SMT
    <2>2. PhiDen * (6 * PhiDen) = 6 * sq /\ PhiDen * (10 * PhiNum) = 10 * (PhiDen * PhiNum)
          /\ PhiDen * PhiNum \in Int
      BY Golden, SMT
    <2>3. Shortest = 100000000000 * (PhiDen * PhiNum) - Worst
      BY <1>3, Golden, DriftFacts, SMT DEF Shortest
    <2> HIDE DEF sq
    <2>4. QED
      BY <2>1, <2>2, <2>3, <1>4, <1>6, DriftFacts, SMT
  <1>8. PhiDen * Worst <= 1394041 * (PhiDen * sq) /\ PhiDen * sq \in Int /\ PhiDen * sq > 0
        /\ PhiDen * Worst \in Int
    <2>1. PhiDen * Worst <= PhiDen * (1394041 * sq) /\ 1 * sq <= PhiDen * sq
      BY <1>4, <1>6, Golden, DriftFacts, ProductUp, SMT
    <2>2. PhiDen * (1394041 * sq) = 1394041 * (PhiDen * sq) /\ PhiDen * sq \in Int
          /\ PhiDen * Worst \in Int
      BY <1>4, Golden, DriftFacts, SMT
    <2>3. QED
      BY <2>1, <2>2, <1>4, SMT
  <1>9. QED
    BY <1>4, <1>7, <1>8, SMT

\* A share of the interval that is 9 parts in 100 or more leaves room for 5 times the
\* worst drift, and more.
LEMMA CodeShare ==
    ASSUME CodeConstants, NEW k \in Int, k >= 0, 100 * k >= 9 * PhiDen
    PROVE  k * Shortest \in Int /\ k * Shortest >= 5 * (PhiDen * Worst)
  <1>1. PICK sq \in Int : sq = PhiDen * PhiDen /\ sq > 0
    BY CodeSizes
  <1>2. /\ PhiDen * sq \in Int /\ PhiDen * sq > 0
        /\ Shortest >= 50000000000 * sq
        /\ PhiDen * Worst \in Int /\ PhiDen * Worst <= 1394041 * (PhiDen * sq)
    BY <1>1, CodeSizes, SMT
  <1>3. k * (50000000000 * sq) <= k * Shortest
    BY <1>1, <1>2, DriftFacts, ProductUp, SMT
  <1>4. (9 * PhiDen) * sq <= (100 * k) * sq
    BY <1>1, Golden, ProductUp, SMT
  <1>5. k * (50000000000 * sq) = 50000000000 * (k * sq) /\ (100 * k) * sq = 100 * (k * sq)
        /\ (9 * PhiDen) * sq = 9 * (PhiDen * sq) /\ k * sq \in Int /\ k * Shortest \in Int
    BY <1>1, Golden, DriftFacts, SMT
  <1>6. QED
    BY <1>2, <1>3, <1>4, <1>5, SMT

\* With its constants the code's search is steady, and leaves its probes apart.
THEOREM CodeIsSteady ==
    ASSUME CodeConstants
    PROVE  Steady /\ Spread
  <1>1. /\ 100 * (PhiDen - PhiNum) >= 9 * PhiDen /\ 100 * (2 * PhiNum - PhiDen) >= 9 * PhiDen
        /\ 100 * (5 * PhiNum - 3 * PhiDen) >= 9 * PhiDen /\ Tolerance > 0
    BY SMT DEF CodeConstants
  <1>2. Span = 99999 * PhiDen /\ Span >= Tolerance
    BY Golden, SMT DEF CodeConstants, Span
  <1>3. PICK k \in Int, m \in Int, p \in Int :
           /\ k = PhiDen - PhiNum /\ m = 2 * PhiNum - PhiDen /\ p = 5 * PhiNum - 3 * PhiDen
           /\ k >= 0 /\ m >= 0 /\ p >= 0
    BY <1>1, Golden
  <1>4. /\ k * Shortest >= 5 * (PhiDen * Worst) /\ m * Shortest >= 5 * (PhiDen * Worst)
        /\ p * Shortest >= 5 * (PhiDen * Worst)
    BY <1>1, <1>3, CodeShare
  <1>5. /\ k * Shortest \in Int /\ m * Shortest \in Int /\ p * Shortest \in Int
        /\ PhiDen * Worst \in Int /\ PhiDen * Worst > 0
        /\ 2 * PhiDen * Worst = 2 * (PhiDen * Worst) /\ 5 * PhiDen * Worst = 5 * (PhiDen * Worst)
    BY Golden, DriftFacts, ProductSign
  <1>6. 2 * PhiNum >= PhiDen /\ 5 * PhiNum >= 3 * PhiDen
    BY <1>3, Golden
  <1>7. QED
    BY <1>1, <1>2, <1>3, <1>4, <1>5, <1>6 DEF Steady, Spread

\* So the probes of the code's search stay in order.
COROLLARY CodeProbesOrdered ==
    ASSUME CodeConstants
    PROVE  HuntSpec => []ProbesOrdered
  BY CodeIsSteady, ProbesStayOrdered

\* So the code's search gives up no more than 120 roundings of its path.
COROLLARY CodeBestIsKept ==
    ASSUME CodeConstants, NEW E \in Nat, RoundingsWithin(E), 120 * E <= Slack
    PROVE  HuntSpec => []IntervalKeepsBest
  <1>1. MaxIter * (3 * E) <= Slack
    BY SMT DEF CodeConstants
  <1>2. QED
    BY <1>1, CodeIsSteady, BestIsKept

=============================================================================
