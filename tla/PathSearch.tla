----------------------------- MODULE PathSearch -----------------------------
(***************************************************************************)
(* One search task of the detector: process_event spawns one per direction *)
(* of the trigger pool and per edge that leaves the token it searches from *)
(* (arbitrage_detector.rs).  find_cycles_dfs recurses over one shared list *)
(* of hops and one shared bitmap of visited pools; here the recursion is a *)
(* stack of frames, each with the edges its loop has not tried yet.        *)
(***************************************************************************)
EXTENDS Integers, Sequences, FiniteSets

CONSTANTS
    Tokens,
    Pools,
    EndsOf,      \* pool -> <<token0, token1>>, the registry
    GraphPools,  \* the pools rebuild_graph kept
    Triggers,    \* pools that events are about
    MaxHops      \* config.max_path_length

ASSUME PathAssumption ==
    /\ GraphPools \subseteq Pools /\ Triggers \subseteq Pools
    /\ EndsOf \in [Pools -> Tokens \X Tokens]
    /\ MaxHops \in Nat \ {0}

VARIABLES
    task,      \* what the closure of the task captured
    pc,        \* "start", "dfs" or "end"
    hops,      \* current_hops
    visited,   \* visited_pools
    frames,    \* the active calls: their edges still to try
    paths      \* results

pathVars == <<task, pc, hops, visited, frames, paths>>

\* rebuild_graph: an edge for each direction of a pool.
Edge(p, i) == [pool |-> p, from |-> EndsOf[p][i], to |-> EndsOf[p][3 - i]]

Edges == {Edge(p, i) : p \in GraphPools, i \in 1 .. 2}

EdgesFrom(t) == {e \in Edges : e.from = t}

\* search_directions and the edges of the current token: the search goes from the
\* token the trigger sold to the token it bought, or the other way; neither is
\* searched when it has no edge.  The trigger itself may be the first hop.
Tasks ==
    {k \in [trigger : Triggers, first : Edges, target : Tokens] :
        \E i \in 1 .. 2 : /\ k.target = EndsOf[k.trigger][i]
                          /\ k.first.from = EndsOf[k.trigger][3 - i]
                          /\ EdgesFrom(k.target) # {}}

PathInit ==
    /\ task \in Tasks
    /\ pc = "start" /\ hops = <<>> /\ visited = {} /\ frames = <<>> /\ paths = {}

\* Mutants: the last hop allowed is never tried; no hop is ever the last.
CallShort(h) == IF Len(h) + 1 >= MaxHops THEN {} ELSE EdgesFrom(h[Len(h)].to)
CallUncapped(h) == EdgesFrom(h[Len(h)].to)

\* find_cycles_dfs entered with hops h: past max_depth it returns at once.
Call(h) == IF Len(h) + 1 > MaxHops THEN {} ELSE EdgesFrom(h[Len(h)].to)

\* The first hop is taken without a look at the bitmap.
Start ==
    /\ pc = "start"
    /\ hops' = <<task.first>>
    /\ visited' = ({task.trigger} \cap GraphPools) \cup {task.first.pool}
    /\ IF task.first.to = task.target
       THEN pc' = "end" /\ paths' = {<<task.first>>} /\ UNCHANGED frames
       ELSE pc' = "dfs" /\ frames' = <<Call(hops')>> /\ UNCHANGED paths
    /\ UNCHANGED task

Top == frames[Len(frames)]

Tried(e) == [frames EXCEPT ![Len(frames)] = @ \ {e}]

Skip(e) ==
    /\ pc = "dfs" /\ e \in Top /\ e.pool \in visited
    /\ frames' = Tried(e)
    /\ UNCHANGED <<task, pc, hops, visited, paths>>

\* The hop is pushed, the path recorded, and the hop popped.
Record(e) ==
    /\ pc = "dfs" /\ e \in Top /\ e.pool \notin visited /\ e.to = task.target
    /\ paths' = paths \cup {Append(hops, e)}
    /\ frames' = Tried(e)
    /\ UNCHANGED <<task, pc, hops, visited>>

\* Mutant: the edge is left among those still to try.
DescendAgain(e) ==
    /\ pc = "dfs" /\ e \in Top /\ e.pool \notin visited /\ e.to # task.target
    /\ hops' = Append(hops, e)
    /\ visited' = visited \cup {e.pool}
    /\ frames' = Append(frames, Call(hops'))
    /\ UNCHANGED <<task, pc, paths>>

Descend(e) ==
    /\ pc = "dfs" /\ e \in Top /\ e.pool \notin visited /\ e.to # task.target
    /\ hops' = Append(hops, e)
    /\ visited' = visited \cup {e.pool}
    /\ frames' = Append(Tried(e), Call(hops'))
    /\ UNCHANGED <<task, pc, paths>>

\* Mutant: the hop is popped and its bit stays.
ReturnMarked ==
    /\ pc = "dfs" /\ Top = {}
    /\ frames' = SubSeq(frames, 1, Len(frames) - 1)
    /\ IF Len(frames) = 1
       THEN pc' = "end" /\ UNCHANGED hops
       ELSE hops' = SubSeq(hops, 1, Len(hops) - 1) /\ UNCHANGED pc
    /\ UNCHANGED <<task, visited, paths>>

\* The caller clears the bit and pops the hop, but not of the first one.
Return ==
    /\ pc = "dfs" /\ Top = {}
    /\ frames' = SubSeq(frames, 1, Len(frames) - 1)
    /\ IF Len(frames) = 1
       THEN pc' = "end" /\ UNCHANGED <<hops, visited>>
       ELSE /\ hops' = SubSeq(hops, 1, Len(hops) - 1)
            /\ visited' = visited \ {hops[Len(hops)].pool}
            /\ UNCHANGED pc
    /\ UNCHANGED <<task, paths>>

PathNext ==
    \/ Start
    \/ \E e \in Edges : Skip(e) \/ Record(e) \/ Descend(e)
    \/ Return

PathSpec == PathInit /\ [][PathNext]_pathVars /\ WF_pathVars(PathNext)

-----------------------------------------------------------------------------
(* Properties.                                                             *)

\* A route of a task leaves by its first edge and goes on through pools of the
\* graph, each used once and none of them the trigger, to the first arrival at the
\* target, within the hops allowed.
IsRoute(k, r) ==
    /\ Len(r) \in 1 .. MaxHops
    /\ r[1] = k.first
    /\ \A i \in 1 .. Len(r) : r[i] \in Edges
    /\ \A i \in 2 .. Len(r) : r[i].from = r[i - 1].to /\ r[i].pool # k.trigger
    /\ \A i, j \in 1 .. Len(r) : r[i].pool = r[j].pool => i = j
    /\ \A i \in 1 .. Len(r) : (r[i].to = k.target) = (i = Len(r))

\* Every recorded path is a route of the task.
PathsAreRoutes == \A r \in paths : IsRoute(task, r)

\* The bitmap is shared by the whole recursion and must be as it was when a call
\* returns: it marks the trigger and the hops of the current path, no more.
BitmapTracksHops ==
    pc = "dfs" =>
        visited = ({task.trigger} \cap GraphPools) \cup {hops[i].pool : i \in DOMAIN hops}

\* What a search can try: sequences of hops within the depth.
Walks == UNION {[1 .. n -> Edges] : n \in 1 .. MaxHops}

AllRoutes == [k \in Tasks |-> {r \in Walks : IsRoute(k, r)}]

Enum == INSTANCE RouteEnum WITH
    RoutesOf <- AllRoutes,
    found    <- paths,
    ended    <- pc = "end"

\* The search enumerates the routes of its task: it finds them one at a time,
\* nothing else, and does not end before it has them all; no branch hides a pool
\* from a later one.
FindsAllRoutes == Enum!EnumSpec

\* r goes on from the first i hops of the current path.
Follows(r, i) == Len(r) > i /\ \A j \in 1 .. i : r[j] = hops[j]

\* A sequence is still to come when a call on the stack has its next edge to try.
StillToCome(r) == \E i \in 1 .. Len(frames) : Follows(r, i) /\ r[i + 1] \in frames[i]

Pending == {r \in Walks : StillToCome(r)}

\* A step of the recursion that pushes and pops hops makes progress that no later step undoes:
\* it strikes a sequence off those still to come and brings none back, or it
\* returns from a call and leaves them as they were.  A call that tried an edge
\* again would find every route all the same, and not end.
SearchAdvances ==
    [][pc = "dfs" =>
         \/ Pending' \subseteq Pending /\ Pending' # Pending
         \/ Pending' = Pending /\ Len(frames') < Len(frames)]_pathVars

\* ... and it ends: no call starts over with the edges it has tried.
SearchEnds == <>(pc = "end")

=============================================================================
