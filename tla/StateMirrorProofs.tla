-------------------------- MODULE StateMirrorProofs --------------------------
(***************************************************************************)
(* Proofs about the mirror, for any set of pools, chunk size and number of *)
(* swaps, lost connections and crashes: that an entry is never made up,    *)
(* and that its lag has one of two reasons.                                *)
(***************************************************************************)
EXTENDS StateMirror, FiniteSetTheorems, TLAPS

-----------------------------------------------------------------------------
(* FlattenSeq is a recursive function, and a recursive function has the    *)
(* values of its equation only where one exists that satisfies it.  Both   *)
(* this and the inductions on its argument go by the least counterexample. *)

\* What the library says of a well-founded relation, for a set of numbers.
LEMMA Minimal ==
    ASSUME NEW R, IsWellFoundedOn(R, Nat), NEW T, T \subseteq Nat, T # {}
    PROVE  \E m \in T : \A k \in T : ~ (<<k, m>> \in R)
  BY WFMin, Zenon

\* A relation that is well founded and orders the numbers finds the least of a set.
LEMMA LeastOf ==
    ASSUME NEW R, IsWellFoundedOn(R, Nat), \A k, m \in Nat : k < m => <<k, m>> \in R,
           NEW T, T \subseteq Nat, T # {}
    PROVE  \E m \in T : \A k \in T : m <= k
<1>1. PICK m \in T : \A k \in T : ~ (<<k, m>> \in R)
  BY Minimal, Zenon
<1>2. \A k \in T : ~ (k < m) /\ k \in Nat /\ m \in Nat
  BY <1>1
<1>3. \A k \in T : m <= k
  BY <1>2
<1>4. QED
  BY <1>3

LEMMA LeastNat ==
    ASSUME NEW T, T \subseteq Nat, T # {}
    PROVE  \E m \in T : \A k \in T : m <= k
<1>1. PICK R : R = OpToRel(<, Nat)
  OBVIOUS
<1>2. IsWellFoundedOn(R, Nat)
  BY <1>1, NatLessThanWellFounded
<1>3. \A k, m \in Nat : k < m => <<k, m>> \in R
  BY <1>1 DEF OpToRel
<1>4. QED
  BY <1>2, <1>3, LeastOf, Zenon

\* f concatenates longer and longer prefixes of the first n members of s.
Joins(s, n, f) == f = [i \in 1 .. n |-> IF i = 1 THEN s[i] ELSE f[i - 1] \o s[i]]

LEMMA JoinsExists ==
    ASSUME NEW s, NEW n \in Nat
    PROVE  \E f : Joins(s, n, f)
<1> DEFINE T == {m \in 0 .. n : ~ \E f : Joins(s, m, f)}
<1>1. SUFFICES ASSUME T # {} PROVE FALSE
  OBVIOUS
<1>2. PICK m \in T : \A k \in T : m <= k
  <2>1. T \subseteq Nat
    OBVIOUS
  <2>2. QED
    BY <1>1, <2>1, LeastNat, Zenon
<1>3. m # 0
  <2> DEFINE e == [i \in 1 .. 0 |-> i]
  <2>1. Joins(s, 0, e)
    BY DEF Joins
  <2>2. QED
    BY <2>1
<1>4. m - 1 \in 0 .. n /\ m - 1 \notin T /\ m \in 1 .. n
  BY <1>2, <1>3
<1>5. PICK f : Joins(s, m - 1, f)
  BY <1>4
<1> DEFINE g == [i \in 1 .. m |-> IF i < m THEN f[i]
                                  ELSE IF m = 1 THEN s[m] ELSE f[m - 1] \o s[m]]
<1>6. \A i \in 1 .. m : g[i] = IF i = 1 THEN s[i] ELSE g[i - 1] \o s[i]
  <2>1. \A i \in 1 .. m - 1 : f[i] = IF i = 1 THEN s[i] ELSE f[i - 1] \o s[i]
    BY <1>5, <1>4 DEF Joins
  <2>2. \A i \in 1 .. m : i < m => i \in 1 .. m - 1 /\ (i # 1 => i - 1 \in 1 .. m /\ i - 1 < m)
    BY <1>4
  <2>3. m # 1 => m - 1 \in 1 .. m /\ m - 1 < m
    BY <1>4
  <2>4. QED
    BY <2>1, <2>2, <2>3, <1>4
<1>7. Joins(s, m, g)
  BY <1>6 DEF Joins
<1>8. QED
  BY <1>2, <1>7

\* The length of what comes before the i-th member.
Before(f, i) == IF i = 1 THEN 0 ELSE Len(f[i - 1])

LEMMA JoinsSteps ==
    ASSUME NEW s, NEW n \in Nat, NEW f, Joins(s, n, f), NEW i \in 1 .. n
    PROVE  f[i] = IF i = 1 THEN s[i] ELSE f[i - 1] \o s[i]
  BY Zenon DEF Joins

\* Past the first member f goes on from the one before.
LEMMA JoinsNext ==
    ASSUME NEW s, NEW n \in Nat, NEW f, Joins(s, n, f), NEW i \in 1 .. n, i # 1
    PROVE  f[i] = f[i - 1] \o s[i]
<1>1. f[i] = IF i = 1 THEN s[i] ELSE f[i - 1] \o s[i]
  BY Zenon DEF Joins
<1>2. QED
  BY <1>1, Zenon

LEMMA ConcatAt ==
    ASSUME NEW S, NEW a \in Seq(S), NEW b \in Seq(S), NEW c, c = a \o b
    PROVE  /\ Len(a) \in Nat /\ Len(b) \in Nat /\ Len(c) \in Nat
           /\ \A k \in 1 .. Len(a) : k \in 1 .. Len(c) /\ c[k] = a[k]
           /\ \A k \in 1 .. Len(b) : Len(a) + k \in 1 .. Len(c) /\ c[Len(a) + k] = b[k]
<1>1. c \in Seq(S) /\ Len(c) = Len(a) + Len(b) /\ Len(a) \in Nat /\ Len(b) \in Nat
  OBVIOUS
<1>2. /\ \A k \in 1 .. Len(a) : c[k] = a[k]
      /\ \A k \in 1 .. Len(b) : c[Len(a) + k] = b[k]
  OBVIOUS
<1>3. QED
  BY <1>1, <1>2

LEMMA JoinsType ==
    ASSUME NEW S, NEW s, NEW n \in Nat, \A i \in 1 .. n : s[i] \in Seq(S),
           NEW f, Joins(s, n, f)
    PROVE  \A i \in 1 .. n : f[i] \in Seq(S)
<1> DEFINE T == {m \in 1 .. n : f[m] \notin Seq(S)}
<1>1. SUFFICES ASSUME T # {} PROVE FALSE
  OBVIOUS
<1>2. PICK m \in T : \A k \in T : m <= k
  <2>1. T \subseteq Nat
    OBVIOUS
  <2>2. QED
    BY <1>1, <2>1, LeastNat, Zenon
<1>3. CASE m = 1
  BY <1>3, JoinsSteps
<1>4. CASE m # 1
  <2>1. m - 1 \in 1 .. n /\ m - 1 \notin T
    BY <1>2, <1>4
  <2>2. f[m] = f[m - 1] \o s[m]
    <3>1. m \in 1 .. n
      OBVIOUS
    <3>2. QED
      BY <3>1, <1>4, JoinsNext
  <2>3. f[m - 1] \in Seq(S) /\ s[m] \in Seq(S)
    BY <2>1
  <2>4. f[m] \in Seq(S)
    BY <2>2, <2>3
  <2>5. QED
    BY <2>4
<1>5. QED
  BY <1>3, <1>4

\* Every member of s is found whole, behind those before it.
LEMMA JoinsSegments ==
    ASSUME NEW S, NEW s, NEW n \in Nat, \A i \in 1 .. n : s[i] \in Seq(S),
           NEW f, Joins(s, n, f), NEW i \in 1 .. n, NEW k \in 1 .. Len(s[i])
    PROVE  /\ Before(f, i) + k \in 1 .. Len(f[n])
           /\ f[n][Before(f, i) + k] = s[i][k]
<1>0. PICK at : at = Before(f, i) + k
  OBVIOUS
<1> DEFINE T == {m \in i .. n : ~ (at \in 1 .. Len(f[m]) /\ f[m][at] = s[i][k])}
<1>1. SUFFICES ASSUME T # {} PROVE FALSE
  BY <1>0, n \in i .. n
<1>2. PICK m \in T : \A j \in T : m <= j
  <2>1. T \subseteq Nat
    OBVIOUS
  <2>2. QED
    BY <1>1, <2>1, LeastNat, Zenon
<1>3. f[m] \in Seq(S) /\ s[m] \in Seq(S) /\ s[i] \in Seq(S) /\ m \in 1 .. n
  BY JoinsType
<1>4. CASE m = i
  <2>1. CASE i = 1
    <3>1. f[m] = s[i] /\ at = k
      BY <2>1, <1>0, <1>4, JoinsSteps DEF Before
    <3>2. QED
      BY <3>1, <1>3
  <2>2. CASE i # 1
    <3>1. i - 1 \in 1 .. n
      BY <2>2
    <3>2. f[m] = f[i - 1] \o s[i] /\ f[i - 1] \in Seq(S) /\ at = Len(f[i - 1]) + k
      <4>1. f[i] = f[i - 1] \o s[i]
        BY <2>2, JoinsNext
      <4>2. f[i - 1] \in Seq(S)
        BY <3>1, JoinsType
      <4>3. at = Len(f[i - 1]) + k
        BY <2>2, <1>0 DEF Before
      <4>4. QED
        BY <4>1, <4>2, <4>3, <1>4
    <3>3. at \in 1 .. Len(f[m]) /\ f[m][at] = s[i][k]
      <4> DEFINE a == f[i - 1]
      <4>1. a \in Seq(S) /\ f[m] = a \o s[i] /\ s[i] \in Seq(S) /\ at = Len(a) + k
        BY <3>2, <1>3, <1>4
      <4> HIDE DEF a
      <4>2. QED
        BY <4>1, ConcatAt
    <3>4. QED
      BY <3>3
  <2>3. QED
    BY <2>1, <2>2
<1>5. CASE m # i
  <2>1. m - 1 \in i .. n /\ m - 1 \notin T /\ m # 1 /\ m - 1 \in 1 .. n
    BY <1>2, <1>5
  <2>2. at \in 1 .. Len(f[m - 1]) /\ f[m - 1][at] = s[i][k]
    BY <2>1
  <2>3. f[m] = f[m - 1] \o s[m] /\ f[m - 1] \in Seq(S)
    <3>1. f[m] = f[m - 1] \o s[m]
      BY <2>1, <1>3, JoinsNext
    <3>2. f[m - 1] \in Seq(S)
      BY <2>1, JoinsType
    <3>3. QED
      BY <3>1, <3>2
  <2>4. at \in 1 .. Len(f[m]) /\ f[m][at] = s[i][k]
    <3> DEFINE a == f[m - 1]
    <3>1. /\ a \in Seq(S) /\ f[m] = a \o s[m] /\ s[m] \in Seq(S)
          /\ at \in 1 .. Len(a) /\ a[at] = s[i][k]
      BY <2>2, <2>3, <1>3
    <3> HIDE DEF a
    <3>2. QED
      BY <3>1, ConcatAt
  <2>5. QED
    BY <2>4
<1>6. QED
  BY <1>4, <1>5

\* A prefix is concatenated like the beginning of the whole.
LEMMA JoinsPrefix ==
    ASSUME NEW s, NEW n \in Nat, NEW f, Joins(s, n, f),
           NEW t, NEW l \in 0 .. n, NEW g, Joins(t, l, g),
           \A i \in 1 .. l : t[i] = s[i]
    PROVE  \A i \in 1 .. l : g[i] = f[i]
<1> DEFINE T == {m \in 1 .. l : g[m] # f[m]}
<1>1. SUFFICES ASSUME T # {} PROVE FALSE
  OBVIOUS
<1>2. PICK m \in T : \A j \in T : m <= j
  <2>1. T \subseteq Nat
    OBVIOUS
  <2>2. QED
    BY <1>1, <2>1, LeastNat, Zenon
<1>3. /\ f[m] = IF m = 1 THEN s[m] ELSE f[m - 1] \o s[m]
      /\ g[m] = IF m = 1 THEN t[m] ELSE g[m - 1] \o t[m]
      /\ t[m] = s[m]
  <2>1. m \in 1 .. n /\ m \in 1 .. l /\ l \in Nat
    OBVIOUS
  <2>2. QED
    BY <2>1, JoinsSteps
<1>4. m # 1 => m - 1 \in 1 .. l /\ m - 1 \notin T
  BY <1>2
<1>5. QED
  BY <1>3, <1>4

LEMMA FlattenJoins ==
    ASSUME NEW s, Len(s) \in Nat \ {0}
    PROVE  \E f : Joins(s, Len(s), f) /\ FlattenSeq(s) = f[Len(s)]
<1> DEFINE f == CHOOSE h : h = [i \in 1 .. Len(s) |-> IF i = 1 THEN s[i] ELSE h[i - 1] \o s[i]]
<1>1. Joins(s, Len(s), f)
  BY JoinsExists, Zenon DEF Joins
<1>2. FlattenSeq(s) = f[Len(s)]
  BY Zenon DEF FlattenSeq
<1>3. QED
  BY <1>1, <1>2

-----------------------------------------------------------------------------
(* The list of questions, and where its answers are looked for.            *)

LEMMA CallsType ==
    ASSUME NEW p \in Pools
    PROVE  /\ Calls(p) \in Seq(Pools) /\ Len(Calls(p)) \in 1 .. 2
           /\ \A k \in 1 .. Len(Calls(p)) : Calls(p)[k] = p
<1>1. CASE p \in V3Pools
  BY <1>1 DEF Calls
<1>2. CASE p \notin V3Pools
  BY <1>2 DEF Calls
<1>3. QED
  BY <1>1, <1>2

LEMMA AllCallsType ==
    ASSUME NEW chunk \in Seq(Pools)
    PROVE  AllCalls(chunk) \in Seq(Pools)
<1> DEFINE s == [i \in DOMAIN chunk |-> Calls(chunk[i])]
<1>1. Len(s) = Len(chunk) /\ Len(s) \in Nat /\ \A i \in 1 .. Len(s) : s[i] \in Seq(Pools)
  BY CallsType
<1>2. CASE Len(s) = 0
  <2>1. s = <<>>
    BY <1>1, <1>2
  <2>2. AllCalls(chunk) = s
    BY <1>2 DEF AllCalls, FlattenSeq
  <2>3. QED
    BY <2>1, <2>2
<1>3. CASE Len(s) # 0
  <2>1. AllCalls(chunk) = FlattenSeq(s)
    BY DEF AllCalls
  <2> HIDE DEF s
  <2>2. PICK f : Joins(s, Len(s), f) /\ FlattenSeq(s) = f[Len(s)]
    BY <1>1, <1>3, FlattenJoins
  <2>3. f[Len(s)] \in Seq(Pools)
    <3>1. \A i \in 1 .. Len(s) : f[i] \in Seq(Pools)
      BY <1>1, <2>2, JoinsType
    <3>2. Len(s) \in 1 .. Len(s)
      BY <1>1, <1>3
    <3>3. QED
      BY <3>1, <3>2
  <2>4. QED
    BY <2>1, <2>2, <2>3
<1>4. QED
  BY <1>2, <1>3

\* The iterator over the results comes to each pool when the answers to its own
\* questions are next, for any mix of pools in the chunk.
LEMMA ResultsAligned ==
    ASSUME NEW chunk \in Seq(Pools), NEW i \in 1 .. Len(chunk),
           NEW k \in 1 .. Len(Calls(chunk[i]))
    PROVE  /\ FirstResult(chunk, i) + k - 1 \in DOMAIN AllCalls(chunk)
           /\ AllCalls(chunk)[FirstResult(chunk, i) + k - 1] = chunk[i]
<1> DEFINE s == [j \in DOMAIN chunk |-> Calls(chunk[j])]
           t == [j \in DOMAIN SubSeq(chunk, 1, i - 1) |-> Calls(SubSeq(chunk, 1, i - 1)[j])]
<1>1. /\ Len(s) = Len(chunk) /\ Len(s) \in Nat \ {0}
      /\ \A j \in 1 .. Len(s) : s[j] \in Seq(Pools)
      /\ s[i] = Calls(chunk[i])
  BY CallsType
<1>2. /\ Len(t) = i - 1 /\ i - 1 \in 0 .. Len(s)
      /\ \A j \in 1 .. i - 1 : t[j] = s[j] /\ t[j] \in Seq(Pools)
  <2>1. /\ SubSeq(chunk, 1, i - 1) \in Seq(Pools) /\ Len(SubSeq(chunk, 1, i - 1)) = i - 1
        /\ \A j \in 1 .. i - 1 : SubSeq(chunk, 1, i - 1)[j] = chunk[j]
    OBVIOUS
  <2>2. QED
    BY <2>1, CallsType
<1>3. AllCalls(chunk) = FlattenSeq(s) /\ AllCalls(SubSeq(chunk, 1, i - 1)) = FlattenSeq(t)
  BY DEF AllCalls
<1>4. AllCalls(chunk) \in Seq(Pools)
  BY AllCallsType
<1>5. Calls(chunk[i])[k] = chunk[i]
  BY CallsType
<1>6. t = <<>> \/ i # 1
  BY <1>2
<1> HIDE DEF s, t
<1>7. PICK f : Joins(s, Len(s), f) /\ FlattenSeq(s) = f[Len(s)]
  BY <1>1, FlattenJoins
<1>8. Len(FlattenSeq(t)) = Before(f, i)
  <2>1. CASE i = 1
    <3>1. FlattenSeq(t) = <<>>
      BY <2>1, <1>6, <1>2 DEF FlattenSeq
    <3>2. QED
      BY <3>1, <2>1 DEF Before
  <2>2. CASE i # 1
    <3>1. Len(t) \in Nat \ {0}
      BY <2>2, <1>2
    <3>2. PICK g : Joins(t, Len(t), g) /\ FlattenSeq(t) = g[Len(t)]
      BY <3>1, FlattenJoins
    <3>3. i - 1 \in 1 .. i - 1 /\ Joins(t, i - 1, g) /\ FlattenSeq(t) = g[i - 1]
      BY <2>2, <1>2, <3>2
    <3>4. \A j \in 1 .. i - 1 : g[j] = f[j]
      BY <1>1, <1>2, <1>7, <3>3, JoinsPrefix
    <3>5. QED
      BY <3>3, <3>4, <2>2 DEF Before
  <2>3. QED
    BY <2>1, <2>2
<1>9. /\ Before(f, i) + k \in 1 .. Len(f[Len(s)])
      /\ f[Len(s)][Before(f, i) + k] = s[i][k]
  BY <1>1, <1>7, JoinsSegments
<1>10. FirstResult(chunk, i) = Before(f, i) + 1 /\ Before(f, i) \in Nat
  <2>1. Len(FlattenSeq(t)) \in Nat
    BY <1>3, AllCallsType, SubSeq(chunk, 1, i - 1) \in Seq(Pools)
  <2>2. QED
    BY <2>1, <1>3, <1>8 DEF FirstResult
<1>11. FirstResult(chunk, i) + k - 1 = Before(f, i) + k
  <2>1. k \in Nat
    BY <1>1
  <2>2. QED
    BY <2>1, <1>10
<1>12. QED
  BY <1>1, <1>3, <1>4, <1>5, <1>7, <1>9, <1>11

-----------------------------------------------------------------------------
(* The inductive invariant.                                                *)

PoolStates == [of : Pools, ver : Nat]

Logs == [pool : Pools, ver : Nat]

BatchJobs == [pc : {"off", "chunk", "answer"}, todo : SUBSET Pools, chunk : Seq(Pools),
              answer : Seq(PoolStates \cup {Unknown}), raced : SUBSET Pools]

MirrorTypeOK ==
    /\ ver \in [Pools -> Nat]
    /\ sub \in {"none", "both", "headers"}
    /\ wire \in Seq(Logs)
    /\ mirror \in [Pools -> PoolStates \cup {Absent, Unknown}]
    /\ jobs \in [Jobs -> BatchJobs]
    /\ disk \in [Pools -> PoolStates \cup {Absent, Unknown}] \cup {Torn}

\* The logs of p behind the i-th of a connection.
Behind(w, p, i) == Cardinality({k \in DOMAIN w : k > i /\ w[k].pool = p})

\* A connection carries the latest swaps of each pool in order, and every swap since
\* the subscription: without one it carries nothing.
WireInOrder ==
    /\ \A i \in DOMAIN wire : wire[i].ver + Behind(wire, wire[i].pool, i) = ver[wire[i].pool]
    /\ wire # <<>> => sub = "both"

\* An answer answers the questions of its chunk, one by one.
Aligned(job) ==
    job.pc = "answer" =>
        /\ DOMAIN job.answer = DOMAIN AllCalls(job.chunk)
        /\ \A i, k \in DOMAIN job.chunk : job.chunk[i] = job.chunk[k] => i = k
        /\ \A i \in DOMAIN job.answer :
             job.answer[i] = Unknown \/ job.answer[i].of = AllCalls(job.chunk)[i]

\* An answer not overtaken is no older than the logs that have come in.
Fresh(job) ==
    job.pc = "answer" =>
        \A i \in DOMAIN job.answer :
            \/ job.answer[i] = Unknown
            \/ job.answer[i].of \in job.raced
            \/ job.answer[i].ver >= Passed(job.answer[i].of)

MirrorInv ==
    /\ MirrorTypeOK
    /\ WireInOrder
    /\ \A j \in Jobs : Aligned(jobs[j]) /\ Fresh(jobs[j])
    /\ LagExplained

-----------------------------------------------------------------------------
(* Counting the logs of a connection.                                      *)

LEMMA BehindNat ==
    ASSUME NEW w \in Seq(Logs), NEW p, NEW i \in Nat
    PROVE  /\ Behind(w, p, i) \in Nat
           /\ IsFiniteSet({k \in DOMAIN w : k > i /\ w[k].pool = p})
           /\ Behind(w, p, 0) = Cardinality({k \in DOMAIN w : w[k].pool = p})
<1>1. DOMAIN w = 1 .. Len(w) /\ Len(w) \in Nat
  OBVIOUS
<1>2. IsFiniteSet(1 .. Len(w))
  BY <1>1, FS_Interval
<1>3. {k \in DOMAIN w : k > i /\ w[k].pool = p} \in SUBSET (1 .. Len(w))
  BY <1>1
<1>4. IsFiniteSet({k \in DOMAIN w : k > i /\ w[k].pool = p})
  BY <1>2, <1>3, FS_Subset
<1>5. {k \in DOMAIN w : k > 0 /\ w[k].pool = p} = {k \in DOMAIN w : w[k].pool = p}
  BY <1>1
<1>6. QED
  BY <1>4, <1>5, FS_CardinalityType DEF Behind

LEMMA BehindAppend ==
    ASSUME NEW w \in Seq(Logs), NEW e \in Logs, NEW p, NEW i \in 0 .. Len(w)
    PROVE  Behind(Append(w, e), p, i) = Behind(w, p, i) + (IF e.pool = p THEN 1 ELSE 0)
<1> DEFINE v == Append(w, e)
           B == {k \in DOMAIN w : k > i /\ w[k].pool = p}
           C == {k \in DOMAIN v : k > i /\ v[k].pool = p}
<1>1. /\ DOMAIN v = 1 .. Len(w) + 1 /\ DOMAIN w = 1 .. Len(w) /\ Len(w) \in Nat
      /\ v[Len(w) + 1] = e /\ \A k \in 1 .. Len(w) : v[k] = w[k]
  OBVIOUS
<1>2. IsFiniteSet(B) /\ Behind(w, p, i) \in Nat
  BY <1>1, BehindNat, i \in Nat
<1>3. Behind(w, p, i) = Cardinality(B) /\ Behind(v, p, i) = Cardinality(C)
  BY DEF Behind
<1>4. Len(w) + 1 \notin B
  BY <1>1
<1>5. CASE e.pool = p
  <2>1. C = B \cup {Len(w) + 1}
    BY <1>1, <1>5
  <2>2. QED
    <3> HIDE DEF B, C
    <3>1. Cardinality(C) = Cardinality(B) + 1
      BY <2>1, <1>2, <1>4, FS_AddElement
    <3>2. QED
      BY <3>1, <1>3, <1>5
<1>6. CASE e.pool # p
  <2>1. C = B
    BY <1>1, <1>6
  <2> HIDE DEF B, C
  <2>2. QED
    BY <2>1, <1>2, <1>3, <1>6
<1>7. QED
  BY <1>5, <1>6

LEMMA BehindHead ==
    ASSUME NEW w \in Seq(Logs), w # <<>>, NEW p
    PROVE  Behind(w, p, 0) = Behind(w, p, 1) + (IF Head(w).pool = p THEN 1 ELSE 0)
<1> DEFINE B == {k \in DOMAIN w : k > 1 /\ w[k].pool = p}
           C == {k \in DOMAIN w : k > 0 /\ w[k].pool = p}
<1>1. DOMAIN w = 1 .. Len(w) /\ Len(w) \in Nat \ {0} /\ Head(w) = w[1]
  OBVIOUS
<1>2. IsFiniteSet(B) /\ Behind(w, p, 1) \in Nat
  BY BehindNat
<1>3. Behind(w, p, 1) = Cardinality(B) /\ Behind(w, p, 0) = Cardinality(C)
  BY DEF Behind
<1>4. CASE Head(w).pool = p
  <2>1. C = B \cup {1}
    BY <1>1, <1>4
  <2>2. 1 \notin B
    OBVIOUS
  <2>3. QED
    <3> HIDE DEF B, C
    <3>1. Cardinality(C) = Cardinality(B) + 1
      BY <2>1, <2>2, <1>2, FS_AddElement
    <3>2. QED
      BY <3>1, <1>3, <1>4
<1>5. CASE Head(w).pool # p
  <2>1. C = B
    BY <1>1, <1>5
  <2> HIDE DEF B, C
  <2>2. QED
    BY <2>1, <1>2, <1>3, <1>5
<1>6. QED
  BY <1>4, <1>5

LEMMA BehindTail ==
    ASSUME NEW w \in Seq(Logs), w # <<>>, NEW p, NEW i \in 0 .. Len(w)
    PROVE  Behind(Tail(w), p, i) = Behind(w, p, i + 1)
<1> DEFINE v == Tail(w)
           B == {k \in DOMAIN v : k > i /\ v[k].pool = p}
           C == {k \in DOMAIN w : k > i + 1 /\ w[k].pool = p}
           f == [k \in B |-> k + 1]
<1>1. /\ DOMAIN w = 1 .. Len(w) /\ DOMAIN v = 1 .. Len(w) - 1 /\ Len(w) \in Nat \ {0}
      /\ v \in Seq(Logs) /\ \A k \in 1 .. Len(w) - 1 : v[k] = w[k + 1]
  OBVIOUS
<1>2. \A k \in B : f[k] = k + 1 /\ k + 1 \in C
  BY <1>1
<1>3. \A k \in C : k - 1 \in B /\ f[k - 1] = k
  BY <1>1
<1>4. f \in Bijection(B, C)
  <2>1. f \in [B -> C]
    BY <1>2
  <2>2. \A x, y \in B : f[x] = f[y] => x = y
    BY <1>1
  <2>3. \A y \in C : \E x \in B : f[x] = y
    BY <1>3
  <2>4. QED
    BY <2>1, <2>2, <2>3 DEF Bijection, Injection, Surjection, IsInjective
<1>5. IsFiniteSet(B)
  BY <1>1, BehindNat, i \in Nat
<1>6. ExistsBijection(B, C)
  BY <1>4 DEF ExistsBijection
<1> HIDE DEF B, C, v, f
<1>7. Cardinality(B) = Cardinality(C)
  BY <1>5, <1>6, FS_Bijection
<1>8. QED
  BY <1>7 DEF Behind, B, C, v

-----------------------------------------------------------------------------
(* What the steps have in common.                                          *)

LEMMA LogType ==
    ASSUME NEW w \in Seq(Logs), NEW i \in 1 .. Len(w)
    PROVE  w[i].pool \in Pools /\ w[i].ver \in Nat
<1>1. w[i] \in Logs
  OBVIOUS
<1>2. QED
  BY <1>1 DEF Logs

LEMMA PassedFacts ==
    MirrorTypeOK =>
        \A p \in Pools : /\ Passed(p) = ver[p] - Behind(wire, p, 0)
                         /\ ver[p] \in Nat /\ Behind(wire, p, 0) \in Nat /\ Passed(p) \in Int
<1>1. SUFFICES ASSUME MirrorTypeOK, NEW p \in Pools
               PROVE  /\ Passed(p) = ver[p] - Behind(wire, p, 0)
                      /\ ver[p] \in Nat /\ Behind(wire, p, 0) \in Nat /\ Passed(p) \in Int
  OBVIOUS
<1>2. wire \in Seq(Logs) /\ ver[p] \in Nat
  BY <1>1 DEF MirrorTypeOK
<1>3. /\ Behind(wire, p, 0) \in Nat
      /\ Behind(wire, p, 0) = Cardinality({i \in DOMAIN wire : wire[i].pool = p})
  BY <1>2, BehindNat, 0 \in Nat
<1>4. Passed(p) = ver[p] - Behind(wire, p, 0)
  BY <1>3 DEF Passed
<1>5. QED
  BY <1>2, <1>3, <1>4

\* Answers on their way stay what they are when the others' logs pass, and those of
\* the pools a log passes are marked.
LEMMA OvertakeInv ==
    ASSUME MirrorInv, NEW S \in SUBSET Pools, jobs' = Overtake(S),
           \A p \in Pools \ S : Passed(p)' = Passed(p)
    PROVE  jobs' \in [Jobs -> BatchJobs] /\ \A j \in Jobs : Aligned(jobs'[j]) /\ Fresh(jobs[j])'
<1>1. SUFFICES ASSUME NEW j \in Jobs
               PROVE  jobs'[j] \in BatchJobs /\ Aligned(jobs'[j]) /\ Fresh(jobs[j])'
  BY DEF Overtake
<1>2. jobs[j] \in BatchJobs /\ Aligned(jobs[j]) /\ Fresh(jobs[j])
  BY DEF MirrorInv, MirrorTypeOK
<1>3. CASE jobs[j].pc # "answer"
  <2>1. jobs'[j] = jobs[j]
    BY <1>3 DEF Overtake
  <2>2. QED
    BY <2>1, <1>2, <1>3 DEF Fresh
<1>4. CASE jobs[j].pc = "answer"
  <2>1. jobs'[j] = [jobs[j] EXCEPT !.raced = @ \cup S]
    BY <1>4 DEF Overtake
  <2>2. /\ jobs'[j] \in BatchJobs /\ jobs'[j].pc = "answer"
        /\ jobs'[j].chunk = jobs[j].chunk /\ jobs'[j].answer = jobs[j].answer
        /\ jobs'[j].raced = jobs[j].raced \cup S
    BY <2>1, <1>2, <1>4 DEF BatchJobs
  <2>3. Aligned(jobs'[j])
    BY <2>2, <1>2, <1>4 DEF Aligned
  <2>4. ASSUME NEW i \in DOMAIN jobs[j].answer, jobs[j].answer[i] # Unknown,
               jobs[j].answer[i].of \notin jobs[j].raced \cup S
        PROVE  jobs'[j].answer[i].ver >= Passed(jobs[j].answer[i].of)'
    <3>1. PICK q \in Pools : q = jobs[j].answer[i].of
      BY <1>2, <2>4 DEF BatchJobs, PoolStates
    <3>2. jobs[j].answer[i].ver >= Passed(q)
      BY <1>2, <1>4, <2>4, <3>1 DEF Fresh
    <3>3. Passed(q)' = Passed(q)
      BY <2>4, <3>1
    <3>4. Passed(jobs[j].answer[i].of)' = Passed(q)'
      BY <2>2, <3>1 DEF Passed
    <3>5. QED
      BY <2>2, <3>2, <3>3, <3>4
  <2>5. Fresh(jobs[j])'
    BY <2>2, <2>4 DEF Fresh
  <2>6. QED
    BY <2>2, <2>3, <2>5
<1>5. QED
  BY <1>3, <1>4

\* One batch moves on, and no log.
LEMMA JobInv ==
    ASSUME MirrorInv, UNCHANGED <<ver, wire>>, NEW j \in Jobs, NEW job \in BatchJobs,
           jobs' = [jobs EXCEPT ![j] = job], Aligned(job), Fresh(job)
    PROVE  jobs' \in [Jobs -> BatchJobs] /\ \A i \in Jobs : Aligned(jobs'[i]) /\ Fresh(jobs[i])'
<1>1. jobs \in [Jobs -> BatchJobs] /\ \A i \in Jobs : Aligned(jobs[i]) /\ Fresh(jobs[i])
  BY DEF MirrorInv, MirrorTypeOK
<1>2. \A i \in Jobs : jobs'[i] = IF i = j THEN job ELSE jobs[i]
  BY <1>1
<1>3. \A i \in Jobs : Fresh(jobs'[i])
  BY <1>1, <1>2
<1>4. \A i \in Jobs : Fresh(jobs[i])'
  BY <1>3 DEF Fresh, Passed
<1>5. \A i \in Jobs : Aligned(jobs'[i])
  BY <1>1, <1>2
<1>6. jobs' \in [Jobs -> BatchJobs]
  BY <1>1
<1>7. QED
  BY <1>4, <1>5, <1>6

LEMMA JobsKept ==
    ASSUME MirrorInv, UNCHANGED jobs, \A p \in Pools : Passed(p)' = Passed(p)
    PROVE  jobs' \in [Jobs -> BatchJobs] /\ \A j \in Jobs : Aligned(jobs'[j]) /\ Fresh(jobs[j])'
<1>1. jobs \in [Jobs -> BatchJobs] /\ \A j \in Jobs : Aligned(jobs[j]) /\ Fresh(jobs[j])
  BY DEF MirrorInv, MirrorTypeOK
<1>2. ASSUME NEW j \in Jobs PROVE Fresh(jobs[j])'
  <2>1. SUFFICES ASSUME jobs[j].pc = "answer", NEW i \in DOMAIN jobs[j].answer,
                        jobs[j].answer[i] # Unknown,
                        jobs[j].answer[i].of \notin jobs[j].raced
                 PROVE  jobs[j].answer[i].ver >= Passed(jobs[j].answer[i].of)'
    BY DEF Fresh
  <2>2. PICK q \in Pools : q = jobs[j].answer[i].of
    BY <1>1, <2>1 DEF BatchJobs, PoolStates
  <2>3. jobs[j].answer[i].ver >= Passed(q)
    BY <1>1, <2>1, <2>2 DEF Fresh
  <2>4. Passed(jobs[j].answer[i].of)' = Passed(q)'
    BY <2>2 DEF Passed
  <2>5. QED
    BY <2>3, <2>4
<1>3. QED
  BY <1>1, <1>2

LEMMA WireKept ==
    ASSUME MirrorInv, UNCHANGED <<ver, wire, sub>>
    PROVE  WireInOrder' /\ \A p \in Pools : Passed(p)' = Passed(p)
  BY DEF MirrorInv, WireInOrder, Passed

LEMMA LagKept ==
    ASSUME MirrorInv, UNCHANGED <<mirror, suspect>>, \A p \in Pools : Passed(p)' = Passed(p)
    PROVE  LagExplained'
  BY DEF MirrorInv, LagExplained, Present

LEMMA StartedJob ==
    ASSUME NEW S \in SUBSET Pools
    PROVE  /\ NoJob \in BatchJobs /\ Aligned(NoJob) /\ Fresh(NoJob)
           /\ Started(S) \in BatchJobs /\ Aligned(Started(S)) /\ Fresh(Started(S))
<1>1. <<>> \in Seq(Pools) /\ <<>> \in Seq(PoolStates \cup {Unknown})
  OBVIOUS
<1>2. NoJob \in BatchJobs /\ NoJob.pc = "off"
  BY <1>1 DEF NoJob, BatchJobs
<1>3. Started(S) \in BatchJobs /\ Started(S).pc # "answer"
  BY <1>1 DEF NoJob, BatchJobs, Started
<1>4. QED
  BY <1>2, <1>3 DEF Aligned, Fresh

-----------------------------------------------------------------------------
(* The chain and the connection.                                           *)

LEMMA SwapInv ==
    ASSUME MirrorInv, NEW p \in Pools, Swap(p)
    PROVE  MirrorInv'
<1>1. /\ ver \in [Pools -> Nat] /\ wire \in Seq(Logs)
      /\ ver' \in [Pools -> Nat] /\ ver'[p] = ver[p] + 1
      /\ \A q \in Pools \ {p} : ver'[q] = ver[q]
  BY DEF MirrorInv, MirrorTypeOK, Swap
<1>2. UNCHANGED <<sub, mirror, disk>>
  BY DEF Swap
<1>3. CASE sub = "both"
  <2> DEFINE e == [pool |-> p, ver |-> ver'[p]]
  <2>1. /\ e \in Logs /\ e.pool = p /\ e.ver = ver[p] + 1
        /\ wire' = Append(wire, e) /\ UNCHANGED <<jobs, suspect>>
    BY <1>1, <1>3 DEF Swap, Logs
  <2> HIDE DEF e
  <2>2. /\ wire' \in Seq(Logs) /\ DOMAIN wire' = 1 .. Len(wire) + 1 /\ DOMAIN wire = 1 .. Len(wire)
        /\ wire'[Len(wire) + 1] = e /\ \A i \in 1 .. Len(wire) : wire'[i] = wire[i]
        /\ Len(wire) \in Nat
    BY <1>1, <2>1
  <2>3. \A q \in Pools : \A i \in 0 .. Len(wire) :
           Behind(wire', q, i) = Behind(wire, q, i) + (IF q = p THEN 1 ELSE 0)
    BY <1>1, <2>1, BehindAppend
  <2>4. \A q \in Pools : \A i \in 0 .. Len(wire) : Behind(wire, q, i) \in Nat
    <3>1. \A i \in 0 .. Len(wire) : i \in Nat
      BY <2>2
    <3>2. QED
      BY <1>1, <3>1, BehindNat
  <2>5. \A q \in Pools : Passed(q)' = Passed(q)
    <3>1. SUFFICES ASSUME NEW q \in Pools PROVE Passed(q)' = Passed(q)
      OBVIOUS
    <3>2. Passed(q) = ver[q] - Behind(wire, q, 0) /\ Passed(q)' = ver'[q] - Behind(wire', q, 0)
      <4>1. 0 \in Nat
        OBVIOUS
      <4>2. /\ Behind(wire, q, 0) = Cardinality({k \in DOMAIN wire : wire[k].pool = q})
            /\ Behind(wire', q, 0) = Cardinality({k \in DOMAIN wire' : wire'[k].pool = q})
        BY <1>1, <2>2, <4>1, BehindNat
      <4>3. QED
        BY <4>2, Zenon DEF Passed
    <3>3. Behind(wire', q, 0) = Behind(wire, q, 0) + (IF q = p THEN 1 ELSE 0)
      BY <2>3, <2>2
    <3>4. Behind(wire, q, 0) \in Nat /\ ver[q] \in Nat
      BY <2>4, <2>2, <1>1
    <3>5. QED
      BY <3>2, <3>3, <3>4, <1>1
  <2>6. WireInOrder'
    <3>1. \A i \in 1 .. Len(wire) + 1 :
             wire'[i].ver + Behind(wire', wire'[i].pool, i) = ver'[wire'[i].pool]
      <4>1. SUFFICES ASSUME NEW i \in 1 .. Len(wire) + 1
                     PROVE  wire'[i].ver + Behind(wire', wire'[i].pool, i) = ver'[wire'[i].pool]
        OBVIOUS
      <4>2. CASE i = Len(wire) + 1
        <5>1. {k \in DOMAIN wire' : k > i /\ wire'[k].pool = p} = {}
          BY <2>2, <4>2
        <5>2. Behind(wire', p, i) = 0
          BY <5>1, FS_EmptySet DEF Behind
        <5>3. QED
          BY <5>2, <4>2, <2>2, <2>1, <1>1
      <4>3. CASE i # Len(wire) + 1
        <5>1. i \in 1 .. Len(wire) /\ i \in 0 .. Len(wire)
          BY <2>2, <4>3
        <5>2. PICK q \in Pools : q = wire[i].pool
          BY <5>1, <1>1, LogType
        <5>3. wire'[i] = wire[i] /\ wire[i].ver \in Nat
          BY <5>1, <2>2, <1>1, LogType
        <5>4. wire[i].ver + Behind(wire, q, i) = ver[q]
          BY <5>1, <5>2, <2>2 DEF MirrorInv, WireInOrder
        <5>5. /\ Behind(wire', q, i) = Behind(wire, q, i) + (IF q = p THEN 1 ELSE 0)
              /\ Behind(wire, q, i) \in Nat
          BY <5>1, <2>3, <2>4
        <5>6. ver'[q] = ver[q] + (IF q = p THEN 1 ELSE 0) /\ ver[q] \in Nat
          BY <1>1
        <5>7. wire[i].ver + Behind(wire', q, i) = ver'[q]
          BY <5>3, <5>4, <5>5, <5>6
        <5>8. QED
          BY <5>2, <5>3, <5>7
      <4>4. QED
        BY <4>2, <4>3
    <3>2. QED
      BY <3>1, <2>2, <1>2, <1>3 DEF WireInOrder
  <2>7. LagExplained'
    BY <1>2, <2>1, <2>5, LagKept
  <2>8. \A j \in Jobs : Aligned(jobs'[j]) /\ Fresh(jobs[j])'
    BY <2>1, <2>5, JobsKept
  <2>9. MirrorTypeOK'
    BY <1>1, <1>2, <2>1, <2>2 DEF MirrorInv, MirrorTypeOK
  <2>10. QED
    BY <2>6, <2>7, <2>8, <2>9 DEF MirrorInv
<1>4. CASE sub # "both"
  <2>1. /\ wire = <<>> /\ wire' = <<>> /\ jobs' = Overtake({p}) /\ suspect' = suspect \cup {p}
    BY <1>4 DEF MirrorInv, WireInOrder, Swap
  <2>2. \A q \in Pools \ {p} : Passed(q)' = Passed(q)
    BY <1>1, <2>1 DEF Passed
  <2>3. jobs' \in [Jobs -> BatchJobs] /\ \A j \in Jobs : Aligned(jobs'[j]) /\ Fresh(jobs[j])'
    BY <2>1, <2>2, OvertakeInv, {p} \in SUBSET Pools
  <2>4. WireInOrder'
    BY <2>1 DEF WireInOrder
  <2>5. LagExplained'
    BY <2>1, <2>2, <1>2 DEF MirrorInv, LagExplained, Present
  <2>6. MirrorTypeOK'
    BY <1>1, <1>2, <2>1, <2>3 DEF MirrorInv, MirrorTypeOK
  <2>7. QED
    BY <2>3, <2>4, <2>5, <2>6 DEF MirrorInv
<1>5. QED
  BY <1>3, <1>4

LEMMA ConnectInv == MirrorInv /\ Connect => MirrorInv'
<1>1. SUFFICES ASSUME MirrorInv, Connect PROVE MirrorInv'
  OBVIOUS
<1>2. UNCHANGED <<ver, wire, mirror, jobs, disk, suspect>> /\ sub = "none" /\ sub' = "both"
  BY <1>1 DEF Connect
<1>3. \A p \in Pools : Passed(p)' = Passed(p)
  BY <1>2 DEF Passed
<1>4. jobs' \in [Jobs -> BatchJobs] /\ \A j \in Jobs : Aligned(jobs'[j]) /\ Fresh(jobs[j])'
  BY <1>1, <1>2, <1>3, JobsKept
<1>5. LagExplained'
  BY <1>1, <1>2, <1>3, LagKept
<1>6. WireInOrder'
  BY <1>1, <1>2 DEF MirrorInv, WireInOrder
<1>7. MirrorTypeOK'
  BY <1>1, <1>2 DEF MirrorInv, MirrorTypeOK
<1>8. QED
  BY <1>4, <1>5, <1>6, <1>7 DEF MirrorInv

LEMMA DisconnectInv == MirrorInv /\ Disconnect => MirrorInv'
<1>1. SUFFICES ASSUME MirrorInv, Disconnect PROVE MirrorInv'
  OBVIOUS
<1> DEFINE lost == {wire[i].pool : i \in DOMAIN wire}
<1>2. /\ UNCHANGED <<ver, mirror, disk>> /\ sub' \in {"none", "headers"} /\ wire' = <<>>
      /\ suspect' = suspect \cup lost /\ jobs' = Overtake(lost)
  BY <1>1 DEF Disconnect
<1>3. ver \in [Pools -> Nat] /\ wire \in Seq(Logs)
  BY <1>1 DEF MirrorInv, MirrorTypeOK
<1>4. lost \in SUBSET Pools
  BY <1>3, LogType
<1>5. ASSUME NEW p \in Pools \ lost PROVE Passed(p)' = Passed(p)
  <2>1. {i \in DOMAIN wire : wire[i].pool = p} = {}
    BY <1>5
  <2>2. {i \in DOMAIN wire' : wire'[i].pool = p} = {}
    BY <1>2
  <2>3. QED
    BY <2>1, <2>2, <1>2 DEF Passed
<1> HIDE DEF lost
<1>6. jobs' \in [Jobs -> BatchJobs] /\ \A j \in Jobs : Aligned(jobs'[j]) /\ Fresh(jobs[j])'
  BY <1>1, <1>2, <1>4, <1>5, OvertakeInv
<1>7. LagExplained'
  BY <1>1, <1>2, <1>5 DEF MirrorInv, LagExplained, Present
<1>8. WireInOrder'
  BY <1>2 DEF WireInOrder
<1>9. MirrorTypeOK'
  <2>1. wire' \in Seq(Logs)
    BY <1>2
  <2>2. QED
    BY <2>1, <1>1, <1>2, <1>6 DEF MirrorInv, MirrorTypeOK
<1>10. QED
  BY <1>6, <1>7, <1>8, <1>9 DEF MirrorInv

-----------------------------------------------------------------------------
(* The heartbeat.                                                          *)

LEMMA ReceiveLogInv == MirrorInv /\ ReceiveLog => MirrorInv'
<1>1. SUFFICES ASSUME MirrorInv, ReceiveLog PROVE MirrorInv'
  OBVIOUS
<1>2. PICK p, n : p = Head(wire).pool /\ n = Head(wire).ver
  OBVIOUS
<1>3. /\ wire # <<>> /\ wire' = Tail(wire) /\ UNCHANGED <<ver, sub, disk>>
      /\ mirror' = IF p \in Present THEN [mirror EXCEPT ![p] = State(p, n)] ELSE mirror
      /\ suspect' = suspect \ {p} /\ jobs' = Overtake({p})
  BY <1>1, <1>2 DEF ReceiveLog
<1>4. /\ ver \in [Pools -> Nat] /\ wire \in Seq(Logs) /\ sub = "both"
      /\ mirror \in [Pools -> PoolStates \cup {Absent, Unknown}]
  BY <1>1, <1>3 DEF MirrorInv, MirrorTypeOK, WireInOrder
<1>5. /\ DOMAIN wire = 1 .. Len(wire) /\ Len(wire) \in Nat \ {0}
      /\ DOMAIN wire' = 1 .. Len(wire) - 1 /\ wire' \in Seq(Logs)
      /\ \A i \in 1 .. Len(wire) - 1 : wire'[i] = wire[i + 1]
      /\ Head(wire) = wire[1]
  BY <1>3, <1>4
<1>6. p \in Pools /\ n \in Nat
  BY <1>2, <1>4, <1>5, LogType
<1>7. \A q \in Pools : \A i \in 0 .. Len(wire) : Behind(wire', q, i) = Behind(wire, q, i + 1)
  BY <1>3, <1>4, BehindTail
<1>8. \A q \in Pools : Passed(q)' = ver[q] - Behind(wire, q, 1)
  <2>1. SUFFICES ASSUME NEW q \in Pools PROVE Passed(q)' = ver[q] - Behind(wire, q, 1)
    OBVIOUS
  <2>2. Passed(q)' = ver'[q] - Behind(wire', q, 0)
    BY <1>5, BehindNat, 0 \in Nat DEF Passed
  <2>3. Behind(wire', q, 0) = Behind(wire, q, 1)
    BY <1>7, <1>5, 0 \in 0 .. Len(wire), 0 + 1 = 1
  <2>4. QED
    BY <2>2, <2>3, <1>3
<1>9. n = Passed(p)'
  <2>1. wire[1].ver + Behind(wire, p, 1) = ver[p]
    BY <1>1, <1>2, <1>5 DEF MirrorInv, WireInOrder
  <2>2. Behind(wire, p, 1) \in Nat /\ ver[p] \in Nat
    BY <1>4, <1>6, BehindNat, 1 \in Nat
  <2>3. QED
    BY <2>1, <2>2, <1>2, <1>5, <1>6, <1>8
<1>10. \A q \in Pools \ {p} : Passed(q)' = Passed(q)
  <2>1. SUFFICES ASSUME NEW q \in Pools \ {p} PROVE Passed(q)' = Passed(q)
    OBVIOUS
  <2>2. Behind(wire, q, 0) = Behind(wire, q, 1) + 0
    BY <1>2, <1>3, <1>4, BehindHead
  <2>3. Behind(wire, q, 1) \in Nat
    BY <1>4, BehindNat, 1 \in Nat
  <2>4. Passed(q) = ver[q] - Behind(wire, q, 0)
    BY <1>1, PassedFacts DEF MirrorInv
  <2>5. QED
    BY <2>2, <2>3, <2>4, <1>8
<1>11. jobs' \in [Jobs -> BatchJobs] /\ \A j \in Jobs : Aligned(jobs'[j]) /\ Fresh(jobs[j])'
  BY <1>1, <1>3, <1>6, <1>10, OvertakeInv, {p} \in SUBSET Pools
<1>12. LagExplained'
  <2>1. SUFFICES ASSUME NEW q \in Pools, mirror'[q] # Absent, q \notin suspect',
                        mirror'[q] # Unknown
                 PROVE  mirror'[q].ver >= Passed(q)'
    BY DEF LagExplained, Present
  <2>2. CASE q = p
    <3>1. mirror'[q] = State(p, n)
      BY <2>1, <2>2, <1>3, <1>4, <1>6 DEF Present
    <3>2. QED
      BY <3>1, <2>2, <1>6, <1>9 DEF State
  <2>3. CASE q # p
    <3>1. mirror'[q] = mirror[q] /\ q \notin suspect
      BY <2>1, <2>3, <1>3, <1>4
    <3>2. QED
      BY <3>1, <2>1, <2>3, <1>1, <1>10 DEF MirrorInv, LagExplained, Present
  <2>4. QED
    BY <2>2, <2>3
<1>13. WireInOrder'
  <2>1. ASSUME NEW i \in 1 .. Len(wire) - 1
        PROVE  wire'[i].ver + Behind(wire', wire'[i].pool, i) = ver'[wire'[i].pool]
    <3>1. i + 1 \in 1 .. Len(wire) /\ i \in 0 .. Len(wire) /\ wire'[i] = wire[i + 1]
      BY <1>5
    <3>2. PICK q \in Pools : q = wire[i + 1].pool
      BY <3>1, <1>4, LogType
    <3>3. wire[i + 1].ver + Behind(wire, q, i + 1) = ver[q]
      BY <3>1, <3>2, <1>1, <1>5 DEF MirrorInv, WireInOrder
    <3>4. Behind(wire', q, i) = Behind(wire, q, i + 1)
      BY <3>1, <1>7
    <3>5. QED
      BY <3>1, <3>2, <3>3, <3>4, <1>3
  <2>2. QED
    BY <2>1, <1>3, <1>4, <1>5 DEF WireInOrder
<1>14. MirrorTypeOK'
  <2>1. State(p, n) \in PoolStates
    BY <1>6 DEF State, PoolStates
  <2>2. mirror' \in [Pools -> PoolStates \cup {Absent, Unknown}]
    BY <2>1, <1>3, <1>4
  <2>3. QED
    BY <2>2, <1>1, <1>3, <1>5, <1>11 DEF MirrorInv, MirrorTypeOK
<1>15. QED
  BY <1>11, <1>12, <1>13, <1>14 DEF MirrorInv

-----------------------------------------------------------------------------
(* The batches.                                                            *)

LEMMA AskChunkInv ==
    ASSUME MirrorInv, NEW j \in Jobs, AskChunk(j)
    PROVE  MirrorInv'
<1> DEFINE n == IF Cardinality(jobs[j].todo) < ChunkSize
                THEN Cardinality(jobs[j].todo) ELSE ChunkSize
<1>1. UNCHANGED <<ver, sub, wire, mirror, disk, suspect>>
  BY DEF AskChunk, chainVars
<1>2. jobs \in [Jobs -> BatchJobs] /\ jobs[j] \in BatchJobs /\ ver \in [Pools -> Nat]
  BY DEF MirrorInv, MirrorTypeOK
<1>3. PICK chunk \in Orders(jobs[j].todo, n) : \E failed \in SUBSET Range(chunk) :
        jobs' = [jobs EXCEPT ![j] = Asked(jobs[j], chunk, failed)]
  BY DEF AskChunk
<1>4. PICK failed : jobs' = [jobs EXCEPT ![j] = Asked(jobs[j], chunk, failed)]
  BY <1>3
<1> DEFINE calls == AllCalls(chunk)
           answer == [i \in DOMAIN calls |->
                        IF calls[i] \in failed THEN Unknown ELSE State(calls[i], ver[calls[i]])]
<1>5. PICK job : job = Asked(jobs[j], chunk, failed) /\ jobs' = [jobs EXCEPT ![j] = job]
  BY <1>4
<1>6. chunk \in Seq(Pools) /\ \A i, k \in DOMAIN chunk : chunk[i] = chunk[k] => i = k
  <2>1. jobs[j].todo \in SUBSET Pools
    BY <1>2 DEF BatchJobs
  <2>2. Cardinality(jobs[j].todo) \in Nat
    BY <2>1, MirrorAssumption, FS_Subset, FS_CardinalityType
  <2>3. n \in Nat
    BY <2>2, MirrorAssumption
  <2> HIDE DEF n
  <2>4. chunk \in [1 .. n -> Pools] /\ \A i, k \in 1 .. n : chunk[i] = chunk[k] => i = k
    BY <2>1 DEF Orders
  <2>5. QED
    BY <2>3, <2>4
<1>7. calls \in Seq(Pools)
  BY <1>6, AllCallsType
<1>8. answer \in Seq(PoolStates \cup {Unknown}) /\ DOMAIN answer = DOMAIN calls
  <2> HIDE DEF calls
  <2>1. \A i \in DOMAIN calls : calls[i] \in Pools
    BY <1>7
  <2>2. \A i \in DOMAIN calls : answer[i] \in PoolStates \cup {Unknown}
    BY <2>1, <1>2 DEF State, PoolStates
  <2>3. DOMAIN calls = 1 .. Len(calls) /\ Len(calls) \in Nat
    BY <1>7
  <2>4. QED
    BY <2>2, <2>3
<1>9. /\ \A i \in DOMAIN calls : answer[i] = Unknown \/ answer[i].of = calls[i]
      /\ \A i \in DOMAIN calls : answer[i] = Unknown \/ answer[i].ver >= Passed(answer[i].of)
  <2> HIDE DEF calls
  <2>1. ASSUME NEW i \in DOMAIN calls, answer[i] # Unknown
        PROVE  answer[i].of = calls[i] /\ answer[i].ver >= Passed(answer[i].of)
    <3>1. PICK q \in Pools : q = calls[i]
      BY <1>7, <2>1
    <3>2. answer[i] = State(q, ver[q])
      BY <2>1, <3>1
    <3>3. answer[i].of = q /\ answer[i].ver = ver[q]
      BY <3>2 DEF State
    <3>4. /\ Passed(q) = ver[q] - Behind(wire, q, 0)
          /\ ver[q] \in Nat /\ Behind(wire, q, 0) \in Nat
      BY PassedFacts DEF MirrorInv
    <3>5. ver[q] >= Passed(q)
      BY <3>4
    <3>6. QED
      BY <3>1, <3>3, <3>5
  <2>2. QED
    BY <2>1
<1> HIDE DEF answer
<1>10. /\ job \in BatchJobs /\ job.pc = "answer" /\ job.chunk = chunk /\ job.answer = answer
  <2>1. job = [jobs[j] EXCEPT !.pc = "answer", !.todo = @ \ Range(chunk), !.chunk = chunk,
                              !.raced = {}, !.answer = answer]
    BY <1>5 DEF Asked, answer
  <2>2. QED
    BY <2>1, <1>2, <1>6, <1>8 DEF BatchJobs
<1>11. Aligned(job) /\ Fresh(job)
  BY <1>6, <1>8, <1>9, <1>10 DEF Aligned, Fresh
<1>12. jobs' \in [Jobs -> BatchJobs] /\ \A i \in Jobs : Aligned(jobs'[i]) /\ Fresh(jobs[i])'
  BY <1>1, <1>5, <1>10, <1>11, JobInv
<1>13. WireInOrder' /\ LagExplained'
  BY <1>1, WireKept, LagKept
<1>14. MirrorTypeOK'
  BY <1>1, <1>12 DEF MirrorInv, MirrorTypeOK
<1>15. QED
  BY <1>12, <1>13, <1>14 DEF MirrorInv

\* A pool whose questions were all answered takes an answer to its own question.
LEMMA ResultFacts ==
    ASSUME MirrorInv, NEW j \in Jobs, jobs[j].pc = "answer",
           NEW i \in DOMAIN jobs[j].chunk, i \in Decoded(jobs[j])
    PROVE  \E l \in DOMAIN jobs[j].answer :
             /\ ResultsOf(jobs[j], i)[1] = jobs[j].answer[l]
             /\ jobs[j].answer[l] # Unknown /\ jobs[j].answer[l] \in PoolStates
             /\ jobs[j].answer[l].of = jobs[j].chunk[i]
<1> DEFINE job == jobs[j]
           first == FirstResult(job.chunk, i)
<1>1. job \in BatchJobs /\ Aligned(job)
  BY DEF MirrorInv, MirrorTypeOK
<1>2. job.chunk \in Seq(Pools) /\ i \in 1 .. Len(job.chunk) /\ job.chunk[i] \in Pools
  BY <1>1 DEF BatchJobs
<1>3. 1 \in 1 .. Len(Calls(job.chunk[i]))
  <2>1. PICK n \in 1 .. 2 : n = Len(Calls(job.chunk[i]))
    BY <1>2, CallsType
  <2>2. 1 \in 1 .. n
    OBVIOUS
  <2>3. QED
    BY <2>1, <2>2
<1>4. first + 1 - 1 \in DOMAIN AllCalls(job.chunk) /\ AllCalls(job.chunk)[first + 1 - 1] = job.chunk[i]
  BY <1>2, <1>3, ResultsAligned
<1>5. ResultsOf(job, i)[1] = job.answer[first + 1 - 1] /\ 1 \in DOMAIN ResultsOf(job, i)
  BY <1>3 DEF ResultsOf
<1>6. ResultsOf(job, i)[1] # Unknown
  BY <1>5 DEF Decoded
<1>7. first + 1 - 1 \in DOMAIN job.answer /\ job.answer[first + 1 - 1] # Unknown
  BY <1>1, <1>4, <1>5, <1>6 DEF Aligned
<1>8. job.answer[first + 1 - 1].of = job.chunk[i]
  BY <1>1, <1>4, <1>7 DEF Aligned
<1>9. job.answer[first + 1 - 1] \in PoolStates
  <2>1. job.answer \in Seq(PoolStates \cup {Unknown})
    BY <1>1 DEF BatchJobs
  <2>2. QED
    BY <2>1, <1>7
<1>10. QED
  BY <1>5, <1>7, <1>8, <1>9

\* What ApplyChunk does to one pool.
LEMMA ApplyFacts ==
    ASSUME MirrorInv, NEW j \in Jobs, ApplyChunk(j)
    PROVE  \A p \in Pools :
             \/ mirror'[p] = Absent
             \/ mirror'[p] = mirror[p] /\ (p \in suspect' <=> p \in suspect)
             \/ \E l \in DOMAIN jobs[j].answer :
                  /\ mirror'[p] = jobs[j].answer[l]
                  /\ jobs[j].answer[l] # Unknown /\ jobs[j].answer[l] \in PoolStates
                  /\ jobs[j].answer[l].of = p
                  /\ p \in suspect' <=> p \in jobs[j].raced
<1> DEFINE job == jobs[j]
           at(p) == CHOOSE i \in DOMAIN job.chunk : job.chunk[i] = p
           decoded == {job.chunk[i] : i \in Decoded(job)}
<1>1. job.pc = "answer"
  BY DEF ApplyChunk
<1>2. PICK thin \in SUBSET (decoded \ (V3Pools \cup TopPools)) :
        /\ mirror' = [p \in Pools |->
             IF decoded \ thin = {} THEN mirror[p]
             ELSE IF p \in decoded \ thin THEN ResultsOf(job, at(p))[1]
             ELSE IF p \in thin THEN Absent ELSE mirror[p]]
        /\ suspect' = (suspect \ (decoded \ thin)) \cup ((decoded \ thin) \cap job.raced)
  BY DEF ApplyChunk
<1>3. Aligned(job)
  BY DEF MirrorInv
<1>4. SUFFICES ASSUME NEW p \in Pools, mirror'[p] # Absent
               PROVE  \/ mirror'[p] = mirror[p] /\ (p \in suspect' <=> p \in suspect)
                      \/ \E l \in DOMAIN job.answer :
                           /\ mirror'[p] = job.answer[l]
                           /\ job.answer[l] # Unknown /\ job.answer[l] \in PoolStates
                           /\ job.answer[l].of = p
                           /\ p \in suspect' <=> p \in job.raced
  OBVIOUS
<1>5. CASE p \in decoded \ thin
  <2>1. PICK i \in Decoded(job) : p = job.chunk[i]
    BY <1>5
  <2>2. i \in DOMAIN job.chunk
    BY DEF Decoded
  <2>3. at(p) = i
    BY <1>1, <1>3, <2>1, <2>2 DEF Aligned
  <2>4. mirror'[p] = ResultsOf(job, i)[1]
    BY <1>2, <1>5, <2>3
  <2>5. PICK l \in DOMAIN job.answer :
             /\ ResultsOf(job, i)[1] = job.answer[l]
             /\ job.answer[l] # Unknown /\ job.answer[l] \in PoolStates
             /\ job.answer[l].of = job.chunk[i]
    BY <1>1, <2>1, <2>2, ResultFacts
  <2>6. p \in suspect' <=> p \in job.raced
    BY <1>2, <1>5
  <2>7. QED
    BY <2>1, <2>4, <2>5, <2>6
<1>6. CASE p \notin decoded \ thin
  BY <1>2, <1>4, <1>6
<1>7. QED
  BY <1>5, <1>6

LEMMA ApplyChunkInv ==
    ASSUME MirrorInv, NEW j \in Jobs, ApplyChunk(j)
    PROVE  MirrorInv'
<1>1. /\ UNCHANGED <<ver, sub, wire, disk>> /\ jobs[j].pc = "answer"
      /\ jobs' = [jobs EXCEPT ![j] = Rest(jobs[j])]
  BY DEF ApplyChunk, chainVars, MirrorInv, MirrorTypeOK
<1>2. /\ jobs[j] \in BatchJobs /\ Fresh(jobs[j])
      /\ mirror \in [Pools -> PoolStates \cup {Absent, Unknown}]
  BY DEF MirrorInv, MirrorTypeOK
<1>3. WireInOrder' /\ \A p \in Pools : Passed(p)' = Passed(p)
  BY <1>1, WireKept
<1>4. LagExplained'
  <2>1. SUFFICES ASSUME NEW q \in Pools, mirror'[q] # Absent, q \notin suspect',
                        mirror'[q] # Unknown
                 PROVE  mirror'[q].ver >= Passed(q)'
    BY DEF LagExplained, Present
  <2>2. CASE mirror'[q] = mirror[q] /\ q \notin suspect
    BY <2>1, <2>2, <1>3 DEF MirrorInv, LagExplained, Present
  <2>3. CASE \E l \in DOMAIN jobs[j].answer :
               /\ mirror'[q] = jobs[j].answer[l] /\ jobs[j].answer[l] # Unknown
               /\ jobs[j].answer[l].of = q /\ q \notin jobs[j].raced
    <3>1. PICK l \in DOMAIN jobs[j].answer :
               /\ mirror'[q] = jobs[j].answer[l] /\ jobs[j].answer[l] # Unknown
               /\ jobs[j].answer[l].of = q /\ q \notin jobs[j].raced
      BY <2>3
    <3>2. jobs[j].answer[l].ver >= Passed(q)
      BY <3>1, <1>1, <1>2 DEF Fresh
    <3>3. QED
      BY <3>1, <3>2, <1>3
  <2>4. QED
    BY <2>1, <2>2, <2>3, ApplyFacts
<1>5. jobs' \in [Jobs -> BatchJobs] /\ \A i \in Jobs : Aligned(jobs'[i]) /\ Fresh(jobs[i])'
  <2>1. <<>> \in Seq(Pools) /\ <<>> \in Seq(PoolStates \cup {Unknown})
    OBVIOUS
  <2>2. Rest(jobs[j]) \in BatchJobs /\ Rest(jobs[j]).pc # "answer"
    BY <2>1, <1>2 DEF Rest, BatchJobs
  <2>3. Aligned(Rest(jobs[j])) /\ Fresh(Rest(jobs[j]))
    BY <2>2 DEF Aligned, Fresh
  <2>4. QED
    BY <2>2, <2>3, <1>1, JobInv
<1>6. MirrorTypeOK'
  <2>1. \A p \in Pools : mirror'[p] \in PoolStates \cup {Absent, Unknown}
    BY <1>2, ApplyFacts
  <2>2. mirror' = [p \in Pools |-> mirror'[p]]
    BY DEF ApplyChunk
  <2>3. QED
    BY <2>1, <2>2, <1>1, <1>5 DEF MirrorInv, MirrorTypeOK
<1>7. QED
  BY <1>3, <1>4, <1>5, <1>6 DEF MirrorInv

-----------------------------------------------------------------------------
(* The start, the new pools, pruning, the checkpoint and the crash.        *)

LEMMA StartJobInv ==
    ASSUME MirrorInv, NEW j \in Jobs, NEW job \in BatchJobs, Aligned(job), Fresh(job),
           jobs' = [jobs EXCEPT ![j] = job], UNCHANGED <<ver, sub, wire, mirror, disk, suspect>>
    PROVE  MirrorInv'
<1>1. jobs' \in [Jobs -> BatchJobs] /\ \A i \in Jobs : Aligned(jobs'[i]) /\ Fresh(jobs[i])'
  BY JobInv
<1>2. WireInOrder' /\ LagExplained'
  BY WireKept, LagKept
<1>3. MirrorTypeOK'
  BY <1>1 DEF MirrorInv, MirrorTypeOK
<1>4. QED
  BY <1>1, <1>2, <1>3 DEF MirrorInv

LEMMA BootstrapInv ==
    MirrorInv /\ (BeginBootstrap \/ EndBootstrap \/ CancelBootstrap) => MirrorInv'
<1>1. SUFFICES ASSUME MirrorInv, BeginBootstrap \/ EndBootstrap \/ CancelBootstrap
               PROVE  MirrorInv'
  OBVIOUS
<1>2. UNCHANGED <<ver, sub, wire, mirror, disk, suspect>> /\ "boot" \in Jobs
  BY <1>1 DEF BeginBootstrap, EndBootstrap, CancelBootstrap, chainVars, Jobs
<1>3. \E S \in SUBSET Pools : \/ jobs' = [jobs EXCEPT !["boot"] = Started(S)]
                              \/ jobs' = [jobs EXCEPT !["boot"] = NoJob]
  <2>1. Present \cap TopPools \in SUBSET Pools /\ Present \ TopPools \in SUBSET Pools
    BY DEF Present
  <2>2. QED
    BY <1>1, <2>1 DEF BeginBootstrap, EndBootstrap, CancelBootstrap
<1>4. QED
  BY <1>1, <1>2, <1>3, StartedJob, StartJobInv

LEMMA BeginInitInv ==
    ASSUME MirrorInv, NEW p \in Pools, BeginInit(p)
    PROVE  MirrorInv'
<1>1. /\ UNCHANGED <<ver, sub, wire, mirror, disk, suspect>> /\ "init" \in Jobs
      /\ jobs' = [jobs EXCEPT !["init"] = Started({p})]
  BY DEF BeginInit, chainVars, Jobs
<1>2. {p} \in SUBSET Pools
  OBVIOUS
<1>3. QED
  BY <1>1, <1>2, StartedJob, StartJobInv

\* Entries are forgotten, or made empty.
LEMMA ForgetInv ==
    ASSUME MirrorInv, UNCHANGED <<ver, sub, wire, jobs, disk, suspect>>,
           mirror' \in [Pools -> PoolStates \cup {Absent, Unknown}],
           \A p \in Pools : mirror'[p] \in {Absent, Unknown, mirror[p]}
    PROVE  MirrorInv'
<1>1. WireInOrder' /\ \A p \in Pools : Passed(p)' = Passed(p)
  BY WireKept
<1>2. jobs' \in [Jobs -> BatchJobs] /\ \A i \in Jobs : Aligned(jobs'[i]) /\ Fresh(jobs[i])'
  BY <1>1, JobsKept
<1>3. LagExplained'
  <2>1. SUFFICES ASSUME NEW q \in Pools, mirror'[q] # Absent, q \notin suspect',
                        mirror'[q] # Unknown
                 PROVE  mirror'[q].ver >= Passed(q)'
    BY DEF LagExplained, Present
  <2>2. mirror'[q] = mirror[q] /\ q \notin suspect
    BY <2>1
  <2>3. QED
    BY <2>1, <2>2, <1>1 DEF MirrorInv, LagExplained, Present
<1>4. MirrorTypeOK'
  BY <1>2 DEF MirrorInv, MirrorTypeOK
<1>5. QED
  BY <1>1, <1>2, <1>3, <1>4 DEF MirrorInv

LEMMA RegisterPoolInv ==
    ASSUME MirrorInv, NEW p \in Pools, RegisterPool(p)
    PROVE  MirrorInv'
<1>1. /\ UNCHANGED <<ver, sub, wire, jobs, disk, suspect>>
      /\ mirror' = IF p \in Present THEN mirror ELSE [mirror EXCEPT ![p] = Unknown]
  BY DEF RegisterPool, chainVars
<1>2. mirror \in [Pools -> PoolStates \cup {Absent, Unknown}]
  BY DEF MirrorInv, MirrorTypeOK
<1>3. /\ mirror' \in [Pools -> PoolStates \cup {Absent, Unknown}]
      /\ \A q \in Pools : mirror'[q] \in {Absent, Unknown, mirror[q]}
  BY <1>1, <1>2
<1>4. QED
  BY <1>1, <1>3, ForgetInv

LEMMA PruneInv == MirrorInv /\ Prune => MirrorInv'
<1>1. SUFFICES ASSUME MirrorInv, Prune PROVE MirrorInv'
  OBVIOUS
<1>2. PICK idle : mirror' = [p \in Pools |-> IF p \in idle THEN Absent ELSE mirror[p]]
  BY <1>1 DEF Prune
<1>3. UNCHANGED <<ver, sub, wire, jobs, disk, suspect>>
  BY <1>1 DEF Prune, chainVars
<1>4. /\ mirror' \in [Pools -> PoolStates \cup {Absent, Unknown}]
      /\ \A p \in Pools : mirror'[p] \in {Absent, Unknown, mirror[p]}
  BY <1>1, <1>2 DEF MirrorInv, MirrorTypeOK
<1>5. QED
  BY <1>1, <1>3, <1>4, ForgetInv

LEMMA RestartInv == MirrorInv /\ Restart => MirrorInv'
<1>1. SUFFICES ASSUME MirrorInv, Restart PROVE MirrorInv'
  OBVIOUS
<1>2. /\ UNCHANGED ver /\ sub' = "none" /\ wire' = <<>> /\ suspect' = Pools
      /\ mirror' = IF disk = Torn THEN EmptyMirror ELSE disk
      /\ jobs' = [j \in Jobs |-> NoJob] /\ disk' \in {disk, Torn}
  BY <1>1 DEF Restart
<1>3. \A j \in Jobs : jobs'[j] \in BatchJobs /\ jobs'[j].pc # "answer"
  <2>1. NoJob \in BatchJobs /\ NoJob.pc = "off"
    BY StartedJob, {} \in SUBSET Pools DEF NoJob
  <2>2. QED
    BY <2>1, <1>2
<1>4. \A j \in Jobs : Aligned(jobs'[j]) /\ Fresh(jobs[j])'
  BY <1>3 DEF Aligned, Fresh
<1>5. WireInOrder' /\ LagExplained'
  BY <1>2 DEF WireInOrder, LagExplained, Present
<1>6. MirrorTypeOK'
  <2>1. wire' \in Seq(Logs) /\ jobs' \in [Jobs -> BatchJobs]
    BY <1>2, <1>3
  <2>2. mirror' \in [Pools -> PoolStates \cup {Absent, Unknown}]
    BY <1>1, <1>2 DEF MirrorInv, MirrorTypeOK, EmptyMirror
  <2>3. QED
    BY <2>1, <2>2, <1>1, <1>2 DEF MirrorInv, MirrorTypeOK
<1>7. QED
  BY <1>4, <1>5, <1>6 DEF MirrorInv

\* The header changes nothing the invariant speaks of, and a checkpoint is a copy.
LEMMA CheckpointInv == MirrorInv /\ (ReceiveHeader \/ SaveCheckpoint) => MirrorInv'
<1>1. SUFFICES ASSUME MirrorInv, ReceiveHeader \/ SaveCheckpoint PROVE MirrorInv'
  OBVIOUS
<1>2. UNCHANGED <<ver, sub, wire, mirror, jobs, suspect>> /\ disk' \in {disk, mirror, Torn}
  BY <1>1 DEF ReceiveHeader, SaveCheckpoint, chainVars
<1>3. WireInOrder' /\ LagExplained' /\ \A p \in Pools : Passed(p)' = Passed(p)
  BY <1>1, <1>2, WireKept, LagKept
<1>4. jobs' \in [Jobs -> BatchJobs] /\ \A i \in Jobs : Aligned(jobs'[i]) /\ Fresh(jobs[i])'
  BY <1>1, <1>2, <1>3, JobsKept
<1>5. MirrorTypeOK'
  BY <1>1, <1>2, <1>4 DEF MirrorInv, MirrorTypeOK
<1>6. QED
  BY <1>3, <1>4, <1>5 DEF MirrorInv

-----------------------------------------------------------------------------
(* The lag of the mirror.                                                  *)

LEMMA MirrorInitInv == MirrorInit => MirrorInv
<1>1. SUFFICES ASSUME MirrorInit PROVE MirrorInv
  OBVIOUS
<1>2. /\ ver = [p \in Pools |-> 0] /\ sub = "none" /\ wire = <<>>
      /\ mirror = [p \in Pools |-> Absent] /\ jobs = [j \in Jobs |-> NoJob] /\ disk = Torn
  BY <1>1 DEF MirrorInit, EmptyMirror
<1>3. NoJob \in BatchJobs /\ Aligned(NoJob) /\ Fresh(NoJob)
  BY StartedJob, {} \in SUBSET Pools
<1>4. MirrorTypeOK
  BY <1>2, <1>3 DEF MirrorTypeOK
<1>5. WireInOrder /\ LagExplained
  BY <1>2 DEF WireInOrder, LagExplained, Present
<1>6. \A j \in Jobs : Aligned(jobs[j]) /\ Fresh(jobs[j])
  BY <1>2, <1>3
<1>7. QED
  BY <1>4, <1>5, <1>6 DEF MirrorInv

LEMMA MirrorStepInv == MirrorInv /\ [MirrorNext]_mirrorVars => MirrorInv'
<1>1. SUFFICES ASSUME MirrorInv, [MirrorNext]_mirrorVars PROVE MirrorInv'
  OBVIOUS
<1>2. ASSUME NEW p \in Pools, Swap(p) PROVE MirrorInv'
  BY <1>1, <1>2, SwapInv
<1>3. CASE Connect
  BY <1>1, <1>3, ConnectInv
<1>4. CASE Disconnect
  BY <1>1, <1>4, DisconnectInv
<1>5. CASE ReceiveLog
  BY <1>1, <1>5, ReceiveLogInv
<1>6. CASE ReceiveHeader \/ SaveCheckpoint
  BY <1>1, <1>6, CheckpointInv
<1>7. ASSUME NEW j \in Jobs, AskChunk(j) PROVE MirrorInv'
  BY <1>1, <1>7, AskChunkInv
<1>8. ASSUME NEW j \in Jobs, ApplyChunk(j) PROVE MirrorInv'
  BY <1>1, <1>8, ApplyChunkInv
<1>9. CASE BeginBootstrap \/ EndBootstrap \/ CancelBootstrap
  BY <1>1, <1>9, BootstrapInv
<1>10. ASSUME NEW p \in Pools, RegisterPool(p) PROVE MirrorInv'
  BY <1>1, <1>10, RegisterPoolInv
<1>11. ASSUME NEW p \in Pools, BeginInit(p) PROVE MirrorInv'
  BY <1>1, <1>11, BeginInitInv
<1>12. CASE Prune
  BY <1>1, <1>12, PruneInv
<1>13. CASE Restart
  BY <1>1, <1>13, RestartInv
<1>14. CASE UNCHANGED mirrorVars
  <2>1. UNCHANGED <<ver, sub, wire, mirror, jobs, disk, suspect>>
    BY <1>14 DEF mirrorVars, chainVars
  <2>2. \A p \in Pools : mirror'[p] \in {Absent, Unknown, mirror[p]}
    BY <2>1
  <2>3. mirror' \in [Pools -> PoolStates \cup {Absent, Unknown}]
    BY <1>1, <2>1 DEF MirrorInv, MirrorTypeOK
  <2>4. QED
    BY <1>1, <2>1, <2>2, <2>3, ForgetInv
<1>15. QED
  BY <1>1, <1>2, <1>3, <1>4, <1>5, <1>6, <1>7, <1>8, <1>9, <1>10, <1>11, <1>12, <1>13, <1>14
     DEF MirrorNext

LEMMA MirrorInvHolds == MirrorSpec => []MirrorInv
  BY MirrorInitInv, MirrorStepInv, PTL DEF MirrorSpec

\* Outside the pools whose last log was lost, or whose last answer was overtaken by a
\* log, no entry lags behind the logs that have come in.
THEOREM LagIsExplained == MirrorSpec => []LagExplained
<1>1. MirrorInv => LagExplained
  BY DEF MirrorInv
<1>2. QED
  BY <1>1, MirrorInvHolds, PTL

-----------------------------------------------------------------------------
(* The mirror implements PoolCache.                                        *)

LEMMA FillsMember ==
    ASSUME NEW p \in Pools, NEW f
    PROVE  f \in FillsOf(p) <=>
             \/ \E i \in DOMAIN wire : wire[i].pool = p /\ f = State(p, wire[i].ver)
             \/ \E j \in Jobs : \E i \in DOMAIN jobs[j].answer :
                  f = jobs[j].answer[i] /\ f # Unknown /\ f.of = p
             \/ disk # Torn /\ f = disk[p] /\ f \notin {Absent, Unknown}
  BY DEF FillsOf, Range

LEMMA NextFillsMember ==
    ASSUME NEW p \in Pools, NEW f
    PROVE  f \in FillsOf(p)' <=>
             \/ \E i \in DOMAIN wire' : wire'[i].pool = p /\ f = State(p, wire'[i].ver)
             \/ \E j \in Jobs : \E i \in DOMAIN jobs'[j].answer :
                  f = jobs'[j].answer[i] /\ f # Unknown /\ f.of = p
             \/ disk' # Torn /\ f = disk'[p] /\ f \notin {Absent, Unknown}
  BY DEF FillsOf, Range

\* Where a new fill can come from.
LEMMA NewFill ==
    ASSUME NEW p \in Pools, NEW f \in FillsOf(p)' \ FillsOf(p)
    PROVE  \/ \E i \in DOMAIN wire' : /\ wire'[i].pool = p /\ f = State(p, wire'[i].ver)
                                      /\ \A k \in DOMAIN wire : wire[k] # wire'[i]
           \/ \E j \in Jobs : /\ jobs'[j].answer # jobs[j].answer
                              /\ \E i \in DOMAIN jobs'[j].answer :
                                   f = jobs'[j].answer[i] /\ f # Unknown /\ f.of = p
           \/ disk' \notin {disk, Torn} /\ f = disk'[p]
  BY FillsMember, NextFillsMember

CacheStep ==
    /\ ver' \in [Pools -> Nat] /\ \A p \in Pools : ver'[p] >= ver[p]
    /\ \A p \in Pools : \A f \in FillsOf(p)' \ FillsOf(p) :
         f = State(p, ver'[p]) \/ f = mirror[p]
    /\ \A p \in Pools :
         mirror'[p] # mirror[p] => mirror'[p] \in {Absent, Unknown} \cup FillsOf(p)

LEMMA CacheStepNext == CacheStep => Cache!CacheNext
<1>1. SUFFICES ASSUME CacheStep PROVE Cache!CacheNext
  OBVIOUS
<1>2. Cache!ChainMoves
  BY <1>1 DEF CacheStep, Cache!ChainMoves
<1>3. Cache!FillsStart
  BY <1>1 DEF CacheStep, Cache!FillsStart, Cache!State, State
<1>4. Cache!CacheFilled
  BY <1>1 DEF CacheStep, Cache!CacheFilled
<1>5. QED
  BY <1>2, <1>3, <1>4 DEF Cache!CacheNext

LEMMA OvertakeAnswers ==
    ASSUME MirrorInv, NEW S, jobs' = Overtake(S)
    PROVE  \A j \in Jobs : jobs'[j].answer = jobs[j].answer
<1>1. SUFFICES ASSUME NEW j \in Jobs PROVE jobs'[j].answer = jobs[j].answer
  OBVIOUS
<1>2. jobs[j] \in BatchJobs
  BY DEF MirrorInv, MirrorTypeOK
<1>3. jobs'[j] = IF jobs[j].pc = "answer" THEN [jobs[j] EXCEPT !.raced = @ \cup S] ELSE jobs[j]
  BY DEF Overtake
<1>4. QED
  BY <1>2, <1>3 DEF BatchJobs

\* A step that starts no fill.
LEMMA NoNewFill ==
    ASSUME MirrorInv, ver' = ver, disk' \in {disk, Torn},
           \A i \in DOMAIN wire' : \E k \in DOMAIN wire : wire[k] = wire'[i],
           \A j \in Jobs : jobs'[j].answer \in {jobs[j].answer, <<>>},
           \A p \in Pools :
             mirror'[p] # mirror[p] => mirror'[p] \in {Absent, Unknown} \cup FillsOf(p)
    PROVE  CacheStep
<1>1. ver' \in [Pools -> Nat] /\ \A p \in Pools : ver'[p] >= ver[p]
  BY DEF MirrorInv, MirrorTypeOK
<1>2. \A p \in Pools : \A f \in FillsOf(p)' : f \in FillsOf(p)
  <2>1. SUFFICES ASSUME NEW p \in Pools, NEW f, f \in FillsOf(p)', f \notin FillsOf(p)
                 PROVE  FALSE
    OBVIOUS
  <2>2. CASE \E i \in DOMAIN wire' : /\ wire'[i].pool = p /\ f = State(p, wire'[i].ver)
                                     /\ \A k \in DOMAIN wire : wire[k] # wire'[i]
    BY <2>2
  <2>3. CASE \E j \in Jobs : /\ jobs'[j].answer # jobs[j].answer
                             /\ \E i \in DOMAIN jobs'[j].answer : f = jobs'[j].answer[i]
    <3>1. PICK j \in Jobs : /\ jobs'[j].answer # jobs[j].answer
                            /\ \E i \in DOMAIN jobs'[j].answer : f = jobs'[j].answer[i]
      BY <2>3
    <3>2. jobs'[j].answer = <<>>
      BY <3>1
    <3>3. DOMAIN jobs'[j].answer = {}
      BY <3>2
    <3>4. QED
      BY <3>1, <3>3
  <2>4. QED
    BY <2>1, <2>2, <2>3, NewFill
<1>3. QED
  BY <1>1, <1>2 DEF CacheStep

LEMMA SwapFills ==
    ASSUME MirrorInv, NEW p \in Pools, Swap(p)
    PROVE  CacheStep
<1>1. /\ ver \in [Pools -> Nat] /\ wire \in Seq(Logs) /\ ver' = [ver EXCEPT ![p] = @ + 1]
      /\ UNCHANGED <<mirror, disk>>
  BY DEF Swap, MirrorInv, MirrorTypeOK
<1>2. ver' \in [Pools -> Nat] /\ \A q \in Pools : ver'[q] >= ver[q]
  BY <1>1
<1>3. \A j \in Jobs : jobs'[j].answer = jobs[j].answer
  BY OvertakeAnswers DEF Swap
<1>4. ASSUME NEW q \in Pools, NEW f \in FillsOf(q)' \ FillsOf(q)
      PROVE  f = State(q, ver'[q])
  <2>1. PICK i \in DOMAIN wire' : /\ wire'[i].pool = q /\ f = State(q, wire'[i].ver)
                                  /\ \A k \in DOMAIN wire : wire[k] # wire'[i]
    BY <1>1, <1>3, <1>4, NewFill
  <2>2. CASE sub = "both"
    <3> DEFINE e == [pool |-> p, ver |-> ver'[p]]
    <3>1. e \in Logs /\ wire' = Append(wire, e) /\ e.pool = p /\ e.ver = ver'[p]
      BY <2>2, <1>2 DEF Swap, Logs
    <3> HIDE DEF e
    <3>2. /\ DOMAIN wire' = 1 .. Len(wire) + 1 /\ DOMAIN wire = 1 .. Len(wire)
          /\ wire'[Len(wire) + 1] = e /\ \A k \in 1 .. Len(wire) : wire'[k] = wire[k]
          /\ Len(wire) \in Nat
      BY <3>1, <1>1
    <3>3. i = Len(wire) + 1
      BY <2>1, <3>2
    <3>4. QED
      BY <2>1, <3>1, <3>2, <3>3
  <2>3. CASE sub # "both"
    BY <2>1, <2>3 DEF Swap
  <2>4. QED
    BY <2>2, <2>3
<1>5. QED
  BY <1>1, <1>2, <1>4 DEF CacheStep

LEMMA LogFills ==
    MirrorInv /\ (Connect \/ Disconnect \/ ReceiveLog \/ ReceiveHeader) => CacheStep
<1>1. SUFFICES ASSUME MirrorInv, Connect \/ Disconnect \/ ReceiveLog \/ ReceiveHeader
               PROVE  CacheStep
  OBVIOUS
<1>2. wire \in Seq(Logs) /\ mirror \in [Pools -> PoolStates \cup {Absent, Unknown}]
  BY <1>1 DEF MirrorInv, MirrorTypeOK
<1>3. CASE Connect \/ ReceiveHeader
  BY <1>1, <1>3, NoNewFill DEF Connect, ReceiveHeader, chainVars
<1>4. CASE Disconnect
  <2>1. \A j \in Jobs : jobs'[j].answer = jobs[j].answer
    BY <1>1, <1>4, OvertakeAnswers DEF Disconnect
  <2>2. DOMAIN wire' = {}
    BY <1>4 DEF Disconnect
  <2>3. UNCHANGED <<ver, mirror, disk>>
    BY <1>4 DEF Disconnect
  <2>4. QED
    BY <1>1, <2>1, <2>2, <2>3, NoNewFill
<1>5. CASE ReceiveLog
  <2>1. \A j \in Jobs : jobs'[j].answer = jobs[j].answer
    BY <1>1, <1>5, OvertakeAnswers DEF ReceiveLog
  <2>2. /\ wire # <<>> /\ wire' = Tail(wire) /\ UNCHANGED <<ver, disk>>
        /\ mirror' = IF Head(wire).pool \in Present
                     THEN [mirror EXCEPT ![Head(wire).pool] =
                             State(Head(wire).pool, Head(wire).ver)]
                     ELSE mirror
    BY <1>5 DEF ReceiveLog
  <2>3. /\ DOMAIN wire = 1 .. Len(wire) /\ Len(wire) \in Nat \ {0}
        /\ DOMAIN wire' = 1 .. Len(wire) - 1
        /\ \A i \in 1 .. Len(wire) - 1 : wire'[i] = wire[i + 1]
        /\ Head(wire) = wire[1]
    BY <1>2, <2>2
  <2>4. \A i \in DOMAIN wire' : \E k \in DOMAIN wire : wire[k] = wire'[i]
    <3>1. ASSUME NEW i \in DOMAIN wire' PROVE i + 1 \in DOMAIN wire /\ wire[i + 1] = wire'[i]
      BY <2>3
    <3>2. QED
      BY <3>1
  <2>5. ASSUME NEW p \in Pools, mirror'[p] # mirror[p]
        PROVE  mirror'[p] \in FillsOf(p)
    <3>1. p = wire[1].pool /\ mirror'[p] = State(p, wire[1].ver)
      BY <2>5, <2>2, <2>3, <1>2
    <3>2. 1 \in DOMAIN wire
      BY <2>3
    <3>3. QED
      BY <3>1, <3>2, FillsMember
  <2>6. QED
    BY <1>1, <2>1, <2>2, <2>4, <2>5, NoNewFill
<1>6. QED
  BY <1>1, <1>3, <1>4, <1>5

LEMMA AskChunkFills ==
    ASSUME MirrorInv, NEW j \in Jobs, AskChunk(j)
    PROVE  CacheStep
<1>1. UNCHANGED <<ver, wire, mirror, disk>> /\ ver \in [Pools -> Nat]
  BY DEF AskChunk, chainVars, MirrorInv, MirrorTypeOK
<1>2. jobs \in [Jobs -> BatchJobs] /\ jobs[j] \in BatchJobs
  BY DEF MirrorInv, MirrorTypeOK
<1>3. PICK chunk, failed : jobs' = [jobs EXCEPT ![j] = Asked(jobs[j], chunk, failed)]
  BY DEF AskChunk
<1> DEFINE calls == AllCalls(chunk)
<1>4. /\ \A i \in Jobs : i # j => jobs'[i] = jobs[i]
      /\ jobs'[j].answer = [i \in DOMAIN calls |->
            IF calls[i] \in failed THEN Unknown ELSE State(calls[i], ver[calls[i]])]
  BY <1>2, <1>3 DEF Asked, BatchJobs
<1> HIDE DEF calls
<1>5. ASSUME NEW p \in Pools, NEW f \in FillsOf(p)' \ FillsOf(p)
      PROVE  f = State(p, ver'[p])
  <2>1. PICK i \in DOMAIN jobs'[j].answer : f = jobs'[j].answer[i] /\ f # Unknown /\ f.of = p
    BY <1>1, <1>4, <1>5, NewFill
  <2>2. f = State(calls[i], ver[calls[i]])
    BY <1>4, <2>1
  <2>3. calls[i] = p
    BY <2>1, <2>2 DEF State
  <2>4. QED
    BY <2>2, <2>3, <1>1
<1>6. QED
  BY <1>1, <1>5 DEF CacheStep

LEMMA ApplyChunkFills ==
    ASSUME MirrorInv, NEW j \in Jobs, ApplyChunk(j)
    PROVE  CacheStep
<1>1. /\ UNCHANGED <<ver, wire, disk>>
      /\ jobs' = [jobs EXCEPT ![j] = Rest(jobs[j])]
  BY DEF ApplyChunk, chainVars
<1>2. jobs \in [Jobs -> BatchJobs] /\ jobs[j] \in BatchJobs
  BY DEF MirrorInv, MirrorTypeOK
<1>3. \A i \in Jobs : jobs'[i].answer \in {jobs[i].answer, <<>>}
  <2>1. Rest(jobs[j]).answer = <<>>
    BY <1>2 DEF Rest, BatchJobs
  <2>2. QED
    BY <1>1, <1>2, <2>1
<1>4. ASSUME NEW p \in Pools, mirror'[p] # mirror[p]
      PROVE  mirror'[p] \in {Absent, Unknown} \cup FillsOf(p)
  <2>1. SUFFICES ASSUME NEW l \in DOMAIN jobs[j].answer, mirror'[p] = jobs[j].answer[l],
                        jobs[j].answer[l] # Unknown, jobs[j].answer[l].of = p
                 PROVE  mirror'[p] \in FillsOf(p)
    BY <1>4, ApplyFacts
  <2>2. QED
    BY <2>1, FillsMember
<1>5. QED
  BY <1>1, <1>3, <1>4, NoNewFill

LEMMA StartFills ==
    ASSUME MirrorInv, UNCHANGED <<ver, wire, disk, mirror>>, NEW j \in Jobs, NEW S,
           \/ jobs' = [jobs EXCEPT ![j] = Started(S)]
           \/ jobs' = [jobs EXCEPT ![j] = NoJob]
    PROVE  CacheStep
<1>1. jobs \in [Jobs -> BatchJobs]
  BY DEF MirrorInv, MirrorTypeOK
<1>2. NoJob.answer = <<>> /\ Started(S).answer = <<>>
  BY DEF Started, NoJob
<1>3. \A i \in Jobs : jobs'[i].answer \in {jobs[i].answer, <<>>}
  BY <1>1, <1>2
<1>4. QED
  BY <1>3, NoNewFill

LEMMA BatchStartFills ==
    ASSUME MirrorInv,
           \/ BeginBootstrap \/ EndBootstrap \/ CancelBootstrap
           \/ \E p \in Pools : BeginInit(p)
    PROVE  CacheStep
<1>1. CASE BeginBootstrap \/ EndBootstrap \/ CancelBootstrap
  <2>1. UNCHANGED <<ver, wire, disk, mirror>> /\ "boot" \in Jobs
    BY <1>1 DEF BeginBootstrap, EndBootstrap, CancelBootstrap, chainVars, Jobs
  <2>2. \E S : \/ jobs' = [jobs EXCEPT !["boot"] = Started(S)]
               \/ jobs' = [jobs EXCEPT !["boot"] = NoJob]
    BY <1>1 DEF BeginBootstrap, EndBootstrap, CancelBootstrap
  <2>3. QED
    BY <2>1, <2>2, StartFills
<1>2. CASE \E p \in Pools : BeginInit(p)
  <2>1. UNCHANGED <<ver, wire, disk, mirror>> /\ "init" \in Jobs
    BY <1>2 DEF BeginInit, chainVars, Jobs
  <2>2. \E S : jobs' = [jobs EXCEPT !["init"] = Started(S)]
    BY <1>2 DEF BeginInit
  <2>3. QED
    BY <2>1, <2>2, StartFills
<1>3. QED
  BY <1>1, <1>2

LEMMA ForgetFills ==
    ASSUME MirrorInv, Prune \/ \E p \in Pools : RegisterPool(p)
    PROVE  CacheStep
<1>1. UNCHANGED <<ver, wire, jobs, disk>>
  BY DEF Prune, RegisterPool, chainVars
<1>2. \A p \in Pools : mirror'[p] # mirror[p] => mirror'[p] \in {Absent, Unknown}
  BY DEF Prune, RegisterPool, MirrorInv, MirrorTypeOK
<1>3. QED
  BY <1>1, <1>2, NoNewFill

LEMMA SaveCheckpointFills == MirrorInv /\ SaveCheckpoint => CacheStep
<1>1. SUFFICES ASSUME MirrorInv, SaveCheckpoint PROVE CacheStep
  OBVIOUS
<1>2. /\ UNCHANGED <<ver, wire, mirror, jobs>> /\ disk' \in {mirror, Torn}
      /\ ver \in [Pools -> Nat]
  BY <1>1 DEF SaveCheckpoint, chainVars, MirrorInv, MirrorTypeOK
<1>3. ASSUME NEW p \in Pools, NEW f \in FillsOf(p)' \ FillsOf(p)
      PROVE  f = mirror[p]
  <2>1. disk' \notin {disk, Torn} /\ f = disk'[p]
    BY <1>2, <1>3, NewFill
  <2>2. QED
    BY <2>1, <1>2
<1>4. QED
  BY <1>2, <1>3 DEF CacheStep

LEMMA RestartFills == MirrorInv /\ Restart => CacheStep
<1>1. SUFFICES ASSUME MirrorInv, Restart PROVE CacheStep
  OBVIOUS
<1>2. /\ ver' = ver /\ wire' = <<>> /\ disk' \in {disk, Torn}
      /\ mirror' = IF disk = Torn THEN EmptyMirror ELSE disk
      /\ jobs' = [j \in Jobs |-> NoJob]
  BY <1>1 DEF Restart
<1>3. \A j \in Jobs : jobs'[j].answer = <<>>
  BY <1>2 DEF NoJob
<1>4. ASSUME NEW p \in Pools, mirror'[p] \notin {Absent, Unknown}
      PROVE  mirror'[p] \in FillsOf(p)
  <2>1. disk # Torn /\ mirror'[p] = disk[p]
    BY <1>2, <1>4 DEF EmptyMirror
  <2>2. QED
    BY <2>1, <1>4, FillsMember
<1>5. DOMAIN wire' = {}
  BY <1>2
<1>6. QED
  BY <1>1, <1>2, <1>3, <1>4, <1>5, NoNewFill

LEMMA CacheStepHolds == MirrorInv /\ [MirrorNext]_mirrorVars => CacheStep
<1>1. SUFFICES ASSUME MirrorInv, [MirrorNext]_mirrorVars PROVE CacheStep
  OBVIOUS
<1>2. ASSUME NEW p \in Pools, Swap(p) PROVE CacheStep
  BY <1>1, <1>2, SwapFills
<1>3. CASE Connect \/ Disconnect \/ ReceiveLog \/ ReceiveHeader
  BY <1>1, <1>3, LogFills
<1>4. ASSUME NEW j \in Jobs, AskChunk(j) PROVE CacheStep
  BY <1>1, <1>4, AskChunkFills
<1>5. ASSUME NEW j \in Jobs, ApplyChunk(j) PROVE CacheStep
  BY <1>1, <1>5, ApplyChunkFills
<1>6. CASE \/ BeginBootstrap \/ EndBootstrap \/ CancelBootstrap
           \/ \E p \in Pools : BeginInit(p)
  BY <1>1, <1>6, BatchStartFills
<1>7. CASE Prune \/ \E p \in Pools : RegisterPool(p)
  BY <1>1, <1>7, ForgetFills
<1>8. CASE SaveCheckpoint
  BY <1>1, <1>8, SaveCheckpointFills
<1>9. CASE Restart
  BY <1>1, <1>9, RestartFills
<1>10. CASE UNCHANGED mirrorVars
  BY <1>1, <1>10, NoNewFill DEF mirrorVars, chainVars
<1>11. QED
  BY <1>1, <1>2, <1>3, <1>4, <1>5, <1>6, <1>7, <1>8, <1>9, <1>10 DEF MirrorNext

LEMMA CacheStarts == MirrorInit => Cache!CacheInit
<1>1. SUFFICES ASSUME MirrorInit PROVE Cache!CacheInit
  OBVIOUS
<1>2. wire = <<>> /\ jobs = [j \in Jobs |-> NoJob] /\ disk = Torn /\ mirror = EmptyMirror
      /\ ver = [p \in Pools |-> 0]
  BY <1>1 DEF MirrorInit
<1>3. \A j \in Jobs : jobs[j].answer = <<>>
  BY <1>2 DEF NoJob
<1>4. DOMAIN wire = {} /\ \A j \in Jobs : DOMAIN jobs[j].answer = {}
  BY <1>2, <1>3
<1>5. \A p \in Pools : FillsOf(p) = {}
  BY <1>2, <1>4, FillsMember
<1>6. QED
  BY <1>2, <1>5 DEF Cache!CacheInit, EmptyMirror

\* The mirror implements PoolCache: whatever overtakes what, an entry is a state its own
\* pool had when a log, a multicall or the checkpoint captured it.
THEOREM MirrorImplementsCache == MirrorSpec => CacheHolds
<1>1. MirrorInit => Cache!CacheInit
  BY CacheStarts
<1>2. MirrorInv /\ [MirrorNext]_mirrorVars => Cache!CacheNext
  BY CacheStepHolds, CacheStepNext
<1>3. QED
  BY <1>1, <1>2, MirrorInvHolds, PTL DEF MirrorSpec, CacheHolds, Cache!CacheSpec

=============================================================================
