---------------------------- MODULE CommandsProofs ----------------------------
(***************************************************************************)
(* Proofs about the queries of the module graph, for every graph, and      *)
(* about the scan and the commands built on one, for every build, change   *)
(* and baseline.                                                           *)
(***************************************************************************)
EXTENDS Cli, FixpointProofs, SequenceTheorems

(* A set that the neighbours of its members belong to *)
ClosedUnder(S, next) == \A n \in S \cap DOMAIN next : next[n] \subseteq S

(* The loop over a queue finds what is closed under the neighbours and     *)
(* holds the nodes it starts from, and no more (reachable_nodes,           *)
(* reverse_reachable): no round is missing, however long the chains are.   *)
THEOREM ClosureIsLeast ==
  ASSUME NEW D, IsFiniteSet(D), NEW next \in [D -> SUBSET D],
         NEW from \in SUBSET D
  PROVE  /\ Closure(from, next) \in SUBSET D
         /\ from \subseteq Closure(from, next)
         /\ ClosedUnder(Closure(from, next), next)
         /\ \A C : from \subseteq C /\ ClosedUnder(C, next)
                    => Closure(from, next) \subseteq C
<1> DEFINE F == [S \in SUBSET D |-> S \cup UNION {next[n] : n \in S}]
           IsAfter(a, N) == a = [i \in 0..N |->
                IF i = 0 THEN from
                ELSE a[i - 1] \cup UNION {next[n] : n \in a[i - 1]}]
           after(N) == CHOOSE a : IsAfter(a, N)
<1>1. Cardinality(D) \in Nat /\ DOMAIN next = D
  BY FS_CardinalityType
<1>2. Adds(F, D) /\ \A S \in SUBSET D : F[S] = S \cup UNION {next[n] : n \in S}
  BY DEF Adds
<1> HIDE DEF F
<1>3. ASSUME NEW N \in Nat
      PROVE  Rounds(after(N), F, from, D, N)
  <2>0. PICK a : Iterates(a, F, from, SUBSET D, N)
    BY <1>2, RoundsExist
  <2>1. /\ a \in [0..N -> SUBSET D] /\ a[0] = from
        /\ \A i \in 1..N : a[i] = F[a[i - 1]]
    BY <2>0 DEF Iterates
  <2>2. \A i \in 0..N : i # 0 =>
            a[i] = a[i - 1] \cup UNION {next[n] : n \in a[i - 1]}
    <3> SUFFICES ASSUME NEW i \in 0..N, i # 0
                 PROVE  a[i] = a[i - 1] \cup UNION {next[n] : n \in a[i - 1]}
      OBVIOUS
    <3>1. i \in 1..N /\ i - 1 \in 0..N
      OBVIOUS
    <3>2. a[i] = F[a[i - 1]] /\ a[i - 1] \in SUBSET D
      BY <2>1, <3>1
    <3> QED
      BY <1>2, <3>2
  <2>3. IsAfter(a, N)
    BY <2>1, <2>2
  <2>4. IsAfter(after(N), N)
    <3> HIDE DEF IsAfter
    <3> QED
      BY <2>3
  <2> HIDE DEF after
  <2>5. after(N)[0] = from
    BY <2>4
  <2>6. ASSUME NEW i \in 1..N, after(N)[i - 1] \in SUBSET D
        PROVE  after(N)[i] = F[after(N)[i - 1]]
    <3>1. i \in 0..N /\ i # 0
      OBVIOUS
    <3>2. after(N)[i] = after(N)[i - 1]
                            \cup UNION {next[n] : n \in after(N)[i - 1]}
      BY <2>4, <3>1
    <3> QED
      BY <1>2, <2>6, <3>2
  <2> QED
    BY <2>5, <2>6 DEF Rounds
<1>4. Closure(from, next) = after(Cardinality(D))[Cardinality(D)]
  BY <1>1 DEF Closure
<1> HIDE DEF after
<1>5. Reached(Closure(from, next), F, from, D)
  BY <1>1, <1>2, <1>3, <1>4, RoundsReach
<1>6. ASSUME NEW C, from \subseteq C, ClosedUnder(C, next)
      PROVE  \A S \in SUBSET D : S \subseteq C => F[S] \subseteq C
  BY <1>1, <1>2, <1>6 DEF ClosedUnder
<1>7. ClosedUnder(Closure(from, next), next)
  BY <1>1, <1>2, <1>5 DEF ClosedUnder, Reached
<1> QED
  BY <1>5, <1>6, <1>7 DEF Reached

-----------------------------------------------------------------------------
(* Reachability                                                            *)

(* What is reached from two nodes of a graph, along its edges and against  *)
(* them, in the form in which the proofs use it                            *)
From(g, S) == Closure(S, Onwards(g))
To(g, S) == Closure(S, Backwards(g))

LEMMA FromIsLeast ==
  ASSUME NEW g, IsFiniteSet(NodesOf(g)), NEW S \in SUBSET NodesOf(g)
  PROVE  /\ From(g, S) \in SUBSET NodesOf(g) /\ S \subseteq From(g, S)
         /\ \A n \in From(g, S) : Successors(g, n) \subseteq From(g, S)
         /\ \A C : S \subseteq C /\ (\A n \in C \cap NodesOf(g) : Successors(g, n) \subseteq C)
                    => From(g, S) \subseteq C
<1>1. Onwards(g) \in [NodesOf(g) -> SUBSET NodesOf(g)]
  BY DEF Onwards, Successors
<1>2. \A n \in NodesOf(g) : Onwards(g)[n] = Successors(g, n)
  BY DEF Onwards
<1>3. \A C : ClosedUnder(C, Onwards(g)) <=>
                \A n \in C \cap NodesOf(g) : Successors(g, n) \subseteq C
  BY <1>1, <1>2 DEF ClosedUnder
<1>4. /\ From(g, S) \in SUBSET NodesOf(g) /\ S \subseteq From(g, S)
      /\ ClosedUnder(From(g, S), Onwards(g))
      /\ \A C : S \subseteq C /\ ClosedUnder(C, Onwards(g)) => From(g, S) \subseteq C
  BY <1>1, ClosureIsLeast DEF From
<1> QED
  BY <1>3, <1>4

LEMMA ToIsLeast ==
  ASSUME NEW g, IsFiniteSet(NodesOf(g)), NEW S \in SUBSET NodesOf(g)
  PROVE  /\ To(g, S) \in SUBSET NodesOf(g) /\ S \subseteq To(g, S)
         /\ \A m \in NodesOf(g), n \in To(g, S) : <<m, n>> \in g.edges => m \in To(g, S)
         /\ \A C : /\ S \subseteq C
                   /\ \A m \in NodesOf(g), n \in C \cap NodesOf(g) :
                        <<m, n>> \in g.edges => m \in C
                  => To(g, S) \subseteq C
<1>1. Backwards(g) \in [NodesOf(g) -> SUBSET NodesOf(g)]
  BY DEF Backwards
<1>2. \A n \in NodesOf(g) :
            Backwards(g)[n] = {m \in NodesOf(g) : <<m, n>> \in g.edges}
  BY DEF Backwards
<1>3. \A C : ClosedUnder(C, Backwards(g)) <=>
                \A m \in NodesOf(g), n \in C \cap NodesOf(g) :
                    <<m, n>> \in g.edges => m \in C
  BY <1>1, <1>2 DEF ClosedUnder
<1>4. /\ To(g, S) \in SUBSET NodesOf(g) /\ S \subseteq To(g, S)
      /\ ClosedUnder(To(g, S), Backwards(g))
      /\ \A C : S \subseteq C /\ ClosedUnder(C, Backwards(g)) => To(g, S) \subseteq C
  BY <1>1, ClosureIsLeast DEF To
<1>5. \A m \in NodesOf(g), n \in To(g, S) : <<m, n>> \in g.edges => m \in To(g, S)
  BY <1>3, <1>4
<1>6. \A C : /\ S \subseteq C
             /\ \A m \in NodesOf(g), n \in C \cap NodesOf(g) :
                  <<m, n>> \in g.edges => m \in C
            => To(g, S) \subseteq C
  <2> SUFFICES ASSUME NEW C, S \subseteq C,
                      \A m \in NodesOf(g), n \in C \cap NodesOf(g) :
                        <<m, n>> \in g.edges => m \in C
               PROVE  To(g, S) \subseteq C
    OBVIOUS
  <2>1. ClosedUnder(C, Backwards(g))
    BY <1>3
  <2> QED
    BY <1>4, <2>1
<1>7. To(g, S) \in SUBSET NodesOf(g) /\ S \subseteq To(g, S)
  BY <1>4
<1> QED
  BY <1>5, <1>6, <1>7

(* A node is reached from another exactly when that one reaches it: the    *)
(* walk of the analyzers along the edges (reachable_nodes) and the walk of *)
(* impact and safe-delete against them (reverse_reachable) agree.          *)
THEOREM WalksAgree ==
  ASSUME NEW g, IsFiniteSet(NodesOf(g)), NEW m \in NodesOf(g), NEW n \in NodesOf(g)
  PROVE  m \in From(g, {n}) <=> n \in To(g, {m})
<1> DEFINE C == {x \in NodesOf(g) : n \in To(g, {x})}
           D == {x \in NodesOf(g) : m \in From(g, {x})}
<1>1. From(g, {n}) \subseteq C
  <2>1. {n} \subseteq C
    BY ToIsLeast
  <2>2. ASSUME NEW x \in C, NEW y \in Successors(g, x)
        PROVE  y \in C
    <3>1. y \in NodesOf(g) /\ <<x, y>> \in g.edges
      BY DEF Successors
    <3>2. x \in To(g, {y})
      BY <3>1, ToIsLeast
    <3>3. To(g, {x}) \subseteq To(g, {y})
      BY <3>1, <3>2, ToIsLeast
    <3> QED
      BY <3>1, <3>3
  <2> HIDE DEF C
  <2> QED
    BY <2>1, <2>2, FromIsLeast
<1>2. To(g, {m}) \subseteq D
  <2>1. {m} \subseteq D
    BY FromIsLeast
  <2>2. ASSUME NEW x \in NodesOf(g), NEW y \in D, <<x, y>> \in g.edges
        PROVE  x \in D
    <3>1. y \in From(g, {x})
      BY <2>2, FromIsLeast DEF Successors
    <3>2. From(g, {y}) \subseteq From(g, {x})
      BY <3>1, FromIsLeast
    <3> QED
      BY <3>2
  <2> HIDE DEF D
  <2> QED
    BY <2>1, <2>2, ToIsLeast
<1> QED
  BY <1>1, <1>2

(* What a set reaches is what its members reach. *)
LEMMA FromMembers ==
  ASSUME NEW g, IsFiniteSet(NodesOf(g)), NEW S \in SUBSET NodesOf(g)
  PROVE  From(g, S) = UNION {From(g, {s}) : s \in S}
<1>1. \A s \in S : From(g, {s}) \subseteq From(g, S)
  BY FromIsLeast
<1>2. ASSUME NEW C, C = UNION {From(g, {s}) : s \in S}
      PROVE  From(g, S) \subseteq C
  <2>1. S \subseteq C
    BY <1>2, FromIsLeast
  <2>2. ASSUME NEW n \in C \cap NodesOf(g)
        PROVE  Successors(g, n) \subseteq C
    <3>1. PICK s \in S : n \in From(g, {s})
      BY <1>2
    <3>2. Successors(g, n) \subseteq From(g, {s})
      BY <3>1, FromIsLeast
    <3> QED
      BY <1>2, <3>2
  <2> QED
    BY <2>1, <2>2, FromIsLeast
<1> QED
  BY <1>1, <1>2

(* A file is reported unused by the walk from the entrypoints exactly when *)
(* impact names no entrypoint for it, whatever the graph: safe-delete,     *)
(* which asks for the impact, and unused_files.rs cannot contradict each   *)
(* other (impact.rs, unused_files.rs).                                     *)
THEOREM UnusedMeansNoImpact ==
  ASSUME NEW g, IsFiniteSet(NodesOf(g)), NEW f \in FileNodes(g), NEW profile
  PROVE  f \in ReachableFileIds(g, profile) <=> Impact(g, f, profile).entrypoints # {}
<1> DEFINE starts == EntrypointNodes(g, profile)
<1>1. f \in NodesOf(g) /\ starts \subseteq NodesOf(g)
  BY DEF FileNodes, EntrypointNodes
<1>2. f \in ReachableFileIds(g, profile) <=> \E s \in starts : f \in From(g, {s})
  <2>1. f \in ReachableFileIds(g, profile) <=> f \in From(g, starts)
    BY DEF ReachableFileIds, ReachableNodes, From
  <2> HIDE DEF starts
  <2>2. From(g, starts) = UNION {From(g, {s}) : s \in starts}
    BY <1>1, FromMembers
  <2> QED
    BY <2>1, <2>2
<1>3. Impact(g, f, profile).entrypoints = To(g, {f}) \cap starts
  BY DEF Impact, ReverseReachable, To
<1>4. \A s \in starts : f \in From(g, {s}) <=> s \in To(g, {f})
  BY <1>1, WalksAgree
<1> QED
  BY <1>2, <1>3, <1>4

(* Whatever imports a file, or imports what imports it, is in its impact.  *)
LEMMA ImpactHoldsImporters ==
  ASSUME NEW g, IsFiniteSet(NodesOf(g)), NEW f \in FileNodes(g), NEW profile,
         NEW n \in NodesOf(g), <<n, f>> \in g.edges
  PROVE  /\ n \in FileNodes(g) => n \in Impact(g, f, profile).files
         /\ n \in EntrypointNodes(g, profile)
                => n \in Impact(g, f, profile).entrypoints
<1>1. n \in To(g, {f})
  BY ToIsLeast DEF FileNodes
<1> QED
  BY <1>1 DEF Impact, ReverseReachable, To

(* The components are those of nodes that reach each other, and no node is *)
(* in two of them (cycles.rs).                                             *)
THEOREM ComponentsPartition ==
  ASSUME NEW g, IsFiniteSet(NodesOf(g)), NEW m \in NodesOf(g), NEW n \in NodesOf(g)
  PROVE  /\ n \in Component(g, n)
         /\ m \in Component(g, n) <=> m \in From(g, {n}) /\ n \in From(g, {m})
         /\ Component(g, m) \cap Component(g, n) # {} => Component(g, m) = Component(g, n)
<1>1. ASSUME NEW x \in NodesOf(g)
      PROVE  /\ Component(g, x) = From(g, {x}) \cap To(g, {x})
             /\ Component(g, x) \subseteq NodesOf(g)
             /\ x \in Component(g, x)
  BY FromIsLeast, ToIsLeast DEF Component, From, To
<1>2. ASSUME NEW x \in NodesOf(g), NEW y \in Component(g, x)
      PROVE  /\ From(g, {x}) = From(g, {y}) /\ To(g, {x}) = To(g, {y})
  <2>1. y \in NodesOf(g) /\ y \in From(g, {x}) /\ y \in To(g, {x})
    BY <1>1
  <2>2. x \in From(g, {y}) /\ x \in To(g, {y})
    BY <2>1, WalksAgree
  <2>3. From(g, {y}) \subseteq From(g, {x}) /\ From(g, {x}) \subseteq From(g, {y})
    BY <2>1, <2>2, FromIsLeast
  <2>4. To(g, {y}) \subseteq To(g, {x})
    BY <2>1, ToIsLeast
  <2>5. To(g, {x}) \subseteq To(g, {y})
    BY <2>1, <2>2, ToIsLeast
  <2> QED
    BY <2>3, <2>4, <2>5
<1>3. m \in Component(g, n) <=> m \in From(g, {n}) /\ n \in From(g, {m})
  BY <1>1, WalksAgree
<1>4. ASSUME NEW y \in Component(g, m) \cap Component(g, n)
      PROVE  Component(g, m) = Component(g, n)
  <2>1. From(g, {m}) = From(g, {n}) /\ To(g, {m}) = To(g, {n})
    BY <1>2
  <2> QED
    BY <1>1, <2>1
<1> QED
  BY <1>1, <1>3, <1>4

-----------------------------------------------------------------------------
(* The breadth-first search                                                *)

(* A finite set as a sequence holds each of its elements once. *)
LEMMA SetToSeqIsList ==
  ASSUME NEW S, IsFiniteSet(S)
  PROVE  /\ SetToSeq(S) \in Seq(S)
         /\ Len(SetToSeq(S)) = Cardinality(S)
         /\ ToSet(SetToSeq(S)) = S
         /\ \A i, j \in 1..Cardinality(S) :
                SetToSeq(S)[i] = SetToSeq(S)[j] => i = j
<1> DEFINE n == Cardinality(S)
           f == SetToSeq(S)
<1>1. n \in Nat /\ IsFiniteSet(1..n) /\ Cardinality(1..n) = n
  BY FS_CardinalityType, FS_Interval
<1>2. ExistsBijection(1..n, S)
  <2>1. PICK k \in Nat : ExistsBijection(1..k, S)
    BY FS_NatBijection
  <2>2. k = n
    BY <2>1, FS_CountingElements
  <2> QED
    BY <2>1, <2>2
<1>3. \E h \in [1..n -> S] : IsInjective(h)
  <2>1. PICK h : h \in Bijection(1..n, S)
    BY <1>2 DEF ExistsBijection
  <2>2. h \in [1..n -> S] /\ \A a, b \in 1..n : h[a] = h[b] => a = b
    BY <2>1 DEF Bijection, Injection, IsInjective
  <2> QED
    BY <2>2 DEF IsInjective
<1>4. f \in [1..n -> S] /\ IsInjective(f)
  BY <1>3 DEF SetToSeq
<1> HIDE DEF f
<1>5. \A i, j \in 1..n : f[i] = f[j] => i = j
  BY <1>4 DEF IsInjective
<1>6. f \in Injection(1..n, S)
  BY <1>4, <1>5 DEF Injection, IsInjective
<1>7. f \in Surjection(1..n, S)
  BY <1>1, <1>6, FS_Injection
<1>8. f \in Seq(S) /\ Len(f) = n /\ DOMAIN f = 1..n
  BY <1>1, <1>4
<1>9. ToSet(f) = S
  BY <1>4, <1>7, <1>8 DEF ToSet, Surjection
<1> QED
  BY <1>5, <1>8, <1>9 DEF f

BfsState(g) == [queue : Seq(NodesOf(g)), visited : SUBSET NodesOf(g),
                parent : [NodesOf(g) -> NodesOf(g) \cup {None}]]

(* The nodes that have been taken from the queue *)
Taken(b) == b.visited \ ToSet(b.queue)

(* d is how far from a start each visited node is: one further than its    *)
(* parent.  The queue is in this order and spans two distances at most.    *)
Layered(g, starts, b, d) ==
    /\ d \in [NodesOf(g) -> Nat]
    /\ \A n \in starts : d[n] = 0 /\ b.parent[n] = None
    /\ \A n \in b.visited \ starts :
          /\ b.parent[n] \in Taken(b)
          /\ n \in Successors(g, b.parent[n])
          /\ d[n] = d[b.parent[n]] + 1
    /\ \A n \in b.visited : d[n] <= Cardinality(Taken(b))
    /\ \A n \in Taken(b) : \A m \in Successors(g, n) :
          m \in b.visited /\ d[m] <= d[n] + 1
    /\ \A i, j \in 1..Len(b.queue) :
          /\ i <= j => d[b.queue[i]] <= d[b.queue[j]]
          /\ d[b.queue[i]] <= d[b.queue[1]] + 1
    /\ \A n \in Taken(b), i \in 1..Len(b.queue) : d[n] <= d[b.queue[i]]

BfsInv(g, starts, target, b) ==
    /\ b \in BfsState(g)
    /\ starts \subseteq b.visited /\ ToSet(b.queue) \subseteq b.visited
    /\ \A i, j \in 1..Len(b.queue) : b.queue[i] = b.queue[j] => i = j
    /\ target \notin Taken(b)
    /\ \E d : Layered(g, starts, b, d)

LEMMA BfsBegins ==
  ASSUME NEW g, IsFiniteSet(NodesOf(g)), NEW starts \in SUBSET NodesOf(g),
         NEW target
  PROVE  LET b == [queue |-> SetToSeq(starts), visited |-> starts,
                   parent |-> [n \in NodesOf(g) |-> None]]
         IN BfsInv(g, starts, target, b) /\ Taken(b) = {}
<1> DEFINE b == [queue |-> SetToSeq(starts), visited |-> starts,
                 parent |-> [n \in NodesOf(g) |-> None]]
           d == [n \in NodesOf(g) |-> 0]
<1>1. IsFiniteSet(starts)
  BY FS_Subset
<1>2. /\ b.queue \in Seq(starts) /\ ToSet(b.queue) = starts
      /\ \A i, j \in 1..Len(b.queue) : b.queue[i] = b.queue[j] => i = j
  BY <1>1, SetToSeqIsList
<1>3. b \in BfsState(g)
  BY <1>2 DEF BfsState
<1>4. Taken(b) = {} /\ Cardinality(Taken(b)) = 0
  BY <1>2, FS_EmptySet DEF Taken
<1>5. \A i \in 1..Len(b.queue) : d[b.queue[i]] = 0
  BY <1>2
<1>6. Layered(g, starts, b, d)
  BY <1>4, <1>5 DEF Layered
<1> HIDE DEF d
<1> QED
  BY <1>2, <1>3, <1>4, <1>6 DEF BfsInv

(* A round of the search: what it takes from the queue stays within the    *)
(* distances, and what it adds is one further.                             *)
LEMMA BfsGoesOn ==
  ASSUME NEW g, IsFiniteSet(NodesOf(g)), NEW starts \in SUBSET NodesOf(g),
         NEW target, NEW b, BfsInv(g, starts, target, b),
         b.queue # <<>>, Head(b.queue) # target
  PROVE  /\ BfsInv(g, starts, target, Visit(g, b))
         /\ Head(b.queue) \notin Taken(b)
         /\ Taken(Visit(g, b)) = Taken(b) \cup {Head(b.queue)}
<1> DEFINE q == b.queue
           node == Head(q)
           new == Successors(g, node) \ b.visited
           s == SetToSeq(new)
           c == Visit(g, b)
           L == Len(q)
           taken == Taken(b)
<1>1. /\ q \in Seq(NodesOf(g)) /\ b.visited \in SUBSET NodesOf(g)
      /\ b.parent \in [NodesOf(g) -> NodesOf(g) \cup {None}]
      /\ L \in Nat /\ L >= 1 /\ node = q[1] /\ node \in NodesOf(g)
      /\ \A i \in 1..L : q[i] \in NodesOf(g)
  BY DEF BfsInv, BfsState
<1>2. /\ starts \subseteq b.visited /\ \A i \in 1..L : q[i] \in b.visited
      /\ \A i, j \in 1..L : q[i] = q[j] => i = j
      /\ target \notin Taken(b)
  BY <1>1 DEF BfsInv, ToSet
<1>3. /\ taken \subseteq NodesOf(g) /\ IsFiniteSet(taken)
      /\ \A n \in b.visited : n \in taken <=> \A i \in 1..L : q[i] # n
      /\ taken \subseteq b.visited
  <2>1. taken \subseteq NodesOf(g)
    BY <1>1 DEF Taken
  <2>2. ToSet(q) = {q[i] : i \in 1..L}
    BY <1>1 DEF ToSet
  <2> QED
    BY <2>1, <2>2, FS_Subset DEF Taken
<1>4. new \subseteq NodesOf(g) /\ IsFiniteSet(new) /\ new \cap b.visited = {}
  BY FS_Subset DEF Successors
<1>5. /\ s \in Seq(new) /\ Len(s) \in Nat /\ ToSet(s) = new
      /\ \A i, j \in 1..Len(s) : s[i] = s[j] => i = j
      /\ \A i \in 1..Len(s) : s[i] \in new
  <2> HIDE DEF new
  <2>1. /\ s \in Seq(new) /\ Len(s) = Cardinality(new) /\ ToSet(s) = new
        /\ \A i, j \in 1..Cardinality(new) : s[i] = s[j] => i = j
    BY <1>4, SetToSeqIsList
  <2> HIDE DEF s
  <2> QED
    BY <2>1
<1>6. \A n \in new : \E i \in 1..Len(s) : s[i] = n
  <2> HIDE DEF new, s
  <2>1. DOMAIN s = 1..Len(s)
    BY <1>5
  <2> QED
    BY <1>5, <2>1 DEF ToSet
<1> DEFINE r == Tail(q) \o s
<1>7. /\ r \in Seq(NodesOf(g)) /\ Len(r) = L - 1 + Len(s)
      /\ \A i \in 1..(L - 1) : r[i] = q[i + 1]
      /\ \A i \in L..Len(r) : r[i] = s[i - L + 1]
  <2>1. s \in Seq(NodesOf(g))
    BY <1>4, <1>5
  <2>2. Tail(q) \in Seq(NodesOf(g)) /\ Len(Tail(q)) = L - 1
        /\ \A i \in 1..(L - 1) : Tail(q)[i] = q[i + 1]
    BY <1>1
  <2> HIDE DEF q, s
  <2> QED
    BY <1>1, <2>1, <2>2
<1>8. /\ c.queue = r /\ c.visited = b.visited \cup new
      /\ c.parent = [n \in NodesOf(g) |-> IF n \in new THEN node ELSE b.parent[n]]
  BY DEF Visit
<1>9. c \in BfsState(g)
  BY <1>1, <1>4, <1>7 DEF Visit, BfsState
<1> HIDE DEF c, q, s, r, new, taken
<1>10. \A i \in 1..Len(r) :
          \/ i <= L - 1 /\ i + 1 \in 1..L /\ r[i] = q[i + 1]
             /\ r[i] \in b.visited /\ r[i] \notin new
          \/ i >= L /\ i - L + 1 \in 1..Len(s) /\ r[i] = s[i - L + 1]
             /\ r[i] \in new /\ r[i] \notin b.visited
  BY <1>1, <1>2, <1>4, <1>5, <1>7
<1>11. ASSUME NEW i \in 1..Len(r), NEW j \in 1..Len(r), r[i] = r[j]
       PROVE  i = j
  <2>1. CASE i <= L - 1
    <3>1. j <= L - 1 /\ q[i + 1] = q[j + 1] /\ i + 1 \in 1..L /\ j + 1 \in 1..L
      BY <1>1, <1>10, <1>11, <2>1
    <3>2. i + 1 = j + 1
      BY <1>2, <3>1
    <3> QED
      BY <3>2
  <2>2. CASE i >= L
    <3>1. /\ j >= L /\ s[i - L + 1] = s[j - L + 1]
          /\ i - L + 1 \in 1..Len(s) /\ j - L + 1 \in 1..Len(s)
      BY <1>1, <1>10, <1>11, <2>2
    <3>2. i - L + 1 = j - L + 1
      BY <1>5, <3>1
    <3> QED
      BY <1>1, <3>2
  <2> QED
    BY <1>1, <1>7, <2>1, <2>2
<1>12. ToSet(r) = {r[i] : i \in 1..Len(r)}
  BY <1>7 DEF ToSet
<1>13. \A n : n \in ToSet(r) <=> n \in new \/ \E i \in 2..L : n = q[i]
  <2>1. \A n \in new : \E i \in 1..Len(r) : r[i] = n
    <3> SUFFICES ASSUME NEW n \in new
                 PROVE  \E i \in 1..Len(r) : r[i] = n
      OBVIOUS
    <3>1. PICK i \in 1..Len(s) : s[i] = n
      BY <1>6
    <3> DEFINE k == i + L - 1
    <3>2. k \in L..Len(r) /\ k - L + 1 = i /\ k \in 1..Len(r)
      BY <1>1, <1>5, <1>7
    <3> HIDE DEF k
    <3>3. r[k] = s[k - L + 1]
      BY <1>7, <3>2
    <3> QED
      BY <3>1, <3>2, <3>3
  <2>2. \A i \in 2..L : i - 1 \in 1..Len(r) /\ r[i - 1] = q[i]
    BY <1>1, <1>5, <1>7
  <2>3. ASSUME NEW i \in 1..Len(r)
        PROVE  r[i] \in new \/ \E j \in 2..L : r[i] = q[j]
    <3>1. i <= L - 1 => i + 1 \in 2..L
      BY <1>1
    <3> QED
      BY <1>10, <3>1
  <2>4. \A n \in ToSet(r) : n \in new \/ \E i \in 2..L : n = q[i]
    BY <1>12, <2>3
  <2>5. \A i \in 2..L : q[i] \in ToSet(r)
    BY <1>12, <2>2
  <2>6. \A n \in new : n \in ToSet(r)
    BY <1>12, <2>1
  <2> QED
    BY <2>4, <2>5, <2>6
<1>14. Taken(c) = taken \cup {node} /\ node \notin taken
  BY <1>1, <1>2, <1>3, <1>4, <1>8, <1>13 DEF Taken
<1>15. Cardinality(Taken(c)) = Cardinality(taken) + 1 /\ Cardinality(taken) \in Nat
  BY <1>3, <1>14, FS_AddElement, FS_CardinalityType
<1>16. PICK d : Layered(g, starts, b, d)
  BY DEF BfsInv
<1> DEFINE e == [n \in NodesOf(g) |-> IF n \in new THEN d[node] + 1 ELSE d[n]]
<1>17. /\ d \in [NodesOf(g) -> Nat] /\ d[node] \in Nat
       /\ \A n \in NodesOf(g) : d[n] \in Nat
       /\ \A n \in starts : d[n] = 0 /\ b.parent[n] = None
       /\ \A n \in b.visited \ starts :
            /\ b.parent[n] \in taken
            /\ n \in Successors(g, b.parent[n])
            /\ d[n] = d[b.parent[n]] + 1
       /\ \A n \in b.visited : d[n] <= Cardinality(taken)
       /\ \A n \in taken : \A m \in Successors(g, n) :
            m \in b.visited /\ d[m] <= d[n] + 1
       /\ \A i, j \in 1..L : i <= j => d[q[i]] <= d[q[j]]
       /\ \A i \in 1..L : d[q[i]] <= d[node] + 1
       /\ \A n \in taken, i \in 1..L : d[n] <= d[q[i]]
  BY <1>1, <1>16 DEF Layered, q, taken
<1>18. e \in [NodesOf(g) -> Nat]
  BY <1>17
<1>19. /\ \A n \in b.visited : e[n] = d[n]
       /\ \A n \in new : e[n] = d[node] + 1
  BY <1>1, <1>4
<1> HIDE DEF e
<1>20. \A n \in starts : e[n] = 0 /\ c.parent[n] = None
  BY <1>2, <1>4, <1>8, <1>17, <1>19
<1>21. ASSUME NEW n \in c.visited \ starts
       PROVE  /\ c.parent[n] \in Taken(c)
              /\ n \in Successors(g, c.parent[n])
              /\ e[n] = e[c.parent[n]] + 1
  <2>1. CASE n \in new
    <3>1. c.parent[n] = node /\ node \in b.visited
      BY <1>1, <1>2, <1>4, <1>8, <2>1
    <3> QED
      BY <1>14, <1>19, <2>1, <3>1 DEF new
  <2>2. CASE n \in b.visited
    <3>1. c.parent[n] = b.parent[n] /\ n \in b.visited \ starts
      BY <1>1, <1>4, <1>8, <1>21, <2>2
    <3>2. b.parent[n] \in taken /\ b.parent[n] \in b.visited
      BY <1>3, <1>17, <3>1
    <3> QED
      BY <1>14, <1>17, <1>19, <3>1, <3>2
  <2> QED
    BY <1>8, <1>21, <2>1, <2>2
<1>22. \A n \in c.visited : e[n] <= Cardinality(Taken(c))
  BY <1>1, <1>2, <1>8, <1>15, <1>17, <1>19
<1>23. ASSUME NEW n \in Taken(c), NEW m \in Successors(g, n)
       PROVE  m \in c.visited /\ e[m] <= e[n] + 1
  <2>1. CASE n \in taken
    BY <1>3, <1>8, <1>17, <1>19, <1>23, <2>1
  <2>2. CASE n = node /\ m \in new
    BY <1>1, <1>2, <1>8, <1>17, <1>19, <2>2
  <2>3. CASE n = node /\ m \in b.visited
    <3>1. CASE m \in taken
      BY <1>1, <1>2, <1>8, <1>17, <1>19, <2>3, <3>1
    <3>2. CASE \E i \in 1..L : q[i] = m
      BY <1>1, <1>2, <1>8, <1>17, <1>19, <2>3, <3>2
    <3> QED
      BY <1>3, <2>3, <3>1, <3>2
  <2> QED
    BY <1>14, <1>23, <2>1, <2>2, <2>3 DEF new
<1>24. \A i \in 1..Len(r) :
          /\ i <= L - 1 => e[r[i]] = d[q[i + 1]]
          /\ i >= L => e[r[i]] = d[node] + 1
          /\ e[r[i]] \in Nat /\ d[node] <= e[r[i]] /\ e[r[i]] <= d[node] + 1
  <2> SUFFICES ASSUME NEW i \in 1..Len(r)
               PROVE  /\ i <= L - 1 => e[r[i]] = d[q[i + 1]]
                      /\ i >= L => e[r[i]] = d[node] + 1
                      /\ e[r[i]] \in Nat /\ d[node] <= e[r[i]]
                      /\ e[r[i]] <= d[node] + 1
    OBVIOUS
  <2>1. CASE r[i] \in b.visited
    <3>1. i <= L - 1 /\ i + 1 \in 1..L /\ r[i] = q[i + 1]
      BY <1>10, <2>1
    <3>2. e[r[i]] = d[q[i + 1]] /\ q[i + 1] \in NodesOf(g)
      BY <1>1, <1>19, <2>1, <3>1
    <3>3. d[q[1]] <= d[q[i + 1]] /\ d[q[i + 1]] <= d[node] + 1
      BY <1>1, <1>17, <3>1
    <3> QED
      BY <1>1, <1>17, <3>1, <3>2, <3>3
  <2>2. CASE r[i] \in new
    <3>1. i >= L
      BY <1>10, <2>2
    <3> QED
      BY <1>1, <1>17, <1>19, <2>2, <3>1
  <2> QED
    BY <1>10, <2>1, <2>2
<1>25. ASSUME NEW i \in 1..Len(r), NEW j \in 1..Len(r)
       PROVE  /\ i <= j => e[r[i]] <= e[r[j]]
              /\ e[r[i]] <= e[r[1]] + 1
  <2>1. i <= j => e[r[i]] <= e[r[j]]
    <3>1. CASE j <= L - 1 /\ i <= j
      <4>1. i + 1 \in 1..L /\ j + 1 \in 1..L /\ i + 1 <= j + 1 /\ i <= L - 1
        BY <1>1, <3>1
      <4> QED
        BY <1>17, <1>24, <3>1, <4>1
    <3>2. CASE j >= L
      BY <1>17, <1>24, <3>2
    <3> QED
      BY <1>1, <1>7, <1>5, <3>1, <3>2
  <2>2. e[r[i]] <= e[r[1]] + 1
    <3>1. 1 \in 1..Len(r)
      BY <1>1, <1>5, <1>7
    <3> QED
      BY <1>17, <1>24, <3>1
  <2> QED
    BY <2>1, <2>2
<1>26. ASSUME NEW n \in Taken(c), NEW i \in 1..Len(r)
       PROVE  e[n] <= e[r[i]]
  <2>1. d[node] <= e[r[i]] /\ e[r[i]] \in Nat
    BY <1>24
  <2>2. e[n] = d[n] /\ d[n] <= d[node] /\ d[n] \in Nat
    <3>1. 1 \in 1..L
      BY <1>1
    <3> QED
      BY <1>1, <1>2, <1>3, <1>14, <1>17, <1>19, <3>1
  <2> QED
    BY <1>17, <2>1, <2>2
<1>27. Layered(g, starts, c, e)
  BY <1>8, <1>18, <1>20, <1>21, <1>22, <1>23, <1>25, <1>26 DEF Layered
<1>28. BfsInv(g, starts, target, c)
  <2>1. starts \subseteq c.visited /\ ToSet(c.queue) \subseteq c.visited
    BY <1>1, <1>2, <1>8, <1>13
  <2>2. target \notin Taken(c)
    BY <1>2, <1>14 DEF taken, q
  <2> QED
    BY <1>8, <1>9, <1>11, <1>27, <2>1, <2>2 DEF BfsInv
<1> QED
  BY <1>14, <1>28 DEF c, taken, q

LEMMA VisitTyped ==
  ASSUME NEW g, IsFiniteSet(NodesOf(g)), NEW b \in BfsState(g), b.queue # <<>>
  PROVE  Visit(g, b) \in BfsState(g)
<1> DEFINE new == Successors(g, Head(b.queue)) \ b.visited
<1>1. /\ b.queue \in Seq(NodesOf(g)) /\ b.visited \in SUBSET NodesOf(g)
      /\ b.parent \in [NodesOf(g) -> NodesOf(g) \cup {None}]
  BY DEF BfsState
<1>2. new \subseteq NodesOf(g) /\ IsFiniteSet(new)
  BY FS_Subset DEF Successors
<1>3. SetToSeq(new) \in Seq(NodesOf(g))
  <2> HIDE DEF new
  <2>1. SetToSeq(new) \in Seq(new)
    BY <1>2, SetToSeqIsList
  <2> QED
    BY <1>2, <2>1
<1>4. Head(b.queue) \in NodesOf(g) /\ Tail(b.queue) \in Seq(NodesOf(g))
  BY <1>1
<1>5. Tail(b.queue) \o SetToSeq(new) \in Seq(NodesOf(g))
  BY <1>3, <1>4
<1>6. [n \in NodesOf(g) |-> IF n \in new THEN Head(b.queue) ELSE b.parent[n]]
        \in [NodesOf(g) -> NodesOf(g) \cup {None}]
  BY <1>1, <1>4
<1> QED
  BY <1>1, <1>2, <1>5, <1>6 DEF Visit, BfsState

Stops(target, b) == b.queue = <<>> \/ Head(b.queue) = target

(* The search stops within as many rounds as there are nodes. *)
LEMMA SearchEnds ==
  ASSUME NEW g, IsFiniteSet(NodesOf(g)), NEW profile, NEW target
  PROVE  \E b : /\ BfsInv(g, EntrypointNodes(g, profile), target, b)
                /\ Stops(target, b)
                /\ ShortestPath(g, target, profile) =
                        IF b.queue = <<>> THEN None
                        ELSE IF Head(b.queue) # target THEN None
                        ELSE PathTo(g, b.parent, target)
<1> DEFINE starts == EntrypointNodes(g, profile)
           N == Cardinality(NodesOf(g))
           first == [queue |-> SetToSeq(starts), visited |-> starts,
                     parent |-> [n \in NodesOf(g) |-> None]]
           F == [b \in BfsState(g) |->
                    IF Stops(target, b) THEN b ELSE Visit(g, b)]
           IsSearch(a) == a = [i \in 0..N |->
                IF i = 0 THEN first
                ELSE IF a[i - 1].queue = <<>> \/ Head(a[i - 1].queue) = target
                THEN a[i - 1]
                ELSE Visit(g, a[i - 1])]
           bfs == CHOOSE a : IsSearch(a)
<1>1. N \in Nat /\ starts \in SUBSET NodesOf(g)
  BY FS_CardinalityType DEF EntrypointNodes
<1>2. F \in [BfsState(g) -> BfsState(g)]
  BY VisitTyped DEF Stops
<1>3. \A b \in BfsState(g) : F[b] = IF Stops(target, b) THEN b ELSE Visit(g, b)
  OBVIOUS
<1> HIDE DEF F, starts
<1>4. BfsInv(g, starts, target, first) /\ Taken(first) = {} /\ first \in BfsState(g)
  BY <1>1, BfsBegins DEF BfsInv
<1> HIDE DEF first, N
<1>5. PICK a : Iterates(a, F, first, BfsState(g), N)
  BY <1>1, <1>2, <1>4, IterationExists
<1>6. IsSearch(a)
  <2>1. /\ a \in [0..N -> BfsState(g)] /\ a[0] = first
        /\ \A i \in 1..N : a[i] = F[a[i - 1]]
    BY <1>5 DEF Iterates
  <2>2. ASSUME NEW i \in 0..N, i # 0
        PROVE  a[i] = IF Stops(target, a[i - 1]) THEN a[i - 1] ELSE Visit(g, a[i - 1])
    <3>1. i \in 1..N /\ i - 1 \in 0..N
      BY <1>1, <2>2
    <3>2. a[i] = F[a[i - 1]] /\ a[i - 1] \in BfsState(g)
      BY <2>1, <3>1
    <3> QED
      BY <1>3, <3>2
  <2> QED
    BY <2>1, <2>2 DEF Stops
<1>7. IsSearch(bfs)
  <2> HIDE DEF IsSearch
  <2> QED
    BY <1>6
<1> HIDE DEF bfs
<1>8. bfs[0] = first
  BY <1>1, <1>7
<1>9. ASSUME NEW n \in 0..(N - 1)
      PROVE  bfs[n + 1] = IF Stops(target, bfs[n]) THEN bfs[n] ELSE Visit(g, bfs[n])
  <2>1. n + 1 \in 0..N /\ n + 1 # 0 /\ (n + 1) - 1 = n
    BY <1>1
  <2> QED
    BY <1>7, <2>1 DEF Stops
<1> DEFINE S == {n \in 0..N : /\ BfsInv(g, starts, target, bfs[n])
                              /\ \/ Stops(target, bfs[n])
                                 \/ n <= Cardinality(Taken(bfs[n]))}
<1>10. 0 \in S
  BY <1>1, <1>4, <1>8, FS_EmptySet
<1>11. ASSUME NEW n \in 0..(N - 1), n \in S
       PROVE  n + 1 \in S
  <2>1. n + 1 \in 0..N
    BY <1>1
  <2>2. CASE Stops(target, bfs[n])
    BY <1>9, <1>11, <2>1, <2>2
  <2>3. CASE ~Stops(target, bfs[n])
    <3> DEFINE b == bfs[n]
               taken == Taken(b)
    <3>1. BfsInv(g, starts, target, b) /\ b.queue # <<>> /\ Head(b.queue) # target
          /\ n <= Cardinality(taken)
      BY <1>11, <2>3 DEF Stops
    <3>2. bfs[n + 1] = Visit(g, b)
      BY <1>9, <2>3
    <3> HIDE DEF b
    <3>3. /\ BfsInv(g, starts, target, Visit(g, b))
          /\ Head(b.queue) \notin taken
          /\ Taken(Visit(g, b)) = taken \cup {Head(b.queue)}
      BY <1>1, <3>1, BfsGoesOn
    <3>4. IsFiniteSet(taken)
      BY <3>1, FS_Subset DEF Taken, BfsInv, BfsState
    <3> HIDE DEF taken
    <3>5. Cardinality(Taken(Visit(g, b))) = Cardinality(taken) + 1
          /\ Cardinality(taken) \in Nat
      BY <3>3, <3>4, FS_AddElement, FS_CardinalityType
    <3>6. n + 1 <= Cardinality(Taken(Visit(g, b)))
      BY <3>1, <3>5
    <3> QED
      BY <2>1, <3>2, <3>3, <3>6
  <2> QED
    BY <2>2, <2>3
<1>12. N \in S
  <2> HIDE DEF S
  <2>1. 0..N \subseteq S
    BY <1>1, <1>10, <1>11, InductionUpTo
  <2> QED
    BY <1>1, <2>1
<1>13. Stops(target, bfs[N])
  <2> SUFFICES ASSUME ~Stops(target, bfs[N])
               PROVE  FALSE
    OBVIOUS
  <2> DEFINE taken == Taken(bfs[N])
  <2>1. BfsInv(g, starts, target, bfs[N]) /\ N <= Cardinality(taken)
        /\ bfs[N].queue # <<>>
    BY <1>12 DEF Stops
  <2>2. taken \subseteq NodesOf(g)
    BY <2>1 DEF Taken, BfsInv, BfsState
  <2>3. Head(bfs[N].queue) \in NodesOf(g) /\ Head(bfs[N].queue) \in ToSet(bfs[N].queue)
    BY <2>1 DEF BfsInv, BfsState, ToSet
  <2>4. Head(bfs[N].queue) \notin taken
    BY <2>3 DEF Taken
  <2> HIDE DEF taken
  <2>5. taken = NodesOf(g)
    BY <1>1, <2>1, <2>2, FS_Subset, FS_CardinalityType DEF N
  <2> QED
    BY <2>3, <2>4, <2>5
<1>14. BfsInv(g, starts, target, bfs[N])
  BY <1>12
<1>15. ShortestPath(g, target, profile) =
            IF bfs[N].queue = <<>> THEN None
            ELSE IF Head(bfs[N].queue) # target THEN None
            ELSE PathTo(g, bfs[N].parent, target)
  BY DEF ShortestPath, bfs, first, N, starts
<1> QED
  BY <1>13, <1>14, <1>15 DEF starts

(* A path of the graph, of one node or more *)
Walk(g, p) ==
    /\ p \in Seq(NodesOf(g)) /\ p # <<>>
    /\ \A i \in 1..(Len(p) - 1) : p[i + 1] \in Successors(g, p[i])

LEMMA WalkIsReached ==
  ASSUME NEW g, IsFiniteSet(NodesOf(g)), NEW S \in SUBSET NodesOf(g),
         NEW p, Walk(g, p), p[1] \in S
  PROVE  p[Len(p)] \in From(g, S)
<1>1. /\ p \in Seq(NodesOf(g)) /\ Len(p) \in Nat /\ Len(p) >= 1
      /\ \A i \in 1..(Len(p) - 1) : p[i + 1] \in Successors(g, p[i])
  BY DEF Walk
<1> DEFINE n == Len(p) - 1
           T == {i \in 0..n : p[i + 1] \in From(g, S)}
<1>2. S \subseteq From(g, S)
      /\ \A m \in From(g, S) : Successors(g, m) \subseteq From(g, S)
  BY FromIsLeast
<1>3. 0 \in T
  BY <1>1, <1>2
<1>4. ASSUME NEW i \in 0..(n - 1), i \in T
      PROVE  i + 1 \in T
  <2>1. i + 1 \in 1..(Len(p) - 1) /\ i + 1 \in 0..n
    BY <1>1
  <2>2. p[(i + 1) + 1] \in Successors(g, p[i + 1])
    BY <1>1, <2>1
  <2> QED
    BY <1>2, <1>4, <2>1, <2>2
<1>5. n \in Nat /\ n + 1 = Len(p)
  BY <1>1
<1>6. n \in T
  <2> HIDE DEF T, n
  <2>1. 0..n \subseteq T
    BY <1>3, <1>4, <1>5, InductionUpTo
  <2> QED
    BY <1>5, <2>1
<1> QED
  BY <1>5, <1>6

(* No path from a start to the node that the search stops at has fewer     *)
(* edges than the distance of that node.                                   *)
LEMMA WalksAreLonger ==
  ASSUME NEW g, NEW starts \in SUBSET NodesOf(g), NEW target, NEW b,
         BfsInv(g, starts, target, b), b.queue # <<>>, Head(b.queue) = target,
         NEW d, Layered(g, starts, b, d),
         NEW p, Walk(g, p), p[1] \in starts, p[Len(p)] = target
  PROVE  d[target] + 1 <= Len(p)
<1>1. /\ p \in Seq(NodesOf(g)) /\ Len(p) \in Nat /\ Len(p) >= 1
      /\ \A i \in 1..(Len(p) - 1) : p[i + 1] \in Successors(g, p[i])
      /\ \A i \in 1..Len(p) : p[i] \in NodesOf(g)
  BY DEF Walk
<1>2. /\ b.queue \in Seq(NodesOf(g)) /\ target = b.queue[1] /\ 1 \in 1..Len(b.queue)
      /\ target \in NodesOf(g) /\ starts \subseteq b.visited
      /\ \A n \in b.visited : n \in Taken(b) \/ \E i \in 1..Len(b.queue) : b.queue[i] = n
  BY DEF BfsInv, BfsState, Taken, ToSet
<1>3. /\ d \in [NodesOf(g) -> Nat] /\ \A n \in starts : d[n] = 0
      /\ \A n \in Taken(b) : \A m \in Successors(g, n) :
            m \in b.visited /\ d[m] <= d[n] + 1
      /\ \A i \in 1..Len(b.queue) : d[target] <= d[b.queue[i]]
  BY <1>2 DEF Layered
<1> SUFFICES ASSUME Len(p) - 1 < d[target]
             PROVE  FALSE
  BY <1>1, <1>2, <1>3
<1> DEFINE k == Len(p) - 1
           T == {i \in 0..k : p[i + 1] \in b.visited /\ d[p[i + 1]] <= i}
<1>4. 0 \in T
  BY <1>1, <1>2, <1>3
<1>5. ASSUME NEW i \in 0..(k - 1), i \in T
      PROVE  i + 1 \in T
  <2>1. i + 1 \in 1..(Len(p) - 1) /\ i + 1 \in 0..k /\ i + 1 \in 1..Len(p)
        /\ (i + 1) + 1 \in 1..Len(p) /\ i < d[target]
    BY <1>1, <1>2, <1>3
  <2>2. p[i + 1] \in NodesOf(g) /\ p[(i + 1) + 1] \in NodesOf(g)
        /\ p[(i + 1) + 1] \in Successors(g, p[i + 1])
    BY <1>1, <2>1
  <2>3. d[p[i + 1]] \in Nat /\ d[p[(i + 1) + 1]] \in Nat /\ d[target] \in Nat
        /\ d[p[i + 1]] <= i
    BY <1>2, <1>3, <1>5, <2>2
  <2>4. p[i + 1] \in Taken(b)
    <3>1. ASSUME NEW j \in 1..Len(b.queue), b.queue[j] = p[i + 1]
          PROVE  FALSE
      <4>1. d[target] <= d[b.queue[j]]
        BY <1>3
      <4>2. d[target] <= d[p[i + 1]]
        BY <3>1, <4>1
      <4>3. i \in Nat /\ i < d[target]
        BY <2>1
      <4> QED
        BY <2>3, <4>2, <4>3
    <3> QED
      BY <1>2, <1>5, <3>1
  <2>5. p[(i + 1) + 1] \in b.visited /\ d[p[(i + 1) + 1]] <= d[p[i + 1]] + 1
    BY <1>3, <2>2, <2>4
  <2> QED
    BY <2>1, <2>3, <2>5
<1>6. k \in Nat /\ k + 1 = Len(p)
  BY <1>1
<1>7. k \in T
  <2> HIDE DEF T, k
  <2>1. 0..k \subseteq T
    BY <1>4, <1>5, <1>6, InductionUpTo
  <2> QED
    BY <1>6, <2>1
<1> QED
  BY <1>2, <1>3, <1>6, <1>7

(* The parents of a visited node lead back to a start. *)
LEMMA ParentsLead ==
  ASSUME NEW g, IsFiniteSet(NodesOf(g)), None \notin NodesOf(g),
         NEW starts \in SUBSET NodesOf(g), NEW target, NEW b,
         BfsInv(g, starts, target, b), target \in b.visited,
         NEW d, Layered(g, starts, b, d)
  PROVE  LET p == PathTo(g, b.parent, target)
         IN /\ Walk(g, p) /\ p[1] \in starts /\ p[Len(p)] = target
            /\ Len(p) = d[target] + 1 /\ Len(p) <= Cardinality(NodesOf(g))
<1> DEFINE N == Cardinality(NodesOf(g))
           parent == b.parent
           Paths == {s \in Seq(NodesOf(g)) : s # <<>>}
           F == [s \in Paths |-> IF parent[Head(s)] = None THEN s
                                 ELSE <<parent[Head(s)]>> \o s]
           onward(p) == IF parent[Head(p)] = None THEN p
                        ELSE <<parent[Head(p)]>> \o p
           IsUp(a) == a = [i \in 0..N |->
                IF i = 0 THEN <<target>> ELSE onward(a[i - 1])]
           up == CHOOSE a : IsUp(a)
<1>1. N \in Nat
  BY FS_CardinalityType
<1>2. /\ parent \in [NodesOf(g) -> NodesOf(g) \cup {None}]
      /\ b.visited \subseteq NodesOf(g) /\ target \in NodesOf(g)
      /\ Taken(b) \subseteq b.visited /\ starts \subseteq b.visited
  BY DEF BfsInv, BfsState, Taken
<1>3. \A s \in Paths : parent[Head(s)] # None => <<parent[Head(s)]>> \o s \in Paths
  <2> SUFFICES ASSUME NEW s \in Paths, parent[Head(s)] # None
               PROVE  <<parent[Head(s)]>> \o s \in Paths
    OBVIOUS
  <2>1. s \in Seq(NodesOf(g)) /\ Head(s) \in NodesOf(g)
    OBVIOUS
  <2>2. parent[Head(s)] \in NodesOf(g)
    BY <1>2, <2>1
  <2>3. /\ <<parent[Head(s)]>> \o s \in Seq(NodesOf(g))
        /\ Len(<<parent[Head(s)]>> \o s) = Len(s) + 1
    BY <2>1, <2>2
  <2> QED
    BY <2>1, <2>3
<1>4. F \in [Paths -> Paths]
  BY <1>3
<1>5. \A s \in Paths : F[s] = IF parent[Head(s)] = None THEN s
                              ELSE <<parent[Head(s)]>> \o s
  OBVIOUS
<1>6. <<target>> \in Paths
  BY <1>2
<1> HIDE DEF F, Paths, N, parent
<1>7. PICK a : Iterates(a, F, <<target>>, Paths, N)
  BY <1>1, <1>4, <1>6, IterationExists
<1>8. IsUp(a)
  <2>1. /\ a \in [0..N -> Paths] /\ a[0] = <<target>>
        /\ \A i \in 1..N : a[i] = F[a[i - 1]]
    BY <1>7 DEF Iterates
  <2>2. ASSUME NEW i \in 0..N, i # 0
        PROVE  a[i] = onward(a[i - 1])
    <3>1. i \in 1..N /\ i - 1 \in 0..N
      BY <1>1, <2>2
    <3>2. a[i] = F[a[i - 1]] /\ a[i - 1] \in Paths
      BY <2>1, <3>1
    <3> QED
      BY <1>5, <3>2
  <2> HIDE DEF onward
  <2> QED
    BY <2>1, <2>2
<1>9. IsUp(up)
  <2> HIDE DEF IsUp
  <2> QED
    BY <1>8
<1> HIDE DEF up, onward
<1>10. up[0] = <<target>>
  <2>1. 0 \in 0..N
    BY <1>1
  <2> QED
    BY <1>9, <2>1
<1>11. ASSUME NEW n \in 0..(N - 1)
       PROVE  up[n + 1] = IF parent[Head(up[n])] = None THEN up[n]
                          ELSE <<parent[Head(up[n])]>> \o up[n]
  <2>1. n + 1 \in 0..N /\ n + 1 # 0 /\ (n + 1) - 1 = n
    BY <1>1
  <2> QED
    BY <1>9, <2>1 DEF onward
<1> DEFINE Good(p) == /\ Walk(g, p) /\ p[Len(p)] = target
                      /\ p[1] \in b.visited
                      /\ d[p[1]] + Len(p) = d[target] + 1
           S == {n \in 0..N : /\ Good(up[n])
                              /\ \/ parent[Head(up[n])] = None
                                 \/ n + 1 <= Len(up[n])}
<1>12. /\ d \in [NodesOf(g) -> Nat]
       /\ \A n \in starts : d[n] = 0
       /\ \A n \in b.visited \ starts :
             /\ parent[n] \in Taken(b) /\ n \in Successors(g, parent[n])
             /\ d[n] = d[parent[n]] + 1
       /\ d[target] + 1 <= N
  <2>1. d[target] <= Cardinality(Taken(b))
    BY DEF Layered
  <2>2. Cardinality(Taken(b)) + 1 <= N /\ Cardinality(Taken(b)) \in Nat
    <3>1. Taken(b) \subseteq NodesOf(g) \ {target}
      BY <1>2 DEF BfsInv
    <3>2. /\ IsFiniteSet(NodesOf(g) \ {target})
          /\ Cardinality(NodesOf(g) \ {target}) = N - 1
      BY <1>2, FS_RemoveElement DEF N
    <3> QED
      BY <1>1, <3>1, <3>2, FS_Subset, FS_CardinalityType
  <2>3. d \in [NodesOf(g) -> Nat] /\ d[target] \in Nat
    BY <1>2 DEF Layered
  <2> QED
    BY <1>1, <2>1, <2>2, <2>3 DEF Layered, parent
<1>13. \A n \in b.visited : parent[n] = None => n \in starts
  BY <1>2, <1>12
<1>14. 0 \in S
  <2>1. <<target>> \in Seq(NodesOf(g)) /\ Len(<<target>>) = 1 /\ <<target>>[1] = target
    BY <1>2
  <2>2. d[target] \in Nat
    BY <1>2, <1>12
  <2>3. Walk(g, <<target>>)
    BY <2>1 DEF Walk
  <2>4. Good(<<target>>)
    BY <2>1, <2>2, <2>3
  <2>5. 0 + 1 <= Len(<<target>>) /\ 0 \in 0..N
    BY <1>1
  <2> HIDE DEF Good
  <2> QED
    BY <1>10, <2>4, <2>5
<1>15. ASSUME NEW n \in 0..(N - 1), n \in S
       PROVE  n + 1 \in S
  <2> DEFINE p == up[n]
             m == parent[Head(p)]
             r == <<m>> \o p
  <2>1. n + 1 \in 0..N /\ Good(p) /\ (m = None \/ n + 1 <= Len(p))
    BY <1>1, <1>15
  <2>2. up[n + 1] = IF m = None THEN p ELSE r
    BY <1>11
  <2> HIDE DEF p
  <2>3. CASE m = None
    BY <2>1, <2>2, <2>3
  <2>4. CASE m # None
    <3>1. /\ p \in Seq(NodesOf(g)) /\ p # <<>> /\ Len(p) \in Nat /\ Len(p) >= 1
          /\ Head(p) = p[1] /\ p[1] \in NodesOf(g)
      BY <1>2, <2>1 DEF Walk
    <3>2. p[1] \notin starts
      BY <2>4, <3>1 DEF Layered, parent
    <3>3. /\ m \in Taken(b) /\ p[1] \in Successors(g, m) /\ d[p[1]] = d[m] + 1
          /\ m \in NodesOf(g) /\ m \in b.visited
      BY <1>2, <1>12, <2>1, <3>1, <3>2
    <3> HIDE DEF m
    <3>4. /\ r \in Seq(NodesOf(g)) /\ Len(r) = Len(p) + 1 /\ r[1] = m /\ r # <<>>
          /\ \A i \in 1..Len(p) : r[i + 1] = p[i]
      BY <3>1, <3>3
    <3> HIDE DEF r
    <3>5. \A i \in 1..(Len(r) - 1) : r[i + 1] \in Successors(g, r[i])
      <4> SUFFICES ASSUME NEW i \in 1..(Len(r) - 1)
                   PROVE  r[i + 1] \in Successors(g, r[i])
        OBVIOUS
      <4>1. CASE i = 1
        BY <3>1, <3>3, <3>4, <4>1
      <4>2. CASE i # 1
        <5>1. /\ i - 1 \in 1..(Len(p) - 1) /\ i - 1 \in 1..Len(p) /\ i \in 1..Len(p)
              /\ (i - 1) + 1 = i
          BY <3>1, <3>4, <4>2
        <5>2. p[(i - 1) + 1] \in Successors(g, p[i - 1])
          BY <2>1, <5>1 DEF Walk
        <5>3. r[i + 1] = p[i] /\ r[(i - 1) + 1] = p[i - 1]
          BY <3>4, <5>1
        <5> QED
          BY <5>1, <5>2, <5>3
      <4> QED
        BY <4>1, <4>2
    <3>6. r[Len(r)] = target
      BY <2>1, <3>1, <3>4
    <3>7. d[r[1]] + Len(r) = d[target] + 1
      <4>1. d[m] \in Nat /\ d[p[1]] + Len(p) = d[target] + 1
        BY <1>12, <2>1, <3>3
      <4> QED
        BY <3>1, <3>3, <3>4, <4>1
    <3>8. Good(r) /\ (n + 1) + 1 <= Len(r)
      BY <2>1, <2>4, <3>1, <3>3, <3>4, <3>5, <3>6, <3>7 DEF Walk
    <3> QED
      BY <2>1, <2>2, <2>4, <3>8
  <2> QED
    BY <2>3, <2>4
<1>16. N \in S
  <2> HIDE DEF S
  <2>1. 0..N \subseteq S
    BY <1>1, <1>14, <1>15, InductionUpTo
  <2> QED
    BY <1>1, <2>1
<1> DEFINE p == up[N]
<1>17. Good(p) /\ (parent[Head(p)] = None \/ N + 1 <= Len(p))
  BY <1>16
<1> HIDE DEF p
<1>18. /\ p \in Seq(NodesOf(g)) /\ Len(p) \in Nat /\ Head(p) = p[1]
       /\ p[1] \in NodesOf(g) /\ p[1] \in b.visited
  BY <1>2, <1>17 DEF Walk
<1>19. p[1] \in starts
  <2>1. CASE parent[Head(p)] = None
    BY <1>13, <1>18, <2>1
  <2>2. CASE N + 1 <= Len(p)
    <3>1. d[p[1]] \in Nat /\ d[target] \in Nat
      BY <1>2, <1>12, <1>18
    <3>2. d[p[1]] = 0
      BY <1>1, <1>12, <1>17, <1>18, <2>2, <3>1
    <3>3. ASSUME p[1] \notin starts
          PROVE  FALSE
      <4>1. d[p[1]] = d[parent[p[1]]] + 1 /\ d[parent[p[1]]] \in Nat
        BY <1>2, <1>12, <1>18, <3>3
      <4> QED
        BY <3>2, <4>1
    <3> QED
      BY <3>3
  <2> QED
    BY <1>17, <2>1, <2>2
<1>20. Len(p) = d[target] + 1 /\ Len(p) <= Cardinality(NodesOf(g))
  BY <1>2, <1>12, <1>17, <1>18, <1>19 DEF N
<1>21. PathTo(g, b.parent, target) = p
  BY DEF PathTo, p, up, N, parent, onward
<1> QED
  BY <1>17, <1>19, <1>20, <1>21

(* The proof that a file is reachable, which explain and impact show, is a *)
(* path of the graph from an entrypoint to the file, no other such path is *)
(* shorter, and there is one whenever the file is reachable, whatever the  *)
(* graph and the order of its edges (shortest_path_to_file).               *)
THEOREM ShortestPathIsShortest ==
  ASSUME NEW g, IsFiniteSet(NodesOf(g)), None \notin NodesOf(g),
         NEW target \in NodesOf(g), NEW profile
  PROVE  LET p == ShortestPath(g, target, profile)
             starts == EntrypointNodes(g, profile)
             leads(q) == Walk(g, q) /\ q[1] \in starts /\ q[Len(q)] = target
         IN IF target \in ReachableNodes(g, profile)
            THEN /\ leads(p) /\ Len(p) <= Cardinality(NodesOf(g))
                 /\ \A q : leads(q) => Len(p) <= Len(q)
            ELSE p = None
<1> DEFINE starts == EntrypointNodes(g, profile)
           p == ShortestPath(g, target, profile)
           leads(q) == Walk(g, q) /\ q[1] \in starts /\ q[Len(q)] = target
<1>1. starts \in SUBSET NodesOf(g)
  BY DEF EntrypointNodes
<1>2. ReachableNodes(g, profile) = From(g, starts)
  BY DEF ReachableNodes, From
<1>3. PICK b : /\ BfsInv(g, starts, target, b) /\ Stops(target, b)
               /\ p = IF b.queue = <<>> THEN None
                      ELSE IF Head(b.queue) # target THEN None
                      ELSE PathTo(g, b.parent, target)
  BY SearchEnds
<1> HIDE DEF p, starts
<1>4. PICK d : Layered(g, starts, b, d)
  BY <1>3 DEF BfsInv
<1>5. CASE b.queue = <<>>
  <2>1. Taken(b) = b.visited
    BY <1>3, <1>5 DEF Taken, ToSet, BfsInv, BfsState
  <2>2. /\ starts \subseteq b.visited /\ target \notin b.visited
        /\ \A n \in b.visited : Successors(g, n) \subseteq b.visited
    BY <1>3, <1>4, <2>1 DEF BfsInv, Layered
  <2>3. From(g, starts) \subseteq b.visited
    BY <1>1, <2>2, FromIsLeast
  <2> QED
    BY <1>2, <1>3, <1>5, <2>2, <2>3 DEF p, starts
<1>6. CASE b.queue # <<>> /\ Head(b.queue) = target
  <2>1. p = PathTo(g, b.parent, target)
    BY <1>3, <1>6
  <2>2. target \in b.visited
    BY <1>3, <1>6 DEF BfsInv, BfsState, ToSet
  <2>3. leads(p) /\ Len(p) = d[target] + 1 /\ Len(p) <= Cardinality(NodesOf(g))
    BY <1>1, <1>3, <1>4, <2>1, <2>2, ParentsLead
  <2>4. ASSUME NEW q, leads(q)
        PROVE  Len(p) <= Len(q)
    BY <1>1, <1>3, <1>4, <1>6, <2>3, <2>4, WalksAreLonger
  <2>5. target \in From(g, starts)
    BY <1>1, <2>3, WalkIsReached
  <2> QED
    BY <1>2, <2>3, <2>4, <2>5 DEF p, starts
<1> QED
  BY <1>3, <1>5, <1>6 DEF Stops

-----------------------------------------------------------------------------
(* The chains of cycles                                                    *)

(* A path through files that visits none of them twice *)
Trails(g, files, start) ==
    {p \in Seq(files) :
        /\ p # <<>> /\ p[1] = start
        /\ \A i, j \in 1..Len(p) : p[i] = p[j] => i = j
        /\ \A i \in 1..(Len(p) - 1) : <<p[i], p[i + 1]>> \in g.edges}

(* A trail of two files or more that leads back to where it starts *)
IsCycle(g, files, p) ==
    \E trail \in Trails(g, files, p[1]) :
        /\ p = Append(trail, p[1])
        /\ Len(trail) > 1
        /\ <<trail[Len(trail)], p[1]>> \in g.edges

ExploreState(g, files, start) ==
    [stack : Seq(Trails(g, files, start)),
     found : {None} \cup {p \in Seq(files) : IsCycle(g, files, p)}]

(* A trail may go on to any file that it has not visited. *)
LEMMA TrailsGrow ==
  ASSUME NEW g, NEW files, NEW start, NEW path \in Trails(g, files, start),
         NEW n \in files \ ToSet(path), <<path[Len(path)], n>> \in g.edges
  PROVE  Append(path, n) \in Trails(g, files, start)
<1> DEFINE r == Append(path, n)
<1>1. /\ path \in Seq(files) /\ Len(path) \in Nat /\ Len(path) >= 1
      /\ path[1] = start
      /\ \A i, j \in 1..Len(path) : path[i] = path[j] => i = j
      /\ \A i \in 1..(Len(path) - 1) : <<path[i], path[i + 1]>> \in g.edges
  BY DEF Trails
<1>2. \A i \in 1..Len(path) : path[i] # n
  BY <1>1 DEF ToSet
<1>3. /\ r \in Seq(files) /\ Len(r) = Len(path) + 1 /\ r[Len(path) + 1] = n
      /\ \A i \in 1..Len(path) : r[i] = path[i]
  BY <1>1
<1> HIDE DEF r
<1>4. ASSUME NEW i \in 1..Len(r), NEW j \in 1..Len(r), r[i] = r[j]
      PROVE  i = j
  BY <1>1, <1>2, <1>3, <1>4
<1>5. ASSUME NEW i \in 1..(Len(r) - 1)
      PROVE  <<r[i], r[i + 1]>> \in g.edges
  <2>1. CASE i = Len(path)
    <3>1. r[i] = path[Len(path)] /\ r[i + 1] = n
      BY <1>1, <1>3, <2>1
    <3> QED
      BY <3>1
  <2>2. CASE i # Len(path)
    <3>1. i \in 1..(Len(path) - 1) /\ i \in 1..Len(path) /\ i + 1 \in 1..Len(path)
      BY <1>1, <1>3, <2>2
    <3>2. r[i] = path[i] /\ r[i + 1] = path[i + 1]
      BY <1>3, <3>1
    <3>3. <<path[i], path[i + 1]>> \in g.edges
      BY <1>1, <3>1
    <3> QED
      BY <3>2, <3>3
  <2> QED
    BY <2>1, <2>2
<1>6. r # <<>> /\ r[1] = start
  BY <1>1, <1>3
<1> QED
  BY <1>3, <1>4, <1>5, <1>6 DEF Trails, r

LEMMA ExploreTyped ==
  ASSUME NEW g, IsFiniteSet(NodesOf(g)), NEW component, NEW start,
         NEW s \in ExploreState(g, component \cap FileNodes(g), start),
         start \in component \cap FileNodes(g), s.stack # <<>>
  PROVE  Explore(g, component, start, s)
            \in ExploreState(g, component \cap FileNodes(g), start)
<1> DEFINE files == component \cap FileNodes(g)
           path == Last(s.stack)
           next == Successors(g, Last(path)) \cap component \cap FileNodes(g)
           more == next \ ToSet(path)
           longer == {Append(path, n) : n \in more}
<1>1. /\ s.stack \in Seq(Trails(g, files, start))
      /\ s.found \in {None} \cup {p \in Seq(files) : IsCycle(g, files, p)}
      /\ s = [stack |-> s.stack, found |-> s.found]
  BY DEF ExploreState
<1>2. path \in Trails(g, files, start)
  BY <1>1 DEF Last
<1>3. Front(s.stack) \in Seq(Trails(g, files, start))
  BY <1>1 DEF Front
<1>4. /\ path \in Seq(files) /\ Len(path) \in Nat /\ Len(path) >= 1
      /\ path[1] = start /\ Last(path) = path[Len(path)]
      /\ \A i, j \in 1..Len(path) : path[i] = path[j] => i = j
      /\ \A i \in 1..(Len(path) - 1) : <<path[i], path[i + 1]>> \in g.edges
  BY <1>2 DEF Trails, Last
<1> HIDE DEF path, files
<1>5. \A n \in next : n \in files /\ <<path[Len(path)], n>> \in g.edges
  BY <1>4 DEF Successors, files
<1>6. next \subseteq NodesOf(g)
  BY DEF Successors
<1> HIDE DEF next
<1>7. CASE start \in next /\ Len(path) > 1
  <2> DEFINE chain == Append(path, start)
  <2>1. chain \in Seq(files) /\ chain[1] = start
    BY <1>4, <1>5, <1>7
  <2>2. IsCycle(g, files, chain)
    BY <1>2, <1>4, <1>5, <1>7, <2>1 DEF IsCycle
  <2>3. Explore(g, component, start, s) = [s EXCEPT !.found = chain]
    BY <1>7 DEF Explore, path, next
  <2> HIDE DEF chain
  <2> QED
    BY <1>1, <2>1, <2>2, <2>3 DEF ExploreState, files
<1>8. CASE ~(start \in next /\ Len(path) > 1)
  <2>1. longer \subseteq Trails(g, files, start)
    <3> SUFFICES ASSUME NEW n \in more
                 PROVE  Append(path, n) \in Trails(g, files, start)
      OBVIOUS
    <3>1. n \in files \ ToSet(path) /\ <<path[Len(path)], n>> \in g.edges
      BY <1>5
    <3> QED
      BY <1>2, <3>1, TrailsGrow
  <2>2. IsFiniteSet(longer)
    <3>1. IsFiniteSet(more)
      BY <1>6, FS_Subset
    <3> DEFINE h == [n \in more |-> Append(path, n)]
    <3>2. h \in Surjection(more, longer)
      BY DEF Surjection
    <3> HIDE DEF h, more, longer
    <3> QED
      BY <3>1, <3>2, FS_Surjection
  <2>3. SetToSeq(longer) \in Seq(Trails(g, files, start))
    <3> HIDE DEF longer
    <3>1. SetToSeq(longer) \in Seq(longer)
      BY <2>2, SetToSeqIsList
    <3> QED
      BY <2>1, <3>1
  <2>4. Explore(g, component, start, s) =
            [s EXCEPT !.stack = Front(s.stack) \o SetToSeq(longer)]
    BY <1>8 DEF Explore, path, next
  <2> HIDE DEF longer
  <2>5. Front(s.stack) \o SetToSeq(longer) \in Seq(Trails(g, files, start))
    BY <1>3, <2>3
  <2> QED
    BY <1>1, <2>4, <2>5 DEF ExploreState, files
<1> QED
  BY <1>7, <1>8

(* w[k] is how many paths the search may take from one that leaves out k   *)
(* files: itself, and those that go on by each of them.                    *)
Counts(w, n) ==
    /\ w \in [0..n -> Nat] /\ w[0] = 1
    /\ \A k \in 1..n : w[k] = 1 + k * w[k - 1]

(* The bound on the rounds of a search is that count. *)
LEMMA PathsAreCounted ==
  ASSUME NEW n \in Nat, n > 0
  PROVE  \E w : Counts(w, n) /\ MaxPaths(n) = w[n - 1]
<1> DEFINE S == {m \in 0..n : \E w : Counts(w, m)}
           IsW(w) == w = [k \in 0..n |-> IF k = 0 THEN 1 ELSE 1 + k * w[k - 1]]
           paths == CHOOSE w : IsW(w)
<1>1. 0 \in S
  <2>1. Counts([k \in 0..0 |-> 1], 0)
    BY DEF Counts
  <2> QED
    BY <2>1
<1>2. ASSUME NEW m \in 0..(n - 1), m \in S
      PROVE  m + 1 \in S
  <2>1. PICK w : Counts(w, m)
    BY <1>2
  <2> DEFINE new == 1 + (m + 1) * w[m]
             v == [k \in 0..(m + 1) |-> IF k = m + 1 THEN new ELSE w[k]]
  <2>2. new \in Nat
    BY <2>1 DEF Counts
  <2>3. v \in [0..(m + 1) -> Nat] /\ v[0] = 1
    BY <2>1, <2>2 DEF Counts
  <2>4. \A k \in 1..(m + 1) : v[k] = 1 + k * v[k - 1]
    <3> SUFFICES ASSUME NEW k \in 1..(m + 1)
                 PROVE  v[k] = 1 + k * v[k - 1]
      OBVIOUS
    <3>1. CASE k = m + 1
      <4>1. v[k] = new /\ k - 1 = m /\ v[k - 1] = w[m]
        BY <3>1
      <4> QED
        BY <3>1, <4>1
    <3>2. CASE k # m + 1
      <4>1. k \in 1..m /\ v[k] = w[k] /\ v[k - 1] = w[k - 1]
        BY <3>2
      <4> QED
        BY <2>1, <4>1 DEF Counts
    <3> QED
      BY <3>1, <3>2
  <2> HIDE DEF v
  <2>5. m + 1 \in 0..n
    OBVIOUS
  <2> QED
    BY <2>3, <2>4, <2>5 DEF Counts
<1>3. n \in S
  <2> HIDE DEF S
  <2>1. 0..n \subseteq S
    BY <1>1, <1>2, InductionUpTo
  <2> QED
    BY <2>1
<1>4. PICK w : Counts(w, n)
  BY <1>3
<1>5. IsW(w)
  <2>1. \A k \in 0..n : w[k] = IF k = 0 THEN 1 ELSE 1 + k * w[k - 1]
    BY <1>4 DEF Counts
  <2> QED
    BY <1>4, <2>1 DEF Counts
<1>6. IsW(paths)
  <2> HIDE DEF IsW
  <2> QED
    BY <1>5
<1>7. MaxPaths(n) = paths[n - 1]
  BY DEF MaxPaths
<1> HIDE DEF paths
<1> DEFINE T == {m \in 0..n : paths[m] = w[m]}
<1>8. 0 \in T
  BY <1>4, <1>6 DEF Counts
<1>9. ASSUME NEW m \in 0..(n - 1), m \in T
      PROVE  m + 1 \in T
  <2>1. m + 1 \in 0..n /\ m + 1 \in 1..n /\ m + 1 # 0 /\ (m + 1) - 1 = m
    OBVIOUS
  <2>2. paths[m + 1] = 1 + (m + 1) * paths[m]
    BY <1>6, <2>1
  <2>3. w[m + 1] = 1 + (m + 1) * w[m]
    BY <1>4, <2>1 DEF Counts
  <2> QED
    BY <1>9, <2>1, <2>2, <2>3
<1>10. n - 1 \in T
  <2> HIDE DEF T
  <2>1. 0..n \subseteq T
    BY <1>8, <1>9, InductionUpTo
  <2> QED
    BY <2>1
<1> QED
  BY <1>4, <1>7, <1>10

(* The rounds of the search *)
Searching(g, component, start, N, a) ==
    /\ a \in [0..N -> ExploreState(g, component \cap FileNodes(g), start)]
    /\ a[0] = [stack |-> <<<<start>>>>, found |-> None]
    /\ \A i \in 1..N :
          a[i] = IF a[i - 1].found # None \/ a[i - 1].stack = <<>> THEN a[i - 1]
                 ELSE Explore(g, component, start, a[i - 1])

LEMMA SearchRuns ==
  ASSUME NEW g, IsFiniteSet(NodesOf(g)), NEW component,
         component \cap FileNodes(g) # {}
  PROVE  LET N == MaxPaths(Cardinality(component \cap FileNodes(g)))
         IN \E start \in component \cap FileNodes(g) : \E a :
                /\ N \in Nat /\ Searching(g, component, start, N, a)
                /\ MinimalCycleChain(g, component) = a[N].found
<1> DEFINE files == component \cap FileNodes(g)
           start == CHOOSE f \in files : TRUE
           N == MaxPaths(Cardinality(files))
           first == [stack |-> <<<<start>>>>, found |-> None]
           X == ExploreState(g, files, start)
           F == [s \in X |-> IF s.found # None \/ s.stack = <<>> THEN s
                             ELSE Explore(g, component, start, s)]
           IsSearch(a) == a = [i \in 0..N |->
                IF i = 0 THEN [stack |-> <<<<start>>>>, found |-> None]
                ELSE IF a[i - 1].found # None \/ a[i - 1].stack = <<>>
                THEN a[i - 1]
                ELSE Explore(g, component, start, a[i - 1])]
           search == CHOOSE a : IsSearch(a)
<1>1. start \in files
  OBVIOUS
<1>2. N \in Nat
  <2>1. IsFiniteSet(files)
    BY FS_Subset DEF FileNodes
  <2> HIDE DEF files
  <2>2. Cardinality(files) \in Nat /\ Cardinality(files) > 0
    BY <1>1, <2>1, FS_CardinalityType, FS_EmptySet
  <2> DEFINE n == Cardinality(files)
  <2>3. PICK w : Counts(w, n) /\ MaxPaths(n) = w[n - 1]
    <3> HIDE DEF n
    <3> QED
      BY <2>2, PathsAreCounted DEF n
  <2> QED
    BY <2>2, <2>3 DEF Counts
<1>3. MinimalCycleChain(g, component) = search[N].found
  BY DEF MinimalCycleChain
<1>4. F \in [X -> X]
  <2> SUFFICES ASSUME NEW s \in X, s.stack # <<>>
               PROVE  Explore(g, component, start, s) \in X
    OBVIOUS
  <2> HIDE DEF start
  <2> QED
    BY <1>1, ExploreTyped
<1>5. \A s \in X : F[s] = IF s.found # None \/ s.stack = <<>> THEN s
                          ELSE Explore(g, component, start, s)
  OBVIOUS
<1>6. first \in X
  <2> HIDE DEF start, files
  <2>1. <<start>> \in Seq(files) /\ Len(<<start>>) = 1 /\ <<start>>[1] = start
    BY <1>1
  <2>2. <<start>> \in Trails(g, files, start)
    BY <2>1 DEF Trails
  <2> DEFINE trail == <<start>>
  <2>3. trail \in Trails(g, files, start)
    BY <2>2
  <2> HIDE DEF trail
  <2>4. <<trail>> \in Seq(Trails(g, files, start))
    BY <2>3
  <2> QED
    BY <2>4 DEF ExploreState, trail
<1> HIDE DEF F, X, N, start
<1>7. PICK a : Iterates(a, F, first, X, N)
  BY <1>2, <1>4, <1>6, IterationExists
<1>8. IsSearch(a)
  <2>1. /\ a \in [0..N -> X] /\ a[0] = first
        /\ \A i \in 1..N : a[i] = F[a[i - 1]]
    BY <1>7 DEF Iterates
  <2>2. ASSUME NEW i \in 0..N, i # 0
        PROVE  a[i] = IF a[i - 1].found # None \/ a[i - 1].stack = <<>>
                      THEN a[i - 1] ELSE Explore(g, component, start, a[i - 1])
    <3>1. i \in 1..N /\ i - 1 \in 0..N
      BY <1>2, <2>2
    <3>2. a[i] = F[a[i - 1]] /\ a[i - 1] \in X
      BY <2>1, <3>1
    <3> QED
      BY <1>5, <3>2
  <2> QED
    BY <2>1, <2>2
<1>9. IsSearch(search)
  <2> HIDE DEF IsSearch
  <2> QED
    BY <1>8
<1> HIDE DEF search
<1> DEFINE S == {n \in 0..N : search[n] \in X}
<1>10. 0 \in S
  <2>1. search[0] = first
    BY <1>2, <1>9
  <2> QED
    BY <1>2, <1>6, <2>1
<1>11. ASSUME NEW n \in 0..(N - 1), n \in S
       PROVE  n + 1 \in S
  <2>1. n + 1 \in 0..N /\ n + 1 # 0 /\ (n + 1) - 1 = n
    BY <1>2
  <2>2. search[n + 1] = IF search[n].found # None \/ search[n].stack = <<>>
                        THEN search[n] ELSE Explore(g, component, start, search[n])
    BY <1>9, <2>1
  <2>3. search[n + 1] = F[search[n]]
    BY <1>5, <1>11, <2>2
  <2> QED
    BY <1>4, <1>11, <2>1, <2>3
<1>12. \A i \in 0..N : search[i] \in X
  <2> HIDE DEF S
  <2>1. 0..N \subseteq S
    BY <1>2, <1>10, <1>11, InductionUpTo
  <2> QED
    BY <2>1 DEF S
<1>13. search \in [0..N -> X]
  BY <1>9, <1>12
<1>14. search[0] = first
  BY <1>2, <1>9
<1>15. ASSUME NEW i \in 1..N
       PROVE  search[i] = IF search[i - 1].found # None \/ search[i - 1].stack = <<>>
                          THEN search[i - 1]
                          ELSE Explore(g, component, start, search[i - 1])
  <2>1. i \in 0..N /\ i # 0
    BY <1>2
  <2> QED
    BY <1>9, <2>1
<1>16. Searching(g, component, start, N, search)
  BY <1>13, <1>14, <1>15 DEF Searching, X
<1> QED
  BY <1>1, <1>2, <1>3, <1>16 DEF N

(* The chain that is reported for a component is a cycle of the graph:     *)
(* two files or more, all of the component, each imported by the one       *)
(* before it, none of them twice (minimal_cycle_chain in cycles.rs).       *)
THEOREM ChainsAreCycles ==
  ASSUME NEW g, IsFiniteSet(NodesOf(g)), NEW component,
         component \cap FileNodes(g) # {}
  PROVE  LET chain == MinimalCycleChain(g, component)
         IN chain = None \/ IsCycle(g, component \cap FileNodes(g), chain)
<1> DEFINE N == MaxPaths(Cardinality(component \cap FileNodes(g)))
<1>1. PICK start \in component \cap FileNodes(g) : \E a :
          /\ N \in Nat /\ Searching(g, component, start, N, a)
          /\ MinimalCycleChain(g, component) = a[N].found
  BY SearchRuns
<1> HIDE DEF N
<1>2. PICK a : /\ N \in Nat /\ Searching(g, component, start, N, a)
               /\ MinimalCycleChain(g, component) = a[N].found
  BY <1>1
<1>3. a[N] \in ExploreState(g, component \cap FileNodes(g), start)
  <2> DEFINE X == ExploreState(g, component \cap FileNodes(g), start)
  <2>1. a \in [0..N -> X]
    <3>1. Searching(g, component, start, N, a)
      BY <1>2
    <3> QED
      BY <3>1, Zenon DEF Searching
  <2>2. N \in 0..N
    BY <1>2
  <2> HIDE DEF X
  <2>3. a[N] \in X
    BY <2>1, <2>2
  <2> QED
    BY <2>3 DEF X
<1> QED
  BY <1>2, <1>3 DEF ExploreState

(* No trail that begins with p leads back to where it starts. *)
DeadEnd(g, files, start, p) ==
    \A t \in Trails(g, files, start) :
        Len(t) > 1 /\ Len(p) <= Len(t) /\ (\A i \in 1..Len(p) : t[i] = p[i])
            => <<t[Len(t)], start>> \notin g.edges

(* The trails kids are all that p can go on by. *)
Branches(g, files, start, p, kids) ==
    /\ kids \in Seq(Trails(g, files, start))
    /\ Len(p) + Len(kids) <= Cardinality(files)
    /\ \A k \in 1..Len(kids) : Len(kids[k]) = Len(p) + 1
    /\ (\A k \in 1..Len(kids) : DeadEnd(g, files, start, kids[k]))
            => DeadEnd(g, files, start, p)

(* A trail visits as many files as it is long. *)
LEMMA TrailVisits ==
  ASSUME NEW g, NEW files, IsFiniteSet(files), NEW start,
         NEW p \in Trails(g, files, start)
  PROVE  /\ ToSet(p) \subseteq files
         /\ Cardinality(ToSet(p)) = Len(p) /\ Len(p) <= Cardinality(files)
         /\ Cardinality(files \ ToSet(p)) = Cardinality(files) - Len(p)
<1>1. /\ p \in Seq(files) /\ Len(p) \in Nat
      /\ \A i, j \in 1..Len(p) : p[i] = p[j] => i = j
  BY DEF Trails
<1>2. ToSet(p) = {p[i] : i \in 1..Len(p)} /\ ToSet(p) \subseteq files
  BY <1>1 DEF ToSet
<1>3. p \in Bijection(1..Len(p), ToSet(p))
  BY <1>1, <1>2 DEF Bijection, Injection, Surjection, IsInjective
<1>4. IsFiniteSet(1..Len(p)) /\ Cardinality(1..Len(p)) = Len(p)
  <2>1. \A n \in Nat : IsFiniteSet(1..n) /\ Cardinality(1..n) = n
    BY FS_Interval
  <2> QED
    BY <1>1, <2>1
<1>5. IsFiniteSet(ToSet(p)) /\ Cardinality(ToSet(p)) = Len(p)
  BY <1>3, <1>4, FS_Bijection DEF ExistsBijection
<1>6. files \cap ToSet(p) = ToSet(p)
  BY <1>2
<1>7. Cardinality(files \ ToSet(p)) = Cardinality(files) - Len(p)
  <2>1. Cardinality(files \ ToSet(p)) = Cardinality(files) - Cardinality(files \cap ToSet(p))
    BY FS_Difference, Zenon
  <2>2. Cardinality(files \cap ToSet(p)) = Len(p)
    BY <1>5, <1>6, Zenon
  <2> QED
    BY <2>1, <2>2, Zenon
<1>8. Len(p) <= Cardinality(files)
  <2>1. Cardinality(ToSet(p)) <= Cardinality(files)
    BY <1>2, FS_Subset, Zenon
  <2> QED
    BY <1>5, <2>1, Zenon
<1> QED
  BY <1>2, <1>5, <1>7, <1>8, Zenon

(* A round of the search answers, or puts in the place of the newest trail *)
(* all that it can go on by.                                               *)
LEMMA ExploreBranches ==
  ASSUME NEW g, IsFiniteSet(NodesOf(g)), None \notin Seq(NodesOf(g)),
         NEW component, NEW start \in component \cap FileNodes(g),
         NEW rest \in Seq(Trails(g, component \cap FileNodes(g), start)),
         NEW p \in Trails(g, component \cap FileNodes(g), start)
  PROVE  LET s == Explore(g, component, start,
                          [stack |-> Append(rest, p), found |-> None])
         IN \/ s.found # None
            \/ \E kids : /\ s = [stack |-> rest \o kids, found |-> None]
                         /\ Branches(g, component \cap FileNodes(g), start, p, kids)
<1> DEFINE files == component \cap FileNodes(g)
           b == [stack |-> Append(rest, p), found |-> None]
           next == Successors(g, Last(p)) \cap component \cap FileNodes(g)
           more == next \ ToSet(p)
           longer == {Append(p, n) : n \in more}
           kids == SetToSeq(longer)
           L == Len(p)
<1>1. /\ p \in Seq(files) /\ L \in Nat /\ L >= 1
      /\ p[1] = start /\ Last(p) = p[L]
      /\ \A i, j \in 1..L : p[i] = p[j] => i = j
      /\ \A i \in 1..(L - 1) : <<p[i], p[i + 1]>> \in g.edges
  BY DEF Trails, Last
<1>2. Last(b.stack) = p /\ Front(b.stack) = rest
  <2> DEFINE T == Trails(g, files, start)
  <2> HIDE DEF T
  <2>1. rest \in Seq(T) /\ p \in T
    BY DEF T
  <2>2. /\ Len(Append(rest, p)) = Len(rest) + 1 /\ Len(rest) \in Nat
        /\ Append(rest, p)[Len(rest) + 1] = p
        /\ \A i \in 1..Len(rest) : Append(rest, p)[i] = rest[i]
    BY <2>1
  <2>3. Last(b.stack) = p
    BY <2>2 DEF Last
  <2>4. Front(b.stack) = [i \in 1..Len(rest) |-> rest[i]]
    BY <2>2 DEF Front
  <2>5. rest = [i \in 1..Len(rest) |-> rest[i]]
    BY <2>1
  <2> QED
    BY <2>3, <2>4, <2>5
<1>3. IsFiniteSet(files) /\ files \subseteq NodesOf(g)
  BY FS_Subset DEF FileNodes
<1>4. \A n : n \in next <=> n \in files /\ <<p[L], n>> \in g.edges
  BY <1>1, <1>3 DEF Successors
<1> HIDE DEF next
<1>5. CASE start \in next /\ L > 1
  <2> DEFINE chain == Append(p, start)
  <2>1. Explore(g, component, start, b) = [b EXCEPT !.found = chain]
    BY <1>2, <1>5 DEF Explore, next
  <2>2. chain \in Seq(NodesOf(g))
    BY <1>1, <1>3
  <2> HIDE DEF chain
  <2>3. Explore(g, component, start, b).found = chain
    BY <2>1
  <2> QED
    BY <2>2, <2>3
<1>6. CASE ~(start \in next /\ L > 1)
  <2>1. Explore(g, component, start, b) = [b EXCEPT !.stack = rest \o kids]
    BY <1>2, <1>6 DEF Explore, next
  <2>2. Explore(g, component, start, b) = [stack |-> rest \o kids, found |-> None]
    <3> HIDE DEF kids
    <3> QED
      BY <2>1
  <2>3. IsFiniteSet(more) /\ L + Cardinality(more) <= Cardinality(files)
    <3>1. /\ L <= Cardinality(files) /\ IsFiniteSet(files \ ToSet(p))
          /\ Cardinality(files \ ToSet(p)) = Cardinality(files) - L
      <4> HIDE DEF files
      <4>1. p \in Trails(g, files, start)
        BY DEF files
      <4>2. IsFiniteSet(files \ ToSet(p))
        BY <1>3, FS_Subset
      <4>3. /\ L <= Cardinality(files)
            /\ Cardinality(files \ ToSet(p)) = Cardinality(files) - L
        BY <1>3, <4>1, TrailVisits
      <4> QED
        BY <4>2, <4>3
    <3>2. more \subseteq files \ ToSet(p)
      BY <1>4
    <3> HIDE DEF more, files
    <3>3. /\ IsFiniteSet(more) /\ Cardinality(more) \in Nat
          /\ Cardinality(more) <= Cardinality(files \ ToSet(p))
      BY <3>1, <3>2, FS_Subset, FS_CardinalityType
    <3> QED
      BY <1>1, <1>3, <3>1, <3>3, FS_CardinalityType
  <2>4. IsFiniteSet(longer) /\ Cardinality(longer) <= Cardinality(more)
    <3> DEFINE h == [n \in more |-> Append(p, n)]
    <3>1. h \in Surjection(more, longer)
      BY DEF Surjection
    <3> HIDE DEF h, more, longer
    <3> QED
      BY <2>3, <3>1, FS_Surjection
  <2>5. \A n \in more : Append(p, n) \in Trails(g, files, start)
    <3> SUFFICES ASSUME NEW n \in more
                 PROVE  Append(p, n) \in Trails(g, files, start)
      OBVIOUS
    <3>1. n \in files \ ToSet(p) /\ <<p[L], n>> \in g.edges
      BY <1>4
    <3> HIDE DEF files
    <3>2. p \in Trails(g, files, start)
      BY DEF files
    <3> QED
      BY <3>1, <3>2, TrailsGrow
  <2>6. /\ kids \in Seq(longer) /\ Len(kids) = Cardinality(longer)
        /\ ToSet(kids) = longer
    <3> HIDE DEF longer
    <3> QED
      BY <2>4, SetToSeqIsList
  <2>7. L + Len(kids) <= Cardinality(files)
    <3> HIDE DEF more, longer, kids, files
    <3>1. Cardinality(more) \in Nat /\ Cardinality(longer) \in Nat
          /\ Cardinality(files) \in Nat
      BY <1>3, <2>3, <2>4, FS_CardinalityType
    <3> QED
      BY <1>1, <2>3, <2>4, <2>6, <3>1
  <2>8. longer \subseteq Trails(g, files, start)
    BY <2>5
  <2>9. kids \in Seq(Trails(g, files, start))
    <3> HIDE DEF longer, kids
    <3> DEFINE T == Trails(g, files, start)
    <3>1. longer \subseteq T /\ kids \in Seq(longer)
      BY <2>6, <2>8
    <3> HIDE DEF T
    <3>2. kids \in Seq(T)
      BY <3>1
    <3> QED
      BY <3>2 DEF T
  <2>10. \A k \in 1..Len(kids) : Len(kids[k]) = L + 1
    <3>1. \A q \in longer : Len(q) = L + 1
      BY <1>1, <1>4
    <3> HIDE DEF longer, kids
    <3> QED
      BY <2>6, <3>1
  <2>11. ASSUME \A k \in 1..Len(kids) : DeadEnd(g, files, start, kids[k])
         PROVE  DeadEnd(g, files, start, p)
    <3> SUFFICES ASSUME NEW t \in Trails(g, files, start),
                        Len(t) > 1, L <= Len(t), \A i \in 1..L : t[i] = p[i],
                        <<t[Len(t)], start>> \in g.edges
                 PROVE  FALSE
      BY DEF DeadEnd
    <3>1. /\ t \in Seq(files) /\ Len(t) \in Nat
          /\ \A i, j \in 1..Len(t) : t[i] = t[j] => i = j
          /\ \A i \in 1..(Len(t) - 1) : <<t[i], t[i + 1]>> \in g.edges
      BY DEF Trails
    <3>2. CASE Len(t) = L
      <4>1. t[Len(t)] = p[L]
        BY <1>1, <3>2
      <4>2. start \in next
        BY <1>4, <4>1
      <4> QED
        BY <1>6, <3>2, <4>2
    <3>3. CASE Len(t) # L
      <4> DEFINE n == t[L + 1]
      <4>1. L + 1 \in 1..Len(t) /\ L \in 1..(Len(t) - 1) /\ L \in 1..L
        BY <1>1, <3>1, <3>3
      <4>2. n \in files /\ <<t[L], n>> \in g.edges /\ t[L] = p[L]
        <5> HIDE DEF files
        <5>1. t[L + 1] \in files
          BY <3>1, <4>1
        <5>2. <<t[L], t[L + 1]>> \in g.edges /\ t[L] = p[L]
          BY <3>1, <4>1
        <5> QED
          BY <5>1, <5>2
      <4>3. \A i \in 1..L : p[i] # n
        <5> SUFFICES ASSUME NEW i \in 1..L, t[i] = t[L + 1]
                     PROVE  FALSE
          OBVIOUS
        <5>1. i \in 1..Len(t) /\ L + 1 \in 1..Len(t) /\ i # L + 1
          BY <1>1, <3>1, <4>1
        <5> HIDE DEF files, n, L
        <5>2. \A x, y \in 1..Len(t) : t[x] = t[y] => x = y
          BY <3>1
        <5>3. t[i] = t[L + 1]
          OBVIOUS
        <5>4. i = L + 1
          BY <5>1, <5>2, <5>3, Zenon
        <5> QED
          BY <5>1, <5>4
      <4>4. n \notin ToSet(p)
        <5>1. DOMAIN p = 1..L
          BY <1>1
        <5> HIDE DEF n, L
        <5> QED
          BY <4>3, <5>1, Zenon DEF ToSet
      <4>5. n \in more
        BY <1>4, <4>2, <4>4
      <4>6. Append(p, n) \in longer
        BY <4>5
      <4>7. PICK k \in 1..Len(kids) : kids[k] = Append(p, n)
        <5> HIDE DEF longer, kids, n
        <5>1. DOMAIN kids = 1..Len(kids)
          BY <2>6
        <5> QED
          BY <2>6, <4>6, <5>1 DEF ToSet
      <4> HIDE DEF kids
      <4>8. /\ Len(kids[k]) = L + 1
            /\ \A i \in 1..(L + 1) : t[i] = kids[k][i]
        BY <1>1, <4>2, <4>7
      <4>9. DeadEnd(g, files, start, kids[k])
        BY <2>11
      <4>10. L + 1 <= Len(t)
        BY <4>1
      <4> QED
        BY <4>8, <4>9, <4>10 DEF DeadEnd
    <3> QED
      BY <3>2, <3>3
  <2>12. Branches(g, files, start, p, kids)
    <3> HIDE DEF kids, files
    <3> QED
      BY <2>7, <2>9, <2>10, <2>11 DEF Branches
  <2> HIDE DEF kids
  <2> QED
    BY <2>2, <2>12
<1> QED
  BY <1>5, <1>6

LEMMA ProductsGrow ==
  ASSUME NEW c \in Nat, NEW k \in Nat, NEW v \in Nat, c <= k
  PROVE  /\ c * v \in Nat /\ k * v \in Nat /\ c * v <= k * v
         /\ (c + 1) * v = c * v + v
<1>1. \A x, y \in Nat : x * y \in Nat
  OBVIOUS
<1>2. \A x, y, z \in Nat : (x + y) * z = x * z + y * z
  OBVIOUS
<1>3. k - c \in Nat /\ k = c + (k - c)
  OBVIOUS
<1>4. k * v = c * v + (k - c) * v
  BY <1>2, <1>3
<1>5. (k - c) * v \in Nat /\ c * v \in Nat
  BY <1>1, <1>3
<1>6. (c + 1) * v = c * v + 1 * v /\ 1 * v = v
  BY <1>2
<1> QED
  BY <1>4, <1>5, <1>6

LEMMA RoundsFit ==
  ASSUME NEW i \in Nat, NEW N \in Nat, NEW v \in Nat, NEW cv \in Nat, NEW dv,
         NEW kv \in Nat, dv = cv + v, dv <= kv, i + (1 + kv) <= N,
         NEW j \in (i + 1)..(i + 1 + cv)
  PROVE  j \in 0..N /\ j + v <= N
OBVIOUS

(* One element more of a sequence after another *)
LEMMA OneMore ==
  ASSUME NEW T, NEW rest \in Seq(T), NEW kids \in Seq(T), NEW x \in 1..Len(kids)
  PROVE  /\ rest \o SubSeq(kids, 1, x - 1) \in Seq(T)
         /\ rest \o SubSeq(kids, 1, x) = Append(rest \o SubSeq(kids, 1, x - 1), kids[x])
<1> DEFINE r == SubSeq(kids, 1, x)
           q == SubSeq(kids, 1, x - 1)
<1>1. /\ x \in Nat /\ x >= 1 /\ x - 1 \in Nat /\ x - 1 <= Len(kids) /\ kids[x] \in T
      /\ Len(rest) \in Nat /\ Len(kids) \in Nat
  OBVIOUS
<1>2. /\ r \in Seq(T) /\ Len(r) = x
      /\ \A i \in 1..x : r[i] = kids[i]
  BY <1>1
<1>3. /\ q \in Seq(T) /\ Len(q) = x - 1
      /\ \A i \in 1..(x - 1) : q[i] = kids[i]
  BY <1>1
<1> HIDE DEF r, q
<1>4. r = Append(q, kids[x])
  <2>1. Len(Append(q, kids[x])) = x /\ Append(q, kids[x]) \in Seq(T)
    BY <1>1, <1>3
  <2>2. \A i \in 1..x : Append(q, kids[x])[i] = r[i]
    BY <1>1, <1>2, <1>3
  <2> QED
    BY <1>2, <2>1, <2>2
<1>5. rest \o Append(q, kids[x]) = Append(rest \o q, kids[x])
  BY <1>1, <1>3
<1> QED
  BY <1>3, <1>4, <1>5 DEF r, q

(* From any round in which a trail of length n is the newest one, the      *)
(* search answers within so many rounds, or it has dropped the trail and   *)
(* all that it could go on by, none of which leads back to the start.      *)
Settles(g, files, start, N, a, n, rounds) ==
    \A rest \in Seq(Trails(g, files, start)), p \in Trails(g, files, start), i \in 0..N :
        /\ Len(p) = n /\ i + rounds <= N
        /\ a[i] = [stack |-> Append(rest, p), found |-> None]
        => \E j \in i..(i + rounds) :
              \/ a[j].found # None
              \/ /\ a[j] = [stack |-> rest, found |-> None]
                 /\ DeadEnd(g, files, start, p)

LEMMA BranchSettles ==
  ASSUME NEW g, IsFiniteSet(NodesOf(g)), None \notin Seq(NodesOf(g)),
         NEW component, NEW start \in component \cap FileNodes(g),
         NEW N \in Nat, NEW a, Searching(g, component, start, N, a),
         NEW n \in Nat, NEW v \in Nat, NEW k \in Nat,
         n + k = Cardinality(component \cap FileNodes(g)),
         k > 0 => Settles(g, component \cap FileNodes(g), start, N, a, n + 1, v)
  PROVE  Settles(g, component \cap FileNodes(g), start, N, a, n, 1 + k * v)
<1> DEFINE files == component \cap FileNodes(g)
           T == Trails(g, files, start)
<1> SUFFICES ASSUME NEW rest \in Seq(T), NEW p \in T, NEW i \in 0..N,
                    Len(p) = n, i + (1 + k * v) <= N,
                    a[i] = [stack |-> Append(rest, p), found |-> None]
             PROVE  \E j \in i..(i + (1 + k * v)) :
                      \/ a[j].found # None
                      \/ /\ a[j] = [stack |-> rest, found |-> None]
                         /\ DeadEnd(g, files, start, p)
  BY DEF Settles
<1> DEFINE dead(q) == DeadEnd(g, files, start, q)
           before == [stack |-> Append(rest, p), found |-> None]
           s == Explore(g, component, start, before)
<1>1. k * v \in Nat /\ i + 1 \in 1..N /\ i + 1 \in 0..N /\ (i + 1) - 1 = i
  <2>1. k * v \in Nat
    BY ProductsGrow
  <2> DEFINE kv == k * v
  <2>2. kv \in Nat /\ i + (1 + kv) <= N
    BY <2>1
  <2> HIDE DEF kv
  <2>3. i + 1 \in 1..N /\ i + 1 \in 0..N /\ (i + 1) - 1 = i
    BY <2>2
  <2> QED
    BY <2>1, <2>3
<1>2. a[i + 1] = s
  <2>1. Append(rest, p) # <<>>
    <3>1. rest \in Seq(T) /\ p \in T
      OBVIOUS
    <3> HIDE DEF T
    <3>2. Append(rest, p) \in Seq(T) /\ Len(Append(rest, p)) = Len(rest) + 1
          /\ Len(rest) \in Nat
      BY <3>1
    <3> DEFINE q == Append(rest, p)
    <3>3. q \in Seq(T) /\ Len(q) # 0
      BY <3>2
    <3> HIDE DEF q
    <3>4. q # <<>>
      BY <3>3
    <3> QED
      BY <3>4 DEF q
  <2>2. before.found = None /\ before.stack # <<>>
    BY <2>1
  <2>3. a[i + 1] = IF a[i].found # None \/ a[i].stack = <<>> THEN a[i]
                   ELSE Explore(g, component, start, a[i])
    BY <1>1 DEF Searching
  <2> HIDE DEF before
  <2>4. a[i] = before
    BY DEF before
  <2> QED
    BY <2>2, <2>3, <2>4
<1>3. \/ s.found # None
      \/ \E kids : /\ s = [stack |-> rest \o kids, found |-> None]
                   /\ Branches(g, files, start, p, kids)
  BY ExploreBranches
<1>4. CASE s.found # None
  <2>1. i + 1 \in i..(i + (1 + k * v)) /\ a[i + 1].found # None
    BY <1>1, <1>2, <1>4
  <2> QED
    BY <2>1
<1>5. CASE \E kids : /\ s = [stack |-> rest \o kids, found |-> None]
                     /\ Branches(g, files, start, p, kids)
  <2>1. PICK kids : /\ s = [stack |-> rest \o kids, found |-> None]
                    /\ Branches(g, files, start, p, kids)
    BY <1>5
  <2> DEFINE m == Len(kids)
             left(c) == [stack |-> rest \o SubSeq(kids, 1, m - c), found |-> None]
             S == {c \in 0..m : \E j \in (i + 1)..(i + 1 + c * v) :
                      \/ a[j].found # None
                      \/ /\ a[j] = left(c)
                         /\ \A x \in (m - c + 1)..m : dead(kids[x])}
  <2> HIDE DEF s
  <2>2. /\ kids \in Seq(T) /\ m \in Nat /\ m <= k
        /\ \A x \in 1..m : kids[x] \in T /\ Len(kids[x]) = n + 1
        /\ (\A x \in 1..m : dead(kids[x])) => dead(p)
    <3>1. /\ kids \in Seq(T) /\ Len(p) + m <= Cardinality(files)
          /\ \A x \in 1..m : Len(kids[x]) = Len(p) + 1
          /\ (\A x \in 1..m : dead(kids[x])) => dead(p)
      BY <2>1 DEF Branches
    <3> HIDE DEF dead, T
    <3>2. m \in Nat /\ \A x \in 1..m : kids[x] \in T
      BY <3>1
    <3> HIDE DEF m
    <3> QED
      BY <3>1, <3>2
  <2> HIDE DEF dead
  <2>3. 0 \in S
    <3>1. SubSeq(kids, 1, m - 0) = kids
      <4> HIDE DEF T
      <4> QED
        BY <2>2
    <3>2. i + 1 \in (i + 1)..(i + 1 + 0 * v) /\ a[i + 1] = left(0)
      <4>1. a[i + 1] = left(0)
        BY <1>2, <2>1, <3>1
      <4>2. 0 * v = 0
        OBVIOUS
      <4>3. i + 1 \in (i + 1)..(i + 1 + 0 * v)
        BY <1>1, <4>2
      <4> QED
        BY <4>1, <4>3
    <3>3. (m - 0 + 1)..m = {}
      BY <2>2
    <3> HIDE DEF left, m
    <3> QED
      BY <2>2, <3>2, <3>3
  <2>4. ASSUME NEW c \in 0..(m - 1), c \in S
        PROVE  c + 1 \in S
    <3>1. PICK j \in (i + 1)..(i + 1 + c * v) :
             \/ a[j].found # None
             \/ /\ a[j] = left(c)
                /\ \A x \in (m - c + 1)..m : dead(kids[x])
      BY <2>4
    <3>2. /\ c * v \in Nat /\ (c + 1) * v = c * v + v /\ (c + 1) * v <= k * v
          /\ c + 1 \in 0..m
      <4>1. c \in Nat /\ c + 1 \in Nat /\ c + 1 <= k /\ c <= k /\ c + 1 \in 0..m
        <5>1. m \in Nat /\ m <= k /\ c \in 0..(m - 1)
          BY <2>2
        <5> HIDE DEF m
        <5>2. c \in Nat /\ c + 1 <= m
          BY <5>1
        <5> QED
          BY <5>1, <5>2
      <4> HIDE DEF m
      <4> QED
        BY <4>1, ProductsGrow
    <3>3. CASE a[j].found # None
      <4>1. j \in (i + 1)..(i + 1 + (c + 1) * v)
        BY <3>2
      <4> QED
        BY <3>2, <3>3, <4>1
    <3>4. CASE /\ a[j] = left(c)
               /\ \A x \in (m - c + 1)..m : dead(kids[x])
      <4> DEFINE q == kids[m - c]
                 under == rest \o SubSeq(kids, 1, m - (c + 1))
      <4>1. /\ m - c \in 1..m /\ q \in T /\ Len(q) = n + 1 /\ k > 0
            /\ j \in 0..N /\ j + v <= N
        <5>1. m - c \in 1..m /\ k > 0
          BY <2>2
        <5> DEFINE cv == c * v
                   dv == (c + 1) * v
                   kv == k * v
        <5>2. /\ cv \in Nat /\ dv = cv + v /\ dv <= kv /\ kv \in Nat
              /\ j \in (i + 1)..(i + 1 + cv) /\ i + (1 + kv) <= N
          BY <1>1, <3>2
        <5> HIDE DEF cv, dv, kv
        <5>3. j \in 0..N /\ j + v <= N
          BY <5>2, RoundsFit
        <5> HIDE DEF m, T
        <5> QED
          BY <2>2, <5>1, <5>3
      <4>2. under \in Seq(T) /\ left(c).stack = Append(under, q)
        <5>1. rest \in Seq(T) /\ kids \in Seq(T) /\ m - c \in 1..m
          BY <2>2, <4>1
        <5>2. m - (c + 1) = (m - c) - 1
          BY <2>2
        <5> HIDE DEF T
        <5>3. /\ rest \o SubSeq(kids, 1, (m - c) - 1) \in Seq(T)
              /\ rest \o SubSeq(kids, 1, m - c)
                    = Append(rest \o SubSeq(kids, 1, (m - c) - 1), kids[m - c])
          BY <5>1, OneMore
        <5> QED
          BY <5>2, <5>3
      <4> HIDE DEF under, q
      <4>3. a[j] = [stack |-> Append(under, q), found |-> None]
        BY <3>4, <4>2
      <4>4. PICK h \in j..(j + v) : \/ a[h].found # None
                                    \/ /\ a[h] = [stack |-> under, found |-> None]
                                       /\ dead(q)
        <5>1. Settles(g, files, start, N, a, n + 1, v)
          BY <4>1
        <5>2. under \in Seq(Trails(g, files, start)) /\ q \in Trails(g, files, start)
          BY <4>1, <4>2
        <5> HIDE DEF files
        <5> QED
          BY <4>1, <4>3, <5>1, <5>2 DEF Settles, dead
      <4>5. h \in (i + 1)..(i + 1 + (c + 1) * v)
        BY <3>2
      <4>6. CASE a[h].found # None
        BY <3>2, <4>5, <4>6
      <4>7. CASE a[h] = [stack |-> under, found |-> None] /\ dead(q)
        <5>1. a[h] = left(c + 1)
          BY <4>7 DEF under
        <5>2. \A x \in (m - (c + 1) + 1)..m : dead(kids[x])
          <6> SUFFICES ASSUME NEW x \in (m - (c + 1) + 1)..m
                       PROVE  dead(kids[x])
            OBVIOUS
          <6>1. x = m - c \/ x \in (m - c + 1)..m
            BY <2>2
          <6> QED
            BY <3>4, <4>7, <6>1 DEF q
        <5> HIDE DEF left
        <5> QED
          BY <3>2, <4>5, <5>1, <5>2
      <4> QED
        BY <4>4, <4>6, <4>7
    <3> QED
      BY <3>1, <3>3, <3>4
  <2>5. m \in S
    <3> HIDE DEF S, m
    <3>1. 0..m \subseteq S
      BY <2>2, <2>3, <2>4, InductionUpTo
    <3> QED
      BY <2>2, <3>1
  <2>6. PICK j \in (i + 1)..(i + 1 + m * v) :
           \/ a[j].found # None
           \/ /\ a[j] = left(m)
              /\ \A x \in (m - m + 1)..m : dead(kids[x])
    BY <2>5
  <2>7. m * v <= k * v /\ m * v \in Nat
    <3>1. m \in Nat /\ m <= k
      BY <2>2
    <3> HIDE DEF m
    <3> QED
      BY <3>1, ProductsGrow
  <2>8. j \in i..(i + (1 + k * v))
    <3> DEFINE mv == m * v
               kv == k * v
    <3>1. j \in (i + 1)..(i + 1 + mv) /\ mv <= kv /\ mv \in Nat /\ kv \in Nat
      BY <1>1, <2>7
    <3>2. i \in Nat
      OBVIOUS
    <3> HIDE DEF mv, kv
    <3>3. j \in Int /\ i + 1 <= j /\ j <= i + 1 + mv
      BY <3>1, <3>2
    <3>4. j \in i..(i + (1 + kv))
      BY <3>1, <3>2, <3>3
    <3> QED
      BY <3>4 DEF kv
  <2>9. ASSUME a[j] = left(m), \A x \in (m - m + 1)..m : dead(kids[x])
        PROVE  a[j] = [stack |-> rest, found |-> None] /\ dead(p)
    <3>1. rest \o SubSeq(kids, 1, m - m) = rest
      <4> HIDE DEF T
      <4>1. SubSeq(kids, 1, m - m) = <<>>
        BY <2>2
      <4> QED
        BY <4>1
    <3>2. \A x \in 1..m : dead(kids[x])
      BY <2>2, <2>9
    <3> QED
      BY <2>2, <2>9, <3>1, <3>2
  <2> QED
    BY <2>6, <2>8, <2>9 DEF dead
<1> QED
  BY <1>3, <1>4, <1>5

(* The search has seen every path from its start within its rounds: it     *)
(* ends, and it ends without a chain only if no path leads back.           *)
LEMMA SearchSettles ==
  ASSUME NEW g, IsFiniteSet(NodesOf(g)), None \notin Seq(NodesOf(g)),
         NEW component, NEW start \in component \cap FileNodes(g),
         NEW N, N = MaxPaths(Cardinality(component \cap FileNodes(g))), N \in Nat,
         NEW a, Searching(g, component, start, N, a)
  PROVE  a[N].found # None \/ DeadEnd(g, component \cap FileNodes(g), start, <<start>>)
<1> DEFINE files == component \cap FileNodes(g)
           n == Cardinality(files)
           T == Trails(g, files, start)
<1>1. n \in Nat /\ n > 0
  <2>1. IsFiniteSet(files) /\ files # {}
    BY FS_Subset DEF FileNodes
  <2> HIDE DEF files
  <2> QED
    BY <2>1, FS_CardinalityType, FS_EmptySet
<1>2. PICK w : Counts(w, n) /\ N = w[n - 1]
  <2> HIDE DEF n
  <2>1. PICK w : Counts(w, n) /\ MaxPaths(n) = w[n - 1]
    BY <1>1, PathsAreCounted
  <2> QED
    BY <2>1 DEF n
<1> DEFINE S == {k \in 0..(n - 1) : Settles(g, files, start, N, a, n - k, w[k])}
<1>3. ASSUME NEW k \in 0..(n - 1), k > 0 => k - 1 \in S
      PROVE  k \in S
  <2> DEFINE v == IF k = 0 THEN 0 ELSE w[k - 1]
  <2>1. v \in Nat /\ w[k] = 1 + k * v
    <3>1. CASE k = 0
      <4>1. w[0] = 1 /\ 0 * v = 0
        BY <1>2, <3>1 DEF Counts
      <4> QED
        BY <3>1, <4>1
    <3>2. CASE k # 0
      <4>1. k \in 1..n /\ k - 1 \in 0..n
        BY <1>1, <3>2
      <4> QED
        BY <1>2, <3>2, <4>1 DEF Counts
    <3> QED
      BY <3>1, <3>2
  <2>2. n - k \in Nat /\ (n - k) + k = n /\ k \in Nat
    BY <1>1
  <2>3. k > 0 => Settles(g, files, start, N, a, (n - k) + 1, v)
    <3>1. SUFFICES ASSUME k > 0
                   PROVE  Settles(g, files, start, N, a, (n - k) + 1, v)
      OBVIOUS
    <3>2. n - (k - 1) = (n - k) + 1 /\ v = w[k - 1]
      BY <1>1, <3>1
    <3>3. Settles(g, files, start, N, a, n - (k - 1), w[k - 1])
      BY <1>3, <3>1
    <3> QED
      BY <3>2, <3>3
  <2> HIDE DEF v, n
  <2>4. Settles(g, files, start, N, a, n - k, 1 + k * v)
    <3>1. (n - k) + k = Cardinality(component \cap FileNodes(g))
      BY <2>2 DEF n
    <3> DEFINE l == n - k
    <3>2. /\ l \in Nat /\ l + k = Cardinality(component \cap FileNodes(g))
          /\ k > 0 => Settles(g, component \cap FileNodes(g), start, N, a, l + 1, v)
      BY <2>2, <2>3, <3>1
    <3> HIDE DEF l
    <3>3. Settles(g, component \cap FileNodes(g), start, N, a, l, 1 + k * v)
      BY <2>1, <2>2, <3>2, BranchSettles
    <3> QED
      BY <3>3 DEF l
  <2>5. Settles(g, files, start, N, a, n - k, w[k])
    BY <2>1, <2>4
  <2> QED
    BY <2>5
<1>4. Settles(g, files, start, N, a, 1, N)
  <2>1. n - 1 \in Nat /\ n - (n - 1) = 1
    BY <1>1
  <2>2. 0 \in S
    <3>1. 0 \in 0..(n - 1) /\ ~(0 > 0)
      BY <1>1
    <3> HIDE DEF S
    <3> QED
      BY <1>3, <3>1
  <2>3. \A k \in 0..((n - 1) - 1) : k \in S => k + 1 \in S
    <3> SUFFICES ASSUME NEW k \in 0..((n - 1) - 1), k \in S
                 PROVE  k + 1 \in S
      OBVIOUS
    <3>1. k + 1 \in 0..(n - 1) /\ (k + 1) - 1 = k
      BY <1>1
    <3> HIDE DEF S
    <3> QED
      BY <1>3, <3>1
  <2>4. n - 1 \in S
    <3> HIDE DEF S, n
    <3>1. 0..(n - 1) \subseteq S
      BY <2>1, <2>2, <2>3, InductionUpTo
    <3> QED
      BY <2>1, <3>1
  <2> QED
    BY <1>2, <2>1, <2>4
<1>5. PICK j \in 0..N : a[j].found # None \/ DeadEnd(g, files, start, <<start>>)
  <2> DEFINE p == <<start>>
             r == <<>>
  <2>1. p \in T /\ Len(p) = 1
    BY DEF Trails
  <2>2. r \in Seq(T) /\ Append(r, p) = <<p>>
    <3> HIDE DEF T
    <3> QED
      BY <2>1
  <2>3. a[0] = [stack |-> <<p>>, found |-> None]
    BY DEF Searching
  <2>4. 0 \in 0..N /\ 0 + N <= N /\ 0..(0 + N) = 0..N
    OBVIOUS
  <2> HIDE DEF p, r
  <2>5. a[0] = [stack |-> Append(r, p), found |-> None]
    BY <2>2, <2>3
  <2> HIDE DEF T
  <2>6. \E j \in 0..(0 + N) : \/ a[j].found # None
                              \/ /\ a[j] = [stack |-> r, found |-> None]
                                 /\ DeadEnd(g, files, start, p)
    BY <1>4, <2>1, <2>2, <2>4, <2>5, Zenon DEF Settles, T
  <2> QED
    BY <2>4, <2>6 DEF p
<1>6. ASSUME a[j].found # None
      PROVE  a[N].found # None
  <2> DEFINE R == {i \in 0..N : i >= j => a[i].found # None}
  <2>1. 0 \in R
    BY <1>6
  <2>2. ASSUME NEW i \in 0..(N - 1), i \in R
        PROVE  i + 1 \in R
    <3>1. i + 1 \in 0..N /\ i + 1 \in 1..N /\ (i + 1) - 1 = i
      OBVIOUS
    <3>2. a[i].found # None => a[i + 1] = a[i]
      BY <3>1 DEF Searching
    <3>3. i + 1 >= j => i >= j \/ i + 1 = j
      OBVIOUS
    <3> QED
      BY <1>6, <2>2, <3>1, <3>2, <3>3
  <2>3. N \in R
    <3> HIDE DEF R
    <3>1. 0..N \subseteq R
      BY <2>1, <2>2, InductionUpTo
    <3>2. N \in 0..N
      OBVIOUS
    <3> QED
      BY <3>1, <3>2
  <2> QED
    BY <2>3
<1> QED
  BY <1>5, <1>6

(* Only a file both imports and is imported: entrypoints have no edges     *)
(* into them, packages and externals none out of them.                     *)
OnlyFilesAreBetween(g) ==
    \A m, n, k \in NodesOf(g) :
        <<m, n>> \in g.edges /\ <<n, k>> \in g.edges => n \in FileNodes(g)

(* Every component of two files or more has a chain that is reported: the  *)
(* search does not give up before it has found a cycle, and there is one   *)
(* through the file it starts with (cycles.rs:28, :78).                    *)
THEOREM CyclesAreFound ==
  ASSUME NEW g, IsFiniteSet(NodesOf(g)), None \notin Seq(NodesOf(g)),
         OnlyFilesAreBetween(g), NEW c \in FileComponents(g),
         Cardinality(c \cap FileNodes(g)) > 1
  PROVE  LET chain == MinimalCycleChain(g, c)
         IN chain # None /\ IsCycle(g, c \cap FileNodes(g), chain)
<1> DEFINE files == c \cap FileNodes(g)
<1>1. IsFiniteSet(files) /\ files # {}
  <2>1. IsFiniteSet(files)
    BY FS_Subset DEF FileNodes
  <2>2. Cardinality(files) > 1
    OBVIOUS
  <2> HIDE DEF files
  <2>3. Cardinality({}) = 0
    BY FS_EmptySet
  <2>4. ASSUME files = {}
        PROVE  FALSE
    <3>1. Cardinality(files) = 0
      BY <2>3, <2>4
    <3> QED
      BY <2>2, <3>1
  <2> QED
    BY <2>1, <2>4
<1>2. MinimalCycleChain(g, c) = None \/ IsCycle(g, files, MinimalCycleChain(g, c))
  BY <1>1, ChainsAreCycles
<1> SUFFICES ASSUME MinimalCycleChain(g, c) = None
             PROVE  FALSE
  BY <1>2
<1>3. PICK start \in files : DeadEnd(g, files, start, <<start>>)
  <2> DEFINE N == MaxPaths(Cardinality(c \cap FileNodes(g)))
  <2>1. PICK start \in c \cap FileNodes(g) : \E a :
            /\ N \in Nat /\ Searching(g, c, start, N, a)
            /\ MinimalCycleChain(g, c) = a[N].found
    BY <1>1, SearchRuns
  <2>2. PICK a : /\ N \in Nat /\ Searching(g, c, start, N, a)
                 /\ MinimalCycleChain(g, c) = a[N].found
    BY <2>1
  <2> DEFINE M == N
  <2>3. M = MaxPaths(Cardinality(c \cap FileNodes(g))) /\ M \in Nat
        /\ Searching(g, c, start, M, a) /\ a[M].found = None
    BY <2>2
  <2> HIDE DEF M
  <2>4. DeadEnd(g, c \cap FileNodes(g), start, <<start>>)
    BY <2>3, SearchSettles
  <2> QED
    BY <2>4
<1> DEFINE T == Trails(g, files, start)
           reach(x) == From(g, {x})
           ends == {t[Len(t)] : t \in {u \in T : Len(u) > 1}}
           lost == {x \in NodesOf(g) : start \notin reach(x)}
<1>4. /\ start \in NodesOf(g) /\ start \in c
      /\ \A x : x \in c <=> x \in reach(start) /\ start \in reach(x) /\ x \in NodesOf(g)
  <2>1. PICK n \in NodesOf(g) : c = Component(g, n)
    BY DEF FileComponents
  <2>2. start \in NodesOf(g)
    BY DEF FileNodes
  <2>3. start \in Component(g, start)
    BY <2>2, ComponentsPartition
  <2>4. Component(g, start) \cap Component(g, n) # {}
    BY <2>1, <2>3
  <2>5. c = Component(g, start)
    BY <2>1, <2>2, <2>4, ComponentsPartition
  <2>6. \A x \in NodesOf(g) :
            x \in c <=> x \in reach(start) /\ start \in reach(x)
    BY <2>2, <2>5, ComponentsPartition
  <2>7. c \subseteq NodesOf(g)
    <3>1. From(g, {start}) \subseteq NodesOf(g)
      BY <2>2, FromIsLeast
    <3> QED
      BY <2>5, <3>1 DEF Component, From
  <2> QED
    BY <2>2, <2>6, <2>7
<1>5. \A x \in NodesOf(g) : /\ reach(x) \subseteq NodesOf(g) /\ x \in reach(x)
                            /\ \A y \in reach(x) : Successors(g, y) \subseteq reach(x)
  BY FromIsLeast
<1>6. ASSUME NEW x \in NodesOf(g), NEW y \in Successors(g, x), start \in reach(y)
      PROVE  start \in reach(x)
  <2>1. y \in NodesOf(g) /\ y \in reach(x)
    BY <1>5 DEF Successors
  <2>2. reach(y) \subseteq reach(x)
    BY <1>5, <2>1, FromIsLeast
  <2> QED
    BY <1>6, <2>2
<1>7. ASSUME NEW x \in c, NEW y \in Successors(g, x), y \notin lost, y # start
      PROVE  y \in files
  <2>1. y \in NodesOf(g) /\ <<x, y>> \in g.edges /\ x \in NodesOf(g)
    BY <1>4 DEF Successors
  <2>2. start \in reach(y) /\ y \in reach(start)
    BY <1>4, <1>5, <1>7, <2>1
  <2>3. \E z \in NodesOf(g) : <<y, z>> \in g.edges
    <3> SUFFICES ASSUME \A z \in NodesOf(g) : <<y, z>> \notin g.edges
                 PROVE  FALSE
      OBVIOUS
    <3>1. Successors(g, y) = {}
      BY DEF Successors
    <3>2. \A n \in {y} \cap NodesOf(g) : Successors(g, n) \subseteq {y}
      BY <3>1
    <3>3. From(g, {y}) \subseteq {y}
      BY <2>1, <3>2, FromIsLeast
    <3> QED
      BY <1>7, <2>2, <3>3
  <2>4. y \in FileNodes(g)
    BY <2>1, <2>3 DEF OnlyFilesAreBetween
  <2> QED
    BY <1>4, <2>1, <2>2, <2>4
<1>8. PICK x \in files : x # start
  <2>1. ASSUME files = {start}
        PROVE  FALSE
    <3> HIDE DEF files
    <3>1. Cardinality({start}) = 1
      BY FS_Singleton
    <3> QED
      BY <2>1, <3>1 DEF files
  <2> QED
    BY <2>1
<1>9. PICK s \in files : s # start /\ <<start, s>> \in g.edges
  <2> SUFFICES ASSUME \A s \in files : s = start \/ <<start, s>> \notin g.edges
               PROVE  FALSE
    OBVIOUS
  <2> DEFINE D == {start} \cup lost
  <2>1. \A n \in D \cap NodesOf(g) : Successors(g, n) \subseteq D
    <3> SUFFICES ASSUME NEW n \in D, n \in NodesOf(g),
                        NEW y \in Successors(g, n), y \notin D
                 PROVE  FALSE
      OBVIOUS
    <3>1. y \in NodesOf(g) /\ start \in reach(y) /\ y # start /\ <<n, y>> \in g.edges
      BY DEF Successors
    <3>2. n = start
      BY <1>6, <3>1
    <3>3. y \in files
      BY <1>4, <1>7, <3>1, <3>2
    <3> QED
      BY <3>1, <3>2, <3>3
  <2>2. From(g, {start}) \subseteq D
    <3>1. {start} \subseteq D /\ {start} \in SUBSET NodesOf(g)
      BY <1>4
    <3> HIDE DEF D
    <3> QED
      BY <2>1, <3>1, FromIsLeast
  <2>3. x \in reach(start) /\ start \in reach(x)
    BY <1>4, <1>8
  <2> QED
    BY <1>8, <2>2, <2>3
<1>10. /\ ends \subseteq files /\ s \in ends /\ start \notin ends
  <2>1. ASSUME NEW t \in T, Len(t) > 1
        PROVE  t[Len(t)] \in files /\ t[Len(t)] # start
    <3>1. /\ t \in Seq(files) /\ Len(t) \in Nat /\ t[1] = start
          /\ \A i, j \in 1..Len(t) : t[i] = t[j] => i = j
      BY DEF Trails
    <3>2. Len(t) \in 1..Len(t) /\ 1 \in 1..Len(t) /\ Len(t) # 1
      BY <2>1, <3>1
    <3> HIDE DEF files, T
    <3>3. t[Len(t)] \in files
      BY <3>1, <3>2
    <3>4. t[Len(t)] # t[1]
      BY <3>1, <3>2
    <3> QED
      BY <3>1, <3>3, <3>4
  <2>2. s \in ends
    <3> DEFINE p == <<start>>
               t == Append(p, s)
    <3>1. p \in T /\ Len(p) = 1 /\ p[Len(p)] = start /\ ToSet(p) = {start}
      BY DEF Trails, ToSet
    <3>2. s \in files \ ToSet(p) /\ <<p[Len(p)], s>> \in g.edges
      BY <1>9, <3>1
    <3> HIDE DEF files, p
    <3>3. t \in T
      BY <3>1, <3>2, TrailsGrow
    <3>4. Len(t) = 2 /\ t[2] = s
      BY DEF p
    <3> HIDE DEF t, T
    <3>5. t[Len(t)] = s
      BY <3>4
    <3>6. Len(t) > 1
      BY <3>4
    <3> QED
      BY <3>3, <3>5, <3>6
  <2> QED
    BY <2>1, <2>2
<1>11. ASSUME NEW e \in ends, NEW y \in Successors(g, e), y \notin lost
       PROVE  y \in ends
  <2>1. PICK t \in T : Len(t) > 1 /\ e = t[Len(t)]
    OBVIOUS
  <2>2. /\ t \in Seq(files) /\ Len(t) \in Nat /\ t[1] = start
        /\ \A i, j \in 1..Len(t) : t[i] = t[j] => i = j
        /\ \A i \in 1..(Len(t) - 1) : <<t[i], t[i + 1]>> \in g.edges
    BY DEF Trails
  <2>3. e \in files /\ <<e, y>> \in g.edges
    BY <1>10 DEF Successors
  <2>4. <<e, start>> \notin g.edges
    <3>1. Len(<<start>>) = 1 /\ <<start>>[1] = start
      OBVIOUS
    <3>2. Len(<<start>>) <= Len(t) /\ \A i \in 1..Len(<<start>>) : t[i] = <<start>>[i]
      BY <2>1, <2>2, <3>1
    <3> QED
      BY <1>3, <2>1, <3>2 DEF DeadEnd
  <2>5. y # start /\ y \in files
    BY <1>7, <1>11, <2>3, <2>4
  <2>6. CASE y \in ToSet(t)
    <3>1. PICK i \in 1..Len(t) : y = t[i]
      BY <2>2, <2>6 DEF ToSet
    <3> DEFINE u == SubSeq(t, 1, i)
    <3>2. i > 1
      BY <2>2, <2>5, <3>1
    <3>3. /\ u \in Seq(files) /\ Len(u) = i /\ \A k \in 1..i : u[k] = t[k]
      <4> HIDE DEF files
      <4> QED
        BY <2>2
    <3> HIDE DEF u
    <3>4. \A k, l \in 1..Len(u) : u[k] = u[l] => k = l
      <4> SUFFICES ASSUME NEW k \in 1..Len(u), NEW l \in 1..Len(u), u[k] = u[l]
                   PROVE  k = l
        OBVIOUS
      <4>1. k \in 1..Len(t) /\ l \in 1..Len(t) /\ t[k] = t[l]
        BY <2>2, <3>3
      <4> QED
        BY <2>2, <4>1
    <3>5. \A k \in 1..(Len(u) - 1) : <<u[k], u[k + 1]>> \in g.edges
      <4> SUFFICES ASSUME NEW k \in 1..(Len(u) - 1)
                   PROVE  <<u[k], u[k + 1]>> \in g.edges
        OBVIOUS
      <4>1. k \in 1..i /\ k + 1 \in 1..i /\ k \in 1..(Len(t) - 1)
        BY <2>2, <3>3
      <4>2. u[k] = t[k] /\ u[k + 1] = t[k + 1]
        BY <3>3, <4>1
      <4>3. <<t[k], t[k + 1]>> \in g.edges
        BY <2>2, <4>1
      <4> QED
        BY <4>2, <4>3
    <3>6. u \in T /\ Len(u) > 1 /\ u[Len(u)] = y
      <4>1. u # <<>> /\ u[1] = start /\ u[Len(u)] = y
        BY <2>2, <3>1, <3>2, <3>3
      <4> QED
        BY <3>2, <3>3, <3>4, <3>5, <4>1 DEF Trails
    <3> QED
      BY <3>6
  <2>7. CASE y \notin ToSet(t)
    <3> DEFINE u == Append(t, y)
    <3>1. y \in files \ ToSet(t) /\ <<t[Len(t)], y>> \in g.edges
      BY <2>1, <2>3, <2>5, <2>7
    <3> HIDE DEF files
    <3>2. u \in T
      BY <3>1, TrailsGrow
    <3>3. Len(u) = Len(t) + 1 /\ u[Len(t) + 1] = y
      BY <2>2
    <3> HIDE DEF u
    <3> QED
      BY <2>1, <2>2, <3>2, <3>3
  <2> QED
    BY <2>6, <2>7
<1> DEFINE C == ends \cup lost
<1>12. \A n \in C \cap NodesOf(g) : Successors(g, n) \subseteq C
  <2> SUFFICES ASSUME NEW n \in C, n \in NodesOf(g), NEW y \in Successors(g, n), y \notin C
               PROVE  FALSE
    OBVIOUS
  <2>1. y \in NodesOf(g) /\ start \in reach(y)
    BY DEF Successors
  <2>2. start \in reach(n)
    BY <1>6, <2>1
  <2>3. n \in ends
    BY <2>2
  <2> HIDE DEF ends
  <2> QED
    BY <1>11, <2>1, <2>3
<1>13. s \in c /\ s \in NodesOf(g) /\ start \in reach(s)
  BY <1>4
<1> HIDE DEF ends, lost
<1>14. reach(s) \subseteq C
  <2> HIDE DEF C
  <2>1. {s} \subseteq C /\ {s} \in SUBSET NodesOf(g)
    BY <1>10, <1>13 DEF C
  <2> QED
    BY <1>12, <2>1, FromIsLeast
<1>15. start \notin lost
  BY <1>4 DEF lost
<1> QED
  BY <1>10, <1>13, <1>14, <1>15

-----------------------------------------------------------------------------
(* What leads to nothing that leads to itself                              *)

(* The sets of what is known to end, one round after the other: what is    *)
(* usable and leads only to what is known.                                 *)
Grounds(G, U, next, N) ==
    /\ G[0] = {}
    /\ \A d \in 1..N : G[d] = {n \in U : next[n] \subseteq G[d - 1]}

(* What is known in the end: what leads to nothing that leads to itself. *)
Grounded(K, U, next) ==
    /\ K \subseteq U /\ ClosedUnder(K, next)
    /\ \A n \in K : n \notin Closure(next[n], next)
    /\ \A S \in SUBSET U : /\ ClosedUnder(S, next)
                           /\ \A n \in S : n \notin Closure(next[n], next)
                           => S \subseteq K

(* As many rounds as there are files ground all that leads to nothing that *)
(* leads to itself.                                                        *)
LEMMA GroundedIsAcyclic ==
  ASSUME NEW D, IsFiniteSet(D), NEW next \in [D -> SUBSET D], NEW U \in SUBSET D,
         NEW N \in Nat, Cardinality(D) <= N, N # 0, NEW G, Grounds(G, U, next, N)
  PROVE  Grounded(G[N], U, next)
<1>1. G[0] = {} /\ \A d \in 1..N : G[d] = {n \in U : next[n] \subseteq G[d - 1]}
  BY DEF Grounds
<1> DEFINE below(n) == Closure(next[n], next)
<1>2. \A d \in 0..N : G[d] \in SUBSET U
  <2>1. \A d \in 0..N : d = 0 \/ d \in 1..N
    OBVIOUS
  <2> QED
    BY <1>1, <2>1
<1>3. \A d \in 1..N : G[d - 1] \subseteq G[d]
  <2> DEFINE S == {d \in 0..N : d # 0 => G[d - 1] \subseteq G[d]}
  <2>1. 0 \in S
    OBVIOUS
  <2>2. ASSUME NEW d \in 0..(N - 1), d \in S
        PROVE  d + 1 \in S
    <3>1. d + 1 \in 1..N /\ (d + 1) - 1 = d /\ d + 1 \in 0..N /\ (d = 0 \/ d \in 1..N)
      OBVIOUS
    <3>2. G[d + 1] = {n \in U : next[n] \subseteq G[d]}
      BY <1>1, <3>1
    <3>3. CASE d = 0
      BY <1>1, <3>1, <3>3
    <3>4. CASE d \in 1..N
      <4>1. G[d] = {n \in U : next[n] \subseteq G[d - 1]} /\ d # 0
        BY <1>1, <3>4
      <4>2. G[d - 1] \subseteq G[d]
        BY <2>2, <4>1
      <4>3. G[d] \subseteq G[d + 1]
        BY <3>2, <4>1, <4>2
      <4> QED
        BY <3>1, <4>3
    <3> QED
      BY <3>1, <3>3, <3>4
  <2> HIDE DEF S
  <2>3. 0..N \subseteq S
    BY <2>1, <2>2, InductionUpTo
  <2> QED
    BY <2>3 DEF S
<1>4. \A d \in 0..N : ClosedUnder(G[d], next)
  <2> SUFFICES ASSUME NEW d \in 0..N, NEW n \in G[d]
               PROVE  next[n] \subseteq G[d]
    BY DEF ClosedUnder
  <2>1. d = 0 \/ d \in 1..N
    OBVIOUS
  <2> QED
    BY <1>1, <1>3, <2>1
<1>5. \A n \in D : /\ below(n) \in SUBSET D /\ next[n] \subseteq below(n)
                   /\ ClosedUnder(below(n), next)
                   /\ \A C : next[n] \subseteq C /\ ClosedUnder(C, next) => below(n) \subseteq C
  BY ClosureIsLeast
<1> HIDE DEF below
<1>6. ASSUME NEW n \in G[N]
      PROVE  n \notin below(n)
  <2> DEFINE S == {d \in 0..N : \A m \in G[d] : m \notin below(m)}
  <2>1. 0 \in S
    BY <1>1
  <2>2. ASSUME NEW d \in 0..(N - 1), d \in S
        PROVE  d + 1 \in S
    <3>1. d + 1 \in 1..N /\ (d + 1) - 1 = d /\ d + 1 \in 0..N /\ d \in 0..N
      OBVIOUS
    <3>2. ASSUME NEW m \in G[d + 1], m \in below(m)
          PROVE  FALSE
      <4>1. m \in U /\ next[m] \subseteq G[d]
        BY <1>1, <3>1
      <4>2. below(m) \subseteq G[d]
        BY <1>4, <1>5, <3>1, <4>1
      <4> QED
        BY <2>2, <3>2, <4>2
    <3> QED
      BY <3>1, <3>2
  <2> HIDE DEF S
  <2>3. 0..N \subseteq S
    BY <2>1, <2>2, InductionUpTo
  <2>4. N \in S
    BY <2>3
  <2> QED
    BY <2>4 DEF S
<1>7. {n \in U : next[n] \subseteq G[N]} \subseteq G[N]
  <2> DEFINE F == [S \in SUBSET D |-> S \cup {n \in U : next[n] \subseteq S}]
  <2>1. Adds(F, D)
    BY DEF Adds
  <2>2. \A S \in SUBSET D : F[S] = S \cup {n \in U : next[n] \subseteq S}
    OBVIOUS
  <2>3. \A d \in 0..N : G[d] \in SUBSET D
    BY <1>2
  <2> HIDE DEF F
  <2>4. Rounds(G, F, {}, D, N)
    <3>1. ASSUME NEW i \in 1..N
          PROVE  G[i] = F[G[i - 1]]
      <4>1. i - 1 \in 0..N
        OBVIOUS
      <4> QED
        <5>1. G[i] = {n \in U : next[n] \subseteq G[i - 1]} /\ G[i - 1] \subseteq G[i]
          BY <1>1, <1>3
        <5>2. F[G[i - 1]] = G[i - 1] \cup {n \in U : next[n] \subseteq G[i - 1]}
          BY <2>2, <2>3, <4>1
        <5> QED
          BY <5>1, <5>2
    <3> QED
      BY <1>1, <3>1 DEF Rounds
  <2>5. Reached(G[N], F, {}, D)
    BY <2>1, <2>4, RoundsReach
  <2>6. F[G[N]] = G[N] /\ G[N] \in SUBSET D
    BY <2>5 DEF Reached
  <2> QED
    BY <2>2, <2>6
<1>8. ASSUME NEW S \in SUBSET U, ClosedUnder(S, next), \A n \in S : n \notin below(n)
      PROVE  S \subseteq G[N]
  <2> SUFFICES ASSUME S \ G[N] # {}
               PROVE  FALSE
    OBVIOUS
  <2> DEFINE left == S \ G[N]
             sizes == {Cardinality(below(b)) : b \in left}
  <2>1. \A b \in left : IsFiniteSet(below(b)) /\ Cardinality(below(b)) \in Nat
    BY <1>5, FS_Subset, FS_CardinalityType
  <2>2. sizes \in SUBSET Nat /\ sizes # {}
    BY <2>1
  <2>3. PICK m \in sizes : \A k \in sizes : m <= k
    <3> HIDE DEF sizes
    <3> QED
      BY <2>2, LeastNumber
  <2>4. PICK b \in left : m = Cardinality(below(b))
    OBVIOUS
  <2>5. PICK c \in left : c \in next[b]
    <3>1. b \in U /\ b \in S /\ b \notin G[N]
      OBVIOUS
    <3>2. ~(next[b] \subseteq G[N])
      BY <1>7, <3>1
    <3> QED
      BY <1>8, <3>1, <3>2 DEF ClosedUnder
  <2>6. b \in D /\ c \in D /\ c \in below(b) /\ c \notin below(c)
    BY <1>5, <1>8, <2>5
  <2>7. below(c) \subseteq below(b)
    <3>1. next[c] \subseteq below(b)
      BY <1>5, <2>6 DEF ClosedUnder
    <3> QED
      BY <1>5, <2>6, <3>1
  <2>8. Cardinality(below(c)) < Cardinality(below(b))
    <3>1. below(c) # below(b) /\ IsFiniteSet(below(b))
      BY <2>1, <2>6
    <3>2. Cardinality(below(c)) <= Cardinality(below(b))
      BY <2>7, <3>1, FS_Subset
    <3>3. Cardinality(below(c)) # Cardinality(below(b))
      BY <2>7, <3>1, FS_Subset
    <3> QED
      BY <2>1, <3>2, <3>3
  <2> QED
    BY <2>1, <2>3, <2>4, <2>8
<1>9. G[N] \subseteq U /\ ClosedUnder(G[N], next)
  BY <1>2, <1>4
<1> QED
  BY <1>6, <1>8, <1>9 DEF below, Grounded

-----------------------------------------------------------------------------
(* Sequences of sequences                                                  *)

(* What the sequences up to each one are together. *)
AddsUp(p, seqs, V) ==
    /\ p \in [0..Len(seqs) -> Seq(V)]
    /\ p[0] = <<>>
    /\ \A i \in 1..Len(seqs) : p[i] = p[i - 1] \o seqs[i]

(* A sequence of sequences is flattened by adding up one after the other. *)
LEMMA FlattenAddsUp ==
  ASSUME NEW V, NEW seqs \in Seq(Seq(V))
  PROVE  /\ \E p : AddsUp(p, seqs, V)
         /\ \A p : AddsUp(p, seqs, V) => FlattenSeq(seqs) = p[Len(seqs)]
         /\ FlattenSeq(seqs) \in Seq(V)
<1> DEFINE N == Len(seqs)
           Sums == Seq(V)
           F == [i \in 1..N |-> [s \in Sums |-> s \o seqs[i]]]
<1>1. N \in Nat /\ \A i \in 1..N : seqs[i] \in Sums
  OBVIOUS
<1>2. F \in [1..N -> [Sums -> Sums]]
  BY <1>1
<1>3. \A i \in 1..N : \A s \in Sums : F[i][s] = s \o seqs[i]
  OBVIOUS
<1>4. <<>> \in Sums
  OBVIOUS
<1>5. \E p : AddsUp(p, seqs, V)
  <2> HIDE DEF F, Sums, N
  <2>0. PICK p : Takes(p, F, <<>>, Sums, N)
    BY <1>1, <1>2, <1>4, StepsExist
  <2>1. /\ p \in [0..N -> Sums] /\ p[0] = <<>>
        /\ \A i \in 1..N : p[i] = F[i][p[i - 1]]
    BY <2>0 DEF Takes
  <2>2. \A i \in 1..N : p[i - 1] \in Sums
    BY <1>1, <2>1
  <2>3. \A i \in 1..N : p[i] = p[i - 1] \o seqs[i]
    BY <1>3, <2>1, <2>2
  <2>4. AddsUp(p, seqs, V)
    BY <2>1, <2>3 DEF AddsUp, Sums, N
  <2> QED
    BY <2>4
<1> DEFINE IsFlat(f) == f = [i \in 1..N |-> IF i = 1 THEN seqs[i] ELSE f[i - 1] \o seqs[i]]
           flat == CHOOSE f : IsFlat(f)
<1>6. FlattenSeq(seqs) = IF N = 0 THEN seqs ELSE flat[N]
  BY DEF FlattenSeq
<1>7. ASSUME NEW p, AddsUp(p, seqs, V)
      PROVE  FlattenSeq(seqs) = p[N] /\ p[N] \in Sums
  <2>1. /\ p \in [0..N -> Sums] /\ p[0] = <<>>
        /\ \A i \in 1..N : p[i] = p[i - 1] \o seqs[i]
    BY <1>7 DEF AddsUp
  <2>2. \A i \in 1..N : i - 1 \in 0..N /\ (i # 1 => i - 1 \in 1..N)
    BY <1>1
  <2>3. IsFlat([i \in 1..N |-> p[i]])
    <3> DEFINE f == [i \in 1..N |-> p[i]]
    <3>1. ASSUME NEW i \in 1..N
          PROVE  f[i] = IF i = 1 THEN seqs[i] ELSE f[i - 1] \o seqs[i]
      <4>1. CASE i = 1
        <5>0. 1 \in 1..N /\ 1 - 1 = 0
          BY <1>1, <4>1
        <5>1. p[1] = p[0] \o seqs[1] /\ seqs[1] \in Seq(V)
          <6> HIDE DEF N
          <6> QED
            BY <1>1, <2>1, <5>0
        <5>2. <<>> \o seqs[1] = seqs[1]
          BY <5>1, ConcatEmptySeq
        <5> QED
          BY <2>1, <4>1, <5>1, <5>2
      <4>2. CASE i # 1
        BY <2>1, <2>2, <4>2
      <4> QED
        BY <4>1, <4>2
    <3> QED
      BY <3>1
  <2>4. IsFlat(flat)
    <3> HIDE DEF IsFlat
    <3> QED
      BY <2>3
  <2> HIDE DEF flat
  <2> DEFINE S == {n \in 0..N : n # 0 => flat[n] = p[n]}
  <2>5. 0 \in S
    BY <1>1
  <2>6. ASSUME NEW n \in 0..(N - 1), n \in S
        PROVE  n + 1 \in S
    <3>1. n + 1 \in 1..N /\ (n + 1) - 1 = n
      BY <1>1
    <3>2. flat[n + 1] = IF n + 1 = 1 THEN seqs[n + 1] ELSE flat[n] \o seqs[n + 1]
      BY <2>4, <3>1
    <3>3. p[n + 1] = p[n] \o seqs[n + 1] /\ seqs[n + 1] \in Seq(V)
      BY <1>1, <2>1, <3>1
    <3>4. n + 1 \in 0..N
      BY <1>1
    <3>5. n # 0 => flat[n] = p[n]
      BY <2>6
    <3> HIDE DEF N, S
    <3>6. CASE n = 0
      <4>1. <<>> \o seqs[n + 1] = seqs[n + 1]
        BY <3>3, ConcatEmptySeq
      <4>2. flat[n + 1] = seqs[n + 1] /\ p[n] = <<>>
        BY <2>1, <3>2, <3>6
      <4> QED
        BY <3>3, <3>4, <4>1, <4>2 DEF S
    <3>7. CASE n # 0
      <4>1. n + 1 # 1
        BY <3>7
      <4>2. flat[n + 1] = p[n + 1]
        BY <3>2, <3>3, <3>5, <3>7, <4>1
      <4> QED
        BY <3>4, <4>2 DEF S
    <3> QED
      BY <3>6, <3>7
  <2>7. N \in S
    <3> HIDE DEF S, N
    <3>1. 0..N \subseteq S
      BY <1>1, <2>5, <2>6, InductionUpTo
    <3> QED
      BY <1>1, <3>1
  <2>8. CASE N = 0
    <3>1. seqs = <<>>
      BY <2>8
    <3> QED
      BY <1>6, <2>1, <2>8, <3>1
  <2>9. CASE N # 0
    BY <1>1, <1>6, <2>1, <2>7, <2>9
  <2> QED
    BY <2>8, <2>9
<1> QED
  BY <1>5, <1>7

(* Flattening goes through concatenation. *)
LEMMA FlattenConcat ==
  ASSUME NEW V, NEW x \in Seq(Seq(V)), NEW y \in Seq(Seq(V))
  PROVE  FlattenSeq(x \o y) = FlattenSeq(x) \o FlattenSeq(y)
<1> DEFINE K == Len(x)
           L == Len(y)
           z == x \o y
<1>1. /\ K \in Nat /\ L \in Nat /\ z \in Seq(Seq(V)) /\ Len(z) = K + L
      /\ \A i \in 1..(K + L) : z[i] = IF i <= K THEN x[i] ELSE y[i - K]
      /\ \A i \in 1..K : x[i] \in Seq(V)
      /\ \A i \in 1..L : y[i] \in Seq(V)
  BY ConcatProperties
<1>2. PICK p : AddsUp(p, x, V)
  BY FlattenAddsUp
<1>3. PICK q : AddsUp(q, y, V)
  BY FlattenAddsUp
<1>4. /\ p \in [0..K -> Seq(V)] /\ p[0] = <<>>
      /\ \A i \in 1..K : p[i] = p[i - 1] \o x[i]
  BY <1>2 DEF AddsUp
<1>5. /\ q \in [0..L -> Seq(V)] /\ q[0] = <<>>
      /\ \A i \in 1..L : q[i] = q[i - 1] \o y[i]
  BY <1>3 DEF AddsUp
<1> HIDE DEF K, L, z
<1> DEFINE r == [i \in 0..(K + L) |-> IF i <= K THEN p[i] ELSE p[K] \o q[i - K]]
<1>6. p[K] \in Seq(V) /\ \A j \in 0..L : q[j] \in Seq(V) /\ p[K] \o q[j] \in Seq(V)
  <2>1. p[K] \in Seq(V) /\ \A j \in 0..L : q[j] \in Seq(V)
    BY <1>1, <1>4, <1>5
  <2> QED
    BY <2>1, ConcatProperties
<1>7. \A j \in 0..L : r[K + j] = p[K] \o q[j]
  <2> SUFFICES ASSUME NEW j \in 0..L
               PROVE  r[K + j] = p[K] \o q[j]
    OBVIOUS
  <2>1. K + j \in 0..(K + L) /\ (K + j) - K = j /\ (K + j <= K <=> j = 0)
    BY <1>1
  <2>2. CASE j = 0
    <3>1. p[K] \o <<>> = p[K]
      BY <1>6, ConcatEmptySeq
    <3>2. K + j = K
      BY <1>1, <2>2
    <3> QED
      BY <1>5, <2>1, <2>2, <3>1, <3>2
  <2>3. CASE j # 0
    BY <2>1, <2>3
  <2> QED
    BY <2>2, <2>3
<1>8. r \in [0..(K + L) -> Seq(V)]
  <2> SUFFICES ASSUME NEW i \in 0..(K + L)
               PROVE  (IF i <= K THEN p[i] ELSE p[K] \o q[i - K]) \in Seq(V)
    OBVIOUS
  <2>1. CASE i <= K
    <3>1. i \in 0..K
      BY <1>1, <2>1
    <3> QED
      BY <1>4, <2>1, <3>1
  <2>2. CASE ~(i <= K)
    <3>1. i - K \in 0..L
      BY <1>1, <2>2
    <3> QED
      BY <1>6, <2>2, <3>1
  <2> QED
    BY <2>1, <2>2
<1>9. ASSUME NEW i \in 1..(K + L)
      PROVE  r[i] = r[i - 1] \o z[i]
  <2>1. CASE i <= K
    <3>1. i \in 1..K /\ i \in 0..(K + L) /\ i - 1 \in 0..(K + L) /\ i - 1 <= K
      BY <1>1, <2>1
    <3>2. r[i] = p[i] /\ r[i - 1] = p[i - 1] /\ z[i] = x[i]
      BY <1>1, <2>1, <3>1
    <3> HIDE DEF r
    <3> QED
      BY <1>4, <3>1, <3>2
  <2>2. CASE ~(i <= K)
    <3> DEFINE j == i - K
    <3>1. /\ j \in 1..L /\ j \in 0..L /\ j - 1 \in 0..L
          /\ K + j = i /\ K + (j - 1) = i - 1
      BY <1>1, <2>2
    <3>2. z[i] = y[j]
      BY <1>1, <2>2
    <3> HIDE DEF j, r
    <3>3. r[i] = p[K] \o q[j]
      BY <1>7, <3>1
    <3>4. r[i - 1] = p[K] \o q[j - 1]
      BY <1>7, <3>1
    <3>5. q[j] = q[j - 1] \o y[j]
      BY <1>5, <3>1
    <3>6. q[j - 1] \in Seq(V) /\ y[j] \in Seq(V)
      BY <1>1, <1>6, <3>1
    <3>7. (p[K] \o q[j - 1]) \o y[j] = p[K] \o (q[j - 1] \o y[j])
      <4>1. \A s, t, u \in Seq(V) : (s \o t) \o u = s \o (t \o u)
        BY ConcatAssociative
      <4> QED
        BY <1>6, <3>6, <4>1, Zenon
    <3> QED
      BY <3>2, <3>3, <3>4, <3>5, <3>7
  <2> QED
    BY <2>1, <2>2
<1>10. r[0] = <<>>
  BY <1>1, <1>4
<1> HIDE DEF r
<1>11. AddsUp(r, z, V)
  BY <1>1, <1>8, <1>9, <1>10 DEF AddsUp
<1>12. FlattenSeq(z) = r[K + L]
  BY <1>1, <1>11, FlattenAddsUp
<1>13. FlattenSeq(x) = p[K] /\ FlattenSeq(y) = q[L]
  BY <1>2, <1>3, FlattenAddsUp DEF K, L
<1>14. r[K + L] = p[K] \o q[L]
  <2>1. L \in 0..L
    BY <1>1
  <2> QED
    BY <1>7, <2>1
<1> QED
  BY <1>12, <1>13, <1>14 DEF z

(* What a concatenation names *)
LEMMA ConcatNames ==
  ASSUME NEW V, NEW x \in Seq(V), NEW y \in Seq(V)
  PROVE  ToSet(x \o y) = ToSet(x) \cup ToSet(y)
<1> DEFINE z == x \o y
           K == Len(x)
           L == Len(y)
<1>1. /\ K \in Nat /\ L \in Nat /\ z \in Seq(V) /\ Len(z) = K + L
      /\ \A i \in 1..(K + L) : z[i] = IF i <= K THEN x[i] ELSE y[i - K]
  BY ConcatProperties
<1>2. \A v : v \in ToSet(z) <=> \E i \in 1..(K + L) : z[i] = v
  BY <1>1 DEF ToSet
<1>3. \A v : /\ v \in ToSet(x) <=> \E i \in 1..K : x[i] = v
             /\ v \in ToSet(y) <=> \E i \in 1..L : y[i] = v
  BY DEF ToSet
<1> HIDE DEF z, K, L
<1>4. ASSUME NEW v, v \in ToSet(z)
      PROVE  v \in ToSet(x) \cup ToSet(y)
  <2>1. PICK i \in 1..(K + L) : z[i] = v
    BY <1>2, <1>4
  <2>2. (i \in 1..K /\ i <= K) \/ (i - K \in 1..L /\ ~(i <= K))
    BY <1>1
  <2>3. z[i] = IF i <= K THEN x[i] ELSE y[i - K]
    BY <1>1
  <2> QED
    BY <1>3, <2>1, <2>2, <2>3
<1>5. ASSUME NEW v, v \in ToSet(x)
      PROVE  v \in ToSet(z)
  <2>1. PICK i \in 1..K : x[i] = v
    BY <1>3, <1>5
  <2>2. i \in 1..(K + L) /\ i <= K
    BY <1>1
  <2>3. z[i] = v
    BY <1>1, <2>1, <2>2
  <2> QED
    BY <1>2, <2>2, <2>3
<1>6. ASSUME NEW v, v \in ToSet(y)
      PROVE  v \in ToSet(z)
  <2>1. PICK j \in 1..L : y[j] = v
    BY <1>3, <1>6
  <2> DEFINE i == K + j
  <2>2. i \in 1..(K + L) /\ ~(i <= K) /\ i - K = j
    BY <1>1
  <2> HIDE DEF i
  <2>3. z[i] = y[i - K]
    BY <1>1, <2>2
  <2> QED
    BY <1>2, <2>1, <2>2, <2>3
<1>7. \A v : v \in ToSet(z) <=> v \in ToSet(x) \cup ToSet(y)
  BY <1>4, <1>5, <1>6
<1>8. ToSet(z) = ToSet(x) \cup ToSet(y)
  BY <1>7
<1> QED
  BY <1>8 DEF z

(* What a flattened sequence names *)
LEMMA FlattenNames ==
  ASSUME NEW V, NEW seqs \in Seq(Seq(V))
  PROVE  \A v : v \in ToSet(FlattenSeq(seqs)) <=> \E i \in 1..Len(seqs) : v \in ToSet(seqs[i])
<1> DEFINE N == Len(seqs)
<1>1. PICK p : AddsUp(p, seqs, V)
  BY FlattenAddsUp
<1>2. FlattenSeq(seqs) = p[N]
  BY <1>1, FlattenAddsUp
<1>3. /\ p \in [0..N -> Seq(V)] /\ p[0] = <<>>
      /\ \A i \in 1..N : p[i] = p[i - 1] \o seqs[i]
  BY <1>1 DEF AddsUp
<1>4. N \in Nat /\ \A i \in 1..N : seqs[i] \in Seq(V)
  OBVIOUS
<1> HIDE DEF N
<1> DEFINE in(v, n) == \E i \in 1..n : v \in ToSet(seqs[i])
           S == {n \in 0..N : \A v : v \in ToSet(p[n]) <=> in(v, n)}
<1>5. 0 \in S
  <2>1. ToSet(<<>>) = {} /\ 1..0 = {}
    BY DEF ToSet
  <2> QED
    BY <1>3, <1>4, <2>1
<1>6. ASSUME NEW n \in 0..(N - 1), n \in S
      PROVE  n + 1 \in S
  <2>1. n + 1 \in 1..N /\ (n + 1) - 1 = n /\ n + 1 \in 0..N /\ n \in 0..N
    BY <1>4
  <2>2. p[n + 1] = p[n] \o seqs[n + 1] /\ p[n] \in Seq(V) /\ seqs[n + 1] \in Seq(V)
    BY <1>3, <1>4, <2>1
  <2>3. ToSet(p[n + 1]) = ToSet(p[n]) \cup ToSet(seqs[n + 1])
    BY <2>2, ConcatNames
  <2>4. \A v : in(v, n + 1) <=> in(v, n) \/ v \in ToSet(seqs[n + 1])
    <3>1. 1..(n + 1) = 1..n \cup {n + 1}
      OBVIOUS
    <3> QED
      BY <3>1
  <2>5. \A v : v \in ToSet(p[n]) <=> in(v, n)
    BY <1>6
  <2> HIDE DEF in
  <2>6. \A v : v \in ToSet(p[n + 1]) <=> in(v, n + 1)
    BY <2>3, <2>4, <2>5
  <2> QED
    BY <2>1, <2>6
<1>7. N \in S
  <2> HIDE DEF S
  <2>1. 0..N \subseteq S
    BY <1>4, <1>5, <1>6, InductionUpTo
  <2> QED
    BY <1>4, <2>1
<1> QED
  BY <1>2, <1>7 DEF N

-----------------------------------------------------------------------------
(* What becomes of a finding on its way into a report                      *)

FindingFields == {"id", "code", "subject", "tokens", "evidence", "package",
                  "workspace", "severity", "confidence", "context", "notes"}
AreFindings(findings) == \A f \in findings : FindingFields \subseteq DOMAIN f

(* r is f as a report shows it: its context, notes and confidence may be   *)
(* other ones, all that says what is wrong and where is the same.          *)
Shows(r, f) ==
    /\ r.id = f.id /\ r.code = f.code /\ r.subject = f.subject
    /\ r.tokens = f.tokens /\ r.evidence = f.evidence /\ r.package = f.package
    /\ r.workspace = f.workspace /\ r.severity = f.severity
    /\ r.confidence \in {f.confidence, Lowered(f.confidence)}

Trusted(b, o) ==
    LET compat == Compatibility(b.detections, b.signal_deps, b.signal_files)
    IN AttachContext(compat, b.entrypoints,
            ApplyTrustDowngrades(compat, WithoutIgnored(b.findings, o.ignore_issues)))

Downgrades(b) == Compatibility(b.detections, b.signal_deps, b.signal_files).downgrades

Confidences == {"high", "medium", "low"}

(* Findings of which no two have the same id *)
AreNumbered(findings) ==
    /\ IsFiniteSet(findings)
    /\ \A f \in findings : f.id \in Nat /\ f.confidence \in Confidences
    /\ \A f, h \in findings : f.id = h.id => f = h

Kept(b, o) == WithoutIgnored(b.findings, o.ignore_issues)

(* T gives to each finding what the report shows of it. *)
IsTrust(T, b, o) ==
    /\ T \in [Kept(b, o) -> Trusted(b, o)]
    /\ \A r \in Trusted(b, o) : \E f \in Kept(b, o) : r = T[f]
    /\ \A f \in Kept(b, o) :
        /\ f \in b.findings /\ ~IgnoredBy(f, o.ignore_issues)
        /\ Shows(T[f], f)
        /\ T[f].confidence = IF Downgrades(b) = {} THEN f.confidence
                             ELSE Lowered(f.confidence)

(* A report shows each finding that no rule ignores once. *)
LEMMA TrustIsOfFindings ==
  ASSUME NEW b, AreFindings(b.findings), NEW o
  PROVE  \E T : IsTrust(T, b, o)
<1> DEFINE compat == Compatibility(b.detections, b.signal_deps, b.signal_files)
           shown == WithoutIgnored(b.findings, o.ignore_issues)
           lowered(f) == [f EXCEPT !.confidence = Lowered(@),
                                   !.notes = @ \cup compat.downgrades]
           downgraded == ApplyTrustDowngrades(compat, shown)
           near(f) == {e.framework :
                e \in {x \in b.entrypoints :
                        /\ x.framework # None
                        /\ \/ x.workspace = f.workspace
                           \/ \E t \in f.tokens : x.path = t}}
           more(f) == compat.heuristic \cup compat.unsupported \cup near(f)
           attached(f) == [f EXCEPT !.context = @ \cup compat.heuristic
                                \cup compat.unsupported \cup near(f)]
<1>1. /\ Trusted(b, o) = {attached(f) : f \in downgraded}
      /\ Downgrades(b) = compat.downgrades
  BY DEF Trusted, Downgrades, AttachContext
<1>2. downgraded = IF compat.downgrades = {} THEN shown
                   ELSE {lowered(f) : f \in shown}
  BY DEF ApplyTrustDowngrades
<1>3. shown = {f \in b.findings : ~IgnoredBy(f, o.ignore_issues)}
  BY DEF WithoutIgnored
<1> HIDE DEF compat, downgraded, shown
<1>4. ASSUME NEW f, FindingFields \subseteq DOMAIN f
      PROVE  /\ Shows(attached(f), f) /\ attached(f).confidence = f.confidence
             /\ FindingFields \subseteq DOMAIN lowered(f)
             /\ Shows(lowered(f), f) /\ lowered(f).confidence = Lowered(f.confidence)
             /\ Shows(attached(lowered(f)), f)
             /\ attached(lowered(f)).confidence = Lowered(f.confidence)
  <2>1. /\ FindingFields \subseteq DOMAIN lowered(f)
        /\ Shows(lowered(f), f) /\ lowered(f).confidence = Lowered(f.confidence)
    BY <1>4 DEF FindingFields, Shows
  <2>2. ASSUME NEW h, FindingFields \subseteq DOMAIN h
        PROVE  /\ attached(h).confidence = h.confidence
               /\ attached(h).id = h.id /\ attached(h).code = h.code
               /\ attached(h).subject = h.subject /\ attached(h).tokens = h.tokens
               /\ attached(h).evidence = h.evidence /\ attached(h).package = h.package
               /\ attached(h).workspace = h.workspace /\ attached(h).severity = h.severity
    <3> DEFINE context == h.context \cup compat.heuristic
                                \cup compat.unsupported \cup near(h)
    <3>1. attached(h) = [h EXCEPT !.context = context]
      OBVIOUS
    <3> HIDE DEF context, attached
    <3> QED
      BY <2>2, <3>1 DEF FindingFields
  <2> HIDE DEF attached, lowered
  <2>3. Shows(attached(f), f)
    BY <1>4, <2>2 DEF Shows
  <2>4. Shows(attached(lowered(f)), f)
    BY <1>4, <2>1, <2>2 DEF Shows
  <2> QED
    BY <1>4, <2>1, <2>2, <2>3, <2>4
<1> DEFINE T == [f \in shown |-> IF compat.downgrades = {} THEN attached(f)
                                 ELSE attached(lowered(f))]
<1> HIDE DEF attached, lowered
<1>5. \A f \in shown : FindingFields \subseteq DOMAIN f
  BY <1>3 DEF AreFindings
<1>6. Trusted(b, o) = {T[f] : f \in shown}
  <2>1. CASE compat.downgrades = {}
    BY <1>1, <1>2, <2>1
  <2>2. CASE compat.downgrades # {}
    BY <1>1, <1>2, <2>2
  <2> QED
    BY <2>1, <2>2
<1>7. ASSUME NEW f \in shown
      PROVE  /\ Shows(T[f], f)
             /\ T[f].confidence = IF Downgrades(b) = {} THEN f.confidence
                                  ELSE Lowered(f.confidence)
  BY <1>1, <1>4, <1>5
<1>8. DOMAIN T = shown /\ T = [f \in shown |-> T[f]]
  OBVIOUS
<1> HIDE DEF T
<1>9. /\ T \in [shown -> Trusted(b, o)]
      /\ \A r \in Trusted(b, o) : \E f \in shown : r = T[f]
  BY <1>6, <1>8
<1>10. shown = Kept(b, o)
  BY DEF shown, Kept
<1> QED
  BY <1>3, <1>7, <1>9, <1>10 DEF IsTrust

(* Trust changes the confidence of findings and adds context, it neither   *)
(* drops a finding nor makes one; in doubt about a framework no confidence *)
(* stays high.                                                             *)
LEMMA TrustKeepsFindings ==
  ASSUME NEW b, AreFindings(b.findings), NEW o
  PROVE  /\ \A f \in b.findings : ~IgnoredBy(f, o.ignore_issues)
                => \E r \in Trusted(b, o) : Shows(r, f)
         /\ \A r \in Trusted(b, o) : \E f \in b.findings :
                ~IgnoredBy(f, o.ignore_issues) /\ Shows(r, f)
         /\ Downgrades(b) # {} => \A r \in Trusted(b, o) : r.confidence # "high"
         /\ Downgrades(b) = {} => \A r \in Trusted(b, o) : \E f \in b.findings :
                ~IgnoredBy(f, o.ignore_issues) /\ Shows(r, f)
                    /\ r.confidence = f.confidence
<1>1. PICK T : IsTrust(T, b, o)
  BY TrustIsOfFindings
<1>2. \A f \in b.findings : ~IgnoredBy(f, o.ignore_issues) => f \in Kept(b, o)
  BY DEF Kept, WithoutIgnored
<1>3. \A c : Lowered(c) # "high"
  BY DEF Lowered
<1> QED
  BY <1>1, <1>2, <1>3 DEF IsTrust

(* Trust keeps the numbers of the findings. *)
LEMMA TrustKeepsNumbers ==
  ASSUME NEW b, AreFindings(b.findings), AreNumbered(b.findings), NEW o
  PROVE  AreNumbered(Trusted(b, o))
<1>1. PICK T : IsTrust(T, b, o)
  BY TrustIsOfFindings
<1>2. /\ T \in [Kept(b, o) -> Trusted(b, o)]
      /\ \A r \in Trusted(b, o) : \E f \in Kept(b, o) : r = T[f]
      /\ Kept(b, o) \subseteq b.findings
      /\ \A f \in Kept(b, o) :
            /\ T[f].id = f.id
            /\ T[f].confidence \in {f.confidence, Lowered(f.confidence)}
  BY <1>1 DEF IsTrust, Shows
<1>3. IsFiniteSet(Trusted(b, o))
  <2>1. T \in Surjection(Kept(b, o), Trusted(b, o))
    BY <1>2 DEF Surjection
  <2> QED
    BY <1>2, <2>1, FS_Subset, FS_Surjection DEF AreNumbered
<1>4. \A c \in Confidences : Lowered(c) \in Confidences
  BY DEF Lowered, Confidences
<1>5. \A f \in Kept(b, o) : T[f].id \in Nat /\ T[f].confidence \in Confidences
  BY <1>2, <1>4 DEF AreNumbered
<1>6. \A f, h \in Kept(b, o) : T[f].id = T[h].id => f = h
  BY <1>2 DEF AreNumbered
<1> QED
  BY <1>2, <1>3, <1>5, <1>6 DEF AreNumbered

(* The four reasons for which a report leaves out a finding: an            *)
(* ignoreIssues rule, a change that is known entirely and does not affect  *)
(* it, the baseline, and the focus.                                        *)
AffectedBy(b, w, o) ==
    AffectedScope(b.graph, CollectChangedScope(w.diff).report,
                  IF o.no_cache THEN None ELSE w.index, o.profile)

Unaffected(b, w, o, f) ==
    /\ o.changed_since
    /\ ~AffectedBy(b, w, o).incomplete
    /\ ~InAffectedScope(f, AffectedBy(b, w, o))

BaselineOf(w, o) ==
    IF o.no_baseline THEN None ELSE LoadBaseline(w.baselines, o.config_dir)

InBaseline(w, o, f) == BaselineOf(w, o) # None /\ f.id \in BaselineOf(w, o).ids

OutOfFocus(b, o, f) == o.focus # None /\ ~MatchesFocus(f, o.focus, b.graph)

Hidden(b, w, o, f) ==
    Unaffected(b, w, o, f) \/ InBaseline(w, o, f) \/ OutOfFocus(b, o, f)

LEMMA ScanFindings ==
  ASSUME NEW b, NEW w, NEW o, ScanWithOptions(b, w, o).ok
  PROVE  /\ "findings" \in DOMAIN ScanWithOptions(b, w, o).report
         /\ ScanWithOptions(b, w, o).report.findings =
                {f \in Trusted(b, o) : ~Hidden(b, w, o, f)}
         /\ o.changed_since => CollectChangedScope(w.diff).ok
<1> DEFINE shown == WithoutIgnored(b.findings, o.ignore_issues)
           compat == Compatibility(b.detections, b.signal_deps, b.signal_files)
           first == ReportFromBuild(Trusted(b, o),
                        Cardinality(b.findings) - Cardinality(shown), o.profile)
           built == [first EXCEPT !.strict_trust_applied = ShouldApplyStrictTrust(compat)]
           scope == CollectChangedScope(w.diff)
           affected == AffectedBy(b, w, o)
           changed == IF o.changed_since
                      THEN ApplyChangedScope(built, affected, scope.report)
                      ELSE built
           baseline == BaselineOf(w, o)
           new == IF baseline = None THEN changed ELSE ApplyBaseline(changed, baseline)
           focused == IF o.focus = None THEN new
                      ELSE ApplyFocus(new, o.focus, b.graph)
           refused == \/ /\ o.require_full_scope
                         /\ b.partial_scope
                         /\ DeadCodeAnalyzersEnabled(o.analysis)
                      \/ o.changed_since /\ ~scope.ok
                      \/ baseline = [unreadable |-> TRUE]
           Fields == DOMAIN first
<1>1. ScanWithOptions(b, w, o) = IF refused THEN Refused
                                 ELSE Answered(RefreshSummary(focused))
  BY DEF ScanWithOptions, Trusted, AffectedBy, BaselineOf
<1>2. /\ ScanWithOptions(b, w, o).report = RefreshSummary(focused)
      /\ o.changed_since => scope.ok
  <2>1. ~Refused.ok /\ Answered(RefreshSummary(focused)).report = RefreshSummary(focused)
    BY DEF Refused, Answered
  <2>2. ~refused => (o.changed_since => scope.ok)
    OBVIOUS
  <2> HIDE DEF refused, focused, scope
  <2> QED
    BY <1>1, <2>1, <2>2
<1>3. "findings" \in DOMAIN first /\ first.findings = Trusted(b, o)
  BY DEF ReportFromBuild
<1> HIDE DEF first
<1>4. DOMAIN built = Fields /\ built.findings = Trusted(b, o)
  BY <1>3
<1> HIDE DEF built
<1>5. /\ DOMAIN changed = Fields
      /\ changed.findings = {f \in Trusted(b, o) : ~Unaffected(b, w, o, f)}
  <2>1. CASE o.changed_since /\ ~affected.incomplete
    BY <1>3, <1>4, <2>1 DEF ApplyChangedScope, Unaffected
  <2>2. CASE o.changed_since /\ affected.incomplete
    BY <1>3, <1>4, <2>2 DEF ApplyChangedScope, Unaffected
  <2>3. CASE ~o.changed_since
    BY <1>4, <2>3 DEF Unaffected
  <2> QED
    BY <2>1, <2>2, <2>3
<1> HIDE DEF changed
<1>6. /\ DOMAIN new = Fields
      /\ new.findings = {f \in changed.findings : ~InBaseline(w, o, f)}
  BY <1>3, <1>5 DEF ApplyBaseline, InBaseline
<1> HIDE DEF new
<1>7. /\ DOMAIN focused = Fields
      /\ focused.findings = {f \in new.findings : ~OutOfFocus(b, o, f)}
  BY <1>3, <1>6 DEF ApplyFocus, OutOfFocus
<1> HIDE DEF focused
<1>8. /\ "findings" \in DOMAIN RefreshSummary(focused)
      /\ RefreshSummary(focused).findings = focused.findings
  BY <1>3, <1>7 DEF RefreshSummary
<1> QED
  BY <1>2, <1>5, <1>6, <1>7, <1>8 DEF Hidden

(* A scan reports every finding of the analyzers but those it has one of   *)
(* the four reasons to leave out, and it reports no other: whatever the    *)
(* build, the change, the baseline and the options, nothing is lost and    *)
(* nothing invented on the way from the analyzers to the report            *)
(* (scan_with_options, lib.rs:118).                                        *)
THEOREM ScanIsExact ==
  ASSUME NEW b, AreFindings(b.findings), NEW w, NEW o,
         ScanWithOptions(b, w, o).ok
  PROVE  LET reported == ScanWithOptions(b, w, o).report.findings
             leftOut(f) == \/ IgnoredBy(f, o.ignore_issues)
                           \/ Hidden(b, w, o, f)
         IN /\ \A f \in b.findings : leftOut(f) \/ \E r \in reported : Shows(r, f)
            /\ \A r \in reported : \E f \in b.findings : ~leftOut(f) /\ Shows(r, f)
<1>1. ASSUME NEW r, NEW f, Shows(r, f)
      PROVE  Hidden(b, w, o, r) <=> Hidden(b, w, o, f)
  <2> /\ r.id = f.id /\ r.code = f.code /\ r.tokens = f.tokens
      /\ r.evidence = f.evidence /\ r.package = f.package
    BY <1>1 DEF Shows
  <2>1. Unaffected(b, w, o, r) <=> Unaffected(b, w, o, f)
    BY DEF Unaffected, InAffectedScope
  <2>2. InBaseline(w, o, r) <=> InBaseline(w, o, f)
    BY DEF InBaseline
  <2>3. OutOfFocus(b, o, r) <=> OutOfFocus(b, o, f)
    BY DEF OutOfFocus, MatchesFocus
  <2> QED
    BY <2>1, <2>2, <2>3 DEF Hidden
<1>2. ScanWithOptions(b, w, o).report.findings =
            {r \in Trusted(b, o) : ~Hidden(b, w, o, r)}
  BY ScanFindings
<1> QED
  BY <1>1, <1>2, TrustKeepsFindings

(* A query finds a file of the graph or nothing, and a path that is a file *)
(* finds itself (find_file).                                               *)
LEMMA FindFileFinds ==
  ASSUME NEW g, g.files \in Seq(FileNodes(g)), NEW query
  PROVE  /\ FindFile(g, query) \in FileNodes(g) \cup {None}
         /\ query \in FileNodes(g) => FindFile(g, query) = query
<1> DEFINE ends == {i \in DOMAIN g.files : IsSuffix(query, g.files[i])}
           first == CHOOSE i \in ends : \A j \in ends : i <= j
<1>1. FindFile(g, query) = IF query \in FileNodes(g) THEN query
                           ELSE IF ends = {} THEN None ELSE g.files[first]
  BY DEF FindFile
<1>2. ends \in SUBSET Nat /\ ends \subseteq DOMAIN g.files
  OBVIOUS
<1>3. ends # {} => first \in ends
  <2> HIDE DEF ends
  <2> QED
    BY <1>2, LeastNumber
<1>4. \A i \in DOMAIN g.files : g.files[i] \in FileNodes(g)
  OBVIOUS
<1> HIDE DEF ends, first
<1> QED
  BY <1>1, <1>2, <1>3, <1>4

(* A change affects a file of the graph exactly when the file is changed,  *)
(* or is reachable and imports a changed one, however far away: whatever   *)
(* the graph, no importer of a change is out of its scope and nothing else *)
(* is in it (compute_affected_scope).                                      *)
THEOREM AffectedIsWhatImportsTheChange ==
  ASSUME NEW g, IsFiniteSet(NodesOf(g)), g.files \in Seq(FileNodes(g)),
         None \notin NodesOf(g), NEW scope, NEW index, NEW profile,
         NEW f \in FileNodes(g)
  PROVE  LET changed == scope.added \cup scope.modified \cup {r[2] : r \in scope.renamed}
             found == {FindFile(g, p) : p \in changed} \ {None}
         IN f \in AffectedScope(g, scope, index, profile).files <=>
                \/ f \in found
                \/ f \in Recoverable(scope, index)
                \/ /\ f \in ReachableFileIds(g, profile)
                   /\ \E c \in found : c \in From(g, {f})
<1> DEFINE changed == scope.added \cup scope.modified \cup {r[2] : r \in scope.renamed}
           found == {FindFile(g, p) : p \in changed} \ {None}
           gone == Recoverable(scope, index)
           nodes == (UNION {ReverseReachable(g, c) : c \in found})
                        \cap ReachableNodes(g, profile)
<1>1. found \subseteq FileNodes(g)
  BY FindFileFinds
<1>2. AffectedScope(g, scope, index, profile).files =
            (found \cup (nodes \cap FileNodes(g))) \cup gone
  BY DEF AffectedScope
<1> HIDE DEF changed, found, gone
<1>3. ASSUME NEW c \in found
      PROVE  f \in ReverseReachable(g, c) <=> c \in From(g, {f})
  <2>1. c \in FileNodes(g) /\ c \in NodesOf(g) /\ f \in NodesOf(g)
    BY <1>1 DEF FileNodes
  <2>2. ReverseReachable(g, c) = To(g, {c})
    BY <2>1 DEF ReverseReachable, To
  <2> QED
    BY <2>1, <2>2, WalksAgree
<1>4. f \in nodes <=> /\ f \in ReachableNodes(g, profile)
                      /\ \E c \in found : c \in From(g, {f})
  <2>1. f \in nodes <=> /\ f \in ReachableNodes(g, profile)
                        /\ \E c \in found : f \in ReverseReachable(g, c)
    BY Zenon
  <2> HIDE DEF nodes
  <2> QED
    BY <1>3, <2>1
<1> HIDE DEF nodes
<1> QED
  BY <1>2, <1>4 DEF changed, found, gone, ReachableFileIds

-----------------------------------------------------------------------------
(* Reviews *)

(* A review divides the findings of its scan: no finding is lost between   *)
(* those that block and those that are advice, and none is both.  In doubt *)
(* a strict review blocks nothing, whether the doubt is about the scope,   *)
(* the resolution of imports, or a framework (review, lib.rs:962).         *)
THEOREM ReviewDividesItsScan ==
  ASSUME NEW b, AreFindings(b.findings), NEW w, NEW o, Review(b, w, o).ok
  PROVE  LET r == Review(b, w, o).report
             scan == ScanWithOptions(b, w, [o EXCEPT !.require_full_scope = FALSE])
         IN /\ scan.ok /\ r.new_findings = scan.report.findings
            /\ r.blocking_findings \cup r.advisory_findings = r.new_findings
            /\ r.blocking_findings \cap r.advisory_findings = {}
            /\ (o.strict_trust /\ InsufficientTrust(b)) \/ Downgrades(b) # {}
                    => r.blocking_findings = {}
            /\ ~(o.strict_trust /\ InsufficientTrust(b))
                    => r.blocking_findings = Blocking(r.new_findings)
<1> DEFINE q == [o EXCEPT !.require_full_scope = FALSE]
           scan == ScanWithOptions(b, w, q)
           strict == o.strict_trust /\ InsufficientTrust(b)
           found == scan.report.findings
           r == Review(b, w, o).report
<1>1. Review(b, w, o) = ReviewOfScan(b, scan, strict)
  BY DEF Review
<1> HIDE DEF scan, strict
<1>2. /\ scan.ok /\ r.new_findings = found
      /\ r.blocking_findings = IF strict THEN {} ELSE Blocking(found)
      /\ r.advisory_findings = IF strict THEN found ELSE Advisory(found)
  BY <1>1 DEF ReviewOfScan, Refused, Answered
<1>3. /\ Blocking(found) \cup Advisory(found) = found
      /\ Blocking(found) \cap Advisory(found) = {}
  BY DEF Blocking, Advisory
<1>4. ASSUME Downgrades(b) # {}
      PROVE  Blocking(found) = {}
  <2>1. found \subseteq Trusted(b, q)
    BY <1>2, ScanFindings DEF scan
  <2>2. \A f \in Trusted(b, q) : f.confidence # "high"
    BY <1>4, TrustKeepsFindings
  <2> QED
    BY <2>1, <2>2 DEF Blocking
<1> HIDE DEF r, found
<1>5. /\ r.blocking_findings \cup r.advisory_findings = r.new_findings
      /\ r.blocking_findings \cap r.advisory_findings = {}
  BY <1>2, <1>3
<1>6. /\ strict \/ Downgrades(b) # {} => r.blocking_findings = {}
      /\ ~strict => r.blocking_findings = Blocking(r.new_findings)
  BY <1>2, <1>4
<1> QED
  BY <1>2, <1>5, <1>6 DEF scan, strict, r, found

-----------------------------------------------------------------------------
(* Orders                                                                  *)

RanksAll(S, R) ==
    /\ \A x \in S : <<x, x>> \notin R
    /\ \A x, y \in S : x # y => <<x, y>> \in R \/ <<y, x>> \in R
    /\ \A x, y, z \in S : <<x, y>> \in R /\ <<y, z>> \in R => <<x, z>> \in R

(* What is ordered by a relation that ranks all elements is a sequence of  *)
(* all of them, each once, and in the order of the relation.               *)
LEMMA OrderedIsInOrder ==
  ASSUME NEW S, IsFiniteSet(S), NEW R, RanksAll(S, R)
  PROVE  /\ Ordered(S, R) \in [1..Cardinality(S) -> S]
         /\ Ordered(S, R) \in Seq(S) /\ Len(Ordered(S, R)) = Cardinality(S)
         /\ \A x \in S : \E k \in 1..Cardinality(S) : Ordered(S, R)[k] = x
         /\ \A i, j \in 1..Cardinality(S) :
                /\ Ordered(S, R)[i] = Ordered(S, R)[j] => i = j
                /\ <<Ordered(S, R)[i], Ordered(S, R)[j]>> \in R => i < j
<1> DEFINE n == Cardinality(S)
           below(x) == {y \in S : <<y, x>> \in R}
           place == [x \in S |-> Cardinality(below(x)) + 1]
           s == Ordered(S, R)
<1>1. n \in Nat /\ IsFiniteSet(1..n) /\ Cardinality(1..n) = n
  BY FS_CardinalityType, FS_Interval
<1>2. ASSUME NEW x \in S
      PROVE  /\ IsFiniteSet(below(x)) /\ Cardinality(below(x)) \in Nat
             /\ Cardinality(below(x)) < n
  <2>1. IsFiniteSet(below(x)) /\ Cardinality(below(x)) <= n
        /\ (n = Cardinality(below(x)) => S = below(x))
    BY FS_Subset
  <2>2. x \notin below(x)
    BY DEF RanksAll
  <2> HIDE DEF below
  <2> QED
    BY <1>1, <2>1, <2>2, FS_CardinalityType
<1>3. ASSUME NEW x \in S, NEW y \in S, <<x, y>> \in R
      PROVE  Cardinality(below(x)) < Cardinality(below(y))
  <2>1. below(x) \in SUBSET below(y) /\ x \in below(y) /\ x \notin below(x)
    BY <1>3 DEF RanksAll
  <2> HIDE DEF below
  <2>2. /\ Cardinality(below(x)) <= Cardinality(below(y))
        /\ (Cardinality(below(y)) = Cardinality(below(x)) => below(y) = below(x))
    BY <1>2, <2>1, FS_Subset
  <2> QED
    BY <1>2, <2>1, <2>2
<1>4. ASSUME NEW x \in S, NEW y \in S, Cardinality(below(x)) = Cardinality(below(y))
      PROVE  x = y
  <2> SUFFICES ASSUME x # y
               PROVE  FALSE
    OBVIOUS
  <2>1. <<x, y>> \in R \/ <<y, x>> \in R
    BY DEF RanksAll
  <2> HIDE DEF below
  <2> QED
    BY <1>2, <1>3, <1>4, <2>1
<1> HIDE DEF below
<1>5. place \in Injection(S, 1..n)
  <2>1. place \in [S -> 1..n]
    BY <1>1, <1>2
  <2>2. \A x, y \in S : place[x] = place[y] => x = y
    BY <1>2, <1>4
  <2> HIDE DEF place
  <2> QED
    BY <2>1, <2>2 DEF Injection, IsInjective
<1>6. place \in Surjection(S, 1..n)
  BY <1>1, <1>5, FS_Injection
<1>7. \A k \in 1..n : \E x \in S : place[x] = k
  BY <1>6 DEF Surjection
<1>8. s = [k \in 1..n |-> CHOOSE x \in S : Cardinality(below(x)) = k - 1]
  BY DEF Ordered, below
<1>9. ASSUME NEW k \in 1..n
      PROVE  s[k] \in S /\ Cardinality(below(s[k])) = k - 1
  <2>1. PICK x \in S : Cardinality(below(x)) = k - 1
    BY <1>2, <1>7
  <2>2. s[k] = CHOOSE y \in S : Cardinality(below(y)) = k - 1
    BY <1>8
  <2> QED
    BY <2>1, <2>2
<1>10. s \in [1..n -> S]
  BY <1>8, <1>9
<1> HIDE DEF s
<1>11. s \in Seq(S) /\ Len(s) = n
  BY <1>1, <1>10
<1>12. ASSUME NEW x \in S
       PROVE  \E k \in 1..n : s[k] = x
  <2> DEFINE k == Cardinality(below(x)) + 1
  <2>1. k \in 1..n /\ k - 1 = Cardinality(below(x))
    BY <1>1, <1>2
  <2>2. s[k] \in S /\ Cardinality(below(s[k])) = k - 1
    BY <1>9, <2>1
  <2>3. s[k] = x
    BY <1>4, <2>1, <2>2
  <2> QED
    BY <2>1, <2>3
<1>13. ASSUME NEW i \in 1..n, NEW j \in 1..n
       PROVE  /\ s[i] = s[j] => i = j
              /\ <<s[i], s[j]>> \in R => i < j
  <2>1. /\ s[i] \in S /\ Cardinality(below(s[i])) = i - 1
        /\ s[j] \in S /\ Cardinality(below(s[j])) = j - 1
    BY <1>9
  <2>2. <<s[i], s[j]>> \in R => Cardinality(below(s[i])) < Cardinality(below(s[j]))
    BY <1>3, <2>1
  <2> QED
    BY <1>1, <2>1, <2>2
<1> QED
  BY <1>10, <1>11, <1>12, <1>13 DEF s, n

-----------------------------------------------------------------------------
(* safe-delete                                                             *)

Alike(f, t) == f = t \/ IsSuffix(t, f) \/ IsSuffix(f, t)

(* What safe-delete calls safe is reported with high confidence only, in a *)
(* project that is analysed entirely and trusted; if it is a file, no      *)
(* entrypoint of the profile reaches it, and every file that imports it,   *)
(* however far away, has a path that ends like its own: whatever the       *)
(* graph, the scan and the targets (classify_safe_delete_target,           *)
(* lib.rs:1167).                                                           *)
THEOREM SafeMeansUnimported ==
  ASSUME NEW b, IsFiniteSet(NodesOf(b.graph)), None \notin NodesOf(b.graph),
         NEW scan, NEW profile, NEW targets, NEW rank,
         DeletionOfScan(b, scan, profile, targets, rank).ok,
         NEW t \in DeletionOfScan(b, scan, profile, targets, rank).report.safe
  PROVE  /\ t \in ToSet(targets)
         /\ ~b.partial_scope /\ ~TrustDowngraded(b) /\ ~ExceedsPercent(b, 5)
         /\ \E f \in scan.report.findings : IsPrefix(t, f.subject)
         /\ \A f \in scan.report.findings :
                IsPrefix(t, f.subject) => f.confidence = "high"
         /\ t \in FileNodes(b.graph) =>
                /\ t \notin ReachableFileIds(b.graph, profile)
                /\ \A f \in FileNodes(b.graph) :
                        t \in From(b.graph, {f}) => Alike(f, t)
                /\ \A e \in EntrypointNodes(b.graph, profile) :
                        t \notin From(b.graph, {e})
<1> DEFINE g == b.graph
           found == scan.report.findings
           class == Classify(b, found, t, profile)
           d == DeletionOfScan(b, scan, profile, targets, rank)
<1>1. /\ scan.ok /\ ~b.partial_scope
      /\ d.report.safe = {x \in ToSet(targets) :
            (IF Classify(b, found, x, profile) = "safe" /\ TrustDowngraded(b)
             THEN "needs-review" ELSE Classify(b, found, x, profile)) = "safe"}
  <2>1. scan.ok
    BY DEF DeletionOfScan, Refused
  <2>2. CASE b.partial_scope
    BY <2>1, <2>2 DEF DeletionOfScan, Answered
  <2>3. CASE ~b.partial_scope
    BY <2>1, <2>3 DEF DeletionOfScan, Answered
  <2> QED
    BY <2>1, <2>2, <2>3
<1>2. t \in ToSet(targets) /\ class = "safe" /\ ~TrustDowngraded(b)
  BY <1>1
<1>3. /\ Related(found, t) # {} /\ ~ReverseImpact(g, t, profile)
      /\ ~ExceedsPercent(b, 5)
      /\ {f.confidence : f \in Related(found, t)} = {"high"}
  BY <1>2 DEF Classify
<1>4. /\ \E f \in found : IsPrefix(t, f.subject)
      /\ \A f \in found : IsPrefix(t, f.subject) => f.confidence = "high"
  <2>1. Related(found, t) = {f \in found : IsPrefix(t, f.subject)}
    BY DEF Related
  <2> QED
    BY <1>3, <2>1
<1>5. ASSUME t \in FileNodes(g)
      PROVE  /\ t \notin ReachableFileIds(g, profile)
             /\ \A f \in FileNodes(g) : t \in From(g, {f}) => Alike(f, t)
             /\ \A e \in EntrypointNodes(g, profile) : t \notin From(g, {e})
  <2>1. FindFile(g, t) = t
    BY <1>5 DEF FindFile
  <2>2. t \in NodesOf(g) /\ t # None
    BY <1>5 DEF FileNodes
  <2>3. /\ Impact(g, t, profile).entrypoints = {}
        /\ \A f \in Impact(g, t, profile).files : Alike(f, t)
    BY <1>3, <2>1, <2>2 DEF ReverseImpact, Alike
  <2>4. /\ Impact(g, t, profile).files = To(g, {t}) \cap FileNodes(g)
        /\ Impact(g, t, profile).entrypoints = To(g, {t}) \cap EntrypointNodes(g, profile)
    BY <1>5 DEF Impact, ReverseReachable, To
  <2>5. \A n \in NodesOf(g) : t \in From(g, {n}) <=> n \in To(g, {t})
    BY <2>2, WalksAgree
  <2>6. \A f \in FileNodes(g) : t \in From(g, {f}) => Alike(f, t)
    BY <2>3, <2>4, <2>5 DEF FileNodes
  <2>7. \A e \in EntrypointNodes(g, profile) : t \notin From(g, {e})
    BY <2>3, <2>4, <2>5 DEF EntrypointNodes
  <2>8. t \notin ReachableFileIds(g, profile)
    BY <1>5, <2>3, UnusedMeansNoImpact
  <2> QED
    BY <2>6, <2>7, <2>8
<1> QED
  BY <1>1, <1>2, <1>3, <1>4, <1>5

(* R orders numbers by the key c, then by r, then by size. *)
ByKeys(R, S, c, r) ==
    \A i, j \in S : <<i, j>> \in R <=>
        \/ c[i] < c[j]
        \/ c[i] = c[j] /\ (r[i] < r[j] \/ (r[i] = r[j] /\ i < j))

(* Numbers in the order of two keys *)
LEMMA KeysRank ==
  ASSUME NEW S \in SUBSET Nat, NEW c \in [S -> Nat], NEW r \in [S -> Nat], NEW R,
         ByKeys(R, S, c, r)
  PROVE  RanksAll(S, R)
<1>1. \A i \in S : c[i] \in Nat /\ r[i] \in Nat /\ i \in Nat
  OBVIOUS
<1>2. \A i \in S : <<i, i>> \notin R
  BY <1>1 DEF ByKeys
<1>3. \A i, j \in S : i # j => <<i, j>> \in R \/ <<j, i>> \in R
  BY <1>1 DEF ByKeys
<1>4. \A i, j, k \in S : <<i, j>> \in R /\ <<j, k>> \in R => <<i, k>> \in R
  BY <1>1 DEF ByKeys
<1> QED
  BY <1>2, <1>3, <1>4 DEF RanksAll

(* The targets at some positions that import the one at another *)
ImportersAmong(g, targets, positions, i) ==
    {f \in {targets[x] : x \in positions} \cap FileNodes(g) :
        <<f, FindFile(g, targets[i])>> \in g.edges}

(* The order of deletion takes each position once, those of the targets    *)
(* that nothing there imports before the others.                           *)
TakesInOrder(g, targets, positions, rank) ==
    \E s \in [1..Cardinality(positions) -> positions] :
        /\ DeletionOrder(g, targets, positions, rank) =
                [k \in 1..Cardinality(positions) |-> targets[s[k]]]
        /\ \A x \in positions : \E k \in 1..Cardinality(positions) : s[k] = x
        /\ \A i, j \in 1..Cardinality(positions) : s[i] = s[j] => i = j
        /\ \A i, j \in 1..Cardinality(positions) :
                /\ ImportersAmong(g, targets, positions, s[i]) = {}
                /\ ImportersAmong(g, targets, positions, s[j]) # {}
                => i < j

(* The order of deletion, from the numbers of importers *)
LEMMA DeletionOrderIs ==
  ASSUME NEW g, IsFiniteSet(NodesOf(g)), NEW targets, NEW rank,
         NEW positions \in SUBSET Nat, IsFiniteSet(positions),
         \A i \in positions : rank[targets[i]] \in Nat
  PROVE  TakesInOrder(g, targets, positions, rank)
<1> DEFINE into(i) == ImportersAmong(g, targets, positions, i)
           c == [i \in positions |-> Cardinality(into(i))]
           r == [i \in positions |-> rank[targets[i]]]
           before(i, j) ==
            \/ Cardinality(into(i)) < Cardinality(into(j))
            \/ /\ Cardinality(into(i)) = Cardinality(into(j))
               /\ \/ rank[targets[i]] < rank[targets[j]]
                  \/ rank[targets[i]] = rank[targets[j]] /\ i < j
           R == {p \in positions \X positions : before(p[1], p[2])}
           n == Cardinality(positions)
           s == Ordered(positions, R)
<1>1. DeletionOrder(g, targets, positions, rank) = [k \in DOMAIN s |-> targets[s[k]]]
  BY DEF DeletionOrder, ImportersAmong
<1>2. ASSUME NEW i \in positions
      PROVE  /\ Cardinality(into(i)) \in Nat
             /\ (Cardinality(into(i)) = 0) <=> (into(i) = {})
  <2>1. into(i) \in SUBSET NodesOf(g)
    BY DEF FileNodes, ImportersAmong
  <2> HIDE DEF into
  <2> QED
    BY <2>1, FS_Subset, FS_CardinalityType, FS_EmptySet
<1>3. ASSUME NEW i \in positions, NEW j \in positions
      PROVE  <<i, j>> \in R <=> before(i, j)
  <2> HIDE DEF before
  <2> QED
    OBVIOUS
<1> HIDE DEF R, into
<1>4. /\ c \in [positions -> Nat] /\ r \in [positions -> Nat]
      /\ \A i \in positions : c[i] = Cardinality(into(i)) /\ r[i] = rank[targets[i]]
  BY <1>2
<1> HIDE DEF c, r
<1>5. \A i, j \in positions : <<i, j>> \in R <=>
            \/ c[i] < c[j]
            \/ c[i] = c[j] /\ (r[i] < r[j] \/ (r[i] = r[j] /\ i < j))
  <2> SUFFICES ASSUME NEW i \in positions, NEW j \in positions
               PROVE  <<i, j>> \in R <=>
                        \/ c[i] < c[j]
                        \/ c[i] = c[j] /\ (r[i] < r[j] \/ (r[i] = r[j] /\ i < j))
    OBVIOUS
  <2>1. /\ c[i] = Cardinality(into(i)) /\ r[i] = rank[targets[i]]
        /\ c[j] = Cardinality(into(j)) /\ r[j] = rank[targets[j]]
    BY <1>4
  <2>2. before(i, j) <=> \/ c[i] < c[j]
                         \/ c[i] = c[j] /\ (r[i] < r[j] \/ (r[i] = r[j] /\ i < j))
    BY <2>1
  <2> HIDE DEF before
  <2> QED
    BY <1>3, <2>2
<1>6. RanksAll(positions, R)
  <2>1. ByKeys(R, positions, c, r)
    BY <1>5 DEF ByKeys
  <2>2. c \in [positions -> Nat] /\ r \in [positions -> Nat]
    BY <1>4
  <2> QED
    BY <2>1, <2>2, KeysRank
<1>7. /\ s \in [1..n -> positions]
      /\ \A x \in positions : \E k \in 1..n : s[k] = x
      /\ \A i, j \in 1..n : <<s[i], s[j]>> \in R => i < j
      /\ \A i, j \in 1..n : s[i] = s[j] => i = j
  <2> HIDE DEF n, before
  <2>1. /\ s \in [1..Cardinality(positions) -> positions]
        /\ \A x \in positions : \E k \in 1..Cardinality(positions) : s[k] = x
        /\ \A i, j \in 1..Cardinality(positions) :
                /\ s[i] = s[j] => i = j
                /\ <<s[i], s[j]>> \in R => i < j
    BY <1>6, OrderedIsInOrder
  <2> HIDE DEF s
  <2> QED
    BY <2>1 DEF n
<1> HIDE DEF s
<1>8. ASSUME NEW i \in 1..n, NEW j \in 1..n, into(s[i]) = {}, into(s[j]) # {}
      PROVE  i < j
  <2>1. s[i] \in positions /\ s[j] \in positions
    BY <1>7
  <2>2. ASSUME NEW x \in positions, NEW y \in positions,
               into(x) = {}, into(y) # {}
        PROVE  c[x] < c[y]
    <3>1. c[x] = Cardinality(into(x)) /\ c[y] = Cardinality(into(y))
      BY <1>4
    <3>2. /\ Cardinality(into(x)) \in Nat /\ Cardinality(into(y)) \in Nat
          /\ Cardinality(into(x)) = 0 /\ Cardinality(into(y)) # 0
      BY <1>2, <2>2
    <3> QED
      BY <3>1, <3>2
  <2>3. <<s[i], s[j]>> \in R
    BY <1>5, <1>8, <2>1, <2>2
  <2> QED
    BY <1>7, <2>3
<1>9. DeletionOrder(g, targets, positions, rank) = [k \in 1..n |-> targets[s[k]]]
  BY <1>1, <1>7
<1> HIDE DEF n
<1>10. \E h \in [1..n -> positions] :
                /\ DeletionOrder(g, targets, positions, rank) =
                        [k \in 1..n |-> targets[h[k]]]
                /\ \A x \in positions : \E k \in 1..n : h[k] = x
                /\ \A i, j \in 1..n : h[i] = h[j] => i = j
                /\ \A i, j \in 1..n :
                        into(h[i]) = {} /\ into(h[j]) # {} => i < j
  BY <1>7, <1>8, <1>9
<1> QED
  BY <1>10 DEF TakesInOrder, into, n

TargetsAt(targets, positions) == {targets[i] : i \in positions}

Distinct(order) == \A i, j \in DOMAIN order : order[i] = order[j] => i = j

(* The members of a set in an order in which one that no other imports     *)
(* stands before those it imports.                                         *)
IsInOrder(g, safe, order) ==
    LET imports(f, t) == <<f, FindFile(g, t)>> \in g.edges IN
    /\ order \in Seq(safe) /\ ToSet(order) = safe
    /\ \A i, j \in DOMAIN order :
        /\ order[i] \in FileNodes(g) /\ imports(order[i], order[j])
        /\ \A f \in safe \cap FileNodes(g) : ~imports(f, order[i])
        => i < j

(* The order of deletion holds the safe targets, each as often as it was   *)
(* given, and one that no other safe target imports stands before those it *)
(* imports: whatever the graph and the targets (compute_deletion_order,    *)
(* lib.rs:1863).                                                           *)
THEOREM DeletionIsInOrder ==
  ASSUME NEW g, IsFiniteSet(NodesOf(g)), NEW targets, NEW rank,
         NEW positions \in SUBSET Nat, IsFiniteSet(positions),
         \A i \in positions : rank[targets[i]] \in Nat
  PROVE  /\ IsInOrder(g, TargetsAt(targets, positions),
                      DeletionOrder(g, targets, positions, rank))
         /\ Len(DeletionOrder(g, targets, positions, rank)) = Cardinality(positions)
         /\ (\A i, j \in positions : targets[i] = targets[j] => i = j)
                => Distinct(DeletionOrder(g, targets, positions, rank))
<1> DEFINE order == DeletionOrder(g, targets, positions, rank)
           imports(f, t) == <<f, FindFile(g, t)>> \in g.edges
           safe == {targets[i] : i \in positions}
           into(i) == ImportersAmong(g, targets, positions, i)
           n == Cardinality(positions)
<1> HIDE DEF order, into, imports, safe, n
<1>1. TakesInOrder(g, targets, positions, rank)
  BY DeletionOrderIs
<1>2. PICK s \in [1..n -> positions] :
                /\ order = [k \in 1..n |-> targets[s[k]]]
                /\ \A x \in positions : \E k \in 1..n : s[k] = x
                /\ \A i, j \in 1..n : s[i] = s[j] => i = j
                /\ \A i, j \in 1..n :
                        into(s[i]) = {} /\ into(s[j]) # {} => i < j
  BY <1>1 DEF TakesInOrder, order, into, n
<1>3. n \in Nat
  BY FS_CardinalityType DEF n
<1> USE DEF imports, safe
<1>4. /\ order \in [1..n -> safe] /\ order \in Seq(safe) /\ Len(order) = n
      /\ \A k \in 1..n : order[k] = targets[s[k]]
  <2>1. \A k \in 1..n : targets[s[k]] \in safe
    OBVIOUS
  <2> HIDE DEF safe
  <2>2. order \in [1..n -> safe] /\ \A k \in 1..n : order[k] = targets[s[k]]
    BY <1>2, <2>1
  <2> QED
    BY <1>3, <2>2
<1>5. ToSet(order) = safe
  <2>1. safe \subseteq ToSet(order)
    BY <1>2, <1>4 DEF ToSet
  <2>2. ToSet(order) \subseteq safe
    <3> HIDE DEF safe
    <3> QED
      BY <1>4 DEF ToSet
  <2> QED
    BY <2>1, <2>2
<1>6. ASSUME \A i, j \in positions : targets[i] = targets[j] => i = j,
             NEW i \in 1..n, NEW j \in 1..n, order[i] = order[j]
      PROVE  i = j
  BY <1>2, <1>4, <1>6
<1>7. ASSUME NEW i \in 1..n, NEW j \in 1..n,
             order[i] \in FileNodes(g), imports(order[i], order[j]),
             \A f \in safe \cap FileNodes(g) : ~imports(f, order[i])
      PROVE  i < j
  <2>1. order[i] = targets[s[i]] /\ order[j] = targets[s[j]] /\ order[i] \in safe
    BY <1>4
  <2> HIDE DEF safe
  <2>2. into(s[i]) = {} /\ order[i] \in into(s[j])
    BY <1>7, <2>1 DEF into, ImportersAmong, safe
  <2> QED
    BY <1>2, <2>2
<1>8. DOMAIN order = 1..n
  BY <1>4
<1> HIDE DEF safe, imports
<1>9. \A i, j \in DOMAIN order :
                    /\ order[i] \in FileNodes(g) /\ imports(order[i], order[j])
                    /\ \A f \in safe \cap FileNodes(g) : ~imports(f, order[i])
                    => i < j
  BY <1>7, <1>8
<1>10. (\A i, j \in positions : targets[i] = targets[j] => i = j)
                    => \A i, j \in DOMAIN order : order[i] = order[j] => i = j
  BY <1>6, <1>8
<1> QED
  BY <1>4, <1>5, <1>9, <1>10 DEF order, n, safe, imports, IsInOrder, Distinct, TargetsAt

-----------------------------------------------------------------------------
(* fix-plan                                                                *)

(* R compares the lists of n numbers that k gives to the elements at the   *)
(* first place where they differ.                                          *)
FirstDifference(S, n, k, R) ==
    /\ k \in [S -> [1..n -> Nat]]
    /\ \A x, y \in S : k[x] = k[y] => x = y
    /\ \A x, y \in S : <<x, y>> \in R <=>
            \E i \in 1..n : /\ k[x][i] < k[y][i]
                            /\ \A j \in 1..(i - 1) : k[x][j] = k[y][j]

LEMMA FirstDifferenceRanks ==
  ASSUME NEW S, NEW n \in Nat, NEW k, NEW R, FirstDifference(S, n, k, R)
  PROVE  RanksAll(S, R)
<1> USE DEF FirstDifference
<1>1. ASSUME NEW x \in S
      PROVE  k[x] \in [1..n -> Nat] /\ \A i \in 1..n : k[x][i] \in Nat
  OBVIOUS
<1>2. ASSUME NEW x \in S
      PROVE  <<x, x>> \notin R
  BY <1>1
<1>3. ASSUME NEW x \in S, NEW y \in S, x # y
      PROVE  <<x, y>> \in R \/ <<y, x>> \in R
  <2> DEFINE differ == {i \in 1..n : k[x][i] # k[y][i]}
  <2>1. \E i \in 1..n : k[x][i] # k[y][i]
    <3> SUFFICES ASSUME \A i \in 1..n : k[x][i] = k[y][i]
                 PROVE  FALSE
      OBVIOUS
    <3>1. k[x] = k[y]
      BY <1>1
    <3> QED
      BY <1>3, <3>1
  <2>2. PICK i \in differ : \A j \in differ : i <= j
    <3>1. PICK i \in 1..n : k[x][i] # k[y][i]
      BY <2>1
    <3>2. i \in differ
      BY <3>1
    <3>3. differ \in SUBSET Nat
      OBVIOUS
    <3> HIDE DEF differ
    <3> QED
      BY <3>2, <3>3, LeastNumber
  <2>3. i \in 1..n /\ \A j \in 1..(i - 1) : k[x][j] = k[y][j]
    BY <2>2
  <2>4. k[x][i] < k[y][i] \/ k[y][i] < k[x][i]
    BY <1>1, <2>2
  <2> QED
    BY <2>3, <2>4
<1>4. ASSUME NEW x \in S, NEW y \in S, NEW z \in S,
             <<x, y>> \in R, <<y, z>> \in R
      PROVE  <<x, z>> \in R
  <2>1. PICK i \in 1..n : /\ k[x][i] < k[y][i]
                          /\ \A j \in 1..(i - 1) : k[x][j] = k[y][j]
    BY <1>4
  <2>2. PICK h \in 1..n : /\ k[y][h] < k[z][h]
                          /\ \A j \in 1..(h - 1) : k[y][j] = k[z][j]
    BY <1>4
  <2>3. CASE i <= h
    <3>1. k[y][i] <= k[z][i]
      BY <1>1, <2>2, <2>3
    <3>2. k[x][i] < k[z][i]
      BY <1>1, <2>1, <3>1
    <3>3. \A j \in 1..(i - 1) : j \in 1..(h - 1)
      BY <2>3
    <3>4. \A j \in 1..(i - 1) : k[x][j] = k[z][j]
      BY <2>1, <2>2, <3>3
    <3> QED
      BY <3>2, <3>4
  <2>4. CASE h < i
    <3>1. k[x][h] < k[z][h]
      BY <2>1, <2>2, <2>4
    <3>2. \A j \in 1..(h - 1) : k[x][j] = k[z][j]
      BY <2>1, <2>2, <2>4
    <3> QED
      BY <3>1, <3>2
  <2> QED
    BY <2>3, <2>4
<1> QED
  BY <1>2, <1>3, <1>4 DEF RanksAll

ActionKinds == {"delete-file", "delete-export", "remove-dependency",
                "break-cycle", "update-boundary-rule", "assign-owner"}

(* Actions of which no two have the same id *)
AreActions(actions) ==
    /\ \A a \in actions : /\ a.id \in Nat /\ a.kind \in ActionKinds
                          /\ a.confidence \in Confidences
                          /\ a.risk \in Confidences
    /\ \A a, c \in actions : a.id = c.id => a = c

(* Actions are ranked without loss, each once, in the order of the phases. *)
LEMMA RankedIsInOrder ==
  ASSUME NEW actions, IsFiniteSet(actions), AreActions(actions)
  PROVE  LET s == Ranked(actions) IN
         /\ s \in [1..Cardinality(actions) -> actions] /\ s \in Seq(actions)
         /\ \A a \in actions : \E i \in DOMAIN s : s[i] = a
         /\ \A i, j \in DOMAIN s : s[i] = s[j] => i = j
         /\ \A i, j \in DOMAIN s :
                i < j => PhaseForAction(s[i].kind) <= PhaseForAction(s[j].kind)
<1> DEFINE key(a) == <<PhaseForAction(a.kind), BlastRadiusRank(a.kind),
                       ConfidenceRank(a.confidence), RiskRank(a.risk), a.id>>
           k == [a \in actions |-> key(a)]
           R == {p \in actions \X actions : RanksBefore(p[1], p[2])}
           s == Ordered(actions, R)
           n == Cardinality(actions)
<1>1. ASSUME NEW a \in actions
      PROVE  /\ PhaseForAction(a.kind) \in Nat /\ BlastRadiusRank(a.kind) \in Nat
             /\ ConfidenceRank(a.confidence) \in Nat /\ RiskRank(a.risk) \in Nat
             /\ a.id \in Nat
  BY DEF AreActions, ActionKinds, Confidences, PhaseForAction, BlastRadiusRank,
         ConfidenceRank, RiskRank
<1>2. ASSUME NEW a \in actions
      PROVE  /\ k[a] \in [1..5 -> Nat]
             /\ k[a][1] = PhaseForAction(a.kind) /\ k[a][5] = a.id
             /\ k[a] = key(a)
  BY <1>1
<1>3. ASSUME NEW a \in actions, NEW c \in actions
      PROVE  <<a, c>> \in R <=>
                \E i \in 1..5 : /\ k[a][i] < k[c][i]
                                /\ \A j \in 1..(i - 1) : k[a][j] = k[c][j]
  <2>1. k[a] = key(a) /\ k[c] = key(c)
    BY <1>2
  <2>2. <<a, c>> \in R <=> RanksBefore(a, c)
    OBVIOUS
  <2> HIDE DEF R, k
  <2> QED
    BY <2>1, <2>2 DEF RanksBefore
<1>4. k \in [actions -> [1..5 -> Nat]]
  BY <1>2
<1>5. \A a, c \in actions : k[a] = k[c] => a = c
  BY <1>2 DEF AreActions
<1> HIDE DEF k, R, key
<1>6. RanksAll(actions, R)
  <2>1. \A a, c \in actions : <<a, c>> \in R <=>
            \E i \in 1..5 : /\ k[a][i] < k[c][i]
                            /\ \A j \in 1..(i - 1) : k[a][j] = k[c][j]
    BY <1>3
  <2>2. FirstDifference(actions, 5, k, R)
    BY <1>4, <1>5, <2>1 DEF FirstDifference
  <2> QED
    BY <2>2, FirstDifferenceRanks
<1>7. /\ s \in [1..n -> actions] /\ s \in Seq(actions)
      /\ \A a \in actions : \E i \in 1..n : s[i] = a
      /\ \A i, j \in 1..n : /\ s[i] = s[j] => i = j
                            /\ <<s[i], s[j]>> \in R => i < j
  BY <1>6, OrderedIsInOrder
<1>8. n \in Nat
  BY FS_CardinalityType
<1> HIDE DEF s, n
<1>9. ASSUME NEW i \in 1..n, NEW j \in 1..n, i < j
      PROVE  PhaseForAction(s[i].kind) <= PhaseForAction(s[j].kind)
  <2>1. s[i] \in actions /\ s[j] \in actions
    BY <1>7
  <2>2. <<s[j], s[i]>> \notin R
    BY <1>7, <1>8, <1>9
  <2>3. ~(k[s[j]][1] < k[s[i]][1])
    BY <1>3, <2>1, <2>2
  <2>4. /\ k[s[i]][1] = PhaseForAction(s[i].kind)
        /\ k[s[j]][1] = PhaseForAction(s[j].kind)
    BY <1>2, <2>1
  <2> QED
    BY <1>1, <2>1, <2>3, <2>4
<1>10. DOMAIN s = 1..n
  BY <1>7
<1>11. Ranked(actions) = s
  BY DEF Ranked, R, s
<1> QED
  BY <1>7, <1>9, <1>10, <1>11 DEF n

(* An adjusted action is that of its finding, and no surer than it. *)
LEMMA AdjustedActions ==
  ASSUME NEW b, NEW compat, NEW found, NEW f, f.confidence \in Confidences,
         PrimaryActionKind(f.code) # None
  PROVE  LET a == Adjusted(b, compat, found, RemediationAction(f)) IN
         /\ a.id = f.id /\ a.kind = PrimaryActionKind(f.code)
         /\ a.kind \in ActionKinds /\ a.risk \in Confidences
         /\ a.confidence \in Confidences
         /\ ConfidenceRank(a.confidence) >= ConfidenceRank(f.confidence)
<1> DEFINE first == RemediationAction(f)
           a == Adjusted(b, compat, found, first)
<1>1. /\ first.id = f.id /\ first.kind = PrimaryActionKind(f.code)
      /\ first.risk = RiskForAction(PrimaryActionKind(f.code))
      /\ first.confidence = f.confidence
      /\ DOMAIN first = {"kind", "id", "targets", "steps", "risk", "confidence"}
  BY DEF RemediationAction
<1> HIDE DEF first
<1>2. \E named : a = [first EXCEPT !.confidence =
                        LoweredIf(named, LoweredIf(b.partial_scope, @))]
  BY DEF Adjusted
<1>3. PICK named : a = [first EXCEPT !.confidence =
                        LoweredIf(named, LoweredIf(b.partial_scope, @))]
  BY <1>2
<1> HIDE DEF a
<1>4. /\ a.id = f.id /\ a.kind = PrimaryActionKind(f.code) /\ a.risk = first.risk
      /\ a.confidence = LoweredIf(named, LoweredIf(b.partial_scope, f.confidence))
  BY <1>1, <1>3
<1>5. PrimaryActionKind(f.code) \in ActionKinds
  BY DEF PrimaryActionKind, ActionKinds
<1>6. first.risk \in Confidences
  BY <1>1 DEF RiskForAction, Confidences
<1>7. \A lower : \A c \in Confidences :
            /\ LoweredIf(lower, c) \in Confidences
            /\ ConfidenceRank(LoweredIf(lower, c)) >= ConfidenceRank(c)
  BY DEF LoweredIf, Lowered, Confidences, ConfidenceRank
<1>8. \A c \in Confidences : ConfidenceRank(c) \in Nat
  BY DEF Confidences, ConfidenceRank
<1>9. /\ a.confidence \in Confidences
      /\ ConfidenceRank(a.confidence) >= ConfidenceRank(f.confidence)
  <2> DEFINE once == LoweredIf(b.partial_scope, f.confidence)
  <2>1. once \in Confidences /\ ConfidenceRank(once) >= ConfidenceRank(f.confidence)
    BY <1>7
  <2>2. a.confidence = LoweredIf(named, once)
    BY <1>4
  <2> HIDE DEF once
  <2>3. /\ a.confidence \in Confidences
        /\ ConfidenceRank(a.confidence) >= ConfidenceRank(once)
    BY <1>7, <2>1, <2>2
  <2> QED
    BY <1>8, <2>1, <2>3
<1> QED
  BY <1>4, <1>5, <1>6, <1>9 DEF a, first

Covers(p) ==
    LET actionOf(f) == {i \in DOMAIN p.actions : p.actions[i].id = f.id} IN
    /\ \A f \in p.matched_findings :
        \/ f.code \in p.blocked_by /\ actionOf(f) = {}
        \/ /\ Cardinality(actionOf(f)) = 1
           /\ \A i \in actionOf(f) : ConfidenceRank(p.actions[i].confidence)
                                        >= ConfidenceRank(f.confidence)
    /\ \A i \in DOMAIN p.actions : \E f \in p.matched_findings :
        p.actions[i].id = f.id
    /\ \A i, j \in DOMAIN p.actions :
        i < j => PhaseForAction(p.actions[i].kind)
                    <= PhaseForAction(p.actions[j].kind)

(* A plan has one action for each finding that it matches and can act on,  *)
(* none surer than its finding, and names what it cannot act on; actions   *)
(* on dead code come first, then those on the architecture: whatever the   *)
(* scan and the targets (fix_plan, lib.rs:1386).                           *)
THEOREM PlansCoverTheirFindings ==
  ASSUME NEW b, NEW scan, scan.ok, AreNumbered(scan.report.findings), NEW targets
  PROVE  Covers(PlanOfScan(b, scan, targets).report)
<1> DEFINE p == PlanOfScan(b, scan, targets).report
           actionOf(f) == {i \in DOMAIN p.actions : p.actions[i].id = f.id}
           found == scan.report.findings
           matched == {f \in found : \E t \in targets : Matches(f, t)}
           compat == Compatibility(b.detections, b.signal_deps, b.signal_files)
           able == Actionable(matched)
           act(f) == Adjusted(b, compat, found, RemediationAction(f))
           S == {act(f) : f \in able}
<1> SUFFICES Covers(p)
  OBVIOUS
<1>1. /\ p.matched_findings = matched /\ p.actions = Ranked(S)
      /\ p.blocked_by = {f.code : f \in matched \ able}
  BY DEF PlanOfScan, Answered
<1>2. able = {f \in matched : PrimaryActionKind(f.code) # None}
  BY DEF Actionable
<1>3. matched \subseteq found
  OBVIOUS
<1> HIDE DEF p, matched, compat, able
<1>4. ASSUME NEW f \in able
      PROVE  /\ act(f).id = f.id /\ act(f).id \in Nat
             /\ act(f).kind \in ActionKinds /\ act(f).risk \in Confidences
             /\ act(f).confidence \in Confidences
             /\ ConfidenceRank(act(f).confidence) >= ConfidenceRank(f.confidence)
  <2>1. /\ f \in found /\ PrimaryActionKind(f.code) # None
        /\ f.id \in Nat /\ f.confidence \in Confidences
    BY <1>2, <1>3 DEF AreNumbered
  <2> QED
    BY <2>1, AdjustedActions
<1>5. \A f, h \in able : f.id = h.id => f = h
  BY <1>2, <1>3 DEF AreNumbered
<1>6. IsFiniteSet(S)
  <2> DEFINE image == [f \in able |-> act(f)]
  <2>1. IsFiniteSet(able)
    BY <1>2, <1>3, FS_Subset DEF AreNumbered
  <2>2. image \in Surjection(able, S)
    BY DEF Surjection
  <2> HIDE DEF S, image
  <2> QED
    BY <2>1, <2>2, FS_Surjection
<1> HIDE DEF act
<1>7. AreActions(S)
  BY <1>4, <1>5 DEF AreActions
<1>8. /\ p.actions \in [1..Cardinality(S) -> S] /\ DOMAIN p.actions = 1..Cardinality(S)
      /\ \A a \in S : \E i \in DOMAIN p.actions : p.actions[i] = a
      /\ \A i, j \in DOMAIN p.actions : p.actions[i] = p.actions[j] => i = j
      /\ \A i, j \in DOMAIN p.actions :
                i < j => PhaseForAction(p.actions[i].kind)
                            <= PhaseForAction(p.actions[j].kind)
  <2> HIDE DEF S
  <2> QED
    BY <1>1, <1>6, <1>7, RankedIsInOrder
<1>9. \A i \in DOMAIN p.actions : \E h \in able : p.actions[i] = act(h)
  <2>1. \A a \in S : \E h \in able : a = act(h)
    OBVIOUS
  <2>2. \A i \in DOMAIN p.actions : p.actions[i] \in S
    <3> HIDE DEF S
    <3> QED
      BY <1>8
  <2> HIDE DEF S
  <2> QED
    BY <2>1, <2>2
<1>10. \A f \in able : act(f) \in S
  OBVIOUS
<1> HIDE DEF S
<1>11. ASSUME NEW f \in matched, f \notin able
       PROVE  f.code \in p.blocked_by /\ actionOf(f) = {}
  <2>1. f.code \in p.blocked_by
    BY <1>1, <1>11
  <2>2. ASSUME NEW i \in actionOf(f)
        PROVE  FALSE
    <3>1. PICK h \in able : p.actions[i] = act(h)
      BY <1>9
    <3>2. h.id = f.id
      BY <1>4, <3>1
    <3>3. h = f
      BY <1>2, <1>3, <3>2 DEF AreNumbered
    <3> QED
      BY <1>11, <3>3
  <2> QED
    BY <2>1, <2>2
<1>12. ASSUME NEW f \in able
       PROVE  /\ Cardinality(actionOf(f)) = 1
              /\ \A i \in actionOf(f) : ConfidenceRank(p.actions[i].confidence)
                                            >= ConfidenceRank(f.confidence)
  <2>1. PICK i \in DOMAIN p.actions : p.actions[i] = act(f)
    BY <1>8, <1>10
  <2>2. ASSUME NEW j \in DOMAIN p.actions
        PROVE  p.actions[j].id = f.id <=> j = i
    <3>1. PICK h \in able : p.actions[j] = act(h)
      BY <1>9
    <3>2. p.actions[j].id = h.id /\ p.actions[i].id = f.id
      BY <1>4, <2>1, <3>1
    <3>3. h.id = f.id => p.actions[j] = p.actions[i]
      BY <1>5, <2>1, <3>1
    <3> QED
      BY <1>8, <3>2, <3>3
  <2>3. actionOf(f) = {i}
    BY <2>1, <2>2
  <2> QED
    BY <1>4, <2>1, <2>3, FS_Singleton
<1>13. ASSUME NEW i \in DOMAIN p.actions
       PROVE  \E f \in p.matched_findings : p.actions[i].id = f.id
  <2>1. PICK h \in able : p.actions[i] = act(h)
    BY <1>9
  <2>2. h \in p.matched_findings /\ p.actions[i].id = h.id
    BY <1>1, <1>2, <1>4, <2>1
  <2> QED
    BY <2>2
<1>14. \A f \in p.matched_findings :
            \/ f.code \in p.blocked_by /\ actionOf(f) = {}
            \/ /\ Cardinality(actionOf(f)) = 1
               /\ \A i \in actionOf(f) : ConfidenceRank(p.actions[i].confidence)
                                            >= ConfidenceRank(f.confidence)
  BY <1>1, <1>11, <1>12
<1>15. \A i, j \in DOMAIN p.actions :
             i < j => PhaseForAction(p.actions[i].kind)
                         <= PhaseForAction(p.actions[j].kind)
  BY <1>8
<1> QED
  BY <1>13, <1>14, <1>15 DEF Covers
=============================================================================
