------------------------- MODULE ControlFlowProofs --------------------------
(***************************************************************************)
(* What ControlFlow promises of the blocks of a body, their dominators,    *)
(* loops and preheaders, proved for every body the code generator can      *)
(* make. The iterative definitions of FlowGraph are shown to be what they  *)
(* compute: Closure is a least closed set, SolveDominators ends at the     *)
(* dominators, and BuildCfg and FlattenCfg undo each other. Then every     *)
(* pass is shown to keep bodies well formed, and inserting a preheader is  *)
(* shown to split the graph at one block, which keeps all the other loops  *)
(* and their preheaders. The invariant of the specification, Inv, and the  *)
(* theorems are at the end.                                                *)
(***************************************************************************)
EXTENDS ControlFlow, TLAPS, FiniteSetTheorems, SequenceTheorems, WellFoundedInduction

-----------------------------------------------------------------------------
(* Recursion.                                                              *)

\* A set of numbers has a smallest one.
LEMMA Least ==
    ASSUME NEW S, S \subseteq Nat, S # {}
    PROVE  \E m \in S : \A k \in S : m <= k
<1> DEFINE R == OpToRel(<, Nat)
<1>1. IsWellFoundedOn(R, Nat) BY NatLessThanWellFounded
<1>2. \A i, j \in Nat : i < j => <<i, j>> \in R BY DEF OpToRel
<1> HIDE DEF R
<1>3. \E m \in S : \A k \in S : ~ (<<k, m>> \in R) BY <1>1, WFMin, Zenon
<1>4. PICK m \in S : \A k \in S : ~ (<<k, m>> \in R) BY <1>3, Zenon
<1>5. \A k \in S : ~ (k < m) BY <1>2, <1>4, Zenon
<1>6. \A k \in S : k \in Nat /\ m \in Nat OBVIOUS
<1> QED BY <1>4, <1>5, <1>6, SMT

\* Induction up to n, and over all numbers: P is the set of those for
\* which it holds.
LEMMA UpTo ==
    ASSUME NEW n \in Nat, NEW P, 0 \in P, \A i \in 1 .. n : i - 1 \in P => i \in P
    PROVE  \A i \in 0 .. n : i \in P
<1> DEFINE Bad == {i \in 0 .. n : i \notin P}
<1>1. SUFFICES ASSUME Bad # {} PROVE FALSE OBVIOUS
<1>2. Bad \subseteq Nat OBVIOUS
<1>3. PICK m \in Bad : \A k \in Bad : m <= k
  <2> HIDE DEF Bad
  <2> QED BY <1>1, <1>2, Least
<1>4. m \in 1 .. n /\ m \notin P BY <1>3
<1>5. m - 1 \in 0 .. n /\ m - 1 \notin Bad
  <2>1. m - 1 \in 0 .. n /\ ~ (m <= m - 1) BY <1>4
  <2> HIDE DEF Bad
  <2> QED BY <1>3, <2>1
<1>6. m - 1 \in P BY <1>5
<1> QED BY <1>4, <1>6

\* P holds 0 and with every number the next: it holds them all.
LEMMA Onwards ==
    ASSUME NEW P, 0 \in P, \A i \in Nat : i \in P => i + 1 \in P
    PROVE  Nat \subseteq P
BY UpTo

\* The values of a fold with the steps g, one after the other.
IsFold(n, X, start, g) == n \in Nat /\ start \in X /\ g \in [X \X (1 .. n) -> X]
\* u lists the intermediate values of the fold.
Folding(n, X, start, g, u) ==
    /\ u \in [0 .. n -> X] /\ u[0] = start
    /\ \A i \in 1 .. n : u[i] = g[<<u[i - 1], i>>]

\* A fold has intermediate values: the function that counts them is defined.
LEMMA Iterated ==
    ASSUME NEW n, NEW X, NEW start, NEW g, IsFold(n, X, start, g)
    PROVE  \E u : Folding(n, X, start, g, u)
<1>0. n \in Nat /\ start \in X /\ g \in [X \X (1 .. n) -> X] BY DEF IsFold
<1> USE <1>0
<1> DEFINE Steps(u, k) == u[0] = start /\ \A i \in 1 .. k : u[i] = g[<<u[i - 1], i>>]
           P == {k \in 0 .. n : \E u \in [0 .. k -> X] : Steps(u, k)}
<1>1. 0 \in P
  <2> DEFINE u == [i \in 0 .. 0 |-> start]
  <2>1. u \in [0 .. 0 -> X] OBVIOUS
  <2>2. Steps(u, 0) OBVIOUS
  <2>3. 0 \in 0 .. n OBVIOUS
  <2> HIDE DEF u, Steps
  <2> QED BY <2>1, <2>2, <2>3
<1>2. ASSUME NEW k \in 1 .. n, k - 1 \in P PROVE k \in P
  <2>1. PICK u \in [0 .. k - 1 -> X] : Steps(u, k - 1) BY <1>2
  <2> DEFINE v == [i \in 0 .. k |-> IF i = k THEN g[<<u[k - 1], k>>] ELSE u[i]]
  <2>2. v \in [0 .. k -> X] OBVIOUS
  <2>3. Steps(v, k)
    <3>1. v[0] = start BY <2>1
    <3>2. ASSUME NEW i \in 1 .. k PROVE v[i] = g[<<v[i - 1], i>>]
      <4>1. i - 1 \in 0 .. k - 1 /\ v[i - 1] = u[i - 1] OBVIOUS
      <4>2. CASE i = k
        <5>1. v[k] = g[<<u[k - 1], k>>] /\ v[k - 1] = u[k - 1] BY <4>1, <4>2
        <5> HIDE DEF v
        <5> QED BY <4>2, <5>1
      <4>3. CASE i # k BY <2>1, <4>1, <4>3
      <4> QED BY <4>2, <4>3
    <3> QED BY <3>1, <3>2
  <2>4. k \in 0 .. n OBVIOUS
  <2> HIDE DEF v, Steps
  <2> QED BY <2>2, <2>3, <2>4
<1>3. \A k \in 0 .. n : k \in P
  <2> HIDE DEF P
  <2> QED BY <1>1, <1>2, UpTo
<1>4. n \in P BY <1>3
<1> QED BY <1>4 DEF Folding

-----------------------------------------------------------------------------
(* Repeating a step until nothing changes.                                 *)

\* f repeats r until it changes nothing: the recursive functions of the model.
Repeats(f, X, r) == f = [x \in X |-> IF r[x] = x THEN x ELSE f[r[x]]]

\* What r makes of x, sooner or later.
Orbit(X, r, x) ==
    {y \in X : \A C \in SUBSET X : x \in C /\ (\A c \in C : r[c] \in C) => y \in C}
\* Where the repetition that begins at x may stop.
Ends(X, r, x) == {y \in Orbit(X, r, x) : r[y] = y}

\* Whatever r is, there is a function that repeats it.
LEMMA SomeRepeats ==
    ASSUME NEW X, NEW r \in [X -> X]
    PROVE  \E f : Repeats(f, X, r)
<1> DEFINE f == [x \in X |-> CHOOSE y : y \in Ends(X, r, x)]
<1>1. ASSUME NEW x \in X, r[x] = x PROVE f[x] = x BY <1>1 DEF Orbit, Ends
<1>2. ASSUME NEW x \in X, r[x] # x PROVE f[x] = f[r[x]]
  <2>1. r[x] \in X OBVIOUS
  <2>2. ASSUME NEW y \in Orbit(X, r, r[x]) PROVE y \in Orbit(X, r, x) BY <2>2 DEF Orbit
  <2>3. ASSUME NEW y \in Orbit(X, r, x), y # x PROVE y \in Orbit(X, r, r[x])
    <3>1. y \in X BY DEF Orbit
    <3>2. ASSUME NEW C \in SUBSET X, r[x] \in C, \A c \in C : r[c] \in C PROVE y \in C
      <4>1. C \cup {x} \in SUBSET X /\ \A c \in C \cup {x} : r[c] \in C \cup {x} BY <3>2
      <4>2. y \in C \cup {x} BY <2>3, <4>1 DEF Orbit
      <4> QED BY <2>3, <4>2
    <3> QED BY <3>1, <3>2 DEF Orbit
  <2>4. Ends(X, r, x) = Ends(X, r, r[x]) BY <1>2, <2>2, <2>3 DEF Ends
  <2> QED BY <2>1, <2>4
<1>3. f = [x \in X |-> IF r[x] = x THEN x ELSE f[r[x]]]
  <2>1. \A x \in X : f[x] = IF r[x] = x THEN x ELSE f[r[x]] BY <1>1, <1>2
  <2>2. f = [x \in X |-> f[x]] OBVIOUS
  <2> HIDE DEF f
  <2> QED BY <2>1, <2>2
<1> HIDE DEF f
<1> QED BY <1>3 DEF Repeats

\* What holds of the start and is kept by r holds of the result, and the
\* result is one that r does not change, if m gets smaller all the while.
Shrinks(X, r, K, m) ==
    /\ r \in [X -> X] /\ K \in SUBSET X /\ \A x \in K : r[x] \in K
    /\ m \in [K -> Nat] /\ \A x \in K : r[x] # x => m[r[x]] < m[x]

\* Repeating r from x0 stays among K and stops at a value r does not change.
LEMMA Repeated ==
    ASSUME NEW X, NEW r, NEW f, Repeats(f, X, r), NEW K, NEW m, Shrinks(X, r, K, m), NEW x0 \in K
    PROVE  f[x0] \in K /\ r[f[x0]] = f[x0]
<1>0. /\ r \in [X -> X] /\ K \in SUBSET X /\ \A x \in K : r[x] \in K
      /\ m \in [K -> Nat] /\ \A x \in K : r[x] # x => m[r[x]] < m[x]
  BY DEF Shrinks
<1> USE <1>0
<1> DEFINE Good(x) == f[x] \in K /\ r[f[x]] = f[x]
           Bad == {x \in K : ~Good(x)}
           S == {m[x] : x \in Bad}
<1>1. SUFFICES ASSUME Bad # {} PROVE FALSE OBVIOUS
<1>2. S \subseteq Nat /\ S # {} BY <1>1
<1>3. PICK k \in S : \A j \in S : k <= j
  <2> HIDE DEF S
  <2> QED BY <1>2, Least
<1>4. PICK x \in Bad : k = m[x] BY <1>3
<1>5. x \in K /\ x \in X /\ ~Good(x) OBVIOUS
<1>6. f[x] = IF r[x] = x THEN x ELSE f[r[x]] BY <1>5 DEF Repeats
<1>7. r[x] # x BY <1>5, <1>6
<1>8. r[x] \in K /\ m[r[x]] < m[x] BY <1>5, <1>7
<1>9. m[r[x]] \in Nat /\ m[x] \in Nat BY <1>5, <1>8
<1>10. m[r[x]] \notin S BY <1>3, <1>4, <1>8, <1>9
<1>11. Good(r[x]) BY <1>8, <1>10
<1>12. Good(x) BY <1>6, <1>7, <1>11
<1> QED BY <1>5, <1>12

\* A proper subset of a finite set has fewer elements.
LEMMA Smaller ==
    ASSUME NEW big, IsFiniteSet(big), NEW small, small \subseteq big
    PROVE  /\ IsFiniteSet(small) /\ Cardinality(small) \in Nat /\ Cardinality(big) \in Nat
           /\ Cardinality(small) <= Cardinality(big)
           /\ small # big => Cardinality(small) < Cardinality(big)
BY FS_Subset, FS_CardinalityType

-----------------------------------------------------------------------------
(* Closure gives the least set that holds start and what next leads to.    *)

\* C holds with every element what next leads to.
Closed(next, C) == \A a \in C : next[a] \cap DOMAIN next \subseteq C
\* The closed sets that hold S.
Supersets(next, S) == {C \in SUBSET DOMAIN next : S \subseteq C /\ Closed(next, C)}

\* Closure is a closed set that holds the start, and the least of them.
LEMMA ClosureIs ==
    ASSUME NEW next, IsFiniteSet(DOMAIN next), NEW start \in SUBSET DOMAIN next
    PROVE  /\ Closure(next, start) \in Supersets(next, start)
           /\ \A C \in Supersets(next, start) : Closure(next, start) \subseteq C
<1> DEFINE D == DOMAIN next
           X == SUBSET D
           T(S) == {b \in D : b \in S \/ b \in UNION {next[a] : a \in S}}
           r == [S \in X |-> T(S)]
<1>1. r \in [X -> X] OBVIOUS
<1>2. \E f : Repeats(f, X, r)
  <2> HIDE DEF r, X
  <2> QED BY <1>1, SomeRepeats
<1> DEFINE Grow(f) == f = [S \in SUBSET DOMAIN next |->
                              LET onward == UNION {next[a] : a \in S}
                                  U == {b \in DOMAIN next : b \in S \/ b \in onward}
                              IN  IF U = S THEN S ELSE f[U]]
           grow == CHOOSE f : Grow(f)
<1>3. ASSUME NEW f PROVE Repeats(f, X, r) <=> Grow(f) BY DEF Repeats
<1>4. Repeats(grow, X, r)
  <2>1. \E f : Grow(f) BY <1>2, <1>3
  <2> HIDE DEF Grow
  <2>2. Grow(grow) BY <2>1
  <2> QED BY <1>3, <2>2
<1>5. Closure(next, start) = grow[start] BY Zenon DEF Closure
<1> DEFINE K == {S \in X : start \subseteq S /\ \A C \in Supersets(next, start) : S \subseteq C}
           m == [S \in K |-> Cardinality(D \ S)]
<1>6. K \in SUBSET X /\ start \in K BY DEF Supersets
<1>7. ASSUME NEW S \in K PROVE r[S] \in K
  <2>1. r[S] = T(S) OBVIOUS
  <2>2. T(S) \in X /\ start \subseteq T(S) OBVIOUS
  <2>3. ASSUME NEW C \in Supersets(next, start) PROVE T(S) \subseteq C BY DEF Supersets, Closed
  <2> HIDE DEF T
  <2> QED BY <2>1, <2>2, <2>3
<1>8. m \in [K -> Nat] BY Smaller
<1>9. ASSUME NEW S \in K, r[S] # S PROVE m[r[S]] < m[S]
  <2>1. r[S] \in K /\ S \subseteq r[S] /\ r[S] \subseteq D BY <1>7
  <2> DEFINE big == D \ S
             small == D \ r[S]
  <2>2. IsFiniteSet(big)
    <3>1. big \subseteq D OBVIOUS
    <3> HIDE DEF big
    <3> QED BY <3>1, Smaller
  <2>3. small \subseteq big /\ small # big BY <1>9, <2>1
  <2>4. Cardinality(small) < Cardinality(big)
    <3> HIDE DEF small, big
    <3> QED BY <2>2, <2>3, Smaller
  <2>5. m[r[S]] = Cardinality(small) /\ m[S] = Cardinality(big) BY <2>1
  <2> QED BY <2>4, <2>5
<1>10. grow[start] \in K /\ r[grow[start]] = grow[start]
  <2> HIDE DEF K, r, X, m, grow
  <2>1. Shrinks(X, r, K, m) BY <1>1, <1>6, <1>7, <1>8, <1>9 DEF Shrinks
  <2> QED BY <1>4, <1>6, <2>1, Repeated
<1> HIDE DEF grow
<1>11. Closed(next, grow[start])
  <2> DEFINE S == grow[start]
  <2>1. S \in X /\ T(S) = S BY <1>10
  <2> HIDE DEF S
  <2>2. \A a \in S : next[a] \cap D \subseteq S BY <2>1
  <2> QED BY <2>2 DEF Closed, S
<1>12. grow[start] \in Supersets(next, start) BY <1>10, <1>11 DEF Supersets
<1>13. \A C \in Supersets(next, start) : grow[start] \subseteq C BY <1>10
<1> QED BY <1>5, <1>12, <1>13

\* In other words.
LEMMA ClosureHolds ==
    ASSUME NEW next, IsFiniteSet(DOMAIN next), NEW start \in SUBSET DOMAIN next
    PROVE  /\ Closure(next, start) \subseteq DOMAIN next
           /\ start \subseteq Closure(next, start)
           /\ \A a \in Closure(next, start) : \A b \in DOMAIN next :
                  b \in next[a] => b \in Closure(next, start)
BY ClosureIs DEF Supersets, Closed

\* A set with the start that is closed under next holds all of the closure.
LEMMA ClosureWithin ==
    ASSUME NEW next, IsFiniteSet(DOMAIN next), NEW start \in SUBSET DOMAIN next,
           NEW C, start \subseteq C,
           \A a \in C : \A b \in DOMAIN next : a \in DOMAIN next /\ b \in next[a] => b \in C
    PROVE  Closure(next, start) \subseteq C
<1> DEFINE E == C \cap DOMAIN next
<1>1. E \in Supersets(next, start) BY DEF Supersets, Closed
<1>2. Closure(next, start) \subseteq E
  <2> HIDE DEF E
  <2> QED BY <1>1, ClosureIs
<1> QED BY <1>2

-----------------------------------------------------------------------------
(* The edges between the blocks.                                           *)

\* What the analyses need of the blocks: they are numbered from 1.
Graph(cfg) == DOMAIN cfg = 1 .. Len(cfg) /\ Len(cfg) \in Nat

\* An edge leads to a block.
LEMMA SuccessorsAreBlocks ==
    ASSUME NEW cfg, NEW b
    PROVE  CfgSuccessors(cfg, b) \subseteq DOMAIN cfg
BY DEF CfgSuccessors, BlocksLabelled

\* The predecessors of a block are those it is a successor of.
LEMMA Predecessors ==
    ASSUME NEW cfg, Graph(cfg)
    PROVE  CfgPredecessors(cfg) =
               [b \in 1 .. Len(cfg) |-> {p \in 1 .. Len(cfg) : b \in CfgSuccessors(cfg, p)}]
<1> DEFINE n == Len(cfg)
           places == Places(cfg)
           P(b) == {p \in DOMAIN cfg : b \in CfgSuccessors(cfg, p)}
           Raw(f) == f = [i \in 0 .. Len(places) |->
                             IF i = 0 THEN <<>>
                             ELSE LET before == f[i - 1]
                                  IN  IF before = before THEN Append(before, P(places[i])) ELSE before]
           w == CHOOSE f : Raw(f)
           u == [i \in 0 .. n |-> [b \in 1 .. i |-> P(b)]]
<1>1. CfgPredecessors(cfg) = w[Len(places)] BY Zenon DEF CfgPredecessors, Walk
<1>2. n \in Nat /\ DOMAIN cfg = 1 .. n BY DEF Graph
<1>3. Len(places) = n /\ \A i \in 1 .. n : places[i] = i BY <1>2 DEF Places
<1>4. Raw(u)
  <2>1. ASSUME NEW i \in 1 .. n PROVE u[i] = Append(u[i - 1], P(places[i]))
    <3> DEFINE s == [b \in 1 .. i - 1 |-> P(b)]
    <3>1. u[i - 1] = s /\ places[i] = i BY <1>2, <1>3
    <3>2. Len(s) = i - 1 /\ DOMAIN s = 1 .. i - 1 BY <1>2
    <3>3. Append(s, P(i)) = [b \in 1 .. i |-> P(b)]
      <4>1. Append(s, P(i)) = [b \in 1 .. Len(s) + 1 |-> IF b = Len(s) + 1 THEN P(i) ELSE s[b]]
        <5> HIDE DEF P
        <5> QED BY <3>2
      <4> QED BY <3>2, <4>1
    <3>4. u[i] = [b \in 1 .. i |-> P(b)] BY <1>2
    <3> HIDE DEF u, P, s
    <3> QED BY <3>1, <3>3, <3>4
  <2>2. u[0] = <<>> BY <1>2
  <2>3. u = [i \in 0 .. n |-> u[i]] OBVIOUS
  <2> HIDE DEF u, P, places
  <2>4. ASSUME NEW i \in 0 .. n PROVE u[i] = IF i = 0 THEN <<>> ELSE Append(u[i - 1], P(places[i]))
    <3>1. i = 0 \/ i \in 1 .. n BY <1>2
    <3> QED BY <2>1, <2>2, <3>1
  <2>5. u = [i \in 0 .. n |-> IF i = 0 THEN <<>> ELSE Append(u[i - 1], P(places[i]))]
    BY <2>3, <2>4
  <2> QED BY <1>3, <2>5
<1>5. Raw(w)
  <2> HIDE DEF Raw, u
  <2> QED BY <1>4
<1>6. w[n] = u[n]
  <2> DEFINE E == {i \in 0 .. n : w[i] = u[i]}
  <2> HIDE DEF w, u, P, places
  <2>1. 0 \in E BY <1>2, <1>3, <1>4, <1>5
  <2>2. ASSUME NEW i \in 1 .. n, i - 1 \in E PROVE i \in E
    <3>1. i \in 0 .. n /\ i # 0 /\ w[i - 1] = u[i - 1] BY <1>2, <2>2
    <3>2. w[i] = Append(w[i - 1], P(places[i])) BY <1>3, <1>5, <3>1
    <3>3. u[i] = Append(u[i - 1], P(places[i])) BY <1>3, <1>4, <3>1
    <3> QED BY <3>1, <3>2, <3>3
  <2> HIDE DEF E
  <2>3. \A i \in 0 .. n : i \in E BY <1>2, <2>1, <2>2, UpTo
  <2>4. n \in E BY <1>2, <2>3
  <2> QED BY <2>4 DEF E
<1>7. u[n] = [b \in 1 .. n |-> P(b)] BY <1>2
<1> HIDE DEF w, u
<1> QED BY <1>1, <1>2, <1>3, <1>6, <1>7

-----------------------------------------------------------------------------
(* The rounds of SolveDominators.                                          *)

\* What the solver works on: a set of blocks for each block.
DominatorSets(pred) == [DOMAIN pred -> SUBSET DOMAIN pred]
\* One step of a round: the dominators all predecessors have, and the block itself.
Meet(pred, dom, b) ==
    IF pred[b] = {} THEN dom
    ELSE [dom EXCEPT ![b] = {b} \cup {d \in DOMAIN pred : \A p \in pred[b] : d \in dom[p]}]
\* A round: every block but the entry, in order.
DominatorRound(pred, dom) ==
    LET step(sets, b) == Meet(pred, sets, b)
    IN  Walk(step, dom, [k \in 1..(Len(pred) - 1) |-> k + 1])

\* A step makes sets of blocks of sets of blocks.
LEMMA MeetIs ==
    ASSUME NEW n \in Nat \ {0}, NEW pred \in [1 .. n -> SUBSET (1 .. n)],
           NEW dom \in DominatorSets(pred), NEW b \in 1 .. n
    PROVE  Meet(pred, dom, b) \in DominatorSets(pred)
BY DEF Meet, DominatorSets

\* The sets a round goes through, one block after the other.
LEMMA DominatorRoundIs ==
    ASSUME NEW n \in Nat \ {0}, NEW pred \in [1 .. n -> SUBSET (1 .. n)],
           NEW dom \in DominatorSets(pred)
    PROVE  \E u \in [0 .. n - 1 -> DominatorSets(pred)] :
               /\ u[0] = dom /\ DominatorRound(pred, dom) = u[n - 1]
               /\ \A i \in 1 .. n - 1 : u[i] = Meet(pred, u[i - 1], i + 1)
<1> DEFINE X == DominatorSets(pred)
           N == n - 1
           seq == [k \in 1..(Len(pred) - 1) |-> k + 1]
           step(sets, b) == Meet(pred, sets, b)
           g == [x \in X \X (1 .. N) |-> Meet(pred, x[1], x[2] + 1)]
           Raw(f) == f = [i \in 0 .. Len(seq) |->
                             IF i = 0 THEN dom
                             ELSE LET before == f[i - 1]
                                  IN  IF before = before THEN step(before, seq[i]) ELSE before]
           w == CHOOSE f : Raw(f)
<1>1. DominatorRound(pred, dom) = w[Len(seq)] BY Zenon DEF DominatorRound, Walk
<1>2. N \in Nat /\ Len(pred) = n OBVIOUS
<1>3. Len(seq) = N /\ \A i \in 1 .. N : seq[i] = i + 1 BY <1>2
<1>4. g \in [X \X (1 .. N) -> X]
  <2>1. ASSUME NEW x \in X \X (1 .. N) PROVE Meet(pred, x[1], x[2] + 1) \in X BY MeetIs
  <2> HIDE DEF X
  <2> QED BY <2>1
<1>5. PICK u \in [0 .. N -> X] : u[0] = dom /\ \A i \in 1 .. N : u[i] = g[<<u[i - 1], i>>]
  <2>1. dom \in X OBVIOUS
  <2> HIDE DEF g, X, N
  <2>2. IsFold(N, X, dom, g) BY <1>2, <1>4, <2>1 DEF IsFold
  <2> QED BY <2>2, Iterated DEF Folding
<1>6. ASSUME NEW i \in 1 .. N PROVE u[i] = Meet(pred, u[i - 1], i + 1)
  <2> HIDE DEF X
  <2>1. i - 1 \in 0 .. N BY <1>2
  <2>2. u[i - 1] \in X BY <2>1
  <2>3. <<u[i - 1], i>> \in X \X (1 .. N) BY <2>2
  <2>4. g[<<u[i - 1], i>>] = Meet(pred, u[i - 1], i + 1) BY <2>3
  <2> HIDE DEF g
  <2> QED BY <1>5, <2>4
<1> HIDE DEF g
<1>7. Raw(u)
  <2> HIDE DEF seq, X
  <2>1. ASSUME NEW i \in 0 .. N PROVE u[i] = IF i = 0 THEN dom ELSE Meet(pred, u[i - 1], seq[i])
    BY <1>2, <1>3, <1>5, <1>6
  <2>2. u = [i \in 0 .. N |-> u[i]] OBVIOUS
  <2>3. u = [i \in 0 .. N |-> IF i = 0 THEN dom ELSE Meet(pred, u[i - 1], seq[i])] BY <2>1, <2>2
  <2> QED BY <1>3, <2>3
<1>8. Raw(w)
  <2> HIDE DEF Raw
  <2> QED BY <1>7
<1>9. w[N] = u[N]
  <2> DEFINE E == {i \in 0 .. N : w[i] = u[i]}
  <2> HIDE DEF w, seq
  <2>1. 0 \in E BY <1>2, <1>3, <1>7, <1>8
  <2>2. ASSUME NEW i \in 1 .. N, i - 1 \in E PROVE i \in E BY <1>2, <2>2, <1>3, <1>8, <1>7
  <2> HIDE DEF E
  <2>3. \A i \in 0 .. N : i \in E BY <1>2, <2>1, <2>2, UpTo
  <2>4. N \in E BY <1>2, <2>3
  <2> QED BY <2>4 DEF E
<1> HIDE DEF w
<1> QED BY <1>1, <1>3, <1>5, <1>6, <1>9

\* What every round keeps: nothing that is at least a fixed point is lost,
\* and no round adds anything.
AtMost(pred, dom) ==
    \A b \in DOMAIN pred : b # 1 /\ pred[b] # {} =>
        {b} \cup {d \in DOMAIN pred : \A p \in pred[b] : d \in dom[p]} \subseteq dom[b]
\* The sets still hold what must be in them, and a step can only take from them.
Kept(pred, must, dom) ==
    /\ dom \in DominatorSets(pred) /\ dom[1] = {1} /\ AtMost(pred, dom)
    /\ \A b, d \in DOMAIN pred : <<b, d>> \in must => d \in dom[b]
\* A pair <<b, d>> of must says that d has to stay a dominator of b: it is b
\* itself, or it has to stay one of each predecessor.
IsNecessary(pred, must) ==
    /\ \A d \in DOMAIN pred : <<1, d>> \in must => d = 1
    /\ \A b, d \in DOMAIN pred : <<b, d>> \in must /\ b # d =>
           \A p \in pred[b] : <<p, d>> \in must

\* One step loses nothing that is necessary and adds nothing.
LEMMA MeetKeeps ==
    ASSUME NEW n \in Nat \ {0}, NEW pred \in [1 .. n -> SUBSET (1 .. n)], NEW must,
           IsNecessary(pred, must), NEW dom, Kept(pred, must, dom), NEW b \in 2 .. n
    PROVE  /\ Kept(pred, must, Meet(pred, dom, b))
           /\ \A c \in 1 .. n : Meet(pred, dom, b)[c] \subseteq dom[c]
<1> DEFINE new == Meet(pred, dom, b)
           F(sets, c) == {c} \cup {d \in DOMAIN pred : \A p \in pred[c] : d \in sets[p]}
<1>1. CASE pred[b] = {} BY <1>1 DEF Meet
<1>2. CASE pred[b] # {}
  <2>1. b \in 1 .. n /\ b # 1 /\ dom \in [1 .. n -> SUBSET (1 .. n)]
    BY DEF Kept, DominatorSets
  <2>2. new = [dom EXCEPT ![b] = F(dom, b)] BY <1>2 DEF Meet
  <2>3. new[b] = F(dom, b) /\ \A c \in 1 .. n : c # b => new[c] = dom[c] BY <2>1, <2>2
  <2>4. \A c \in 1 .. n : new[c] \subseteq dom[c] BY <1>2, <2>1, <2>3 DEF Kept, AtMost
  <2>5. new \in DominatorSets(pred) BY <2>1, MeetIs DEF Kept
  <2>6. new[1] = {1} BY <2>1, <2>3 DEF Kept
  <2>7. ASSUME NEW c \in 1 .. n, c # 1, pred[c] # {} PROVE F(new, c) \subseteq new[c]
    <3>1. F(new, c) \subseteq F(dom, c) BY <2>4
    <3>2. F(dom, c) \subseteq dom[c] BY <2>7 DEF Kept, AtMost
    <3> HIDE DEF F, new
    <3> QED BY <2>3, <3>1, <3>2
  <2>8. ASSUME NEW c \in 1 .. n, NEW d \in 1 .. n, <<c, d>> \in must PROVE d \in new[c]
    BY <2>3, <2>8, <2>1 DEF Kept, IsNecessary
  <2> HIDE DEF new
  <2>9. Kept(pred, must, new) BY <2>5, <2>6, <2>7, <2>8 DEF Kept, AtMost
  <2> QED BY <2>4, <2>9 DEF new
<1> QED BY <1>1, <1>2

\* Nor does a round, and one that changes nothing has found a solution.
LEMMA RoundKeeps ==
    ASSUME NEW n \in Nat \ {0}, NEW pred \in [1 .. n -> SUBSET (1 .. n)], NEW must,
           IsNecessary(pred, must), NEW dom, Kept(pred, must, dom)
    PROVE  /\ Kept(pred, must, DominatorRound(pred, dom))
           /\ \A c \in 1 .. n : DominatorRound(pred, dom)[c] \subseteq dom[c]
           /\ DominatorRound(pred, dom) = dom => \A b \in 2 .. n : Meet(pred, dom, b) = dom
<1>1. dom \in DominatorSets(pred) BY DEF Kept
<1>2. PICK u \in [0 .. n - 1 -> DominatorSets(pred)] :
               /\ u[0] = dom /\ DominatorRound(pred, dom) = u[n - 1]
               /\ \A i \in 1 .. n - 1 : u[i] = Meet(pred, u[i - 1], i + 1)
  BY <1>1, DominatorRoundIs
<1> DEFINE N == n - 1
           Below(x, y) == \A c \in 1 .. n : x[c] \subseteq y[c]
           P == {i \in 0 .. N : Kept(pred, must, u[i]) /\ Below(u[i], dom)}
<1>3. N \in Nat OBVIOUS
<1>4. 0 \in P BY <1>2
<1>5. ASSUME NEW i \in 1 .. N, i - 1 \in P PROVE i \in P /\ Below(u[i], u[i - 1])
  <2>1. u[i] = Meet(pred, u[i - 1], i + 1) BY <1>2
  <2>2. Kept(pred, must, u[i - 1]) /\ Below(u[i - 1], dom) BY <1>5
  <2>3. i + 1 \in 2 .. n OBVIOUS
  <2> HIDE DEF Below
  <2>4. Kept(pred, must, u[i]) /\ Below(u[i], u[i - 1]) BY <2>1, <2>2, <2>3, MeetKeeps DEF Below
  <2>5. Below(u[i], dom) BY <2>2, <2>4 DEF Below
  <2> QED BY <2>4, <2>5
<1>6. \A i \in 0 .. N : i \in P
  <2> HIDE DEF P, N
  <2> QED BY <1>3, <1>4, <1>5, UpTo
<1>7. \A i \in 1 .. N : Below(u[i], u[i - 1])
  <2> TAKE i \in 1 .. N
  <2>1. i - 1 \in 0 .. N OBVIOUS
  <2> HIDE DEF P, N, Below
  <2> QED BY <1>5, <1>6, <2>1
<1>8. ASSUME u[N] = dom, NEW b \in 2 .. n PROVE Meet(pred, dom, b) = dom
  <2> DEFINE Q == {k \in 0 .. N : u[N - k] = dom}
  <2>1. 0 \in Q BY <1>8
  <2>2. ASSUME NEW k \in 1 .. N, k - 1 \in Q PROVE k \in Q
    <3> DEFINE i == N - (k - 1)
    <3>1. i \in 1 .. N /\ i - 1 = N - k /\ N - k \in 0 .. N OBVIOUS
    <3>2. u[i] = dom BY <2>2
    <3> HIDE DEF i
    <3>3. Below(dom, u[i - 1]) BY <1>7, <3>1, <3>2
    <3>4. Below(u[i - 1], dom) BY <1>6, <3>1
    <3>5. u[i - 1] \in [1 .. n -> SUBSET (1 .. n)] /\ dom \in [1 .. n -> SUBSET (1 .. n)]
      BY <1>1, <3>1 DEF DominatorSets
    <3>6. u[i - 1] = dom
      <4>1. \A c \in 1 .. n : u[i - 1][c] = dom[c] BY <3>3, <3>4
      <4> QED BY <3>5, <4>1
    <3> QED BY <3>1, <3>6
  <2>3. \A k \in 0 .. N : k \in Q
    <3> HIDE DEF Q, N
    <3> QED BY <1>3, <2>1, <2>2, UpTo
  <2>4. \A i \in 0 .. N : u[i] = dom
    <3> TAKE i \in 0 .. N
    <3>1. N - i \in 0 .. N /\ N - (N - i) = i OBVIOUS
    <3>2. u[N - (N - i)] = dom BY <2>3, <3>1
    <3> QED BY <3>1, <3>2
  <2>5. b - 1 \in 1 .. N /\ b - 1 - 1 \in 0 .. N /\ (b - 1) + 1 = b OBVIOUS
  <2>6. u[b - 1] = dom /\ u[b - 1 - 1] = dom BY <2>4, <2>5
  <2>7. u[b - 1] = Meet(pred, u[b - 1 - 1], (b - 1) + 1) BY <1>2, <2>5
  <2> QED BY <2>5, <2>6, <2>7
<1>9. N \in P BY <1>3, <1>6
<1> HIDE DEF N
<1> QED BY <1>2, <1>8, <1>9 DEF N

\* SolveDominators ends, with sets that no round changes, and without
\* losing what is necessary.
LEMMA Solution ==
    ASSUME NEW n \in Nat \ {0}, NEW pred \in [1 .. n -> SUBSET (1 .. n)], NEW must,
           IsNecessary(pred, must)
    PROVE  /\ Kept(pred, must, SolveDominators(pred))
           /\ \A b \in 2 .. n :
                  Meet(pred, SolveDominators(pred), b) = SolveDominators(pred)
<1> DEFINE X == [DOMAIN pred -> SUBSET DOMAIN pred]
           r == [dom \in X |-> DominatorRound(pred, dom)]
           start == [b \in DOMAIN pred |-> IF b = 1 THEN {1} ELSE DOMAIN pred]
           Solves(f) == f = [dom \in X |-> LET next == DominatorRound(pred, dom)
                                           IN  IF next = dom THEN dom ELSE f[next]]
           solve == CHOOSE f : Solves(f)
<1>1. SolveDominators(pred) = solve[start]
  BY Zenon DEF SolveDominators, DominatorRound, Meet
<1>2. r \in [X -> X]
  <2>1. ASSUME NEW dom \in X PROVE DominatorRound(pred, dom) \in X
    <3>1. dom \in DominatorSets(pred) BY DEF DominatorSets
    <3>2. PICK u \in [0 .. n - 1 -> DominatorSets(pred)] : DominatorRound(pred, dom) = u[n - 1]
      BY <3>1, DominatorRoundIs
    <3>3. n - 1 \in 0 .. n - 1 OBVIOUS
    <3>4. u[n - 1] \in DominatorSets(pred) BY <3>2, <3>3
    <3> QED BY <3>2, <3>4 DEF DominatorSets
  <2> HIDE DEF X
  <2> QED BY <2>1
<1>3. \E f : Repeats(f, X, r)
  <2> HIDE DEF r, X
  <2> QED BY <1>2, SomeRepeats
<1>4. ASSUME NEW f PROVE Repeats(f, X, r) <=> Solves(f)
  <2> HIDE DEF X
  <2>1. \A dom \in X : r[dom] = DominatorRound(pred, dom) OBVIOUS
  <2> HIDE DEF r
  <2>2. [x \in X |-> IF r[x] = x THEN x ELSE f[r[x]]] =
        [x \in X |-> IF DominatorRound(pred, x) = x THEN x ELSE f[DominatorRound(pred, x)]]
    BY <2>1
  <2> QED BY <2>2, Zenon DEF Repeats
<1>5. Repeats(solve, X, r)
  <2>1. \E f : Solves(f) BY <1>3, <1>4
  <2> HIDE DEF Solves
  <2>2. Solves(solve) BY <2>1
  <2> QED BY <1>4, <2>2
<1> DEFINE K == {dom \in X : Kept(pred, must, dom)}
           Pairs(dom) == {x \in (1 .. n) \X (1 .. n) : x[2] \in dom[x[1]]}
           m == [dom \in K |-> Cardinality(Pairs(dom))]
<1>6. K \in SUBSET X OBVIOUS
<1>7. ASSUME NEW dom \in K PROVE r[dom] \in K
  <2>1. Kept(pred, must, DominatorRound(pred, dom)) BY RoundKeeps
  <2>2. r[dom] = DominatorRound(pred, dom) OBVIOUS
  <2>3. r[dom] \in X BY <1>2
  <2> HIDE DEF r, X
  <2> QED BY <2>1, <2>2, <2>3
<1>8. ASSUME NEW dom \in K PROVE IsFiniteSet(Pairs(dom)) /\ Cardinality(Pairs(dom)) \in Nat
  <2>1. IsFiniteSet(1 .. n) BY FS_Interval
  <2>2. IsFiniteSet((1 .. n) \X (1 .. n)) BY <2>1, FS_Product
  <2>3. Pairs(dom) \subseteq (1 .. n) \X (1 .. n) OBVIOUS
  <2> HIDE DEF Pairs
  <2> QED BY <2>2, <2>3, Smaller
<1>9. m \in [K -> Nat]
  <2> HIDE DEF K, Pairs
  <2> QED BY <1>8
<1>10. ASSUME NEW dom \in K, r[dom] # dom PROVE m[r[dom]] < m[dom]
  <2>1. r[dom] = DominatorRound(pred, dom) /\ r[dom] \in K /\ dom \in K BY <1>7
  <2> DEFINE new == r[dom]
  <2>2. \A c \in 1 .. n : new[c] \subseteq dom[c] BY <2>1, RoundKeeps
  <2>3. new \in [1 .. n -> SUBSET (1 .. n)] /\ dom \in [1 .. n -> SUBSET (1 .. n)] BY <2>1
  <2>4. new # dom BY <1>10
  <2>5. PICK c \in 1 .. n : new[c] # dom[c]
    <3> HIDE DEF new
    <3> QED BY <2>3, <2>4
  <2> HIDE DEF new
  <2>6. PICK d \in dom[c] : d \notin new[c] BY <2>2, <2>5
  <2>7. <<c, d>> \in Pairs(dom) /\ <<c, d>> \notin Pairs(new) BY <2>3, <2>6
  <2>8. Pairs(new) \subseteq Pairs(dom) BY <2>2
  <2>9. Pairs(new) # Pairs(dom) BY <2>7
  <2>10. Cardinality(Pairs(new)) < Cardinality(Pairs(dom))
    <3> HIDE DEF Pairs, K
    <3> QED BY <1>8, <2>8, <2>9, Smaller
  <2>11. m[new] = Cardinality(Pairs(new)) /\ m[dom] = Cardinality(Pairs(dom))
    <3>1. new \in K BY <2>1 DEF new
    <3> HIDE DEF Pairs, K
    <3> QED BY <3>1
  <2> HIDE DEF m
  <2> QED BY <2>10, <2>11 DEF new
<1>11. start \in K
  <2>1. start \in X OBVIOUS
  <2>2. start[1] = {1} OBVIOUS
  <2>3. AtMost(pred, start)
    <3> SUFFICES ASSUME NEW b \in DOMAIN pred, b # 1
                 PROVE  {b} \cup {d \in DOMAIN pred : \A p \in pred[b] : d \in start[p]} \subseteq start[b]
      BY DEF AtMost
    <3>1. start[b] = DOMAIN pred OBVIOUS
    <3> HIDE DEF start
    <3> QED BY <3>1
  <2>4. ASSUME NEW b \in DOMAIN pred, NEW d \in DOMAIN pred, <<b, d>> \in must PROVE d \in start[b]
    BY <2>4 DEF IsNecessary
  <2> HIDE DEF start
  <2> QED BY <2>1, <2>2, <2>3, <2>4 DEF Kept, DominatorSets
<1>12. solve[start] \in K /\ r[solve[start]] = solve[start]
  <2> HIDE DEF K, X, r, m, solve, start
  <2>1. Shrinks(X, r, K, m) BY <1>2, <1>6, <1>7, <1>9, <1>10 DEF Shrinks
  <2> QED BY <1>5, <1>11, <2>1, Repeated
<1> HIDE DEF solve, start
<1>13. Kept(pred, must, solve[start]) BY <1>12
<1>14. DominatorRound(pred, solve[start]) = solve[start] BY <1>12
<1>15. \A b \in 2 .. n : Meet(pred, solve[start], b) = solve[start]
  BY <1>13, <1>14, RoundKeeps
<1> QED BY <1>1, <1>13, <1>15

-----------------------------------------------------------------------------
(* Dominators.                                                             *)

\* The blocks that the entry leads to without going through d.
Avoiding(cfg, d) ==
    Closure([b \in DOMAIN cfg |-> IF b = d THEN {} ELSE CfgSuccessors(cfg, b)], {1} \ {d})

\* They are the least set with the entry that is closed under the edges but d's.
LEMMA AvoidingIs ==
    ASSUME NEW cfg, Graph(cfg), cfg # <<>>, NEW d
    PROVE  /\ Avoiding(cfg, d) \subseteq DOMAIN cfg
           /\ 1 # d => 1 \in Avoiding(cfg, d)
           /\ \A a \in Avoiding(cfg, d) : a # d => CfgSuccessors(cfg, a) \subseteq Avoiding(cfg, d)
           /\ \A C : /\ 1 # d => 1 \in C
                     /\ \A a \in C : a \in DOMAIN cfg /\ a # d => CfgSuccessors(cfg, a) \subseteq C
                     => Avoiding(cfg, d) \subseteq C
<1> DEFINE next == [b \in DOMAIN cfg |-> IF b = d THEN {} ELSE CfgSuccessors(cfg, b)]
           start == {1} \ {d}
<1>1. DOMAIN next = DOMAIN cfg /\ IsFiniteSet(DOMAIN next) BY FS_Interval DEF Graph
<1>2. start \subseteq DOMAIN next BY DEF Graph
<1>3. \A b \in DOMAIN cfg : next[b] = IF b = d THEN {} ELSE CfgSuccessors(cfg, b) OBVIOUS
<1>4. \A b \in DOMAIN cfg : CfgSuccessors(cfg, b) \subseteq DOMAIN cfg BY SuccessorsAreBlocks
<1>5. Avoiding(cfg, d) = Closure(next, start) BY DEF Avoiding
<1> HIDE DEF next
<1>6. /\ Closure(next, start) \subseteq DOMAIN next /\ start \subseteq Closure(next, start)
      /\ \A a \in Closure(next, start) : \A b \in DOMAIN next :
             b \in next[a] => b \in Closure(next, start)
  BY <1>1, <1>2, ClosureHolds
<1>7. ASSUME NEW C, 1 # d => 1 \in C,
             \A a \in C : a \in DOMAIN cfg /\ a # d => CfgSuccessors(cfg, a) \subseteq C
      PROVE  Closure(next, start) \subseteq C
  <2>1. start \subseteq C BY <1>7
  <2>2. \A a \in C : \A b \in DOMAIN next : a \in DOMAIN next /\ b \in next[a] => b \in C
    BY <1>1, <1>3, <1>7
  <2> HIDE DEF start
  <2> QED BY <1>1, <1>2, <2>1, <2>2, ClosureWithin
<1>8. ASSUME NEW a \in Avoiding(cfg, d), a # d
      PROVE  CfgSuccessors(cfg, a) \subseteq Avoiding(cfg, d)
  <2>1. a \in DOMAIN cfg /\ next[a] = CfgSuccessors(cfg, a) BY <1>1, <1>3, <1>5, <1>6, <1>8
  <2> QED BY <1>1, <1>4, <1>5, <1>6, <2>1
<1>9. Avoiding(cfg, d) \subseteq DOMAIN cfg /\ (1 # d => 1 \in Avoiding(cfg, d))
  BY <1>1, <1>5, <1>6
<1> QED BY <1>5, <1>7, <1>8, <1>9

\* No block has number 0: avoiding it is no restriction.
LEMMA ReachableIs ==
    ASSUME NEW cfg, Graph(cfg), cfg # <<>>
    PROVE  ReachableFromEntry(cfg) = Avoiding(cfg, 0)
<1>1. [b \in DOMAIN cfg |-> IF b = 0 THEN {} ELSE CfgSuccessors(cfg, b)] =
      [b \in DOMAIN cfg |-> CfgSuccessors(cfg, b)]
  BY DEF Graph
<1>2. {1} \ {0} = {1} OBVIOUS
<1> QED BY <1>1, <1>2 DEF ReachableFromEntry, Avoiding

\* The dominators of a reachable block are itself and what no path to it avoids.
LEMMA DominatorsAre ==
    ASSUME NEW cfg, Graph(cfg), cfg # <<>>
    PROVE  /\ DOMAIN Dominators(cfg) = DOMAIN cfg
           /\ \A b \in DOMAIN cfg : b \notin ReachableFromEntry(cfg) => Dominators(cfg)[b] = {}
           /\ \A b \in ReachableFromEntry(cfg) : Dominators(cfg)[b] \subseteq DOMAIN cfg
           /\ \A b \in ReachableFromEntry(cfg), d \in DOMAIN cfg :
                  d \in Dominators(cfg)[b] <=> b \notin Avoiding(cfg, d) \/ b = d
<1> DEFINE n == Len(cfg)
           pred == CfgPredecessors(cfg)
           must == {x \in (1 .. n) \X (1 .. n) : x[1] \notin Avoiding(cfg, x[2]) \/ x[1] = x[2]}
           dom == SolveDominators(pred)
<1>1. n \in Nat \ {0} /\ DOMAIN cfg = 1 .. n BY DEF Graph
<1>2. pred = [b \in 1 .. n |-> {p \in 1 .. n : b \in CfgSuccessors(cfg, p)}] BY Predecessors
<1>3. pred \in [1 .. n -> SUBSET (1 .. n)] BY <1>2
<1>4. \A b, p \in 1 .. n : p \in pred[b] <=> b \in CfgSuccessors(cfg, p) BY <1>2
<1> HIDE DEF n, pred
<1>5. \A b, d \in 1 .. n : <<b, d>> \in must <=> b \notin Avoiding(cfg, d) \/ b = d OBVIOUS
<1> HIDE DEF must
<1>6. IsNecessary(pred, must) BY <1>1, <1>5, AvoidingIs, <1>3, <1>4 DEF IsNecessary
<1>7. /\ Kept(pred, must, dom)
      /\ \A b \in 2 .. n : Meet(pred, dom, b) = dom
  BY <1>1, <1>3, <1>6, Solution
<1> HIDE DEF dom
<1>8. Dominators(cfg) = [b \in 1 .. n |-> IF b \in ReachableFromEntry(cfg) THEN dom[b] ELSE {}]
  BY <1>3, <1>7 DEF Kept, DominatorSets, Dominators, AmongReachable, dom, pred
<1>9. ReachableFromEntry(cfg) \subseteq 1 .. n BY <1>1, ReachableIs, AvoidingIs
<1>10. ASSUME NEW b \in ReachableFromEntry(cfg), NEW d \in 1 .. n
       PROVE  d \in dom[b] <=> b \notin Avoiding(cfg, d) \/ b = d
  <2>1. b \in 1 .. n BY <1>9
  <2>2. ASSUME b \notin Avoiding(cfg, d) \/ b = d PROVE d \in dom[b]
    BY <1>3, <1>5, <1>7, <2>1, <2>2 DEF Kept
  <2>3. ASSUME d \in dom[b], b # d, b \in Avoiding(cfg, d) PROVE FALSE
    <3> DEFINE C == {a \in 1 .. n : d \notin dom[a] \/ a = d}
    <3>1. 1 # d => 1 \in C BY <1>1, <1>7 DEF Kept
    <3>2. ASSUME NEW a \in C, a # d, NEW c \in CfgSuccessors(cfg, a) PROVE c \in C
      BY <1>1, <1>4, SuccessorsAreBlocks, <1>7, <1>3, <3>2 DEF Kept, DominatorSets, Meet
    <3>3. Avoiding(cfg, d) \subseteq C
      <4> HIDE DEF C
      <4> QED BY <3>1, <3>2, AvoidingIs
    <3> QED BY <2>3, <3>3
  <2> QED BY <2>2, <2>3
<1>11. \A b \in 1 .. n : dom[b] \subseteq 1 .. n BY <1>3, <1>7 DEF Kept, DominatorSets
<1> QED BY <1>1, <1>8, <1>9, <1>10, <1>11

\* Without blocks there is no loop.
LEMMA NoBlocks ==
    ASSUME NEW cfg, Graph(cfg), cfg = <<>>
    PROVE  NaturalLoops(cfg) = {} /\ ReachableFromEntry(cfg) = {}
BY Predecessors DEF Graph, NaturalLoops, LoopsAlong, ReachableFromEntry

\* The blocks of a loop are what leads to a latch but through the header.
LEMMA LoopBlocksAre ==
    ASSUME NEW cfg, Graph(cfg), NEW h \in DOMAIN cfg, NEW latch \in DOMAIN cfg
    PROVE  /\ LoopBlocks(CfgPredecessors(cfg), h, latch) \subseteq DOMAIN cfg
           /\ {h, latch} \subseteq LoopBlocks(CfgPredecessors(cfg), h, latch)
           /\ \A b \in LoopBlocks(CfgPredecessors(cfg), h, latch) : b # h =>
                  CfgPredecessors(cfg)[b] \subseteq LoopBlocks(CfgPredecessors(cfg), h, latch)
           /\ \A C : /\ {h, latch} \subseteq C
                     /\ \A b \in C : b \in DOMAIN cfg /\ b # h => CfgPredecessors(cfg)[b] \subseteq C
                     => LoopBlocks(CfgPredecessors(cfg), h, latch) \subseteq C
<1> DEFINE n == Len(cfg)
           pred == CfgPredecessors(cfg)
           next == [b \in DOMAIN pred |-> IF b = h THEN {} ELSE pred[b]]
           start == {h, latch}
           L == LoopBlocks(pred, h, latch)
<1>1. n \in Nat /\ DOMAIN cfg = 1 .. n BY DEF Graph
<1>2. pred = [b \in 1 .. n |-> {p \in 1 .. n : b \in CfgSuccessors(cfg, p)}] BY Predecessors
<1>3. pred \in [1 .. n -> SUBSET (1 .. n)] BY <1>2
<1> HIDE DEF pred, n
<1>4. DOMAIN next = 1 .. n /\ IsFiniteSet(DOMAIN next) BY <1>1, FS_Interval, <1>3
<1>5. start \subseteq DOMAIN next BY <1>1, <1>4
<1>6. \A b \in 1 .. n : next[b] = IF b = h THEN {} ELSE pred[b] BY <1>3
<1>7. L = Closure(next, start) BY DEF LoopBlocks
<1> HIDE DEF next, start, L
<1>8. /\ L \subseteq 1 .. n /\ start \subseteq L
      /\ \A a \in L : \A b \in 1 .. n : b \in next[a] => b \in L
  BY <1>4, <1>5, <1>7, ClosureHolds
<1>9. ASSUME NEW b \in L, b # h PROVE pred[b] \subseteq L BY <1>6, <1>8, <1>9, <1>3
<1>10. ASSUME NEW C, {h, latch} \subseteq C,
              \A b \in C : b \in 1 .. n /\ b # h => pred[b] \subseteq C
       PROVE  L \subseteq C BY <1>4, <1>6, <1>10, <1>5, <1>7, ClosureWithin DEF start
<1> QED BY <1>1, <1>8, <1>9, <1>10 DEF L, start, pred

\* A loop has a header, which dominates all its latches.
LEMMA LoopsAre ==
    ASSUME NEW cfg, Graph(cfg), NEW loop \in NaturalLoops(cfg)
    PROVE  /\ cfg # <<>> /\ loop.header \in DOMAIN cfg
           /\ loop.latches # {} /\ loop.latches \subseteq ReachableFromEntry(cfg)
           /\ \A p \in DOMAIN cfg : p \in loop.latches <=>
                  /\ p \in ReachableFromEntry(cfg) /\ loop.header \in CfgSuccessors(cfg, p)
                  /\ p \notin Avoiding(cfg, loop.header) \/ p = loop.header
           /\ loop.blocks = UNION {LoopBlocks(CfgPredecessors(cfg), loop.header, p) : p \in loop.latches}
           /\ loop = [header |-> loop.header, latches |-> loop.latches, blocks |-> loop.blocks]
<1> DEFINE n == Len(cfg)
           pred == CfgPredecessors(cfg)
           dom == Dominators(cfg)
<1>1. cfg # <<>> BY NoBlocks
<1>2. n \in Nat \ {0} /\ DOMAIN cfg = 1 .. n BY <1>1 DEF Graph
<1>3. pred = [b \in 1 .. n |-> {p \in 1 .. n : b \in CfgSuccessors(cfg, p)}] BY Predecessors
<1>4. PICK h \in DOMAIN pred :
          /\ Latches(pred, dom, h) # {}
          /\ loop = [header |-> h, latches |-> Latches(pred, dom, h),
                     blocks |-> UNION {LoopBlocks(pred, h, p) : p \in Latches(pred, dom, h)}]
  <2> HIDE DEF pred, dom
  <2> QED BY DEF NaturalLoops, LoopsAlong, pred, dom
<1>5. h \in 1 .. n /\ loop.header = h /\ loop.latches = Latches(pred, dom, h)
  BY <1>3, <1>4
<1>6. /\ \A b \in 1 .. n : b \notin ReachableFromEntry(cfg) => dom[b] = {}
      /\ \A b \in ReachableFromEntry(cfg) : h \in dom[b] <=> b \notin Avoiding(cfg, h) \/ b = h
  BY <1>1, <1>2, <1>5, DominatorsAre
<1> HIDE DEF dom
<1>7. \A p \in 1 .. n : p \in Latches(pred, dom, h) <=>
          /\ p \in ReachableFromEntry(cfg) /\ h \in CfgSuccessors(cfg, p)
          /\ p \notin Avoiding(cfg, h) \/ p = h
  BY <1>3, <1>5, <1>6 DEF Latches
<1>8. Latches(pred, dom, h) \subseteq 1 .. n BY <1>3, <1>5 DEF Latches
<1> HIDE DEF pred
<1> QED BY <1>1, <1>2, <1>4, <1>5, <1>7, <1>8 DEF pred

\* Every edge back to a dominator belongs to a loop.
LEMMA LoopFound ==
    ASSUME NEW cfg, Graph(cfg), cfg # <<>>, NEW h \in DOMAIN cfg,
           NEW p \in ReachableFromEntry(cfg), h \in CfgSuccessors(cfg, p),
           p \notin Avoiding(cfg, h) \/ p = h
    PROVE  \E loop \in NaturalLoops(cfg) : loop.header = h
<1> DEFINE n == Len(cfg)
           pred == CfgPredecessors(cfg)
           dom == Dominators(cfg)
           loop == [header |-> h, latches |-> Latches(pred, dom, h),
                    blocks |-> UNION {LoopBlocks(pred, h, q) : q \in Latches(pred, dom, h)}]
<1>1. DOMAIN cfg = 1 .. n BY DEF Graph
<1>2. pred = [b \in 1 .. n |-> {q \in 1 .. n : b \in CfgSuccessors(cfg, q)}] BY Predecessors
<1>3. h \in dom[p] BY DominatorsAre
<1>4. p \in 1 .. n BY <1>1, ReachableIs, AvoidingIs
<1>5. p \in Latches(pred, dom, h) BY <1>1, <1>2, <1>3, <1>4 DEF Latches
<1>6. h \in DOMAIN pred BY <1>1, <1>2
<1>7. loop \in NaturalLoops(cfg)
  <2> HIDE DEF pred, dom
  <2> QED BY <1>5, <1>6 DEF NaturalLoops, LoopsAlong, pred, dom
<1>8. loop.header = h OBVIOUS
<1> QED BY <1>7, <1>8

\* A block of a loop other than the header has all its predecessors in the loop.
LEMMA LoopsEntered ==
    ASSUME NEW cfg, Graph(cfg), NEW loop \in NaturalLoops(cfg),
           NEW b \in loop.blocks \ {loop.header}
    PROVE  b # 1 /\ CfgPredecessors(cfg)[b] \subseteq loop.blocks
<1> DEFINE h == loop.header
           pred == CfgPredecessors(cfg)
           n == Len(cfg)
<1>1. PICK p \in loop.latches : b \in LoopBlocks(pred, h, p) BY LoopsAre
<1>2. /\ cfg # <<>> /\ h \in DOMAIN cfg
      /\ p \in DOMAIN cfg
      /\ p \notin Avoiding(cfg, h) \/ p = h BY LoopsAre, ReachableIs, AvoidingIs
<1>3. pred[b] \subseteq LoopBlocks(pred, h, p) BY <1>1, <1>2, LoopBlocksAre
<1>4. LoopBlocks(pred, h, p) \subseteq loop.blocks BY LoopsAre
<1>5. pred = [c \in 1 .. n |-> {q \in 1 .. n : c \in CfgSuccessors(cfg, q)}] BY Predecessors
<1> DEFINE C == {c \in DOMAIN cfg : c = h \/ c \notin Avoiding(cfg, h)}
<1>6. {h, p} \subseteq C BY <1>2
<1>7. ASSUME NEW c \in C, c # h PROVE pred[c] \subseteq C
  BY <1>5, <1>2, AvoidingIs, <1>7 DEF Graph
<1>8. LoopBlocks(pred, h, p) \subseteq C
  <2> HIDE DEF C, pred, h
  <2> QED BY <1>2, <1>6, <1>7, LoopBlocksAre DEF pred
<1>9. b # 1 BY <1>2, AvoidingIs, <1>1, <1>8 DEF h
<1> QED BY <1>3, <1>4, <1>9

-----------------------------------------------------------------------------
(* Sequences of sequences.                                                 *)

\* Sequences with the same elements are the same.
LEMMA SameSequences ==
    ASSUME NEW A, NEW s \in Seq(A), NEW t \in Seq(A), Len(s) = Len(t),
           \A i \in 1 .. Len(s) : s[i] = t[i]
    PROVE  s = t
OBVIOUS

\* The elements of two sequences put together.
LEMMA Joined ==
    ASSUME NEW A, NEW s \in Seq(A), NEW t \in Seq(A)
    PROVE  /\ s \o t \in Seq(A) /\ Len(s \o t) = Len(s) + Len(t)
           /\ \A i \in 1 .. Len(s) : (s \o t)[i] = s[i]
           /\ \A i \in 1 .. Len(t) : (s \o t)[Len(s) + i] = t[i]
OBVIOUS

\* The elements of a sequence with one more.
LEMMA Appended ==
    ASSUME NEW A, NEW s \in Seq(A), NEW x \in A
    PROVE  /\ Append(s, x) \in Seq(A) /\ Len(Append(s, x)) = Len(s) + 1
           /\ \A i \in 1 .. Len(s) : Append(s, x)[i] = s[i]
           /\ Append(s, x)[Len(s) + 1] = x
OBVIOUS

\* The first k elements of a sequence.
LEMMA PrefixIs ==
    ASSUME NEW A, NEW s \in Seq(A), NEW k \in 0 .. Len(s)
    PROVE  /\ SubSeq(s, 1, k) \in Seq(A) /\ Len(SubSeq(s, 1, k)) = k
           /\ \A i \in 1 .. k : SubSeq(s, 1, k)[i] = s[i] /\ i \in 1 .. Len(s)
OBVIOUS

\* One more of the first elements of a sequence.
LEMMA PrefixNext ==
    ASSUME NEW A, NEW s \in Seq(A), NEW k \in 1 .. Len(s)
    PROVE  /\ SubSeq(s, 1, k) = Append(SubSeq(s, 1, k - 1), s[k])
           /\ SubSeq(s, 1, k - 1) \in Seq(A) /\ Len(SubSeq(s, 1, k - 1)) = k - 1
           /\ SubSeq(s, 1, k) \in Seq(A) /\ Len(SubSeq(s, 1, k)) = k
<1> DEFINE p == SubSeq(s, 1, k - 1)
           q == SubSeq(s, 1, k)
<1>1. p \in Seq(A) /\ Len(p) = k - 1 /\ k \in Nat \ {0} /\ \A i \in 1 .. k - 1 : p[i] = s[i]
  OBVIOUS
<1>2. s[k] \in A OBVIOUS
<1>3. q \in Seq(A) /\ Len(q) = k /\ \A i \in 1 .. k : q[i] = s[i] OBVIOUS
<1> HIDE DEF p, q
<1>4. /\ Append(p, s[k]) \in Seq(A) /\ Len(Append(p, s[k])) = k
      /\ \A i \in 1 .. k - 1 : Append(p, s[k])[i] = p[i]
      /\ Append(p, s[k])[k] = s[k]
  BY <1>1, <1>2
<1>5. \A i \in 1 .. k : q[i] = Append(p, s[k])[i] BY <1>1, <1>3, <1>4
<1>6. q = Append(p, s[k]) BY <1>3, <1>4, <1>5, SameSequences
<1> QED BY <1>1, <1>3, <1>6 DEF p, q

\* None and all of the elements of a sequence.
LEMMA PrefixEnds ==
    ASSUME NEW A, NEW s \in Seq(A)
    PROVE  SubSeq(s, 1, 0) = <<>> /\ SubSeq(s, 1, Len(s)) = s
<1> DEFINE q == SubSeq(s, 1, Len(s))
<1>1. q \in Seq(A) /\ Len(q) = Len(s) /\ \A i \in 1 .. Len(q) : q[i] = s[i] OBVIOUS
<1> HIDE DEF q
<1>2. q = s BY <1>1, SameSequences
<1>3. SubSeq(s, 1, 0) = <<>> OBVIOUS
<1> QED BY <1>2, <1>3 DEF q

\* Flat gives the partial results of FlattenSeq.
Flattening(A, seqs, u) ==
    /\ u \in [0 .. Len(seqs) -> Seq(A)] /\ u[0] = <<>>
    /\ \A i \in 1 .. Len(seqs) : u[i] = u[i - 1] \o seqs[i]

\* Such partial results exist, and the last of them is FlattenSeq.
LEMMA FlattenSeqIs ==
    ASSUME NEW A, NEW seqs \in Seq(Seq(A))
    PROVE  \E u : Flattening(A, seqs, u) /\ FlattenSeq(seqs) = u[Len(seqs)]
<1> DEFINE n == Len(seqs)
           X == Seq(A)
           g == [x \in X \X (1 .. n) |-> x[1] \o seqs[x[2]]]
<1>1. n \in Nat /\ \A i \in 1 .. n : seqs[i] \in X OBVIOUS
<1>2. IsFold(n, X, <<>>, g)
  <2>1. ASSUME NEW x \in X \X (1 .. n) PROVE x[1] \o seqs[x[2]] \in X BY <1>1
  <2>2. <<>> \in X OBVIOUS
  <2> HIDE DEF X, n
  <2>3. g \in [X \X (1 .. n) -> X] BY <2>1
  <2> QED BY <1>1, <2>2, <2>3 DEF IsFold
<1>3. PICK u : Folding(n, X, <<>>, g, u)
  <2> HIDE DEF g, X, n
  <2> QED BY <1>2, Iterated
<1>4. u \in [0 .. n -> X] /\ u[0] = <<>> /\ \A i \in 1 .. n : u[i] = g[<<u[i - 1], i>>]
  BY <1>3 DEF Folding
<1>5. ASSUME NEW i \in 1 .. n PROVE u[i] = u[i - 1] \o seqs[i]
  <2> HIDE DEF X
  <2>1. i - 1 \in 0 .. n BY <1>1
  <2>2. <<u[i - 1], i>> \in X \X (1 .. n) BY <1>4, <2>1
  <2>3. g[<<u[i - 1], i>>] = u[i - 1] \o seqs[i] BY <2>2
  <2> HIDE DEF g
  <2> QED BY <1>4, <2>3
<1> HIDE DEF g
<1>6. CASE n = 0 BY <1>6, <1>4, <1>5 DEF FlattenSeq, Flattening
<1>7. CASE n # 0
  <2> DEFINE Raw(f) == f = [i \in 1 .. Len(seqs) |-> IF i = 1 THEN seqs[i] ELSE f[i - 1] \o seqs[i]]
             w == CHOOSE f : Raw(f)
             v == [i \in 1 .. n |-> u[i]]
  <2>1. FlattenSeq(seqs) = w[n] BY <1>7, Zenon DEF FlattenSeq
  <2>2. Raw(v)
    <3>1. ASSUME NEW i \in 1 .. n PROVE v[i] = IF i = 1 THEN seqs[i] ELSE v[i - 1] \o seqs[i]
      <4>1. CASE i = 1
        <5>0. 1 \in 1 .. n /\ 1 - 1 = 0 BY <1>1, <4>1
        <5>1. u[1] = <<>> \o seqs[1] BY <1>4, <1>5, <5>0
        <5>2. seqs[1] \in Seq(A) BY <1>1, <4>1
        <5>3. <<>> \o seqs[1] = seqs[1] BY <5>2
        <5> QED BY <4>1, <5>1, <5>3
      <4>2. CASE i # 1
        <5>1. i - 1 \in 1 .. n BY <1>1, <4>2
        <5> QED BY <1>5, <4>2, <5>1
      <4> QED BY <4>1, <4>2
    <3>2. v = [i \in 1 .. n |-> v[i]] OBVIOUS
    <3> HIDE DEF v
    <3>3. v = [i \in 1 .. n |-> IF i = 1 THEN seqs[i] ELSE v[i - 1] \o seqs[i]] BY <3>1, <3>2
    <3> QED BY <3>3
  <2>3. Raw(w)
    <3> HIDE DEF Raw, v
    <3> QED BY <2>2
  <2> HIDE DEF w
  <2>4. \A i \in 0 .. n : i = 0 \/ w[i] = u[i]
    <3> DEFINE E == {i \in 0 .. n : i = 0 \/ w[i] = u[i]}
    <3>1. 0 \in E BY <1>1
    <3>2. ASSUME NEW i \in 1 .. n, i - 1 \in E PROVE i \in E
      <4>1. w[i] = IF i = 1 THEN seqs[i] ELSE w[i - 1] \o seqs[i] BY <2>3
      <4>2. v[i] = IF i = 1 THEN seqs[i] ELSE v[i - 1] \o seqs[i]
        <5> HIDE DEF v
        <5> QED BY <2>2
      <4>3. i # 1 => i - 1 \in 1 .. n /\ w[i - 1] = u[i - 1] BY <1>1, <3>2
      <4>4. i # 1 => v[i - 1] = u[i - 1] BY <4>3
      <4>5. w[i] = v[i] BY <4>1, <4>2, <4>3, <4>4
      <4>6. v[i] = u[i] OBVIOUS
      <4> QED BY <1>1, <4>5, <4>6
    <3>3. \A i \in 0 .. n : i \in E
      <4> HIDE DEF E
      <4> QED BY <1>1, <3>1, <3>2, UpTo
    <3> QED BY <3>3
  <2>5. w[n] = u[n] BY <1>1, <1>7, <2>4
  <2> QED BY <1>4, <1>5, <2>1, <2>5 DEF Flattening
<1> QED BY <1>6, <1>7

\* Sequences that begin alike flatten alike so far.
LEMMA FlattenSame ==
    ASSUME NEW A, NEW s \in Seq(Seq(A)), NEW t \in Seq(Seq(A)), NEW u, NEW v,
           Flattening(A, s, u), Flattening(A, t, v),
           NEW n \in Nat, n <= Len(s), n <= Len(t), \A i \in 1 .. n : s[i] = t[i]
    PROVE  u[n] = v[n]
<1> DEFINE E == {i \in 0 .. n : u[i] = v[i]}
<1>1. 0 \in E BY DEF Flattening
<1>2. ASSUME NEW i \in 1 .. n, i - 1 \in E PROVE i \in E
  <2>1. i \in 1 .. Len(s) /\ i \in 1 .. Len(t) /\ i \in 0 .. n OBVIOUS
  <2>2. u[i] = u[i - 1] \o s[i] BY <2>1 DEF Flattening
  <2>3. v[i] = v[i - 1] \o t[i] BY <2>1 DEF Flattening
  <2> QED BY <1>2, <2>1, <2>2, <2>3
<1>3. \A i \in 0 .. n : i \in E
  <2> HIDE DEF E
  <2> QED BY <1>1, <1>2, UpTo
<1> QED BY <1>3

\* Flattening a sequence with one more member.
LEMMA FlattenSeqGrows ==
    ASSUME NEW A, NEW seqs \in Seq(Seq(A)), NEW s \in Seq(A)
    PROVE  /\ FlattenSeq(seqs) \in Seq(A) /\ FlattenSeq(<<>>) = <<>>
           /\ FlattenSeq(Append(seqs, s)) = FlattenSeq(seqs) \o s
<1> DEFINE n == Len(seqs)
           t == Append(seqs, s)
<1>1. n \in Nat /\ t \in Seq(Seq(A)) /\ Len(t) = n + 1 /\ t[n + 1] = s /\ \A i \in 1 .. n : seqs[i] = t[i]
  BY Appended
<1> HIDE DEF t
<1>2. PICK u : Flattening(A, seqs, u) /\ FlattenSeq(seqs) = u[n] BY FlattenSeqIs
<1>3. PICK v : Flattening(A, t, v) /\ FlattenSeq(t) = v[n + 1] BY <1>1, FlattenSeqIs
<1>4. u[n] = v[n]
  <2>1. n <= Len(seqs) /\ n <= Len(t) BY <1>1
  <2> HIDE DEF n
  <2> QED BY <1>1, <1>2, <1>3, <2>1, FlattenSame
<1>5. v[n + 1] = v[n] \o s
  <2>1. n + 1 \in 1 .. Len(t) /\ (n + 1) - 1 = n BY <1>1
  <2> QED BY <1>1, <1>3, <2>1 DEF Flattening
<1>6. u[n] \in Seq(A) BY <1>1, <1>2 DEF Flattening
<1>7. FlattenSeq(<<>>) = <<>> BY DEF FlattenSeq
<1> QED BY <1>2, <1>3, <1>4, <1>5, <1>6, <1>7 DEF t

-----------------------------------------------------------------------------
(* Blocks and the bodies they are made of.                                 *)

\* The instructions inside a block: its label is kept apart.
Steps == {inst \in Instructions : inst.op # "Label"}
\* The basic blocks, a label of 0 standing for none.
Blocks == [label : Nat, insts : Seq(Steps)]

\* A body: every label is defined once and is not 0, and jumps lead to labels.
WfBody(insts) ==
    /\ insts \in Seq(Instructions)
    /\ \A i \in 1 .. Len(insts) :
           /\ insts[i].op = "Label" => insts[i] = LabelI(insts[i].arg0) /\ insts[i].arg0 # 0
           /\ insts[i].op = "Jump" => insts[i].arg0 # 0
    /\ \A i, j \in 1 .. Len(insts) :
           insts[i].op = "Label" /\ insts[i] = insts[j] => i = j

\* A block: control is transferred at its end alone.
WfBlock(block) ==
    /\ block \in Blocks
    /\ \A i \in 1 .. Len(block.insts) :
           /\ TransfersControl(block.insts[i]) => i = Len(block.insts)
           /\ block.insts[i].op = "Jump" => block.insts[i].arg0 # 0
\* Blocks with different labels.
WfCfg(cfg) ==
    /\ cfg \in Seq(Blocks)
    /\ \A b \in 1 .. Len(cfg) : WfBlock(cfg[b])
    /\ \A b, c \in 1 .. Len(cfg) : cfg[b].label # 0 /\ cfg[b].label = cfg[c].label => b = c
\* Every block begins because of a label, or because the one before ends.
Regular(cfg) ==
    /\ WfCfg(cfg)
    /\ \A b \in 1 .. Len(cfg) : cfg[b].label = 0 =>
           cfg[b].insts # <<>> /\ (b = 1 \/ EndsWithTransfer(cfg[b - 1]))

\* Blocks are numbered from 1.
LEMMA WfIsGraph ==
    ASSUME NEW cfg, WfCfg(cfg)
    PROVE  Graph(cfg)
BY DEF WfCfg, Graph

\* The instruction that defines a label.
LEMMA LabelsAre ==
    ASSUME NEW l \in Nat
    PROVE  LabelI(l) \in Instructions /\ LabelI(l).op = "Label" /\ LabelI(l).arg0 = l
<1>1. LabelI(l) = [op |-> "Label", arg0 |-> l, arg1 |-> 0, result |-> 0, imm |-> 0,
                   cond |-> "UNCONDITIONAL"]
  <2>1. Blank = [op |-> "VoidReturn", arg0 |-> 0, arg1 |-> 0, result |-> 0, imm |-> 0,
                 cond |-> "UNCONDITIONAL"]
    BY DEF Blank, NoSymbol
  <2>2. LabelI(l) = [[Blank EXCEPT !.op = "Label"] EXCEPT !.arg0 = l] BY DEF LabelI, Plain
  <2>3. [Blank EXCEPT !.op = "Label"] =
        [op |-> "Label", arg0 |-> 0, arg1 |-> 0, result |-> 0, imm |-> 0, cond |-> "UNCONDITIONAL"]
    BY <2>1
  <2> QED BY <2>2, <2>3
<1>2. "Label" \in Ops /\ "UNCONDITIONAL" \in Conditions BY DEF Ops, Conditions
<1> QED BY <1>1, <1>2 DEF Instructions

\* A block with one field changed.
LEMMA ChangedBlock ==
    ASSUME NEW block \in Blocks, NEW x
    PROVE  /\ [block EXCEPT !.insts = x] = [label |-> block.label, insts |-> x]
           /\ [block EXCEPT !.label = x] = [label |-> x, insts |-> block.insts]
BY DEF Blocks

\* The text of a block is its label, if it has one, and its instructions.
LEMMA BlockTextIs ==
    ASSUME NEW block \in Blocks
    PROVE  /\ BlockText(block) \in Seq(Instructions)
           /\ block.label = 0 => BlockText(block) = block.insts
           /\ block.label # 0 =>
                  /\ Len(BlockText(block)) = Len(block.insts) + 1
                  /\ BlockText(block)[1] = LabelI(block.label)
                  /\ \A i \in 1 .. Len(block.insts) : BlockText(block)[i + 1] = block.insts[i]
<1>1. block.label \in Nat /\ block.insts \in Seq(Steps) BY DEF Blocks
<1>2. block.insts \in Seq(Instructions) BY <1>1 DEF Steps
<1>3. LabelI(block.label) \in Instructions BY <1>1, LabelsAre
<1>4. CASE block.label = 0 BY <1>4, <1>2 DEF BlockText, NoSymbol
<1>5. CASE block.label # 0
  <2> DEFINE l == <<LabelI(block.label)>>
  <2>1. BlockText(block) = l \o block.insts BY <1>5 DEF BlockText, NoSymbol
  <2>2. l \in Seq(Instructions) /\ Len(l) = 1 /\ l[1] = LabelI(block.label) BY <1>3
  <2> HIDE DEF l
  <2>3. /\ l \o block.insts \in Seq(Instructions) /\ Len(l \o block.insts) = Len(block.insts) + 1
        /\ (l \o block.insts)[1] = l[1]
        /\ \A i \in 1 .. Len(block.insts) : (l \o block.insts)[1 + i] = block.insts[i]
    BY <1>2, <2>2, Joined
  <2>4. \A i \in 1 .. Len(block.insts) : i + 1 = 1 + i OBVIOUS
  <2> QED BY <1>5, <2>1, <2>2, <2>3, <2>4
<1> QED BY <1>4, <1>5

\* The text of blocks with one more.
LEMMA FlattenCfgGrows ==
    ASSUME NEW cfg \in Seq(Blocks), NEW block \in Blocks
    PROVE  /\ FlattenCfg(cfg) \in Seq(Instructions) /\ FlattenCfg(<<>>) = <<>>
           /\ FlattenCfg(Append(cfg, block)) = FlattenCfg(cfg) \o BlockText(block)
<1> DEFINE texts == [b \in DOMAIN cfg |-> BlockText(cfg[b])]
           longer == Append(cfg, block)
           t == [b \in DOMAIN longer |-> BlockText(longer[b])]
           n == Len(cfg)
<1>1. n \in Nat /\ DOMAIN cfg = 1 .. n /\ DOMAIN longer = 1 .. n + 1 OBVIOUS
<1>2. longer[n + 1] = block /\ \A b \in 1 .. n : longer[b] = cfg[b] /\ cfg[b] \in Blocks
  BY Appended
<1> HIDE DEF longer
<1>3. texts \in Seq(Seq(Instructions)) /\ Len(texts) = n BY <1>1, <1>2, BlockTextIs
<1>4. BlockText(block) \in Seq(Instructions) BY BlockTextIs
<1>5. t = Append(texts, BlockText(block))
  <2>1. /\ Append(texts, BlockText(block)) \in Seq(Seq(Instructions))
        /\ Len(Append(texts, BlockText(block))) = n + 1
        /\ \A b \in 1 .. n : Append(texts, BlockText(block))[b] = texts[b]
        /\ Append(texts, BlockText(block))[n + 1] = BlockText(block)
    <3> HIDE DEF texts, n
    <3> QED BY <1>3, <1>4, Appended
  <2>2. \A b \in 1 .. n + 1 : t[b] = BlockText(longer[b]) BY <1>1
  <2>3. t \in Seq(Seq(Instructions)) /\ Len(t) = n + 1
    <3>1. \A b \in 1 .. n + 1 : longer[b] \in Blocks BY <1>1, <1>2
    <3> QED BY <1>1, <3>1, BlockTextIs
  <2>4. \A b \in 1 .. n + 1 : t[b] = Append(texts, BlockText(block))[b]
    <3> TAKE b \in 1 .. n + 1
    <3>1. b = n + 1 \/ b \in 1 .. n BY <1>1
    <3>2. b \in 1 .. n => texts[b] = BlockText(cfg[b]) BY <1>1
    <3> HIDE DEF t, texts
    <3> QED BY <1>2, <2>1, <2>2, <3>1, <3>2
  <2> HIDE DEF t, texts
  <2> QED BY <2>1, <2>3, <2>4, SameSequences
<1>6. FlattenCfg(cfg) = FlattenSeq(texts) /\ FlattenCfg(longer) = FlattenSeq(t) BY DEF FlattenCfg
<1>7. FlattenCfg(<<>>) = <<>> BY DEF FlattenCfg, FlattenSeq
<1> HIDE DEF texts, t
<1> QED BY <1>3, <1>4, <1>5, <1>6, <1>7, FlattenSeqGrows DEF longer

-----------------------------------------------------------------------------
(* What BuildCfg has when it has seen some of the body.                    *)

\* What BuildCfg has in hand: the finished blocks, and the one it adds to.
Partial == [done : Seq(Blocks), current : Blocks]
\* u lists what BuildCfg has after each instruction.
Building(insts, u) ==
    /\ u \in [0 .. Len(insts) -> Partial]
    /\ u[0] = [done |-> <<>>, current |-> NoBlock]
    /\ \A i \in 1 .. Len(insts) : u[i] = AddToBlock(u[i - 1], insts[i])

\* The block without label and instructions is the one BuildCfg drops.
LEMMA NoBlockIs ==
    /\ NoBlock \in Blocks /\ NoBlock.label = 0 /\ NoBlock.insts = <<>>
    /\ \A block \in Blocks : block.label = 0 /\ block.insts = <<>> => block = NoBlock
BY DEF Blocks, NoBlock, NoSymbol

\* What an instruction does: a label begins a block, a transfer ends it, any
\* other instruction is added to it.
LEMMA AddToBlockIs ==
    ASSUME NEW acc \in Partial, NEW inst \in Instructions
    PROVE  /\ AddToBlock(acc, inst) \in Partial
           /\ inst.op = "Label" => AddToBlock(acc, inst) =
                  [done |-> IF acc.current = NoBlock THEN acc.done ELSE Append(acc.done, acc.current),
                   current |-> [label |-> inst.arg0, insts |-> <<>>]]
           /\ inst.op # "Label" /\ TransfersControl(inst) => AddToBlock(acc, inst) =
                  [done |-> Append(acc.done, [label |-> acc.current.label,
                                              insts |-> Append(acc.current.insts, inst)]),
                   current |-> NoBlock]
           /\ inst.op # "Label" /\ ~TransfersControl(inst) => AddToBlock(acc, inst) =
                  [done |-> acc.done,
                   current |-> [label |-> acc.current.label,
                                insts |-> Append(acc.current.insts, inst)]]
<1> DEFINE c == acc.current
           longer == [label |-> c.label, insts |-> Append(c.insts, inst)]
<1>1. acc.done \in Seq(Blocks) /\ c \in Blocks /\ acc = [done |-> acc.done, current |-> c]
  BY DEF Partial
<1>2. c.label \in Nat /\ c.insts \in Seq(Steps) /\ c = [label |-> c.label, insts |-> c.insts]
  BY <1>1 DEF Blocks
<1>3. [c EXCEPT !.insts = Append(@, inst)] = longer
  <2>1. c \in Blocks BY <1>1
  <2> HIDE DEF c
  <2> QED BY <2>1, ChangedBlock
<1>4. inst.op # "Label" => longer \in Blocks BY <1>2 DEF Steps, Blocks
<1>5. inst.arg0 \in Nat BY DEF Instructions
<1>6. [NoBlock EXCEPT !.label = inst.arg0] = [label |-> inst.arg0, insts |-> <<>>]
  BY DEF NoBlock
<1>7. [label |-> inst.arg0, insts |-> <<>>] \in Blocks BY <1>5 DEF Blocks
<1>8. CASE inst.op = "Label"
  <2>1. AddToBlock(acc, inst) =
            [done |-> IF c = NoBlock THEN acc.done ELSE Append(acc.done, c),
             current |-> [label |-> inst.arg0, insts |-> <<>>]]
    BY <1>6, <1>8 DEF AddToBlock, Flushed
  <2>2. (IF c = NoBlock THEN acc.done ELSE Append(acc.done, c)) \in Seq(Blocks) BY <1>1
  <2> QED BY <1>7, <1>8, <2>1, <2>2 DEF Partial
<1>9. CASE inst.op # "Label" /\ TransfersControl(inst)
  <2>1. AddToBlock(acc, inst) = [done |-> Append(acc.done, longer), current |-> NoBlock]
    BY <1>3, <1>9 DEF AddToBlock
  <2>2. Append(acc.done, longer) \in Seq(Blocks) BY <1>1, <1>4, <1>9
  <2> HIDE DEF longer
  <2>3. AddToBlock(acc, inst) \in Partial BY <2>1, <2>2, NoBlockIs DEF Partial
  <2> QED BY <1>9, <2>1, <2>3 DEF longer
<1>10. CASE inst.op # "Label" /\ ~TransfersControl(inst)
  <2>1. AddToBlock(acc, inst) = [acc EXCEPT !.current = longer] BY <1>3, <1>10 DEF AddToBlock
  <2>2. AddToBlock(acc, inst) = [done |-> acc.done, current |-> longer]
    <3> HIDE DEF longer
    <3> QED BY <1>1, <2>1
  <2>3. AddToBlock(acc, inst) \in Partial
    <3> HIDE DEF longer
    <3> QED BY <1>1, <1>4, <1>10, <2>2 DEF Partial
  <2> QED BY <1>10, <2>2, <2>3
<1> QED BY <1>8, <1>9, <1>10

\* BuildCfg goes through such values, and flushes the last.
LEMMA BuildingIs ==
    ASSUME NEW insts \in Seq(Instructions)
    PROVE  \E u : Building(insts, u) /\ BuildCfg(insts) = Flushed(u[Len(insts)])
<1> DEFINE n == Len(insts)
           start == [done |-> <<>>, current |-> NoBlock]
           g == [x \in Partial \X (1 .. n) |-> AddToBlock(x[1], insts[x[2]])]
           Raw(f) == f = [i \in 0 .. Len(insts) |->
                             IF i = 0 THEN start
                             ELSE LET before == f[i - 1]
                                  IN  IF before = before THEN AddToBlock(before, insts[i]) ELSE before]
           w == CHOOSE f : Raw(f)
<1>1. n \in Nat /\ \A i \in 1 .. n : insts[i] \in Instructions OBVIOUS
<1>2. BuildCfg(insts) = Flushed(w[n]) BY Zenon DEF BuildCfg, Walk
<1>3. start \in Partial BY NoBlockIs DEF Partial
<1>4. IsFold(n, Partial, start, g)
  <2>1. ASSUME NEW x \in Partial \X (1 .. n) PROVE AddToBlock(x[1], insts[x[2]]) \in Partial
    BY <1>1, AddToBlockIs
  <2> HIDE DEF n, start
  <2>2. g \in [Partial \X (1 .. n) -> Partial] BY <2>1
  <2> HIDE DEF g
  <2> QED BY <1>1, <1>3, <2>2 DEF IsFold
<1>5. PICK u : Folding(n, Partial, start, g, u)
  <2> HIDE DEF g, n, start
  <2> QED BY <1>4, Iterated
<1>6. u \in [0 .. n -> Partial] /\ u[0] = start /\ \A i \in 1 .. n : u[i] = g[<<u[i - 1], i>>]
  BY <1>5 DEF Folding
<1>7. ASSUME NEW i \in 1 .. n PROVE u[i] = AddToBlock(u[i - 1], insts[i])
  <2>1. i - 1 \in 0 .. n BY <1>1
  <2>2. <<u[i - 1], i>> \in Partial \X (1 .. n) BY <1>6, <2>1
  <2>3. g[<<u[i - 1], i>>] = AddToBlock(u[i - 1], insts[i]) BY <2>2
  <2> HIDE DEF g
  <2> QED BY <1>6, <2>3
<1> HIDE DEF g
<1>8. Raw(u)
  <2> HIDE DEF start
  <2>1. ASSUME NEW i \in 0 .. n PROVE u[i] = IF i = 0 THEN start ELSE AddToBlock(u[i - 1], insts[i])
    BY <1>1, <1>6, <1>7
  <2>2. u = [i \in 0 .. n |-> u[i]] BY <1>6
  <2>3. u = [i \in 0 .. n |-> IF i = 0 THEN start ELSE AddToBlock(u[i - 1], insts[i])]
    BY <2>1, <2>2
  <2> QED BY <2>3
<1>9. Raw(w)
  <2> HIDE DEF Raw
  <2> QED BY <1>8
<1>10. w[n] = u[n]
  <2> DEFINE E == {i \in 0 .. n : w[i] = u[i]}
  <2> HIDE DEF w, start
  <2>1. 0 \in E BY <1>1, <1>6, <1>9
  <2>2. ASSUME NEW i \in 1 .. n, i - 1 \in E PROVE i \in E BY <1>1, <2>2, <1>9, <1>7
  <2> HIDE DEF E
  <2>3. \A i \in 0 .. n : i \in E BY <1>1, <2>1, <2>2, UpTo
  <2>4. n \in E BY <1>1, <2>3
  <2> QED BY <2>4 DEF E
<1> HIDE DEF w
<1>11. Building(insts, u) BY <1>6, <1>7 DEF Building
<1> QED BY <1>2, <1>10, <1>11

\* The fields of an instruction.
LEMMA NaturalOps ==
    ASSUME NEW inst \in Instructions
    PROVE  inst.op \in Ops /\ inst.arg0 \in Nat
BY DEF Instructions

\* The labels of cfg are among those of the first i instructions.
LabelsAmong(insts, i, cfg) ==
    \A b \in 1 .. Len(cfg) : cfg[b].label # 0 =>
        \E j \in 1 .. i : insts[j] = LabelI(cfg[b].label)
\* What BuildCfg has after i instructions.
Built(insts, i, acc) ==
    /\ acc \in Partial
    /\ FlattenCfg(acc.done) \o BlockText(acc.current) = SubSeq(insts, 1, i)
    /\ Regular(acc.done) /\ WfBlock(acc.current)
    /\ \A k \in 1 .. Len(acc.current.insts) : ~TransfersControl(acc.current.insts[k])
    /\ LabelsAmong(insts, i, acc.done)
    /\ acc.current.label # 0 =>
           /\ \E j \in 1 .. i : insts[j] = LabelI(acc.current.label)
           /\ \A b \in 1 .. Len(acc.done) : acc.done[b].label # acc.current.label
    /\ acc.current.label = 0 /\ acc.done # <<>> => EndsWithTransfer(Last(acc.done))

\* A block put after the others.
LEMMA RegularGrows ==
    ASSUME NEW cfg, Regular(cfg), NEW block, WfBlock(block),
           block.label # 0 => \A b \in 1 .. Len(cfg) : cfg[b].label # block.label,
           block.label = 0 => block.insts # <<>> /\ (cfg = <<>> \/ EndsWithTransfer(Last(cfg)))
    PROVE  Regular(Append(cfg, block))
<1> DEFINE n == Len(cfg)
           new == Append(cfg, block)
<1>1. cfg \in Seq(Blocks) /\ block \in Blocks /\ n \in Nat BY DEF Regular, WfCfg, WfBlock
<1>2. new \in Seq(Blocks) /\ Len(new) = n + 1 /\ new[n + 1] = block /\ \A b \in 1 .. n : new[b] = cfg[b]
  BY <1>1, Appended
<1> HIDE DEF new
<1>3. \A b \in 1 .. n + 1 : b = n + 1 \/ b \in 1 .. n BY <1>1
<1>4. \A b \in 1 .. n + 1 : WfBlock(new[b]) BY <1>2, <1>3 DEF Regular, WfCfg
<1>5. ASSUME NEW b \in 1 .. n + 1, NEW c \in 1 .. n + 1, new[b].label # 0, new[b].label = new[c].label
      PROVE  b = c BY <1>2, <1>5, <1>3 DEF Regular, WfCfg
<1>6. ASSUME NEW b \in 1 .. n + 1, new[b].label = 0
      PROVE  new[b].insts # <<>> /\ (b = 1 \/ EndsWithTransfer(new[b - 1]))
  BY <1>1, <1>2, <1>6, <1>3 DEF Regular, Last
<1>7. Regular(new) BY <1>2, <1>4, <1>5, <1>6 DEF Regular, WfCfg
<1> QED BY <1>7 DEF new

\* Flushing the block in hand keeps the blocks regular and all of the text.
LEMMA FlushedIs ==
    ASSUME NEW insts, NEW i, NEW acc, Built(insts, i, acc)
    PROVE  LET all == IF acc.current = NoBlock THEN acc.done ELSE Append(acc.done, acc.current)
           IN  /\ all \in Seq(Blocks) /\ Regular(all) /\ LabelsAmong(insts, i, all)
               /\ FlattenCfg(all) = SubSeq(insts, 1, i)
<1> DEFINE all == IF acc.current = NoBlock THEN acc.done ELSE Append(acc.done, acc.current)
<1>1. acc.done \in Seq(Blocks) /\ acc.current \in Blocks BY DEF Built, Partial
<1>2. FlattenCfg(acc.done) \in Seq(Instructions) BY <1>1, FlattenCfgGrows
<1>3. CASE acc.current = NoBlock
  <2>1. BlockText(acc.current) = <<>> BY <1>1, <1>3, NoBlockIs, BlockTextIs
  <2>2. FlattenCfg(acc.done) \o <<>> = FlattenCfg(acc.done) BY <1>2
  <2> QED BY <1>1, <1>3, <2>1, <2>2 DEF Built
<1>4. CASE acc.current # NoBlock
  <2> DEFINE c == acc.current
             cfg == acc.done
  <2>1. all = Append(cfg, c) BY <1>4
  <2>2. c.label = 0 => c.insts # <<>> BY <1>1, <1>4, NoBlockIs
  <2>3. Regular(Append(cfg, c))
    <3>1. Regular(cfg) /\ WfBlock(c) BY DEF Built
    <3>2. c.label # 0 => \A b \in 1 .. Len(cfg) : cfg[b].label # c.label BY DEF Built
    <3>3. c.label = 0 => cfg = <<>> \/ EndsWithTransfer(Last(cfg)) BY DEF Built
    <3> HIDE DEF c, cfg
    <3> QED BY <2>2, <3>1, <3>2, <3>3, RegularGrows
  <2>4. FlattenCfg(Append(cfg, c)) = SubSeq(insts, 1, i) BY <1>1, FlattenCfgGrows DEF Built
  <2>5. LabelsAmong(insts, i, Append(cfg, c))
    <3> SUFFICES ASSUME NEW b \in 1 .. Len(Append(cfg, c)), Append(cfg, c)[b].label # 0
                 PROVE  \E j \in 1 .. i : insts[j] = LabelI(Append(cfg, c)[b].label)
      BY DEF LabelsAmong
    <3>1. Len(cfg) \in Nat /\ Len(Append(cfg, c)) = Len(cfg) + 1 BY <1>1
    <3>2. b \in 1 .. Len(cfg) \/ b = Len(cfg) + 1 BY <3>1
    <3>3. CASE b \in 1 .. Len(cfg)
      <4>1. Append(cfg, c)[b] = cfg[b] BY <1>1, <3>3
      <4> HIDE DEF c
      <4> QED BY <3>3, <4>1 DEF Built, LabelsAmong
    <3>4. CASE b = Len(cfg) + 1
      <4>1. Append(cfg, c)[b] = c BY <1>1, <3>4
      <4>2. c.label # 0 BY <4>1
      <4>3. \E j \in 1 .. i : insts[j] = LabelI(c.label) BY <4>2 DEF Built
      <4> HIDE DEF c, cfg
      <4> QED BY <4>1, <4>3
    <3> QED BY <3>2, <3>3, <3>4
  <2>6. Append(cfg, c) \in Seq(Blocks) BY <1>1
  <2> QED BY <2>1, <2>3, <2>4, <2>5, <2>6
<1> QED BY <1>3, <1>4

\* One more instruction keeps what is known of the blocks built so far.
LEMMA BuiltNext ==
    ASSUME NEW insts, WfBody(insts), NEW i \in 1 .. Len(insts),
           NEW acc, Built(insts, i - 1, acc)
    PROVE  Built(insts, i, AddToBlock(acc, insts[i]))
<1> DEFINE x == insts[i]
           c == acc.current
           cfg == acc.done
           new == AddToBlock(acc, x)
           longer == [label |-> c.label, insts |-> Append(c.insts, x)]
<1>1. insts \in Seq(Instructions) /\ x \in Instructions BY DEF WfBody
<1>2. acc \in Partial /\ cfg \in Seq(Blocks) /\ c \in Blocks BY DEF Built, Partial
<1>3. new \in Partial BY <1>1, <1>2, AddToBlockIs
<1>4. /\ SubSeq(insts, 1, i) = Append(SubSeq(insts, 1, i - 1), x)
      /\ SubSeq(insts, 1, i - 1) \in Seq(Instructions)
  <2> QED BY <1>1, PrefixNext
<1>5. c.label \in Nat /\ c.insts \in Seq(Steps) BY <1>2 DEF Blocks
<1>6. \A j \in 1 .. i - 1 : j \in 1 .. i /\ j \in 1 .. Len(insts) /\ j # i BY <1>1
<1>7. ASSUME x.op # "Label"
      PROVE  /\ x \in Steps /\ WfBlock(longer) /\ longer \in Blocks
             /\ FlattenCfg(cfg) \o BlockText(longer) = SubSeq(insts, 1, i)
  <2>1. x \in Steps BY <1>1, <1>7 DEF Steps
  <2>2. longer \in Blocks /\ longer.label = c.label /\ longer.insts = Append(c.insts, x)
    BY <1>5, <2>1 DEF Blocks
  <2>3. /\ Len(longer.insts) = Len(c.insts) + 1 /\ longer.insts[Len(c.insts) + 1] = x
        /\ \A k \in 1 .. Len(c.insts) : longer.insts[k] = c.insts[k]
        /\ Len(c.insts) \in Nat
    BY <1>5, <2>1, <2>2, Appended
  <2>4. \A k \in 1 .. Len(c.insts) : ~TransfersControl(c.insts[k]) /\ (c.insts[k].op = "Jump" => c.insts[k].arg0 # 0)
    BY DEF Built, WfBlock
  <2>5. x.op = "Jump" => x.arg0 # 0 BY DEF WfBody
  <2>6. ASSUME NEW k \in 1 .. Len(longer.insts)
        PROVE  /\ TransfersControl(longer.insts[k]) => k = Len(longer.insts)
               /\ longer.insts[k].op = "Jump" => longer.insts[k].arg0 # 0
    <3>1. k = Len(c.insts) + 1 \/ k \in 1 .. Len(c.insts) BY <2>3
    <3> HIDE DEF longer, c, x
    <3> QED BY <2>3, <2>4, <2>5, <3>1
  <2>7. WfBlock(longer)
    <3> HIDE DEF longer
    <3> QED BY <2>2, <2>6 DEF WfBlock
  <2>8. BlockText(longer) = Append(BlockText(c), x)
    <3> DEFINE t == BlockText(longer)
               s == Append(BlockText(c), x)
    <3>1. BlockText(c) \in Seq(Instructions) BY <1>2, BlockTextIs
    <3>2. t \in Seq(Instructions) BY <2>2, BlockTextIs
    <3>3. /\ s \in Seq(Instructions) /\ Len(s) = Len(BlockText(c)) + 1
          /\ s[Len(BlockText(c)) + 1] = x
          /\ \A k \in 1 .. Len(BlockText(c)) : s[k] = BlockText(c)[k]
      BY <1>1, <3>1, Appended
    <3>4. CASE c.label = 0 BY <1>2, <2>2, <3>4, BlockTextIs
    <3>5. CASE c.label # 0
      <4> DEFINE m == Len(c.insts)
      <4>1. /\ Len(BlockText(c)) = m + 1 /\ BlockText(c)[1] = LabelI(c.label)
            /\ \A k \in 1 .. m : BlockText(c)[k + 1] = c.insts[k]
        BY <1>2, <3>5, BlockTextIs
      <4>2. /\ Len(t) = m + 2 /\ t[1] = LabelI(c.label)
            /\ \A k \in 1 .. m + 1 : t[k + 1] = longer.insts[k]
        <5>1. longer.label # 0 BY <2>2, <3>5
        <5>2. /\ Len(t) = Len(longer.insts) + 1 /\ t[1] = LabelI(longer.label)
              /\ \A k \in 1 .. Len(longer.insts) : t[k + 1] = longer.insts[k]
          <6> HIDE DEF longer
          <6> QED BY <2>2, <5>1, BlockTextIs
        <5>3. Len(longer.insts) = m + 1 /\ (m + 1) + 1 = m + 2 /\ m \in Nat BY <2>3
        <5> HIDE DEF t, longer, m
        <5> QED BY <2>2, <5>2, <5>3
      <4>3. ASSUME NEW k \in 1 .. m + 2 PROVE t[k] = s[k]
        <5>1. CASE k = 1 BY <2>3, <4>1, <3>3, <4>2, <5>1
        <5>2. CASE k \in 2 .. m + 1
          <6>1. k - 1 \in 1 .. m /\ (k - 1) + 1 = k /\ k \in 1 .. m + 1 /\ k - 1 \in 1 .. m + 1
            BY <2>3, <5>2
          <6>2. t[k] = longer.insts[k - 1] BY <4>2, <6>1
          <6>3. longer.insts[k - 1] = c.insts[k - 1] BY <2>3, <6>1
          <6>4. BlockText(c)[k] = c.insts[k - 1] BY <4>1, <6>1
          <6>5. s[k] = BlockText(c)[k] BY <3>3, <4>1, <6>1
          <6> QED BY <6>2, <6>3, <6>4, <6>5
        <5>3. CASE k = m + 2
          <6>1. m + 1 \in 1 .. m + 1 /\ (m + 1) + 1 = k BY <2>3, <5>3
          <6>2. t[k] = longer.insts[m + 1] BY <4>2, <6>1
          <6>3. s[k] = x BY <3>3, <4>1, <6>1
          <6> QED BY <2>3, <6>2, <6>3
        <5>4. k = 1 \/ k \in 2 .. m + 1 \/ k = m + 2 BY <2>3
        <5> QED BY <5>1, <5>2, <5>3, <5>4
      <4>4. Len(s) = m + 2 /\ Len(t) = m + 2 BY <2>3, <3>3, <4>1, <4>2
      <4> HIDE DEF s, t, m
      <4>5. t = s BY <3>2, <3>3, <4>3, <4>4, SameSequences
      <4> QED BY <4>5 DEF s, t
    <3> QED BY <3>4, <3>5
  <2>9. FlattenCfg(cfg) \in Seq(Instructions) /\ BlockText(c) \in Seq(Instructions)
    BY <1>2, FlattenCfgGrows, BlockTextIs
  <2>10. FlattenCfg(cfg) \o Append(BlockText(c), x) = Append(FlattenCfg(cfg) \o BlockText(c), x)
    <3> DEFINE f == FlattenCfg(cfg)
               t == BlockText(c)
    <3> HIDE DEF f, t, x
    <3>1. f \in Seq(Instructions) /\ t \in Seq(Instructions) BY <2>9 DEF f, t
    <3> QED BY <1>1, <3>1 DEF f, t
  <2>11. FlattenCfg(cfg) \o BlockText(c) = SubSeq(insts, 1, i - 1) BY DEF Built
  <2> QED BY <1>4, <2>1, <2>2, <2>7, <2>8, <2>10, <2>11
<1>8. CASE x.op # "Label" /\ ~TransfersControl(x)
  <2>1. new = [done |-> cfg, current |-> longer] BY <1>1, <1>2, <1>8, AddToBlockIs
  <2>2. new.done = cfg /\ new.current = longer /\ longer.label = c.label BY <2>1
  <2>3. \A k \in 1 .. Len(longer.insts) : ~TransfersControl(longer.insts[k])
    <3>1. longer.insts = Append(c.insts, x) OBVIOUS
    <3>2. x \in Steps BY <1>7, <1>8
    <3>3. /\ Len(longer.insts) = Len(c.insts) + 1 /\ longer.insts[Len(c.insts) + 1] = x
          /\ \A k \in 1 .. Len(c.insts) : longer.insts[k] = c.insts[k]
          /\ Len(c.insts) \in Nat
      BY <1>5, <3>1, <3>2, Appended
    <3>4. \A k \in 1 .. Len(c.insts) : ~TransfersControl(c.insts[k]) BY DEF Built
    <3> TAKE k \in 1 .. Len(longer.insts)
    <3>5. k = Len(c.insts) + 1 \/ k \in 1 .. Len(c.insts) BY <3>3
    <3> HIDE DEF longer, c, x
    <3> QED BY <1>8, <3>3, <3>4, <3>5
  <2>4. LabelsAmong(insts, i, cfg) BY <1>6 DEF Built, LabelsAmong
  <2>5. c.label # 0 => /\ \E j \in 1 .. i : insts[j] = LabelI(c.label)
                       /\ \A b \in 1 .. Len(cfg) : cfg[b].label # c.label
    BY <1>6 DEF Built
  <2>6. c.label = 0 /\ cfg # <<>> => EndsWithTransfer(Last(cfg)) BY DEF Built
  <2>7. Regular(cfg) BY DEF Built
  <2> HIDE DEF new, longer, cfg, c, x
  <2> QED BY <1>3, <1>7, <1>8, <2>2, <2>3, <2>4, <2>5, <2>6, <2>7 DEF Built, new, x
<1>9. CASE x.op # "Label" /\ TransfersControl(x)
  <2>1. new = [done |-> Append(cfg, longer), current |-> NoBlock]
    BY <1>1, <1>2, <1>9, AddToBlockIs
  <2> DEFINE all == Append(cfg, longer)
  <2>2. new.done = all /\ new.current = NoBlock BY <2>1
  <2>3. longer.label = c.label /\ longer.insts = Append(c.insts, x) /\ x \in Steps BY <1>7, <1>9
  <2>4. longer.insts # <<>> /\ Last(longer.insts) = x BY <1>5, <2>3, Appended DEF Last
  <2>5. Regular(all)
    <3>1. Regular(cfg) BY DEF Built
    <3>2. longer.label # 0 => \A b \in 1 .. Len(cfg) : cfg[b].label # longer.label BY <2>3 DEF Built
    <3>3. longer.label = 0 => cfg = <<>> \/ EndsWithTransfer(Last(cfg)) BY <2>3 DEF Built
    <3> HIDE DEF longer, cfg
    <3> QED BY <1>7, <1>9, <2>4, <3>1, <3>2, <3>3, RegularGrows
  <2>6. /\ all \in Seq(Blocks) /\ Len(all) = Len(cfg) + 1 /\ Len(cfg) \in Nat
        /\ all[Len(cfg) + 1] = longer /\ \A b \in 1 .. Len(cfg) : all[b] = cfg[b]
    BY <1>2, <1>7, <1>9, Appended
  <2>7. EndsWithTransfer(Last(all)) BY <2>6, <1>9, <2>4 DEF Last, EndsWithTransfer
  <2>8. LabelsAmong(insts, i, all)
    <3> SUFFICES ASSUME NEW b \in 1 .. Len(all), all[b].label # 0
                 PROVE  \E j \in 1 .. i : insts[j] = LabelI(all[b].label)
      BY DEF LabelsAmong
    <3>1. b \in 1 .. Len(cfg) \/ b = Len(cfg) + 1 BY <2>6
    <3>2. CASE b \in 1 .. Len(cfg)
      <4>1. all[b] = cfg[b] BY <2>6, <3>2
      <4> HIDE DEF all
      <4> QED BY <1>6, <3>2, <4>1 DEF Built, LabelsAmong
    <3>3. CASE b = Len(cfg) + 1
      <4>1. all[b].label = c.label BY <2>3, <2>6, <3>3
      <4>2. c.label # 0 BY <4>1
      <4>3. \E j \in 1 .. i - 1 : insts[j] = LabelI(c.label) BY <4>2 DEF Built
      <4> HIDE DEF all, c
      <4> QED BY <1>6, <4>1, <4>3
    <3> QED BY <3>1, <3>2, <3>3
  <2>9. FlattenCfg(all) \o BlockText(NoBlock) = SubSeq(insts, 1, i)
    <3>1. FlattenCfg(all) = FlattenCfg(cfg) \o BlockText(longer) BY <1>2, <1>7, <1>9, FlattenCfgGrows
    <3>2. BlockText(NoBlock) = <<>> BY NoBlockIs, BlockTextIs
    <3>3. FlattenCfg(all) \in Seq(Instructions)
      <4> HIDE DEF all
      <4> QED BY <2>6, NoBlockIs, FlattenCfgGrows
    <3>4. FlattenCfg(all) \o <<>> = FlattenCfg(all) BY <3>3
    <3> HIDE DEF all
    <3> QED BY <1>7, <1>9, <3>1, <3>2, <3>4
  <2>10. WfBlock(NoBlock) BY NoBlockIs DEF WfBlock
  <2>11. \A k \in 1 .. Len(NoBlock.insts) : ~TransfersControl(NoBlock.insts[k]) BY NoBlockIs
  <2> HIDE DEF new, all
  <2> QED BY <1>3, <2>2, <2>5, <2>7, <2>8, <2>9, <2>10, <2>11, NoBlockIs DEF Built, new
<1>10. CASE x.op = "Label"
  <2> DEFINE all == IF c = NoBlock THEN cfg ELSE Append(cfg, c)
             fresh == [label |-> x.arg0, insts |-> <<>>]
  <2>1. new.done = all /\ new.current = fresh
    <3>1. new = [done |-> IF acc.current = NoBlock THEN acc.done ELSE Append(acc.done, acc.current),
                 current |-> [label |-> x.arg0, insts |-> <<>>]]
      <4> HIDE DEF x
      <4> QED BY <1>1, <1>2, <1>10, AddToBlockIs
    <3>2. new = [done |-> all, current |-> fresh] BY <3>1
    <3> HIDE DEF new, all, fresh
    <3> QED BY <3>2
  <2>2. /\ all \in Seq(Blocks) /\ Regular(all) /\ LabelsAmong(insts, i - 1, all)
        /\ FlattenCfg(all) = SubSeq(insts, 1, i - 1)
    BY FlushedIs
  <2>3. x = LabelI(x.arg0) /\ x.arg0 # 0 /\ x.arg0 \in Nat
    BY <1>1, <1>10, NaturalOps DEF WfBody
  <2>4. fresh \in Blocks /\ WfBlock(fresh) /\ fresh.label = x.arg0 /\ Len(fresh.insts) = 0 /\ fresh.insts = <<>>
    BY <2>3 DEF Blocks, WfBlock
  <2> HIDE DEF all, fresh
  <2>5. LabelsAmong(insts, i, all) BY <1>6, <2>2 DEF LabelsAmong
  <2>6. \A b \in 1 .. Len(all) : all[b].label # x.arg0
    <3> SUFFICES ASSUME NEW b \in 1 .. Len(all), all[b].label = x.arg0 PROVE FALSE OBVIOUS
    <3>1. PICK j \in 1 .. i - 1 : insts[j] = LabelI(x.arg0)
      <4> HIDE DEF x
      <4> QED BY <2>2, <2>3 DEF LabelsAmong
    <3>2. insts[j] = insts[i] BY <2>3, <3>1
    <3>3. j \in 1 .. Len(insts) /\ j # i BY <1>6
    <3>4. \A k, l \in 1 .. Len(insts) : insts[k].op = "Label" /\ insts[k] = insts[l] => k = l
      BY DEF WfBody
    <3> QED BY <1>10, <3>2, <3>3, <3>4
  <2>7. \E j \in 1 .. i : insts[j] = LabelI(fresh.label) BY <2>3, <2>4
  <2>8. FlattenCfg(all) \o BlockText(fresh) = SubSeq(insts, 1, i)
    <3>1. BlockText(fresh) = <<x>>
      <4> DEFINE t == BlockText(fresh)
      <4>1. t \in Seq(Instructions) /\ Len(t) = 1 /\ t[1] = x
        <5>1. /\ t \in Seq(Instructions) /\ Len(t) = Len(fresh.insts) + 1
              /\ t[1] = LabelI(fresh.label)
          BY <2>3, <2>4, BlockTextIs
        <5> HIDE DEF t, x
        <5> QED BY <2>3, <2>4, <5>1
      <4>2. <<x>> \in Seq(Instructions) /\ Len(<<x>>) = 1 /\ <<x>>[1] = x BY <1>1
      <4> HIDE DEF t, x
      <4>3. \A k \in 1 .. 1 : t[k] = <<x>>[k] BY <4>1, <4>2
      <4>4. t = <<x>> BY <4>1, <4>2, <4>3, SameSequences
      <4> QED BY <4>4 DEF t
    <3> DEFINE p == SubSeq(insts, 1, i - 1)
    <3>2. p \o <<x>> = Append(p, x)
      <4> HIDE DEF p, x
      <4> QED BY <1>1, <1>4 DEF p
    <3> QED BY <1>4, <2>2, <3>1, <3>2
  <2> HIDE DEF x, new
  <2> QED BY <1>3, <2>1, <2>2, <2>3, <2>4, <2>5, <2>6, <2>7, <2>8 DEF Built, new, x
<1> QED BY <1>8, <1>9, <1>10

\* The blocks of a body are regular, and together they are the body.
LEMMA BuildCfgIs ==
    ASSUME NEW insts, WfBody(insts)
    PROVE  Regular(BuildCfg(insts)) /\ FlattenCfg(BuildCfg(insts)) = insts
<1>1. insts \in Seq(Instructions) /\ Len(insts) \in Nat BY DEF WfBody
<1>2. PICK u : Building(insts, u) /\ BuildCfg(insts) = Flushed(u[Len(insts)])
  BY <1>1, BuildingIs
<1> DEFINE n == Len(insts)
           P == {i \in 0 .. n : Built(insts, i, u[i])}
<1>3. 0 \in P
  BY <1>1, <1>2, NoBlockIs, BlockTextIs, FlattenCfgGrows, PrefixEnds DEF Building, Regular,
     WfCfg, WfBlock, Built, LabelsAmong
<1>4. ASSUME NEW i \in 1 .. n, i - 1 \in P PROVE i \in P
  BY <1>2, <1>4, BuiltNext, <1>1 DEF Building
<1>5. \A i \in 0 .. n : i \in P
  <2> HIDE DEF P, n
  <2> QED BY <1>1, <1>3, <1>4, UpTo DEF n
<1>6. Built(insts, n, u[n]) BY <1>1, <1>5
<1>7. SubSeq(insts, 1, n) = insts BY <1>1, PrefixEnds
<1> DEFINE acc == u[n]
<1>8. BuildCfg(insts) = IF acc.current = NoBlock THEN acc.done ELSE Append(acc.done, acc.current)
  BY <1>2 DEF Flushed
<1> HIDE DEF acc
<1>9. Built(insts, n, acc) BY <1>6 DEF acc
<1> QED BY <1>7, <1>8, <1>9, FlushedIs

-----------------------------------------------------------------------------
(* Where the text of a block is in the body.                               *)

\* The text of the blocks before b.
Before(cfg, b) == FlattenCfg(SubSeq(cfg, 1, b - 1))
\* Its length: where the text of b begins.
Base(cfg, b) == Len(Before(cfg, b))
\* The length of the text of b.
Size(cfg, b) == Len(BlockText(cfg[b]))

\* A block begins where the one before it ends.
LEMMA BaseNext ==
    ASSUME NEW cfg \in Seq(Blocks), NEW b \in 1 .. Len(cfg)
    PROVE  /\ Before(cfg, b) \in Seq(Instructions) /\ Before(cfg, b + 1) \in Seq(Instructions)
           /\ Before(cfg, b + 1) = Before(cfg, b) \o BlockText(cfg[b])
           /\ BlockText(cfg[b]) \in Seq(Instructions)
           /\ Base(cfg, b) \in Nat /\ Size(cfg, b) \in Nat
           /\ Base(cfg, b + 1) = Base(cfg, b) + Size(cfg, b)
<1>1. /\ SubSeq(cfg, 1, b) = Append(SubSeq(cfg, 1, b - 1), cfg[b])
      /\ SubSeq(cfg, 1, b - 1) \in Seq(Blocks)
  BY PrefixNext
<1>2. (b + 1) - 1 = b /\ cfg[b] \in Blocks OBVIOUS
<1>3. /\ Before(cfg, b) \in Seq(Instructions)
      /\ Before(cfg, b + 1) = Before(cfg, b) \o BlockText(cfg[b])
  BY <1>1, <1>2, FlattenCfgGrows DEF Before
<1>4. BlockText(cfg[b]) \in Seq(Instructions) BY <1>2, BlockTextIs
<1>5. /\ Before(cfg, b) \o BlockText(cfg[b]) \in Seq(Instructions)
      /\ Len(Before(cfg, b) \o BlockText(cfg[b])) = Base(cfg, b) + Size(cfg, b)
  BY <1>3, <1>4, Joined DEF Base, Size
<1>6. Base(cfg, b) \in Nat /\ Size(cfg, b) \in Nat BY <1>3, <1>4 DEF Base, Size
<1> QED BY <1>3, <1>4, <1>5, <1>6 DEF Base

\* The first block begins the body and the last one ends it.
LEMMA BaseEnds ==
    ASSUME NEW cfg \in Seq(Blocks)
    PROVE  /\ Base(cfg, 1) = 0 /\ Base(cfg, Len(cfg) + 1) = Len(FlattenCfg(cfg))
           /\ Before(cfg, Len(cfg) + 1) = FlattenCfg(cfg)
<1>1. SubSeq(cfg, 1, 0) = <<>> /\ SubSeq(cfg, 1, Len(cfg)) = cfg BY PrefixEnds
<1>2. 1 - 1 = 0 /\ (Len(cfg) + 1) - 1 = Len(cfg) OBVIOUS
<1>3. FlattenCfg(<<>>) = <<>> BY FlattenCfgGrows, NoBlockIs
<1>4. Len(<<>>) = 0 OBVIOUS
<1> QED BY <1>1, <1>2, <1>3, <1>4 DEF Base, Before

\* A block begins somewhere.
LEMMA BaseIs ==
    ASSUME NEW cfg \in Seq(Blocks), NEW b \in 1 .. Len(cfg) + 1
    PROVE  Base(cfg, b) \in Nat /\ Before(cfg, b) \in Seq(Instructions)
BY BaseNext, FlattenCfgGrows, NoBlockIs, BaseEnds

\* What comes before stays what it is.
LEMMA BeforeGrows ==
    ASSUME NEW cfg \in Seq(Blocks), NEW b \in 1 .. Len(cfg) + 1, NEW c \in b .. Len(cfg) + 1
    PROVE  /\ Base(cfg, b) <= Base(cfg, c)
           /\ \A i \in 1 .. Base(cfg, b) : Before(cfg, c)[i] = Before(cfg, b)[i]
<1> DEFINE n == Len(cfg) + 1 - b
           Fits(k) == /\ Base(cfg, b) <= Base(cfg, b + k)
                      /\ \A i \in 1 .. Base(cfg, b) : Before(cfg, b + k)[i] = Before(cfg, b)[i]
           P == {k \in 0 .. n : Fits(k)}
<1>1. n \in Nat /\ b \in Nat /\ Len(cfg) \in Nat OBVIOUS
<1>2. 0 \in P BY <1>1, BaseIs
<1>3. ASSUME NEW k \in 1 .. n, k - 1 \in P PROVE k \in P
  <2> DEFINE d == b + (k - 1)
  <2>1. d \in 1 .. Len(cfg) /\ d + 1 = b + k /\ k \in 0 .. n BY <1>1
  <2>2. Fits(k - 1) BY <1>3
  <2> HIDE DEF d
  <2>3. /\ Before(cfg, d) \in Seq(Instructions) /\ BlockText(cfg[d]) \in Seq(Instructions)
        /\ Before(cfg, d + 1) = Before(cfg, d) \o BlockText(cfg[d])
        /\ Base(cfg, d) \in Nat /\ Size(cfg, d) \in Nat
        /\ Base(cfg, d + 1) = Base(cfg, d) + Size(cfg, d)
    BY <2>1, BaseNext
  <2>4. Base(cfg, b) \in Nat BY BaseIs
  <2>5. Base(cfg, b) <= Base(cfg, d) /\ \A i \in 1 .. Base(cfg, b) : Before(cfg, d)[i] = Before(cfg, b)[i]
    BY <2>2 DEF d
  <2>6. \A i \in 1 .. Base(cfg, d) : (Before(cfg, d) \o BlockText(cfg[d]))[i] = Before(cfg, d)[i]
    BY <2>3, Joined DEF Base
  <2>7. \A i \in 1 .. Base(cfg, b) : i \in 1 .. Base(cfg, d) BY <2>3, <2>4, <2>5
  <2>8. \A i \in 1 .. Base(cfg, b) : Before(cfg, d + 1)[i] = Before(cfg, b)[i]
    BY <2>3, <2>5, <2>6, <2>7
  <2>9. Base(cfg, b) <= Base(cfg, d + 1) BY <2>3, <2>4, <2>5
  <2> QED BY <2>1, <2>8, <2>9
<1>4. \A k \in 0 .. n : k \in P
  <2> HIDE DEF P, n
  <2> QED BY <1>1, <1>2, <1>3, UpTo
<1>5. c - b \in 0 .. n /\ b + (c - b) = c BY <1>1
<1>6. Fits(c - b) BY <1>4, <1>5
<1> QED BY <1>5, <1>6

\* The text of a block is found in the body from its base on.
LEMMA TextAt ==
    ASSUME NEW cfg \in Seq(Blocks), NEW b \in 1 .. Len(cfg), NEW o \in 1 .. Size(cfg, b)
    PROVE  /\ Base(cfg, b) + o \in 1 .. Len(FlattenCfg(cfg))
           /\ FlattenCfg(cfg)[Base(cfg, b) + o] = BlockText(cfg[b])[o]
<1> DEFINE i == Base(cfg, b) + o
           n == Len(cfg)
<1>1. /\ Before(cfg, b) \in Seq(Instructions) /\ BlockText(cfg[b]) \in Seq(Instructions)
      /\ Before(cfg, b + 1) = Before(cfg, b) \o BlockText(cfg[b])
      /\ Base(cfg, b) \in Nat /\ Size(cfg, b) \in Nat
      /\ Base(cfg, b + 1) = Base(cfg, b) + Size(cfg, b)
  BY BaseNext
<1>2. n \in Nat /\ b + 1 \in 1 .. n + 1 /\ n + 1 \in b + 1 .. n + 1 OBVIOUS
<1>3. /\ Base(cfg, b + 1) <= Base(cfg, n + 1)
      /\ \A k \in 1 .. Base(cfg, b + 1) : Before(cfg, n + 1)[k] = Before(cfg, b + 1)[k]
  BY <1>2, BeforeGrows
<1>4. Before(cfg, n + 1) = FlattenCfg(cfg) /\ Base(cfg, n + 1) = Len(FlattenCfg(cfg)) BY BaseEnds
<1>5. Base(cfg, n + 1) \in Nat BY <1>2, BaseIs
<1>6. i \in 1 .. Base(cfg, b + 1) BY <1>1
<1>7. (Before(cfg, b) \o BlockText(cfg[b]))[i] = BlockText(cfg[b])[o]
  BY <1>1, Joined DEF Base, Size
<1>8. i \in 1 .. Base(cfg, n + 1) BY <1>1, <1>3, <1>5, <1>6
<1> HIDE DEF i, n
<1> QED BY <1>1, <1>3, <1>4, <1>6, <1>7, <1>8 DEF i

\* Every instruction of the body is in the text of a block.
LEMMA TextOf ==
    ASSUME NEW cfg \in Seq(Blocks), NEW i \in 1 .. Len(FlattenCfg(cfg))
    PROVE  \E b \in 1 .. Len(cfg) : \E o \in 1 .. Size(cfg, b) : i = Base(cfg, b) + o
<1> DEFINE n == Len(cfg)
           P == {k \in 0 .. n : i > Base(cfg, k + 1)}
<1>1. n \in Nat /\ i \in Nat /\ i >= 1 BY FlattenCfgGrows, NoBlockIs
<1>2. 0 \in P BY <1>1, BaseEnds
<1>3. n \notin P BY BaseEnds, <1>1, BaseIs
<1>4. PICK k \in 1 .. n : k - 1 \in P /\ k \notin P
  <2> SUFFICES ASSUME \A k \in 1 .. n : k - 1 \in P => k \in P PROVE FALSE OBVIOUS
  <2>1. \A k \in 0 .. n : k \in P
    <3> HIDE DEF P, n
    <3> QED BY <1>1, <1>2, UpTo
  <2>2. n \in P BY <1>1, <2>1
  <2> QED BY <1>3, <2>2
<1>5. /\ Base(cfg, k) \in Nat /\ Size(cfg, k) \in Nat
      /\ Base(cfg, k + 1) = Base(cfg, k) + Size(cfg, k)
  BY BaseNext
<1>6. i > Base(cfg, k) /\ ~ (i > Base(cfg, k + 1)) BY <1>1, <1>4
<1>7. i - Base(cfg, k) \in 1 .. Size(cfg, k) /\ i = Base(cfg, k) + (i - Base(cfg, k))
  BY <1>1, <1>5, <1>6
<1> QED BY <1>7

\* It is in the text of one block only, and once.
LEMMA SameBlock ==
    ASSUME NEW cfg \in Seq(Blocks), NEW b \in 1 .. Len(cfg), NEW c \in 1 .. Len(cfg),
           NEW o \in 1 .. Size(cfg, b), NEW p \in 1 .. Size(cfg, c),
           Base(cfg, b) + o = Base(cfg, c) + p
    PROVE  b = c /\ o = p
<1> DEFINE n == Len(cfg)
<1>1. ASSUME NEW d \in 1 .. n, NEW e \in 1 .. n, d < e PROVE Base(cfg, d) + Size(cfg, d) <= Base(cfg, e)
  <2>1. Base(cfg, d + 1) = Base(cfg, d) + Size(cfg, d) BY BaseNext
  <2>2. d + 1 \in 1 .. n + 1 /\ e \in d + 1 .. n + 1 BY <1>1
  <2> QED BY <2>1, <2>2, BeforeGrows
<1>2. /\ Base(cfg, b) \in Nat /\ Size(cfg, b) \in Nat
      /\ Base(cfg, c) \in Nat /\ Size(cfg, c) \in Nat
  BY BaseNext
<1>3. ~ (b < c) BY <1>1, <1>2
<1>4. ~ (c < b) BY <1>1, <1>2
<1>5. b = c BY <1>3, <1>4
<1> QED BY <1>2, <1>5

\* How many places the label of a block takes.
Labelled(block) == IF block.label = 0 THEN 0 ELSE 1

\* The text of a block in terms of its label and its instructions.
LEMMA TextParts ==
    ASSUME NEW block \in Blocks
    PROVE  /\ Labelled(block) \in {0, 1} /\ Len(block.insts) \in Nat
           /\ Len(BlockText(block)) = Labelled(block) + Len(block.insts)
           /\ \A k \in 1 .. Len(block.insts) :
                  /\ BlockText(block)[Labelled(block) + k] = block.insts[k] /\ block.insts[k] \in Steps
                  /\ Labelled(block) + k \in 1 .. Len(BlockText(block))
           /\ Labelled(block) = 1 => BlockText(block)[1] = LabelI(block.label) /\ block.label \in Nat \ {0}
           /\ \A o \in 1 .. Len(BlockText(block)) :
                  \/ o = 1 /\ Labelled(block) = 1
                  \/ o - Labelled(block) \in 1 .. Len(block.insts)
BY BlockTextIs DEF Blocks, Labelled

\* The text of well-formed blocks is a well-formed body.
LEMMA FlattenCfgIs ==
    ASSUME NEW cfg, WfCfg(cfg)
    PROVE  /\ WfBody(FlattenCfg(cfg))
           /\ \A i \in 1 .. Len(FlattenCfg(cfg)) : FlattenCfg(cfg)[i].op = "Label" =>
                  \E b \in 1 .. Len(cfg) : cfg[b].label # 0 /\ FlattenCfg(cfg)[i] = LabelI(cfg[b].label)
           /\ \A i \in 1 .. Len(FlattenCfg(cfg)) : FlattenCfg(cfg)[i].op # "Label" =>
                  \E b \in 1 .. Len(cfg) : \E k \in 1 .. Len(cfg[b].insts) :
                      FlattenCfg(cfg)[i] = cfg[b].insts[k]
<1> DEFINE f == FlattenCfg(cfg)
<1>1. cfg \in Seq(Blocks) /\ f \in Seq(Instructions)
  BY NoBlockIs, FlattenCfgGrows DEF WfCfg
<1>2. ASSUME NEW i \in 1 .. Len(f)
      PROVE  \E b \in 1 .. Len(cfg) : \E o \in 1 .. Size(cfg, b) :
                 /\ i = Base(cfg, b) + o /\ f[i] = BlockText(cfg[b])[o]
                 /\ \/ o = 1 /\ cfg[b].label # 0 /\ f[i] = LabelI(cfg[b].label) /\ cfg[b].label \in Nat
                    \/ \E k \in 1 .. Len(cfg[b].insts) : f[i] = cfg[b].insts[k] /\ f[i] \in Steps
  <2>0. PICK b \in 1 .. Len(cfg) : \E o \in 1 .. Size(cfg, b) : i = Base(cfg, b) + o BY <1>1, TextOf
  <2>1. PICK o \in 1 .. Size(cfg, b) : i = Base(cfg, b) + o BY <2>0
  <2>2. f[i] = BlockText(cfg[b])[o] BY <1>1, <2>1, TextAt
  <2>3. cfg[b] \in Blocks BY <1>1
  <2> DEFINE c == cfg[b]
  <2>4. CASE o = 1 /\ Labelled(c) = 1 BY <2>2, <2>3, <2>4, TextParts, <2>1
  <2>5. CASE o - Labelled(c) \in 1 .. Len(c.insts)
    <3> DEFINE k == o - Labelled(c)
    <3>1. Labelled(c) \in {0, 1} /\ o \in Nat /\ Labelled(c) + k = o
      BY <1>1, BaseNext DEF Labelled
    <3>2. BlockText(c)[Labelled(c) + k] = c.insts[k] /\ c.insts[k] \in Steps BY <2>3, <2>5, TextParts
    <3>3. f[i] = c.insts[k] /\ f[i] \in Steps BY <2>2, <3>1, <3>2
    <3> QED BY <2>1, <2>2, <2>5, <3>3
  <2>6. (o = 1 /\ Labelled(c) = 1) \/ o - Labelled(c) \in 1 .. Len(c.insts)
    <3>1. o \in 1 .. Len(BlockText(c)) BY DEF Size
    <3> HIDE DEF c
    <3> QED BY <2>3, <3>1, TextParts DEF c
  <2> QED BY <2>4, <2>5, <2>6
<1>3. ASSUME NEW i \in 1 .. Len(f), f[i].op = "Label"
      PROVE  \E b \in 1 .. Len(cfg) : /\ cfg[b].label # 0 /\ cfg[b].label \in Nat
                                      /\ f[i] = LabelI(cfg[b].label) /\ i = Base(cfg, b) + 1
  <2> HIDE DEF f
  <2>0. PICK b \in 1 .. Len(cfg) : \E o \in 1 .. Size(cfg, b) :
                 /\ i = Base(cfg, b) + o /\ f[i] = BlockText(cfg[b])[o]
                 /\ \/ o = 1 /\ cfg[b].label # 0 /\ f[i] = LabelI(cfg[b].label) /\ cfg[b].label \in Nat
                    \/ \E k \in 1 .. Len(cfg[b].insts) : f[i] = cfg[b].insts[k] /\ f[i] \in Steps
    BY <1>2
  <2>1. PICK o \in 1 .. Size(cfg, b) :
                 /\ i = Base(cfg, b) + o /\ f[i] = BlockText(cfg[b])[o]
                 /\ \/ o = 1 /\ cfg[b].label # 0 /\ f[i] = LabelI(cfg[b].label) /\ cfg[b].label \in Nat
                    \/ \E k \in 1 .. Len(cfg[b].insts) : f[i] = cfg[b].insts[k] /\ f[i] \in Steps
    BY <2>0
  <2>2. f[i] \notin Steps BY <1>3 DEF Steps
  <2> QED BY <2>1, <2>2
<1>4. ASSUME NEW i \in 1 .. Len(f)
      PROVE  /\ f[i].op = "Label" => f[i] = LabelI(f[i].arg0) /\ f[i].arg0 # 0
             /\ f[i].op = "Jump" => f[i].arg0 # 0
  <2> HIDE DEF f
  <2>1. CASE f[i].op = "Label" BY <1>3, <2>1, LabelsAre
  <2>2. CASE f[i].op = "Jump"
    <3>1. PICK b \in 1 .. Len(cfg) :
                 \/ cfg[b].label # 0 /\ f[i] = LabelI(cfg[b].label) /\ cfg[b].label \in Nat
                 \/ \E k \in 1 .. Len(cfg[b].insts) : f[i] = cfg[b].insts[k] /\ f[i] \in Steps
      BY <1>2
    <3>2. CASE f[i] = LabelI(cfg[b].label) /\ cfg[b].label \in Nat
      BY <2>2, <3>2, LabelsAre
    <3>3. CASE \E k \in 1 .. Len(cfg[b].insts) : f[i] = cfg[b].insts[k]
      BY <2>2, <3>3 DEF WfCfg, WfBlock
    <3> QED BY <3>1, <3>2, <3>3
  <2> QED BY <2>1, <2>2
<1>5. ASSUME NEW i \in 1 .. Len(f), NEW j \in 1 .. Len(f), f[i].op = "Label", f[i] = f[j]
      PROVE  i = j
  <2> HIDE DEF f
  <2>1. PICK b \in 1 .. Len(cfg) : /\ cfg[b].label # 0 /\ cfg[b].label \in Nat
                                   /\ f[i] = LabelI(cfg[b].label) /\ i = Base(cfg, b) + 1
    BY <1>3, <1>5
  <2>2. PICK c \in 1 .. Len(cfg) : /\ cfg[c].label # 0 /\ cfg[c].label \in Nat
                                   /\ f[j] = LabelI(cfg[c].label) /\ j = Base(cfg, c) + 1
    BY <1>3, <1>5
  <2>3. cfg[b].label = cfg[c].label BY ZenonT(30), <1>5, <2>1, <2>2, LabelsAre
  <2>4. b = c BY <2>1, <2>3 DEF WfCfg
  <2> QED BY <2>1, <2>2, <2>4
<1>6. \A i \in 1 .. Len(f) : f[i].op = "Label" =>
          \E b \in 1 .. Len(cfg) : cfg[b].label # 0 /\ f[i] = LabelI(cfg[b].label)
  <2> HIDE DEF f
  <2> QED BY <1>3
<1>8. ASSUME NEW i \in 1 .. Len(f), f[i].op # "Label"
      PROVE  \E b \in 1 .. Len(cfg) : \E k \in 1 .. Len(cfg[b].insts) : f[i] = cfg[b].insts[k]
  <2> HIDE DEF f
  <2>1. PICK b \in 1 .. Len(cfg) :
            \/ cfg[b].label # 0 /\ f[i] = LabelI(cfg[b].label) /\ cfg[b].label \in Nat
            \/ \E k \in 1 .. Len(cfg[b].insts) : f[i] = cfg[b].insts[k] /\ f[i] \in Steps
    BY <1>2
  <2>2. ~ (f[i] = LabelI(cfg[b].label) /\ cfg[b].label \in Nat) BY <1>8, LabelsAre
  <2> QED BY <2>1, <2>2
<1> HIDE DEF f
<1>7. WfBody(f) BY <1>1, <1>4, <1>5 DEF WfBody
<1> QED BY <1>6, <1>7, <1>8 DEF f

-----------------------------------------------------------------------------
(* Regular blocks can be told from their text.                             *)

\* Regular blocks with the same text that begin at the same place have the same
\* label there.
LEMMA SameFirst ==
    ASSUME NEW cfg, Regular(cfg), NEW other, Regular(other), FlattenCfg(cfg) = FlattenCfg(other),
           NEW b \in 1 .. Len(cfg), b \in 1 .. Len(other), Base(cfg, b) = Base(other, b)
    PROVE  cfg[b].label = other[b].label
<1> DEFINE f == FlattenCfg(cfg)
           x == f[Base(cfg, b) + 1]
<1>1. cfg \in Seq(Blocks) /\ other \in Seq(Blocks) BY DEF Regular, WfCfg
<1>2. ASSUME NEW c, Regular(c), NEW k \in 1 .. Len(c)
      PROVE  /\ c[k].label # 0 => FlattenCfg(c)[Base(c, k) + 1] = LabelI(c[k].label) /\ c[k].label \in Nat
             /\ c[k].label = 0 => FlattenCfg(c)[Base(c, k) + 1] \in Steps
  <2>1. c \in Seq(Blocks) /\ c[k] \in Blocks BY <1>2 DEF Regular, WfCfg
  <2>2. CASE c[k].label # 0
    <3>1. Labelled(c[k]) = 1 BY <2>2 DEF Labelled
    <3>2. Len(c[k].insts) \in Nat /\ Len(BlockText(c[k])) = 1 + Len(c[k].insts)
          /\ BlockText(c[k])[1] = LabelI(c[k].label) /\ c[k].label \in Nat
      BY <2>1, <3>1, TextParts
    <3>3. 1 \in 1 .. Size(c, k) BY <3>2 DEF Size
    <3> QED BY <2>1, <2>2, <3>2, <3>3, TextAt
  <2>3. CASE c[k].label = 0
    <3>1. Labelled(c[k]) = 0 /\ c[k].insts # <<>> BY <1>2, <2>3 DEF Labelled, Regular
    <3>2. c[k].insts \in Seq(Steps) BY <2>1 DEF Blocks
    <3>3. Len(c[k].insts) \in Nat /\ 1 \in 1 .. Len(c[k].insts) BY <3>1, <3>2
    <3>4. /\ BlockText(c[k])[0 + 1] = c[k].insts[1] /\ c[k].insts[1] \in Steps
          /\ Len(BlockText(c[k])) = 0 + Len(c[k].insts)
      BY <2>1, <3>1, <3>3, TextParts
    <3>5. 1 \in 1 .. Size(c, k) BY <3>3, <3>4 DEF Size
    <3> QED BY <2>1, <2>3, <3>4, <3>5, TextAt
  <2> QED BY <2>2, <2>3
<1>3. /\ cfg[b].label # 0 => x = LabelI(cfg[b].label) /\ cfg[b].label \in Nat
      /\ cfg[b].label = 0 => x \in Steps
      /\ other[b].label # 0 => x = LabelI(other[b].label) /\ other[b].label \in Nat
      /\ other[b].label = 0 => x \in Steps
  BY <1>2
<1> HIDE DEF x
<1>4. \A l \in Nat : LabelI(l) \notin Steps BY LabelsAre DEF Steps
<1>5. \A l, m \in Nat : LabelI(l) = LabelI(m) => l = m BY LabelsAre
<1> QED BY <1>3, <1>4, <1>5

\* No block is the beginning of another with the same place and label.
LEMMA NotShorter ==
    ASSUME NEW cfg, Regular(cfg), NEW other, Regular(other), FlattenCfg(cfg) = FlattenCfg(other),
           NEW b \in 1 .. Len(cfg), b \in 1 .. Len(other), Base(cfg, b) = Base(other, b),
           cfg[b].label = other[b].label
    PROVE  ~ (Len(cfg[b].insts) < Len(other[b].insts))
<1> SUFFICES ASSUME Len(cfg[b].insts) < Len(other[b].insts) PROVE FALSE OBVIOUS
<1> DEFINE m == Len(cfg[b].insts)
           h == Labelled(cfg[b])
           f == FlattenCfg(cfg)
           base == Base(cfg, b)
           x == f[base + (h + (m + 1))]
<1>1. cfg \in Seq(Blocks) /\ other \in Seq(Blocks) /\ cfg[b] \in Blocks /\ other[b] \in Blocks
  BY DEF Regular, WfCfg
<1>2. h = Labelled(other[b]) BY DEF Labelled
<1>3. m \in Nat /\ h \in {0, 1} /\ base \in Nat /\ m + 1 \in 1 .. Len(other[b].insts)
      /\ Len(BlockText(cfg[b])) = h + m
  <2>1. m \in Nat /\ h \in {0, 1} /\ Len(BlockText(cfg[b])) = h + m BY <1>1, TextParts
  <2>2. Len(other[b].insts) \in Nat BY <1>1, TextParts
  <2>3. base \in Nat BY <1>1, BaseNext
  <2> QED BY <2>1, <2>2, <2>3
<1>4. /\ x = other[b].insts[m + 1] /\ x \in Steps
      /\ base + (h + (m + 1)) \in 1 .. Len(f)
  <2>1. /\ BlockText(other[b])[h + (m + 1)] = other[b].insts[m + 1]
        /\ other[b].insts[m + 1] \in Steps
        /\ h + (m + 1) \in 1 .. Len(BlockText(other[b]))
    BY <1>1, <1>2, <1>3, TextParts
  <2>2. h + (m + 1) \in 1 .. Size(other, b) BY <2>1 DEF Size
  <2>3. /\ FlattenCfg(other)[Base(other, b) + (h + (m + 1))] = BlockText(other[b])[h + (m + 1)]
        /\ Base(other, b) + (h + (m + 1)) \in 1 .. Len(FlattenCfg(other))
    BY <1>1, <2>2, TextAt
  <2> QED BY <2>1, <2>3
<1>5. Base(cfg, b + 1) = base + (h + m) BY <1>1, BaseNext, <1>3 DEF Size
<1>6. b + 1 \in 1 .. Len(cfg)
  <2> SUFFICES ASSUME b = Len(cfg) PROVE FALSE BY <1>1
  <2>1. Base(cfg, b + 1) = Len(f) BY <1>1, BaseEnds
  <2>2. Len(f) = base + (h + m) BY <1>5, <2>1
  <2>3. ~ (base + (h + (m + 1)) <= base + (h + m)) BY <1>3
  <2>4. base + (h + (m + 1)) <= Len(f)
    <3>1. Len(f) \in Nat BY <1>3, <2>2
    <3> HIDE DEF f, base, h, m
    <3> QED BY <1>4, <3>1
  <2> QED BY <2>2, <2>3, <2>4
<1> DEFINE next == cfg[b + 1]
<1>7. next \in Blocks /\ Base(cfg, b + 1) + 1 = base + (h + (m + 1))
  <2>1. next \in Blocks BY <1>1, <1>6
  <2>2. Base(cfg, b + 1) + 1 = base + (h + (m + 1))
    <3> HIDE DEF base, h, m, next
    <3> QED BY <1>3, <1>5
  <2> QED BY <2>1, <2>2
<1>8. next.label = 0
  <2> SUFFICES ASSUME next.label # 0 PROVE FALSE OBVIOUS
  <2>1. Labelled(next) = 1 BY DEF Labelled
  <2>2. Len(next.insts) \in Nat /\ Len(BlockText(next)) = 1 + Len(next.insts)
        /\ BlockText(next)[1] = LabelI(next.label) /\ next.label \in Nat
    BY <1>7, <2>1, TextParts
  <2>3. 1 \in 1 .. Size(cfg, b + 1) BY <2>2 DEF Size
  <2>4. FlattenCfg(cfg)[Base(cfg, b + 1) + 1] = LabelI(next.label) BY <1>1, <1>6, <2>2, <2>3, TextAt
  <2>5. x = LabelI(next.label) BY <1>7, <2>4
  <2>6. LabelI(next.label) \notin Steps BY <2>2, LabelsAre DEF Steps
  <2> QED BY <1>4, <2>5, <2>6
<1>9. EndsWithTransfer(cfg[b]) BY <1>1, <1>6, <1>8 DEF Regular
<1>10. m # 0 /\ TransfersControl(cfg[b].insts[m])
  BY <1>1, <1>9 DEF Blocks, EndsWithTransfer, Last
<1>11. cfg[b].insts[m] = other[b].insts[m]
  <2>1. m \in 1 .. Len(cfg[b].insts) /\ m \in 1 .. Len(other[b].insts) BY <1>3, <1>10
  <2>2. /\ BlockText(cfg[b])[h + m] = cfg[b].insts[m] /\ h + m \in 1 .. Size(cfg, b)
    BY <1>1, <2>1, TextParts DEF Size
  <2>3. /\ BlockText(other[b])[h + m] = other[b].insts[m] /\ h + m \in 1 .. Size(other, b)
    BY <1>1, <1>2, <2>1, TextParts DEF Size
  <2>4. FlattenCfg(cfg)[Base(cfg, b) + (h + m)] = BlockText(cfg[b])[h + m]
    BY <1>1, <2>2, TextAt
  <2>5. FlattenCfg(other)[Base(other, b) + (h + m)] = BlockText(other[b])[h + m]
    BY <1>1, <2>3, TextAt
  <2> QED BY <2>2, <2>3, <2>4, <2>5
<1>12. m \in 1 .. Len(other[b].insts) /\ m # Len(other[b].insts)
  BY <1>3, <1>10
<1>13. WfBlock(other[b]) BY DEF Regular, WfCfg
<1> QED BY <1>10, <1>11, <1>12, <1>13 DEF WfBlock

\* They are the same block, then.
LEMMA SameBlocks ==
    ASSUME NEW cfg, Regular(cfg), NEW other, Regular(other), FlattenCfg(cfg) = FlattenCfg(other),
           NEW b \in 1 .. Len(cfg), b \in 1 .. Len(other), Base(cfg, b) = Base(other, b)
    PROVE  cfg[b] = other[b] /\ Base(cfg, b + 1) = Base(other, b + 1)
<1>1. cfg \in Seq(Blocks) /\ other \in Seq(Blocks) /\ cfg[b] \in Blocks /\ other[b] \in Blocks
  BY DEF Regular, WfCfg
<1>2. cfg[b].label = other[b].label BY SameFirst
<1>3. ~ (Len(cfg[b].insts) < Len(other[b].insts)) BY <1>2, NotShorter
<1>4. ~ (Len(other[b].insts) < Len(cfg[b].insts)) BY <1>2, NotShorter
<1>5. cfg[b].insts \in Seq(Steps) /\ other[b].insts \in Seq(Steps) BY <1>1 DEF Blocks
<1>6. Len(cfg[b].insts) = Len(other[b].insts) BY <1>3, <1>4, <1>5
<1>7. ASSUME NEW k \in 1 .. Len(cfg[b].insts) PROVE cfg[b].insts[k] = other[b].insts[k]
  <2> DEFINE h == Labelled(cfg[b])
  <2>1. h = Labelled(other[b]) BY <1>2 DEF Labelled
  <2>2. BlockText(cfg[b])[h + k] = cfg[b].insts[k] /\ h + k \in 1 .. Size(cfg, b)
    BY <1>1, TextParts DEF Size
  <2>3. BlockText(other[b])[h + k] = other[b].insts[k] /\ h + k \in 1 .. Size(other, b)
    BY <1>1, <1>6, <2>1, TextParts DEF Size
  <2>4. FlattenCfg(cfg)[Base(cfg, b) + (h + k)] = BlockText(cfg[b])[h + k] BY <1>1, <2>2, TextAt
  <2>5. FlattenCfg(other)[Base(other, b) + (h + k)] = BlockText(other[b])[h + k]
    BY <1>1, <2>3, TextAt
  <2> QED BY <2>2, <2>3, <2>4, <2>5
<1>8. cfg[b].insts = other[b].insts BY <1>5, <1>6, <1>7, SameSequences
<1>9. cfg[b] = other[b]
  <2>1. cfg[b] = [label |-> cfg[b].label, insts |-> cfg[b].insts] BY <1>1 DEF Blocks
  <2>2. other[b] = [label |-> other[b].label, insts |-> other[b].insts] BY <1>1 DEF Blocks
  <2> QED BY <1>2, <1>8, <2>1, <2>2
<1>10. Base(cfg, b + 1) = Base(cfg, b) + Size(cfg, b) BY <1>1, BaseNext
<1>11. Base(other, b + 1) = Base(other, b) + Size(other, b) BY <1>1, BaseNext
<1> QED BY <1>9, <1>10, <1>11 DEF Size

\* No regular block is empty.
LEMMA RegularSizes ==
    ASSUME NEW cfg, Regular(cfg), NEW b \in 1 .. Len(cfg)
    PROVE  Size(cfg, b) > 0 /\ Base(cfg, b) < Len(FlattenCfg(cfg))
<1>1. cfg \in Seq(Blocks) /\ cfg[b] \in Blocks BY DEF Regular, WfCfg
<1>2. cfg[b].insts \in Seq(Steps) BY <1>1 DEF Blocks
<1>3. Len(BlockText(cfg[b])) = Labelled(cfg[b]) + Len(cfg[b].insts) BY <1>1, TextParts
<1>4. Labelled(cfg[b]) + Len(cfg[b].insts) > 0
  <2>1. CASE cfg[b].label = 0 BY <2>1, <1>2 DEF Regular, Labelled
  <2>2. CASE cfg[b].label # 0 BY <1>2, <2>2 DEF Labelled
  <2> QED BY <2>1, <2>2
<1>5. Size(cfg, b) > 0 /\ Size(cfg, b) \in Nat /\ Base(cfg, b) \in Nat BY <1>1, <1>3, <1>4, BaseNext DEF Size
<1>6. 1 \in 1 .. Size(cfg, b) BY <1>5
<1>7. Base(cfg, b) + 1 \in 1 .. Len(FlattenCfg(cfg)) BY <1>1, <1>6, TextAt
<1>8. Len(FlattenCfg(cfg)) \in Nat BY <1>1, NoBlockIs, FlattenCfgGrows
<1> QED BY <1>5, <1>7, <1>8

\* All the blocks are the same, and equally many.
LEMMA RegularSame ==
    ASSUME NEW cfg, Regular(cfg), NEW other, Regular(other), FlattenCfg(cfg) = FlattenCfg(other)
    PROVE  cfg = other
<1> DEFINE Agree(k) == /\ k <= Len(cfg) /\ k <= Len(other) => Base(cfg, k + 1) = Base(other, k + 1)
                       /\ \A b \in 1 .. k : b <= Len(cfg) /\ b <= Len(other) => cfg[b] = other[b]
           n == Len(cfg)
           P == {k \in 0 .. n : Agree(k)}
<1>1. cfg \in Seq(Blocks) /\ other \in Seq(Blocks) /\ n \in Nat /\ Len(other) \in Nat
  BY DEF Regular, WfCfg
<1>2. 0 \in P BY <1>1, BaseEnds
<1>3. ASSUME NEW k \in 1 .. n, k - 1 \in P PROVE k \in P BY <1>1, <1>3, SameBlocks
<1>4. \A k \in 0 .. n : k \in P
  <2> HIDE DEF P, n
  <2> QED BY <1>1, <1>2, <1>3, UpTo DEF n
<1>5. Agree(n) BY <1>1, <1>4
<1>6. n = Len(other)
  <2>1. CASE n < Len(other) BY <1>1, <1>5, <2>1, BaseEnds, RegularSizes, BaseNext
  <2>2. CASE Len(other) < n
    <3> DEFINE k == Len(other)
    <3>1. k \in 0 .. n /\ k + 1 \in 1 .. n BY <1>1, <2>2
    <3>2. Agree(k) BY <1>4, <3>1
    <3>3. Base(cfg, k + 1) = Base(other, k + 1) BY <1>1, <3>1, <3>2
    <3>4. Base(other, k + 1) = Len(FlattenCfg(other)) BY <1>1, BaseEnds
    <3>5. Base(cfg, k + 1) < Len(FlattenCfg(cfg)) BY <3>1, RegularSizes
    <3>6. Base(cfg, k + 1) \in Nat BY <1>1, <3>1, BaseNext
    <3> QED BY <3>3, <3>4, <3>5, <3>6
  <2> QED BY <1>1, <2>1, <2>2
<1>7. \A b \in 1 .. n : cfg[b] = other[b] BY <1>1, <1>5, <1>6
<1> QED BY <1>1, <1>6, <1>7, SameSequences

\* So laying out blocks and finding them again gives the same blocks.
LEMMA BuildFlat ==
    ASSUME NEW cfg, Regular(cfg)
    PROVE  BuildCfg(FlattenCfg(cfg)) = cfg
BY FlattenCfgIs, BuildCfgIs, RegularSame DEF Regular

-----------------------------------------------------------------------------
(* Generating a body.                                                      *)

\* The labels of a body, or of blocks, and those they jump to are below
\* bound.
BodyBelow(insts, bound) ==
    \A i \in 1 .. Len(insts) : insts[i].op \in {"Label", "Jump"} => insts[i].arg0 < bound
\* The same of blocks.
LabelsBelow(cfg, bound) ==
    \A b \in 1 .. Len(cfg) :
        /\ cfg[b].label # 0 => cfg[b].label < bound
        /\ \A i \in 1 .. Len(cfg[b].insts) :
               cfg[b].insts[i].op = "Jump" => cfg[b].insts[i].arg0 < bound

\* A body with one more instruction is one, if a label is a new one.
LEMMA AppendWf ==
    ASSUME NEW insts, WfBody(insts), NEW inst \in Instructions,
           inst.op = "Label" => /\ inst = LabelI(inst.arg0) /\ inst.arg0 # 0
                                /\ \A i \in 1 .. Len(insts) : insts[i] # inst,
           inst.op = "Jump" => inst.arg0 # 0
    PROVE  WfBody(Append(insts, inst))
<1> DEFINE n == Len(insts)
           new == Append(insts, inst)
<1>1. insts \in Seq(Instructions) /\ n \in Nat BY DEF WfBody
<1>2. /\ new \in Seq(Instructions) /\ Len(new) = n + 1 /\ new[n + 1] = inst
      /\ \A i \in 1 .. n : new[i] = insts[i]
  BY <1>1, Appended
<1> HIDE DEF new
<1>3. \A i \in 1 .. n + 1 : i = n + 1 \/ i \in 1 .. n BY <1>1
<1>4. ASSUME NEW i \in 1 .. n + 1
      PROVE  /\ new[i].op = "Label" => new[i] = LabelI(new[i].arg0) /\ new[i].arg0 # 0
             /\ new[i].op = "Jump" => new[i].arg0 # 0 BY <1>2, <1>3 DEF WfBody
<1>5. ASSUME NEW i \in 1 .. n + 1, NEW j \in 1 .. n + 1, new[i].op = "Label", new[i] = new[j]
      PROVE  i = j BY <1>2, <1>5, <1>3 DEF WfBody
<1>6. WfBody(new) BY <1>2, <1>4, <1>5 DEF WfBody
<1> QED BY <1>6 DEF new

\* Its labels are below bound, if that of the instruction is.
LEMMA AppendBelow ==
    ASSUME NEW insts \in Seq(Instructions), NEW inst \in Instructions, NEW bound,
           BodyBelow(insts, bound), inst.op \in {"Label", "Jump"} => inst.arg0 < bound
    PROVE  BodyBelow(Append(insts, inst), bound)
<1> DEFINE n == Len(insts)
           new == Append(insts, inst)
<1>1. n \in Nat OBVIOUS
<1>2. /\ Len(new) = n + 1 /\ new[n + 1] = inst
      /\ \A i \in 1 .. n : new[i] = insts[i]
  BY Appended
<1> HIDE DEF new
<1>3. \A i \in 1 .. n + 1 : i = n + 1 \/ i \in 1 .. n BY <1>1
<1>4. ASSUME NEW i \in 1 .. n + 1, new[i].op \in {"Label", "Jump"} PROVE new[i].arg0 < bound
  BY <1>2, <1>4, <1>3 DEF BodyBelow
<1>5. BodyBelow(new, bound) BY <1>2, <1>4 DEF BodyBelow
<1> QED BY <1>5 DEF new

\* The return that is put at the end of a body.
LEMMA ReturnIs ==
    ReturnNothing \in Instructions /\ ReturnNothing.op = "VoidReturn"
BY DEF ReturnNothing, Blank, Instructions, Ops, Conditions, NoSymbol

\* Sealing keeps a body well formed and makes no label.
LEMMA SealedWf ==
    ASSUME NEW insts, WfBody(insts), NEW bound, BodyBelow(insts, bound)
    PROVE  WfBody(Sealed(insts)) /\ BodyBelow(Sealed(insts), bound)
BY ReturnIs, AppendWf, AppendBelow DEF WfBody, Sealed

\* What labels the blocks have is what labels their text has.
LEMMA LabelText ==
    ASSUME NEW cfg \in Seq(Blocks), NEW b \in 1 .. Len(cfg), cfg[b].label # 0
    PROVE  /\ Base(cfg, b) + 1 \in 1 .. Len(FlattenCfg(cfg))
           /\ FlattenCfg(cfg)[Base(cfg, b) + 1] = LabelI(cfg[b].label)
           /\ cfg[b].label \in Nat \ {0}
<1>1. cfg[b] \in Blocks OBVIOUS
<1>2. Labelled(cfg[b]) = 1 BY DEF Labelled
<1>3. /\ Len(BlockText(cfg[b])) = 1 + Len(cfg[b].insts) /\ Len(cfg[b].insts) \in Nat
      /\ BlockText(cfg[b])[1] = LabelI(cfg[b].label) /\ cfg[b].label \in Nat \ {0}
  BY <1>1, <1>2, TextParts
<1>4. 1 \in 1 .. Size(cfg, b) BY <1>3 DEF Size
<1> QED BY <1>3, <1>4, TextAt

\* A bound on the labels of blocks is one on those of their text.
LEMMA BelowIs ==
    ASSUME NEW cfg, WfCfg(cfg), NEW bound
    PROVE  BodyBelow(FlattenCfg(cfg), bound) <=> LabelsBelow(cfg, bound)
<1>1. cfg \in Seq(Blocks) BY DEF WfCfg
<1>2. ASSUME LabelsBelow(cfg, bound), NEW i \in 1 .. Len(FlattenCfg(cfg)),
             FlattenCfg(cfg)[i].op \in {"Label", "Jump"}
      PROVE  FlattenCfg(cfg)[i].arg0 < bound
  <2>1. CASE FlattenCfg(cfg)[i].op = "Label"
    BY <2>1, FlattenCfgIs, <1>1, LabelText, <1>2, LabelsAre DEF LabelsBelow
  <2>2. CASE FlattenCfg(cfg)[i].op = "Jump" BY <2>2, FlattenCfgIs, <1>2 DEF LabelsBelow
  <2> QED BY <1>2, <2>1, <2>2
<1>3. ASSUME BodyBelow(FlattenCfg(cfg), bound), NEW b \in 1 .. Len(cfg), cfg[b].label # 0
      PROVE  cfg[b].label < bound BY <1>1, <1>3, LabelText, LabelsAre DEF BodyBelow
<1>4. ASSUME BodyBelow(FlattenCfg(cfg), bound), NEW b \in 1 .. Len(cfg),
             NEW k \in 1 .. Len(cfg[b].insts), cfg[b].insts[k].op = "Jump"
      PROVE  cfg[b].insts[k].arg0 < bound
  <2> DEFINE o == Labelled(cfg[b]) + k
  <2>1. BlockText(cfg[b])[o] = cfg[b].insts[k] /\ o \in 1 .. Size(cfg, b)
    BY <1>1, TextParts DEF Size
  <2> HIDE DEF o
  <2>2. /\ Base(cfg, b) + o \in 1 .. Len(FlattenCfg(cfg))
        /\ FlattenCfg(cfg)[Base(cfg, b) + o] = cfg[b].insts[k]
    BY <1>1, <2>1, TextAt
  <2> QED BY <1>4, <2>2 DEF BodyBelow
<1> QED BY <1>2, <1>3, <1>4 DEF BodyBelow, LabelsBelow

-----------------------------------------------------------------------------
(* Jumps led elsewhere.                                                    *)

\* new is insts but for where its jumps lead.
Led(insts, new) ==
    /\ new \in Seq(Steps) /\ Len(new) = Len(insts)
    /\ \A i \in 1 .. Len(insts) :
           /\ new[i].op = insts[i].op /\ new[i].cond = insts[i].cond
           /\ IF insts[i].op = "Jump" THEN new[i].arg0 # 0 ELSE new[i] = insts[i]
\* The same of blocks.
Redirected(cfg, new) ==
    /\ new \in Seq(Blocks) /\ Len(new) = Len(cfg)
    /\ \A b \in 1 .. Len(cfg) :
           new[b].label = cfg[b].label /\ Led(cfg[b].insts, new[b].insts)

\* A jump led to label t.
LEMMA Redirect ==
    ASSUME NEW inst \in Steps, inst.op = "Jump", NEW t \in Nat
    PROVE  /\ [inst EXCEPT !.arg0 = t] \in Steps /\ [inst EXCEPT !.arg0 = t].op = "Jump"
           /\ [inst EXCEPT !.arg0 = t].cond = inst.cond /\ [inst EXCEPT !.arg0 = t].arg0 = t
BY DEF Steps, Instructions

\* Such blocks end in the same way.
LEMMA LedEnds ==
    ASSUME NEW insts \in Seq(Steps), NEW new, Led(insts, new)
    PROVE  /\ new = <<>> <=> insts = <<>>
           /\ insts # <<>> => /\ Len(insts) \in 1 .. Len(insts)
                              /\ Last(insts) = insts[Len(insts)] /\ Last(new) = new[Len(insts)]
                              /\ Last(new).op = Last(insts).op /\ Last(new).cond = Last(insts).cond
BY DEF Led, Last

\* Leading jumps elsewhere keeps blocks well formed and regular.
LEMMA RedirectedWf ==
    ASSUME NEW cfg, WfCfg(cfg), NEW new, Redirected(cfg, new)
    PROVE  /\ WfCfg(new)
           /\ \A b \in 1 .. Len(cfg) : /\ EndsWithTransfer(new[b]) <=> EndsWithTransfer(cfg[b])
                                       /\ EndsForGood(new[b]) <=> EndsForGood(cfg[b])
           /\ Regular(cfg) => Regular(new)
<1>1. cfg \in Seq(Blocks) /\ new \in Seq(Blocks) /\ Len(new) = Len(cfg) /\ Len(cfg) \in Nat
  BY DEF WfCfg, Redirected
<1>2. ASSUME NEW b \in 1 .. Len(cfg)
      PROVE  /\ WfBlock(new[b])
             /\ EndsWithTransfer(new[b]) <=> EndsWithTransfer(cfg[b])
             /\ EndsForGood(new[b]) <=> EndsForGood(cfg[b])
             /\ new[b].insts = <<>> <=> cfg[b].insts = <<>>
  <2>1. cfg[b] \in Blocks /\ new[b] \in Blocks /\ WfBlock(cfg[b]) BY <1>1 DEF WfCfg
  <2>2. cfg[b].insts \in Seq(Steps) /\ Led(cfg[b].insts, new[b].insts) BY <2>1 DEF Redirected, Blocks
  <2> DEFINE s == cfg[b].insts
             t == new[b].insts
  <2>3. Len(s) = Len(t) /\ \A i \in 1 .. Len(s) : t[i].op = s[i].op /\ t[i].cond = s[i].cond
                                                 /\ (t[i].op = "Jump" => t[i].arg0 # 0)
    BY <2>2 DEF Led
  <2>4. \A i \in 1 .. Len(s) : TransfersControl(t[i]) => TransfersControl(s[i])
    BY <2>3 DEF TransfersControl
  <2>5. WfBlock(new[b]) BY <2>1, <2>3, <2>4 DEF WfBlock
  <2>6. /\ t = <<>> <=> s = <<>>
        /\ s # <<>> => Last(t).op = Last(s).op /\ Last(t).cond = Last(s).cond
    BY <2>2, LedEnds
  <2> HIDE DEF s, t
  <2>7. /\ t # <<>> /\ TransfersControl(Last(t)) <=> s # <<>> /\ TransfersControl(Last(s))
        /\ t # <<>> /\ LeavesForGood(Last(t)) <=> s # <<>> /\ LeavesForGood(Last(s))
    BY <2>6 DEF TransfersControl, LeavesForGood
  <2> QED BY <2>5, <2>6, <2>7 DEF EndsWithTransfer, EndsForGood, s, t
<1>3. \A b \in 1 .. Len(cfg) : new[b].label = cfg[b].label BY DEF Redirected
<1>4. WfCfg(new) BY <1>1, <1>2, <1>3 DEF WfCfg
<1>6. ASSUME Regular(cfg) PROVE Regular(new)
  <2>1. ASSUME NEW b \in 1 .. Len(cfg), new[b].label = 0
        PROVE  new[b].insts # <<>> /\ (b = 1 \/ EndsWithTransfer(new[b - 1]))
    BY <1>3, <1>6, <2>1, <1>1, <1>2 DEF Regular
  <2> QED BY <1>1, <1>4, <2>1 DEF Regular
<1> QED BY <1>2, <1>4, <1>6

-----------------------------------------------------------------------------
(* threadJumps.                                                            *)

\* Where jumps to label end up when they are led past the trampolines.
Trampolines(cfg) == {cfg[b].label : b \in {c \in DOMAIN cfg : IsTrampoline(cfg[c])}}
\* Where the trampoline with a label leads.
LeadsTo(cfg, label) == cfg[CHOOSE b \in BlocksLabelled(cfg, label) : TRUE].insts[1].arg0
\* Where jumps to label end up when they are led past the trampolines.
FinalTarget(cfg, label) ==
    LET most == Cardinality(Trampolines(cfg))
        after[hops \in 0..most] ==
            IF hops = 0 THEN label
            ELSE LET target == after[hops - 1]
                 IN  IF target \in Trampolines(cfg) THEN LeadsTo(cfg, target) ELSE target
    IN  IF after[most] \in Trampolines(cfg) THEN label ELSE after[most]
\* A jump that has been led past them.
Threaded(cfg, inst) ==
    IF inst.op = "Jump" THEN [inst EXCEPT !.arg0 = FinalTarget(cfg, @)] ELSE inst

\* ThreadJumps leads every jump past the trampolines.
LEMMA ThreadJumpsIs ==
    ASSUME NEW cfg
    PROVE  ThreadJumps(cfg) =
               [b \in DOMAIN cfg |->
                   [cfg[b] EXCEPT !.insts = [i \in DOMAIN @ |-> Threaded(cfg, @[i])]]]
BY Zenon DEF ThreadJumps, Threaded, FinalTarget, LeadsTo, Trampolines

\* What a jump is led to is its own label or one that a trampoline leads to.
LEMMA FinalTargetIs ==
    ASSUME NEW cfg, IsFiniteSet(Trampolines(cfg)), NEW L,
           \A l \in Trampolines(cfg) : LeadsTo(cfg, l) \in L, NEW label \in L
    PROVE  FinalTarget(cfg, label) \in L
<1> DEFINE T == Trampolines(cfg)
           most == Cardinality(T)
           Raw(f) == f = [hops \in 0 .. most |->
                             IF hops = 0 THEN label
                             ELSE LET target == f[hops - 1]
                                  IN  IF target \in T THEN LeadsTo(cfg, target) ELSE target]
           w == CHOOSE f : Raw(f)
           g == [x \in L \X (1 .. most) |-> IF x[1] \in T THEN LeadsTo(cfg, x[1]) ELSE x[1]]
<1>1. FinalTarget(cfg, label) = IF w[most] \in T THEN label ELSE w[most] BY Zenon DEF FinalTarget
<1>2. most \in Nat BY FS_CardinalityType
<1>3. g \in [L \X (1 .. most) -> L] OBVIOUS
<1>4. PICK u : Folding(most, L, label, g, u)
  <2>1. IsFold(most, L, label, g)
    <3> HIDE DEF g, most
    <3> QED BY <1>2, <1>3 DEF IsFold
  <2> HIDE DEF g, most
  <2> QED BY <2>1, Iterated
<1>5. u \in [0 .. most -> L] /\ u[0] = label /\ \A i \in 1 .. most : u[i] = g[<<u[i - 1], i>>]
  BY <1>4 DEF Folding
<1>6. ASSUME NEW i \in 1 .. most
      PROVE  u[i] = IF u[i - 1] \in T THEN LeadsTo(cfg, u[i - 1]) ELSE u[i - 1]
  <2>1. i - 1 \in 0 .. most BY <1>2
  <2>2. <<u[i - 1], i>> \in L \X (1 .. most) BY <1>5, <2>1
  <2>3. g[<<u[i - 1], i>>] = IF u[i - 1] \in T THEN LeadsTo(cfg, u[i - 1]) ELSE u[i - 1] BY <2>2
  <2> HIDE DEF g
  <2> QED BY <1>5, <2>3
<1> HIDE DEF g
<1>7. Raw(u)
  <2>1. ASSUME NEW i \in 0 .. most
        PROVE  u[i] = IF i = 0 THEN label ELSE IF u[i - 1] \in T THEN LeadsTo(cfg, u[i - 1]) ELSE u[i - 1]
    BY <1>2, <1>5, <1>6
  <2>2. u = [i \in 0 .. most |-> u[i]] BY <1>5
  <2>3. u = [i \in 0 .. most |->
                IF i = 0 THEN label ELSE IF u[i - 1] \in T THEN LeadsTo(cfg, u[i - 1]) ELSE u[i - 1]]
    BY <2>1, <2>2
  <2> QED BY <2>3, Zenon
<1>8. Raw(w)
  <2> HIDE DEF Raw
  <2> QED BY <1>7
<1> HIDE DEF w, most
<1>9. \A i \in 0 .. most : w[i] \in L
  <2> DEFINE E == {i \in 0 .. most : w[i] \in L}
  <2>0. \A i \in 0 .. most : w[i] = IF i = 0 THEN label
                                    ELSE IF w[i - 1] \in T THEN LeadsTo(cfg, w[i - 1]) ELSE w[i - 1]
    BY <1>8
  <2>1. 0 \in E BY <1>2, <2>0
  <2>2. ASSUME NEW i \in 1 .. most, i - 1 \in E PROVE i \in E BY <1>2, <2>2, <2>0
  <2>3. \A i \in 0 .. most : i \in E
    <3> HIDE DEF E
    <3> QED BY <1>2, <2>1, <2>2, UpTo
  <2> QED BY <2>3
<1>10. w[most] \in L BY <1>2, <1>9
<1> QED BY <1>1, <1>10 DEF most

\* Blocks have finitely many labels.
LEMMA FiniteLabels ==
    ASSUME NEW cfg, WfCfg(cfg)
    PROVE  IsFiniteSet({cfg[b].label : b \in 1 .. Len(cfg)})
<1> DEFINE n == Len(cfg)
           T == {cfg[b].label : b \in 1 .. n}
           f == [b \in 1 .. n |-> cfg[b].label]
<1>1. n \in Nat /\ IsFiniteSet(1 .. n)
  <2>1. n \in Nat BY DEF WfCfg
  <2> QED BY <2>1, FS_Interval
<1>2. f \in Surjection(1 .. n, T) BY DEF Surjection
<1> HIDE DEF f, T, n
<1> QED BY <1>1, <1>2, FS_Surjection DEF T, n

\* So there are finitely many trampolines, and they lead to labels below bound.
LEMMA TrampolinesAre ==
    ASSUME NEW cfg, WfCfg(cfg), NEW bound, LabelsBelow(cfg, bound)
    PROVE  /\ IsFiniteSet(Trampolines(cfg))
           /\ \A l \in Trampolines(cfg) : LeadsTo(cfg, l) \in {m \in Nat \ {0} : m < bound}
<1>1. cfg \in Seq(Blocks) /\ DOMAIN cfg = 1 .. Len(cfg) BY DEF WfCfg
<1>2. Trampolines(cfg) \subseteq {cfg[b].label : b \in 1 .. Len(cfg)} BY <1>1 DEF Trampolines
<1>3. IsFiniteSet(Trampolines(cfg)) BY <1>2, FiniteLabels, Smaller
<1>4. ASSUME NEW l \in Trampolines(cfg) PROVE LeadsTo(cfg, l) \in {m \in Nat \ {0} : m < bound}
  <2>1. PICK b \in 1 .. Len(cfg) : IsTrampoline(cfg[b]) /\ cfg[b].label = l
    BY <1>1 DEF Trampolines
  <2>2. l # 0 /\ Len(cfg[b].insts) = 1 /\ cfg[b].insts[1].op = "Jump"
    BY <2>1 DEF IsTrampoline, OnlyOneJump, NoSymbol
  <2>3. \A c \in DOMAIN cfg : cfg[c].label = l => c = b BY <1>1, <2>1, <2>2 DEF WfCfg
  <2>4. BlocksLabelled(cfg, l) = {b} BY <1>1, <2>1, <2>3 DEF BlocksLabelled
  <2>5. LeadsTo(cfg, l) = cfg[b].insts[1].arg0 BY <2>4 DEF LeadsTo
  <2>6. cfg[b].insts \in Seq(Steps) /\ WfBlock(cfg[b]) BY DEF WfCfg, WfBlock, Blocks
  <2>7. cfg[b].insts[1] \in Steps /\ cfg[b].insts[1].arg0 # 0 BY <2>2, <2>6 DEF WfBlock
  <2>8. cfg[b].insts[1].arg0 \in Nat BY <2>7 DEF Steps, Instructions
  <2>9. cfg[b].insts[1].arg0 < bound BY <2>2 DEF LabelsBelow
  <2> QED BY <2>5, <2>7, <2>8, <2>9
<1> QED BY <1>3, <1>4

\* threadJumps only leads jumps elsewhere, and to no new label.
LEMMA ThreadedWf ==
    ASSUME NEW cfg, WfCfg(cfg), NEW bound, LabelsBelow(cfg, bound)
    PROVE  Redirected(cfg, ThreadJumps(cfg)) /\ LabelsBelow(ThreadJumps(cfg), bound)
<1> DEFINE new == ThreadJumps(cfg)
           n == Len(cfg)
<1>1. cfg \in Seq(Blocks) /\ DOMAIN cfg = 1 .. n /\ n \in Nat BY DEF WfCfg
<1>2. new = [b \in DOMAIN cfg |-> [cfg[b] EXCEPT !.insts = [i \in DOMAIN @ |-> Threaded(cfg, @[i])]]]
  BY ThreadJumpsIs
<1> HIDE DEF new
<1>3. ASSUME NEW b \in 1 .. n
      PROVE  /\ new[b] \in Blocks /\ new[b].label = cfg[b].label
             /\ Led(cfg[b].insts, new[b].insts)
             /\ \A i \in 1 .. Len(new[b].insts) :
                    new[b].insts[i].op = "Jump" => new[b].insts[i].arg0 < bound
  <2> DEFINE s == cfg[b].insts
             t == [i \in DOMAIN s |-> Threaded(cfg, s[i])]
  <2>1. cfg[b] \in Blocks /\ WfBlock(cfg[b]) BY <1>1 DEF WfCfg
  <2>2. s \in Seq(Steps) /\ cfg[b].label \in Nat BY <2>1 DEF Blocks
  <2>3. new[b] = [label |-> cfg[b].label, insts |-> t]
    <3>1. new[b] = [cfg[b] EXCEPT !.insts = t] BY <1>1, <1>2, Zenon
    <3> HIDE DEF t
    <3> QED BY <2>1, <3>1, ChangedBlock
  <2>4. ASSUME NEW i \in 1 .. Len(s)
        PROVE  /\ Threaded(cfg, s[i]) \in Steps
               /\ Threaded(cfg, s[i]).op = s[i].op /\ Threaded(cfg, s[i]).cond = s[i].cond
               /\ IF s[i].op = "Jump" THEN /\ Threaded(cfg, s[i]).arg0 # 0
                                           /\ Threaded(cfg, s[i]).arg0 < bound
                                      ELSE Threaded(cfg, s[i]) = s[i]
    <3>1. s[i] \in Steps BY <2>2
    <3>2. CASE s[i].op = "Jump"
      <4>1. s[i].arg0 \in {m \in Nat \ {0} : m < bound}
        BY <2>1, <3>2, <3>1 DEF WfBlock, Steps, Instructions, LabelsBelow
      <4> DEFINE to == FinalTarget(cfg, s[i].arg0)
      <4>2. to \in {m \in Nat \ {0} : m < bound}
        <5>1. \A l \in Trampolines(cfg) : LeadsTo(cfg, l) \in {m \in Nat \ {0} : m < bound}
          BY TrampolinesAre
        <5> HIDE DEF s
        <5> QED BY <4>1, <5>1, TrampolinesAre, FinalTargetIs
      <4>3. Threaded(cfg, s[i]) = [s[i] EXCEPT !.arg0 = to] BY <3>2 DEF Threaded
      <4> HIDE DEF to, s
      <4> QED BY <3>1, <3>2, <4>2, <4>3, Redirect
    <3>3. CASE s[i].op # "Jump" BY <3>3, <3>1 DEF Threaded
    <3> QED BY <3>2, <3>3
  <2>5. t \in Seq(Steps) /\ Len(t) = Len(s) /\ \A i \in 1 .. Len(s) : t[i] = Threaded(cfg, s[i])
    <3>1. DOMAIN s = 1 .. Len(s) /\ Len(s) \in Nat BY <2>2
    <3> HIDE DEF s
    <3> QED BY <2>4, <3>1
  <2> HIDE DEF s, t
  <2>6. Led(s, t) BY <2>4, <2>5 DEF Led
  <2>7. \A i \in 1 .. Len(t) : t[i].op = "Jump" => t[i].arg0 < bound BY <2>4, <2>5
  <2> QED BY <2>2, <2>3, <2>5, <2>6, <2>7 DEF Blocks, s
<1>4. new \in Seq(Blocks) /\ Len(new) = n
  <2>1. DOMAIN new = 1 .. n BY <1>1, <1>2
  <2>2. new = [b \in 1 .. n |-> new[b]] BY <1>1, <1>2
  <2> QED BY <1>1, <1>3, <2>1, <2>2
<1>5. LabelsBelow(new, bound) BY <1>3, <1>4 DEF LabelsBelow
<1> QED BY <1>3, <1>4, <1>5 DEF Redirected, new

-----------------------------------------------------------------------------
(* eliminateUnreachable and eliminateJumpToNext.                           *)

\* Blocks with one more, of a new label.
LEMMA WfGrows ==
    ASSUME NEW cfg, WfCfg(cfg), NEW block, WfBlock(block),
           block.label # 0 => \A b \in 1 .. Len(cfg) : cfg[b].label # block.label
    PROVE  WfCfg(Append(cfg, block))
<1> DEFINE n == Len(cfg)
           new == Append(cfg, block)
<1>1. cfg \in Seq(Blocks) /\ block \in Blocks /\ n \in Nat BY DEF WfCfg, WfBlock
<1>2. new \in Seq(Blocks) /\ Len(new) = n + 1 /\ new[n + 1] = block /\ \A b \in 1 .. n : new[b] = cfg[b]
  BY <1>1, Appended
<1> HIDE DEF new
<1>3. \A b \in 1 .. n + 1 : b = n + 1 \/ b \in 1 .. n BY <1>1
<1>4. \A b \in 1 .. n + 1 : WfBlock(new[b]) BY <1>2, <1>3 DEF WfCfg
<1>5. ASSUME NEW b \in 1 .. n + 1, NEW c \in 1 .. n + 1, new[b].label # 0, new[b].label = new[c].label
      PROVE  b = c BY <1>2, <1>5, <1>3 DEF WfCfg
<1>6. WfCfg(new) BY <1>2, <1>4, <1>5 DEF WfCfg
<1> QED BY <1>6 DEF new

\* Some of the blocks are well formed when all of them are.
LEMMA KeepAtWf ==
    ASSUME NEW cfg, WfCfg(cfg), NEW places, NEW bound, LabelsBelow(cfg, bound)
    PROVE  WfCfg(KeepAt(cfg, places)) /\ LabelsBelow(KeepAt(cfg, places), bound)
<1> DEFINE n == Len(cfg)
           s == [i \in DOMAIN cfg |-> IF i \in places THEN <<cfg[i]>> ELSE <<>>]
           Fits(c, i) == /\ WfCfg(c)
                         /\ \A b \in 1 .. Len(c) : \E k \in 1 .. i : c[b] = cfg[k]
<1>1. cfg \in Seq(Blocks) /\ n \in Nat /\ DOMAIN cfg = 1 .. n /\ \A i \in 1 .. n : cfg[i] \in Blocks
  BY DEF WfCfg
<1>2. /\ s \in Seq(Seq(Blocks)) /\ Len(s) = n
      /\ \A i \in 1 .. n : s[i] = IF i \in places THEN <<cfg[i]>> ELSE <<>> BY <1>1
<1>3. KeepAt(cfg, places) = FlattenSeq(s) BY DEF KeepAt
<1> HIDE DEF s
<1>4. PICK u : Flattening(Blocks, s, u) /\ FlattenSeq(s) = u[n] BY <1>2, FlattenSeqIs
<1>5. u \in [0 .. n -> Seq(Blocks)] /\ u[0] = <<>> /\ \A i \in 1 .. n : u[i] = u[i - 1] \o s[i]
  BY <1>2, <1>4 DEF Flattening
<1> DEFINE P == {i \in 0 .. n : Fits(u[i], i)}
<1>6. 0 \in P BY <1>1, <1>5 DEF WfCfg
<1>7. ASSUME NEW i \in 1 .. n, i - 1 \in P PROVE i \in P
  <2> DEFINE c == u[i - 1]
  <2>1. i \in 0 .. n /\ i - 1 \in 0 .. n BY <1>1
  <2>2. Fits(c, i - 1) /\ c \in Seq(Blocks) BY <1>5, <1>7, <2>1
  <2>3. CASE i \notin places
    <3>1. u[i] = c \o <<>> BY <1>2, <1>5, <2>3
    <3>2. c \o <<>> = c BY <2>2
    <3>3. \A k \in 1 .. i - 1 : k \in 1 .. i BY <2>1
    <3> QED BY <2>1, <2>2, <3>1, <3>2, <3>3
  <2>4. CASE i \in places
    <3>1. u[i] = c \o <<cfg[i]>> BY <1>2, <1>5, <2>4
    <3>2. c \o <<cfg[i]>> = Append(c, cfg[i]) BY <1>1, <2>2
    <3>3. WfBlock(cfg[i]) BY DEF WfCfg
    <3>4. ASSUME cfg[i].label # 0, NEW b \in 1 .. Len(c) PROVE c[b].label # cfg[i].label
      BY <2>2, <1>1, <3>4 DEF WfCfg
    <3>5. WfCfg(Append(c, cfg[i])) BY <2>2, <3>3, <3>4, WfGrows
    <3>6. ASSUME NEW b \in 1 .. Len(Append(c, cfg[i])) PROVE \E k \in 1 .. i : Append(c, cfg[i])[b] = cfg[k]
      <4>1. /\ Len(Append(c, cfg[i])) = Len(c) + 1 /\ Append(c, cfg[i])[Len(c) + 1] = cfg[i]
            /\ \A k \in 1 .. Len(c) : Append(c, cfg[i])[k] = c[k]
        BY <1>1, <2>2, Appended
      <4>2. Len(c) \in Nat BY <2>2
      <4>3. CASE b = Len(c) + 1 BY <1>1, <4>1, <4>3
      <4>4. CASE b \in 1 .. Len(c) BY <2>2, <4>4, <1>1, <4>1
      <4> QED BY <4>1, <4>2, <4>3, <4>4
    <3> QED BY <2>1, <3>1, <3>2, <3>5, <3>6
  <2> QED BY <2>3, <2>4
<1>8. \A i \in 0 .. n : i \in P
  <2> HIDE DEF P, n
  <2> QED BY <1>1, <1>6, <1>7, UpTo
<1>9. Fits(u[n], n) BY <1>1, <1>8
<1> DEFINE r == u[n]
<1>10. LabelsBelow(r, bound)
  <2>1. ASSUME NEW b \in 1 .. Len(r)
        PROVE  /\ r[b].label # 0 => r[b].label < bound
               /\ \A i \in 1 .. Len(r[b].insts) :
                      r[b].insts[i].op = "Jump" => r[b].insts[i].arg0 < bound
    BY <1>9, <2>1 DEF LabelsBelow
  <2> QED BY <2>1 DEF LabelsBelow
<1> QED BY <1>3, <1>4, <1>9, <1>10

\* eliminateJumpToNext keeps blocks well formed and makes no labels.
LEMMA JumpToNextWf ==
    ASSUME NEW cfg, WfCfg(cfg), NEW bound, LabelsBelow(cfg, bound)
    PROVE  WfCfg(EliminateJumpToNext(cfg)) /\ LabelsBelow(EliminateJumpToNext(cfg), bound)
<1> DEFINE new == EliminateJumpToNext(cfg)
           n == Len(cfg)
           drops(b) == /\ b + 1 \in DOMAIN cfg /\ cfg[b].insts # <<>> /\ cfg[b + 1].label # NoSymbol
                       /\ Last(cfg[b].insts) = JumpI(cfg[b + 1].label)
<1>1. cfg \in Seq(Blocks) /\ n \in Nat /\ DOMAIN cfg = 1 .. n BY DEF WfCfg
<1>2. new = [b \in DOMAIN cfg |-> IF drops(b) THEN [cfg[b] EXCEPT !.insts = Front(@)] ELSE cfg[b]]
  BY Zenon DEF EliminateJumpToNext
<1> HIDE DEF new, drops
<1>3. ASSUME NEW b \in 1 .. n PROVE /\ WfBlock(new[b]) /\ new[b].label = cfg[b].label
                                   /\ \A i \in 1 .. Len(new[b].insts) : new[b].insts[i].op = "Jump" =>
                                          new[b].insts[i].arg0 < bound
  <2>1. cfg[b] \in Blocks /\ WfBlock(cfg[b]) BY <1>1 DEF WfCfg
  <2> DEFINE s == cfg[b].insts
  <2>2. s \in Seq(Steps) /\ cfg[b].label \in Nat BY <2>1 DEF Blocks
  <2>3. CASE drops(b)
    <3>1. new[b] = [cfg[b] EXCEPT !.insts = Front(s)] BY <1>1, <1>2, <2>3
    <3>2. new[b] = [label |-> cfg[b].label, insts |-> Front(s)] BY <2>1, <3>1, ChangedBlock
    <3>3. s # <<>> BY <2>3 DEF drops
    <3> DEFINE t == Front(s)
    <3>4. Len(s) - 1 \in 0 .. Len(s) BY <2>2, <3>3
    <3>5. /\ t \in Seq(Steps) /\ Len(t) = Len(s) - 1
          /\ \A i \in 1 .. Len(s) - 1 : t[i] = s[i] /\ i \in 1 .. Len(s)
      <4>1. t = SubSeq(s, 1, Len(s) - 1) BY DEF Front
      <4> DEFINE k == Len(s) - 1
      <4>2. k \in 0 .. Len(s) BY <3>4
      <4> HIDE DEF s, t, k
      <4>3. /\ SubSeq(s, 1, k) \in Seq(Steps) /\ Len(SubSeq(s, 1, k)) = k
            /\ \A i \in 1 .. k : SubSeq(s, 1, k)[i] = s[i] /\ i \in 1 .. Len(s)
        BY <2>2, <4>2, PrefixIs
      <4> QED BY <4>1, <4>3 DEF k
    <3>6. \A i \in 1 .. Len(s) - 1 : i # Len(s) BY <2>2
    <3>7. \A i \in 1 .. Len(t) : ~TransfersControl(t[i]) /\ (t[i].op = "Jump" => t[i].arg0 # 0)
      BY <2>1, <3>5, <3>6 DEF WfBlock
    <3> HIDE DEF t
    <3>8. new[b] \in Blocks /\ new[b].insts = t /\ new[b].label = cfg[b].label
      BY <2>2, <3>2, <3>5 DEF Blocks, t
    <3>9. \A i \in 1 .. Len(t) : t[i].op = "Jump" => t[i].arg0 < bound
      BY <3>5 DEF LabelsBelow
    <3> QED BY <3>7, <3>8, <3>9 DEF WfBlock
  <2>4. CASE ~drops(b) BY <1>1, <1>2, <2>4, <2>1 DEF LabelsBelow
  <2> QED BY <2>3, <2>4
<1>4. new \in Seq(Blocks) /\ Len(new) = n BY <1>3, <1>1, <1>2 DEF WfBlock
<1>5. WfCfg(new) BY <1>3, <1>4 DEF WfCfg
<1>6. LabelsBelow(new, bound) BY <1>3, <1>4 DEF LabelsBelow
<1> QED BY <1>5, <1>6 DEF new

\* applyCfgPasses keeps bodies well formed and makes no labels.
LEMMA CleanedWf ==
    ASSUME NEW insts, WfBody(insts), NEW bound, BodyBelow(insts, bound)
    PROVE  WfBody(ApplyCfgPasses(insts, 1)) /\ BodyBelow(ApplyCfgPasses(insts, 1), bound)
<1> DEFINE a == BuildCfg(insts)
           b == ThreadJumps(a)
           c == EliminateUnreachable(b)
           d == EliminateJumpToNext(c)
<1>1. ApplyCfgPasses(insts, 1) = FlattenCfg(d)
  <2>1. RemoveDetours(a, 1) = c BY DEF RemoveDetours
  <2> HIDE DEF a, c
  <2> QED BY <2>1 DEF ApplyCfgPasses, a
<1> HIDE DEF a
<1>2. WfCfg(a) /\ LabelsBelow(a, bound) BY BuildCfgIs, BelowIs DEF a, Regular
<1>3. WfCfg(b) /\ LabelsBelow(b, bound)
  <2>1. Redirected(a, b) /\ LabelsBelow(b, bound) BY <1>2, ThreadedWf
  <2> HIDE DEF b
  <2> QED BY <1>2, <2>1, RedirectedWf
<1> HIDE DEF b
<1>4. WfCfg(c) /\ LabelsBelow(c, bound) BY <1>3, KeepAtWf DEF EliminateUnreachable
<1> HIDE DEF c
<1>5. WfCfg(d) /\ LabelsBelow(d, bound) BY <1>4, JumpToNextWf
<1> HIDE DEF d
<1> QED BY <1>1, <1>5, BelowIs, FlattenCfgIs

-----------------------------------------------------------------------------
(* Paths that avoid a block, and preheaders.                               *)

\* What is reached on a path that avoids d is reached; when d is not reached, every
\* path avoids it.
LEMMA AvoidingReachable ==
    ASSUME NEW cfg, Graph(cfg), cfg # <<>>, NEW d
    PROVE  /\ Avoiding(cfg, d) \subseteq ReachableFromEntry(cfg)
           /\ d \notin ReachableFromEntry(cfg) => ReachableFromEntry(cfg) \subseteq Avoiding(cfg, d)
BY ReachableIs, AvoidingIs DEF Graph

\* The entry is reached, and so is what a reached block leads to.
LEMMA ReachableNext ==
    ASSUME NEW cfg, Graph(cfg), cfg # <<>>
    PROVE  /\ 1 \in ReachableFromEntry(cfg) /\ ReachableFromEntry(cfg) \subseteq DOMAIN cfg
           /\ \A a \in ReachableFromEntry(cfg) :
                  CfgSuccessors(cfg, a) \subseteq ReachableFromEntry(cfg)
BY ReachableIs, AvoidingIs DEF Graph

\* Of two blocks one is reached before the other.
LEMMA OneFirst ==
    ASSUME NEW cfg, Graph(cfg), cfg # <<>>, NEW p \in ReachableFromEntry(cfg), NEW q, p # q
    PROVE  p \in Avoiding(cfg, q) \/ q \in Avoiding(cfg, p)
<1> SUFFICES ASSUME p \notin Avoiding(cfg, q), q \notin Avoiding(cfg, p) PROVE FALSE
  OBVIOUS
<1> DEFINE C == Avoiding(cfg, p) \cap Avoiding(cfg, q)
<1>1. 1 # p /\ 1 # q BY AvoidingIs
<1>2. 1 \in C BY <1>1, AvoidingIs
<1>3. ASSUME NEW a \in C PROVE CfgSuccessors(cfg, a) \subseteq C BY AvoidingIs
<1>4. Avoiding(cfg, 0) \subseteq C
  <2> HIDE DEF C
  <2> QED BY <1>2, <1>3, AvoidingIs
<1>5. p \in Avoiding(cfg, 0) BY ReachableIs
<1> QED BY <1>4, <1>5

\* The entry into a block that is reached.
LEMMA SomeEntry ==
    ASSUME NEW cfg, Graph(cfg), cfg # <<>>, NEW h \in ReachableFromEntry(cfg), h # 1
    PROVE  \E b \in Avoiding(cfg, h) : b # h /\ h \in CfgSuccessors(cfg, b)
<1> SUFFICES ASSUME \A b \in Avoiding(cfg, h) : b # h => h \notin CfgSuccessors(cfg, b) PROVE FALSE
  OBVIOUS
<1> DEFINE C == Avoiding(cfg, h) \ {h}
<1>1. 1 \in C BY AvoidingIs
<1>2. ASSUME NEW a \in C PROVE CfgSuccessors(cfg, a) \subseteq C BY AvoidingIs
<1>3. Avoiding(cfg, 0) \subseteq C
  <2> HIDE DEF C
  <2> QED BY <1>1, <1>2, AvoidingIs
<1> QED BY <1>3, ReachableIs

\* All of a loop is behind its header.
LEMMA LoopBehind ==
    ASSUME NEW cfg, Graph(cfg), NEW loop \in NaturalLoops(cfg), NEW b \in loop.blocks
    PROVE  b = loop.header \/ b \notin Avoiding(cfg, loop.header)
<1> DEFINE h == loop.header
           pred == CfgPredecessors(cfg)
           n == Len(cfg)
           C == {c \in DOMAIN cfg : c = h \/ c \notin Avoiding(cfg, h)}
<1>1. PICK p \in loop.latches : b \in LoopBlocks(pred, h, p) BY LoopsAre
<1>2. /\ cfg # <<>> /\ h \in DOMAIN cfg
      /\ p \in DOMAIN cfg
      /\ p \notin Avoiding(cfg, h) \/ p = h BY LoopsAre, ReachableIs, AvoidingIs
<1>5. pred = [c \in 1 .. n |-> {q \in 1 .. n : c \in CfgSuccessors(cfg, q)}] BY Predecessors
<1>6. {h, p} \subseteq C BY <1>2
<1>7. ASSUME NEW c \in C, c # h PROVE pred[c] \subseteq C
  BY <1>5, <1>2, AvoidingIs, <1>7 DEF Graph
<1>8. LoopBlocks(pred, h, p) \subseteq C
  <2> HIDE DEF C, pred, h
  <2> QED BY <1>2, <1>6, <1>7, LoopBlocksAre DEF pred
<1> QED BY <1>1, <1>8

\* The header of a loop is reached.
LEMMA HeaderReached ==
    ASSUME NEW cfg, Graph(cfg), NEW loop \in NaturalLoops(cfg)
    PROVE  loop.header \in ReachableFromEntry(cfg) /\ cfg # <<>> /\ loop.header \in DOMAIN cfg
BY LoopsAre, ReachableNext

\* A preheader of header h: it leads to h only, is reached without h and h
\* not without it.
Pre(cfg, h, p) ==
    /\ p \in DOMAIN cfg /\ CfgSuccessors(cfg, p) = {h}
    /\ p \in Avoiding(cfg, h) /\ p # h /\ h \notin Avoiding(cfg, p)

\* A loop has a preheader, as LoopFacts.cpp has it, when its header has one.
LEMMA PreheaderIs ==
    ASSUME NEW cfg, Graph(cfg), NEW loop \in NaturalLoops(cfg)
    PROVE  HasPreheader(cfg, loop) <=> \E p : Pre(cfg, loop.header, p)
<1> DEFINE h == loop.header
           pred == CfgPredecessors(cfg)
           dom == Dominators(cfg)
           n == Len(cfg)
           R == ReachableFromEntry(cfg)
           entries == Entries(pred, dom, loop)
<1>1. cfg # <<>> /\ h \in R /\ h \in DOMAIN cfg BY HeaderReached
<1>2. DOMAIN cfg = 1 .. n /\ n \in Nat BY DEF Graph
<1>3. pred = [c \in 1 .. n |-> {q \in 1 .. n : c \in CfgSuccessors(cfg, q)}] BY Predecessors
<1>4. \A p \in 1 .. n : p \in dom[h] <=> h \notin Avoiding(cfg, p) \/ h = p
  BY <1>1, <1>2, DominatorsAre
<1>5. \A p \in 1 .. n : p \in loop.latches <=>
          p \in R /\ h \in CfgSuccessors(cfg, p) /\ (p \notin Avoiding(cfg, h) \/ p = h)
  BY <1>2, LoopsAre
<1>6. \A p \in 1 .. n : h \notin Avoiding(cfg, p) => p \in R
  BY <1>1, AvoidingReachable
<1>7. \A p : p \in entries <=>
          /\ p \in 1 .. n /\ h \in CfgSuccessors(cfg, p) /\ p \in R
          /\ p \in Avoiding(cfg, h) /\ p # h /\ h \notin Avoiding(cfg, p)
  <2>1. \A p : p \in entries <=> p \in pred[h] /\ p \notin loop.latches /\ p \in dom[h]
    BY DEF Entries
  <2>2. \A p : p \in pred[h] <=> p \in 1 .. n /\ h \in CfgSuccessors(cfg, p) BY <1>1, <1>2, <1>3
  <2> HIDE DEF entries, pred, dom, h, R, n
  <2> QED BY <1>1, <1>4, <1>5, <1>6, <2>1, <2>2
<1> HIDE DEF entries, pred, dom, R
<1>8. ASSUME NEW p \in entries PROVE entries = {p} BY <1>1, <1>7, OneFirst, AvoidingIs DEF R
<1>9. ASSUME NEW p \in entries PROVE p \notin loop.blocks
  BY <1>7, LoopBehind
<1>10. HasPreheader(cfg, loop) <=> OnlyEntry(cfg, loop, entries) # 0
  BY DEF HasPreheader, PreheaderIndex, entries, pred, dom
<1>11. ASSUME NEW p, Pre(cfg, h, p) PROVE HasPreheader(cfg, loop)
  <2>1. p \in 1 .. n /\ CfgSuccessors(cfg, p) = {h} /\ p # 0 BY <1>2, <1>11 DEF Pre
  <2>2. p \in R BY <1>1, <1>11, AvoidingReachable DEF Pre, R
  <2>3. p \in entries BY <1>7, <1>11, <2>1, <2>2 DEF Pre
  <2>4. entries = {p} /\ Cardinality(entries) = 1 BY <1>8, <2>3, FS_Singleton
  <2>5. OnlyEntry(cfg, loop, entries) = p BY <1>9, <2>1, <2>3, <2>4 DEF OnlyEntry
  <2> QED BY <1>10, <2>1, <2>5
<1>12. ASSUME HasPreheader(cfg, loop) PROVE \E p : Pre(cfg, h, p)
  BY <1>10, <1>12, FS_EmptySet, <1>2, <1>7 DEF OnlyEntry, Pre
<1> QED BY <1>11, <1>12

-----------------------------------------------------------------------------
(* Blocks with a new one put before block h, which leads to it alone.      *)

\* The number of block b when there is a new block h, ...
Moved(h, b) == IF b < h THEN b ELSE b + 1
\* ... and back: the new block stands for the header.
Origin(h, x) == IF x <= h THEN x ELSE x - 1

\* The edges of new are those of cfg, but those to h may go to the new block.
Splits(cfg, new, h) ==
    /\ Graph(cfg) /\ Graph(new) /\ Len(new) = Len(cfg) + 1 /\ h \in DOMAIN cfg
    /\ CfgSuccessors(new, h) = {h + 1}
    /\ \A b \in DOMAIN cfg :
           /\ \A x \in CfgSuccessors(new, Moved(h, b)) : Origin(h, x) \in CfgSuccessors(cfg, b)
           /\ \A c \in CfgSuccessors(cfg, b) :
                  c # h => Moved(h, c) \in CfgSuccessors(new, Moved(h, b))
           /\ h \in CfgSuccessors(cfg, b) =>
                  \/ h \in CfgSuccessors(new, Moved(h, b))
                  \/ h + 1 \in CfgSuccessors(new, Moved(h, b))

\* Blocks keep their order, and none gets the number of the new one.
LEMMA MovedIs ==
    ASSUME NEW n \in Nat, NEW h \in 1 .. n
    PROVE  /\ \A b \in 0 .. n : /\ Moved(h, b) \in 0 .. n + 1 /\ Moved(h, b) # h
                                /\ Origin(h, Moved(h, b)) = b
                                /\ b # 0 => Moved(h, b) \in 1 .. n + 1
                                /\ b # h => Moved(h, b) # h + 1
           /\ \A b, c \in 0 .. n : Moved(h, b) = Moved(h, c) => b = c
           /\ \A x \in 1 .. n + 1 : /\ Origin(h, x) \in 1 .. n
                                    /\ x # h => Moved(h, Origin(h, x)) = x
           /\ Origin(h, h) = h /\ Moved(h, h) = h + 1 /\ Origin(h, h + 1) = h /\ Moved(h, 0) = 0
           /\ Origin(h, 1) = 1 /\ (h # 1 => Moved(h, 1) = 1)
BY DEF Moved, Origin

\* Splits in terms of the numbers of the blocks.
LEMMA SplitsIs ==
    ASSUME NEW cfg, NEW new, NEW h, Splits(cfg, new, h)
    PROVE  /\ Len(cfg) \in Nat /\ DOMAIN cfg = 1 .. Len(cfg) /\ DOMAIN new = 1 .. Len(cfg) + 1
           /\ h \in 1 .. Len(cfg) /\ cfg # <<>> /\ new # <<>>
           /\ h \in Nat \ {0} /\ h + 1 \in 1 .. Len(cfg) + 1 /\ h \in 1 .. Len(cfg) + 1
BY DEF Splits, Graph

\* Other blocks are avoided as before.
LEMMA SplitAvoids ==
    ASSUME NEW cfg, NEW new, NEW h, Splits(cfg, new, h), NEW d \in 0 .. Len(cfg), d # h
    PROVE  /\ \A x \in Avoiding(new, Moved(h, d)) : Origin(h, x) \in Avoiding(cfg, d)
           /\ \A b \in Avoiding(cfg, d) : Moved(h, b) \in Avoiding(new, Moved(h, d))
<1> DEFINE n == Len(cfg)
           A == Avoiding(cfg, d)
           B == Avoiding(new, Moved(h, d))
           C == {x \in DOMAIN new : Origin(h, x) \in A}
           D == {b \in DOMAIN cfg : Moved(h, b) \in B}
<1>1. /\ n \in Nat /\ DOMAIN cfg = 1 .. n /\ DOMAIN new = 1 .. n + 1
      /\ h \in 1 .. n /\ cfg # <<>> /\ new # <<>> /\ Graph(cfg) /\ Graph(new)
  BY SplitsIs DEF Splits
<1> USE <1>1
<1>2. /\ A \subseteq 1 .. n /\ B \subseteq 1 .. n + 1
      /\ 1 # d => 1 \in A
      /\ 1 # Moved(h, d) => 1 \in B
  BY AvoidingIs
<1>3. Moved(h, d) # h /\ Moved(h, d) # h + 1 BY MovedIs
<1>4. B \subseteq C
  <2>1. 1 # Moved(h, d) => 1 \in C BY MovedIs, <1>2
  <2>2. ASSUME NEW x \in C, x # Moved(h, d) PROVE CfgSuccessors(new, x) \subseteq C
    <3>1. CASE x = h BY <3>1, MovedIs DEF Splits
    <3>2. CASE x # h
      <4> DEFINE b == Origin(h, x)
      <4>1. b \in A /\ b \in 1 .. n /\ Moved(h, b) = x BY <3>2, MovedIs
      <4>2. b # d BY <2>2, <4>1
      <4>3. CfgSuccessors(cfg, b) \subseteq A BY <4>1, <4>2, AvoidingIs
      <4>4. \A y \in CfgSuccessors(new, x) : Origin(h, y) \in A BY <4>1, <4>3 DEF Splits
      <4> QED BY <4>4, SuccessorsAreBlocks
    <3> QED BY <3>1, <3>2
  <2> HIDE DEF C
  <2> QED BY <2>1, <2>2, AvoidingIs
<1>5. A \subseteq D
  <2>1. 1 # d => 1 \in D
    <3> SUFFICES ASSUME 1 # d PROVE Moved(h, 1) \in B OBVIOUS
    <3>1. CASE h # 1 BY <3>1, MovedIs, <1>2
    <3>2. CASE h = 1
      <4>1. Moved(h, d) # 1 /\ Moved(h, 1) = 2 BY <1>3, <3>2, MovedIs
      <4>2. 1 \in B BY <1>2, <4>1
      <4>3. CfgSuccessors(new, 1) = {2} BY <3>2 DEF Splits
      <4> QED BY <4>1, <4>2, <4>3, AvoidingIs
    <3> QED BY <3>1, <3>2
  <2>2. ASSUME NEW b \in D, b # d PROVE CfgSuccessors(cfg, b) \subseteq D
    <3> SUFFICES ASSUME NEW c \in CfgSuccessors(cfg, b) PROVE c \in D OBVIOUS
    <3>1. Moved(h, b) \in B /\ Moved(h, b) # Moved(h, d) BY <2>2, MovedIs
    <3>2. CfgSuccessors(new, Moved(h, b)) \subseteq B BY <3>1, AvoidingIs
    <3>3. c \in DOMAIN cfg BY SuccessorsAreBlocks
    <3>4. CASE c # h BY <3>4, <3>2, <3>3 DEF Splits
    <3>5. CASE c = h
      <4>1. h \in B \/ h + 1 \in B BY <3>2, <3>5 DEF Splits
      <4>2. h \in B => h + 1 \in B BY <1>3, AvoidingIs DEF Splits
      <4>3. Moved(h, h) = h + 1 BY MovedIs
      <4> QED BY <3>3, <3>5, <4>1, <4>2, <4>3
    <3> QED BY <3>4, <3>5
  <2> HIDE DEF D
  <2> QED BY <2>1, <2>2, AvoidingIs
<1> QED BY <1>4, <1>5

\* The same blocks are reached, then.
LEMMA SplitReaches ==
    ASSUME NEW cfg, NEW new, NEW h, Splits(cfg, new, h)
    PROVE  /\ \A x \in ReachableFromEntry(new) : Origin(h, x) \in ReachableFromEntry(cfg)
           /\ \A b \in ReachableFromEntry(cfg) : Moved(h, b) \in ReachableFromEntry(new)
<1>1. /\ Len(cfg) \in Nat /\ h \in 1 .. Len(cfg) /\ cfg # <<>> /\ new # <<>>
      /\ Graph(cfg) /\ Graph(new)
  BY SplitsIs DEF Splits
<1>2. 0 \in 0 .. Len(cfg) /\ 0 # h /\ Moved(h, 0) = 0 BY <1>1, MovedIs
<1>3. /\ \A x \in Avoiding(new, 0) : Origin(h, x) \in Avoiding(cfg, 0)
      /\ \A b \in Avoiding(cfg, 0) : Moved(h, b) \in Avoiding(new, 0)
  BY <1>2, SplitAvoids
<1> QED BY <1>1, <1>3, ReachableIs

\* So is block h itself, and the new block avoids what it does.
LEMMA SplitAvoidsHeader ==
    ASSUME NEW cfg, NEW new, NEW h, Splits(cfg, new, h)
    PROVE  /\ \A x \in Avoiding(new, h + 1) : x \in {h, h + 1} \/ Origin(h, x) \in Avoiding(cfg, h)
           /\ \A b \in Avoiding(cfg, h) : b # h => /\ Moved(h, b) \in Avoiding(new, h + 1)
                                                   /\ Moved(h, b) \in Avoiding(new, h)
<1> DEFINE n == Len(cfg)
           A == Avoiding(cfg, h)
           C == {x \in DOMAIN new : x \in {h, h + 1} \/ Origin(h, x) \in A}
<1>1. /\ n \in Nat /\ DOMAIN cfg = 1 .. n /\ DOMAIN new = 1 .. n + 1
      /\ h \in 1 .. n /\ cfg # <<>> /\ new # <<>> /\ Graph(cfg) /\ Graph(new)
  BY SplitsIs DEF Splits
<1> USE <1>1
<1>2. A \subseteq 1 .. n /\ (1 # h => 1 \in A) BY AvoidingIs
<1>3. Avoiding(new, h + 1) \subseteq C
  <2>1. 1 \in C BY MovedIs, <1>2
  <2>2. ASSUME NEW x \in C, x # h + 1 PROVE CfgSuccessors(new, x) \subseteq C
    <3>1. CASE x = h BY <3>1 DEF Splits
    <3>2. CASE x # h
      <4> DEFINE b == Origin(h, x)
      <4>1. b \in A /\ b \in 1 .. n /\ Moved(h, b) = x BY <2>2, <3>2, MovedIs
      <4>2. b # h BY MovedIs, <2>2, <4>1
      <4>3. CfgSuccessors(cfg, b) \subseteq A BY <4>1, <4>2, AvoidingIs
      <4>4. \A y \in CfgSuccessors(new, x) : Origin(h, y) \in A BY <4>1, <4>3 DEF Splits
      <4> QED BY <4>4, SuccessorsAreBlocks
    <3> QED BY <3>1, <3>2
  <2> HIDE DEF C
  <2> QED BY <2>1, <2>2, AvoidingIs
<1>4. ASSUME NEW e \in {h, h + 1}, NEW b \in A, b # h PROVE Moved(h, b) \in Avoiding(new, e)
  <2> DEFINE B == Avoiding(new, e)
             D == {c \in DOMAIN cfg : c = h \/ Moved(h, c) \in B}
  <2>1. 1 # h => 1 \in D
    <3> SUFFICES ASSUME 1 # h PROVE Moved(h, 1) \in B OBVIOUS
    <3>1. Moved(h, 1) = 1 /\ 1 # e BY MovedIs
    <3> QED BY <3>1, AvoidingIs
  <2>2. ASSUME NEW a \in D, a # h PROVE CfgSuccessors(cfg, a) \subseteq D
    <3> SUFFICES ASSUME NEW c \in CfgSuccessors(cfg, a), c # h PROVE c \in D
      BY SuccessorsAreBlocks
    <3>0. a \in 0 .. n /\ Moved(h, a) \in B BY <2>2
    <3>1. Moved(h, a) # h /\ Moved(h, a) # h + 1 BY <2>2, <3>0, MovedIs
    <3>2. Moved(h, c) \in CfgSuccessors(new, Moved(h, a)) BY DEF Splits
    <3>3. Moved(h, c) \in B BY <3>0, <3>1, <3>2, AvoidingIs
    <3> QED BY <3>3, SuccessorsAreBlocks
  <2>3. A \subseteq D
    <3> HIDE DEF D
    <3> QED BY <2>1, <2>2, AvoidingIs
  <2> QED BY <1>4, <2>3
<1> QED BY <1>3, <1>4

\* MovedIs of one block.
LEMMA MovedOne ==
    ASSUME NEW n \in Nat, NEW h \in 1 .. n, NEW b \in 1 .. n
    PROVE  /\ Moved(h, b) \in 1 .. n + 1 /\ Moved(h, b) # h /\ Origin(h, Moved(h, b)) = b
           /\ b # h => Moved(h, b) # h + 1
           /\ b \in 0 .. n
           /\ \A c \in 1 .. n : c # b => Moved(h, c) # Moved(h, b)
BY DEF Moved, Origin

\* And of one block of the result.
LEMMA OriginOne ==
    ASSUME NEW n \in Nat, NEW h \in 1 .. n, NEW x \in 1 .. n + 1, x # h
    PROVE  /\ Origin(h, x) \in 1 .. n /\ Moved(h, Origin(h, x)) = x
           /\ x # h + 1 => Origin(h, x) # h
BY DEF Moved, Origin

-----------------------------------------------------------------------------
(* Loops after a split.                                                    *)

\* An edge back from p to h, which p cannot be reached without.
IsLatch(cfg, h, p) ==
    /\ p \in ReachableFromEntry(cfg) /\ h \in CfgSuccessors(cfg, p)
    /\ p \notin Avoiding(cfg, h) \/ p = h
\* Block h is the header of a loop.
IsHeader(cfg, h) == \E loop \in NaturalLoops(cfg) : loop.header = h

\* A header is a block that an edge leads back to.
LEMMA HeaderIs ==
    ASSUME NEW cfg, Graph(cfg), cfg # <<>>, NEW h
    PROVE  IsHeader(cfg, h) <=> h \in DOMAIN cfg /\ \E p : IsLatch(cfg, h, p)
BY LoopsAre, ReachableNext, LoopFound DEF IsLatch, IsHeader

\* The latches of a loop are where such edges come from.
LEMMA LatchesAre ==
    ASSUME NEW cfg, Graph(cfg), NEW loop \in NaturalLoops(cfg), NEW p \in DOMAIN cfg
    PROVE  p \in loop.latches <=> IsLatch(cfg, loop.header, p)
BY LoopsAre DEF IsLatch

\* The other headers stay headers, and no others become some.
LEMMA SplitHeaders ==
    ASSUME NEW cfg, NEW new, NEW h, Splits(cfg, new, h), NEW g \in DOMAIN cfg, g # h
    PROVE  IsHeader(new, Moved(h, g)) <=> IsHeader(cfg, g)
<1> DEFINE n == Len(cfg)
<1>1. /\ n \in Nat /\ DOMAIN cfg = 1 .. n /\ DOMAIN new = 1 .. n + 1
      /\ h \in 1 .. n /\ cfg # <<>> /\ new # <<>> /\ Graph(cfg) /\ Graph(new)
  BY SplitsIs DEF Splits
<1> USE <1>1
<1>2. g \in 0 .. n /\ Moved(h, g) \in DOMAIN new /\ Moved(h, g) # h + 1 /\ Origin(h, Moved(h, g)) = g
      /\ Moved(h, g) # h
  BY MovedOne
<1>3. ASSUME NEW p, IsLatch(cfg, g, p) PROVE IsLatch(new, Moved(h, g), Moved(h, p))
  <2>1. p \in DOMAIN cfg BY <1>3, ReachableNext DEF IsLatch
  <2>2. Moved(h, p) \in ReachableFromEntry(new) BY <1>3, SplitReaches DEF IsLatch
  <2>3. Moved(h, g) \in CfgSuccessors(new, Moved(h, p)) BY <1>3, <2>1 DEF IsLatch, Splits
  <2>4. p # g => Moved(h, p) \notin Avoiding(new, Moved(h, g))
    BY <2>1, MovedIs, <1>2, SplitAvoids, <1>3 DEF IsLatch
  <2> QED BY <2>2, <2>3, <2>4 DEF IsLatch
<1>4. ASSUME NEW q, IsLatch(new, Moved(h, g), q) PROVE \E p : IsLatch(cfg, g, p)
  <2> DEFINE p == Origin(h, q)
  <2>1. q \in DOMAIN new BY <1>4, ReachableNext DEF IsLatch
  <2>2. q # h BY <1>2, <1>4 DEF Splits, IsLatch
  <2>3. p \in DOMAIN cfg /\ Moved(h, p) = q BY <2>1, <2>2, OriginOne
  <2>4. p \in ReachableFromEntry(cfg) BY <1>4, SplitReaches DEF IsLatch
  <2> HIDE DEF p
  <2>5. g \in CfgSuccessors(cfg, p) BY <1>2, <1>4, <2>3 DEF IsLatch, Splits
  <2>6. p # g => p \notin Avoiding(cfg, g)
    <3> SUFFICES ASSUME p \in Avoiding(cfg, g), p # g PROVE FALSE OBVIOUS
    <3>1. q \in Avoiding(new, Moved(h, g)) BY <1>2, <2>3, SplitAvoids
    <3>2. q # Moved(h, g) BY <2>3, MovedOne
    <3> QED BY <1>4, <3>1, <3>2 DEF IsLatch
  <2> QED BY <2>4, <2>5, <2>6 DEF IsLatch
<1> QED BY <1>2, <1>3, <1>4, HeaderIs

\* Preheaders of other loops stay ones.
LEMMA SplitPre ==
    ASSUME NEW cfg, NEW new, NEW h, Splits(cfg, new, h), NEW g \in DOMAIN cfg, g # h,
           NEW p, Pre(cfg, g, p)
    PROVE  Pre(new, Moved(h, g), Moved(h, p))
<1> DEFINE n == Len(cfg)
<1>1. /\ n \in Nat /\ DOMAIN cfg = 1 .. n /\ DOMAIN new = 1 .. n + 1
      /\ h \in 1 .. n /\ cfg # <<>> /\ new # <<>> /\ Graph(cfg) /\ Graph(new)
  BY SplitsIs DEF Splits
<1> USE <1>1
<1>2. p \in 1 .. n /\ g \in 1 .. n /\ p \in 0 .. n /\ g \in 0 .. n BY DEF Pre
<1>3. /\ Moved(h, p) \in DOMAIN new /\ Moved(h, g) # h /\ Moved(h, g) # h + 1
      /\ Origin(h, Moved(h, g)) = g /\ Moved(h, p) # Moved(h, g)
  <2>1. p # g BY DEF Pre
  <2>2. Moved(h, p) \in 1 .. n + 1 BY <1>2, MovedOne
  <2>3. Moved(h, g) # h /\ Moved(h, g) # h + 1 /\ Origin(h, Moved(h, g)) = g BY <1>2, MovedOne
  <2>4. Moved(h, p) # Moved(h, g) BY <1>2, <2>1, MovedOne
  <2> QED BY <2>2, <2>3, <2>4
<1>4. CfgSuccessors(new, Moved(h, p)) = {Moved(h, g)}
  <2>1. CfgSuccessors(cfg, p) = {g} BY DEF Pre
  <2>2. Moved(h, g) \in CfgSuccessors(new, Moved(h, p)) BY <1>2, <2>1 DEF Splits
  <2>3. ASSUME NEW x \in CfgSuccessors(new, Moved(h, p)) PROVE x = Moved(h, g)
    <3>1. Origin(h, x) = g BY <1>2, <2>1 DEF Splits
    <3>2. x \in 1 .. n + 1 BY SuccessorsAreBlocks
    <3>3. x # h BY <3>1, MovedIs
    <3> QED BY <3>1, <3>2, <3>3, MovedIs
  <2> QED BY <2>2, <2>3
<1>5. Moved(h, p) \in Avoiding(new, Moved(h, g)) BY <1>2, SplitAvoids DEF Pre
<1>6. Moved(h, g) \notin Avoiding(new, Moved(h, p))
  <2> SUFFICES ASSUME Moved(h, g) \in Avoiding(new, Moved(h, p)) PROVE FALSE OBVIOUS
  <2>1. g \in Avoiding(cfg, p)
    <3>1. CASE p # h BY <1>2, <1>3, <3>1, SplitAvoids
    <3>2. CASE p = h
      <4>1. Moved(h, p) = h + 1 BY <3>2, MovedIs
      <4> QED BY <1>3, <3>2, <4>1, SplitAvoidsHeader
    <3> QED BY <3>1, <3>2
  <2> QED BY <2>1 DEF Pre
<1> QED BY <1>3, <1>4, <1>5, <1>6 DEF Pre

-----------------------------------------------------------------------------
(* A latch that falls into its header made to go through a block of its    *)
(* own.                                                                    *)

\* All who came to h now come to h + 1, but h - 1, which comes to the new block.
Falls(cfg, new, h) ==
    /\ Splits(cfg, new, h) /\ h - 1 \in DOMAIN cfg /\ IsLatch(cfg, h, h - 1)
    /\ \A b \in DOMAIN cfg : h \in CfgSuccessors(new, Moved(h, b)) <=> b = h - 1

\* The header stays one, and the new block, which is its only latch, is none.
LEMMA FallsHeader ==
    ASSUME NEW cfg, NEW new, NEW h, Falls(cfg, new, h)
    PROVE  IsHeader(new, h + 1) /\ ~IsHeader(new, h)
<1> DEFINE n == Len(cfg)
           l == h - 1
<1>0. Splits(cfg, new, h) BY DEF Falls
<1>1. /\ n \in Nat /\ DOMAIN cfg = 1 .. n /\ DOMAIN new = 1 .. n + 1
      /\ h \in 1 .. n /\ cfg # <<>> /\ new # <<>> /\ Graph(cfg) /\ Graph(new)
      /\ h + 1 \in DOMAIN new /\ h \in DOMAIN new
  BY <1>0, SplitsIs DEF Splits
<1> USE <1>0, <1>1
<1>2. l \in 1 .. n /\ l # h /\ Moved(h, l) = l /\ h # 1 /\ l \in DOMAIN new /\ Origin(h, l) = l
  BY DEF Falls, Moved, Origin
<1>3. l \in ReachableFromEntry(cfg) /\ h \in CfgSuccessors(cfg, l) /\ l \notin Avoiding(cfg, h)
  BY <1>2 DEF Falls, IsLatch
<1>4. h \in CfgSuccessors(new, l) /\ CfgSuccessors(new, h) = {h + 1}
  BY <1>2 DEF Falls, Splits
<1>5. \A b \in 1 .. n : b # l => h \notin CfgSuccessors(new, Moved(h, b)) BY DEF Falls
<1> HIDE DEF l
<1>6. IsHeader(new, h + 1)
  <2>1. l \in ReachableFromEntry(new) BY <1>2, <1>3, SplitReaches
  <2>2. h \in ReachableFromEntry(new) BY <1>4, <2>1, ReachableNext
  <2>3. l \notin Avoiding(new, h + 1) BY <1>2, <1>3, SplitAvoidsHeader DEF l
  <2>4. h \notin Avoiding(new, h + 1)
    <3> DEFINE C == Avoiding(new, h + 1) \ {h}
    <3>1. 1 \in C BY <1>2, AvoidingIs
    <3>2. ASSUME NEW a \in C, a # h + 1 PROVE CfgSuccessors(new, a) \subseteq C
      <4>1. CfgSuccessors(new, a) \subseteq Avoiding(new, h + 1) BY <3>2, AvoidingIs
      <4>2. a \in 1 .. n + 1 /\ a # h /\ a # l BY <2>3, AvoidingIs
      <4>3. Origin(h, a) \in 1 .. n /\ Moved(h, Origin(h, a)) = a BY <4>2, OriginOne
      <4>4. Origin(h, a) # l BY <1>2, <4>2, <4>3
      <4>5. h \notin CfgSuccessors(new, a) BY <1>5, <4>3, <4>4
      <4> QED BY <4>1, <4>5
    <3>3. Avoiding(new, h + 1) \subseteq C
      <4> HIDE DEF C
      <4> QED BY <3>1, <3>2, AvoidingIs
    <3> QED BY <3>3
  <2>5. IsLatch(new, h + 1, h) BY <1>4, <2>2, <2>4 DEF IsLatch
  <2> QED BY <2>5, HeaderIs
<1>7. h + 1 \in Avoiding(new, h)
  <2>1. h \in ReachableFromEntry(cfg) BY <1>3, ReachableNext
  <2>2. PICK b \in Avoiding(cfg, h) : b # h /\ h \in CfgSuccessors(cfg, b) BY <1>2, <2>1, SomeEntry
  <2>3. b \in 1 .. n /\ b # l BY <1>3, <2>2, AvoidingIs
  <2>4. Moved(h, b) \in Avoiding(new, h) BY <2>2, SplitAvoidsHeader
  <2>5. h + 1 \in CfgSuccessors(new, Moved(h, b)) BY <1>5, <2>2, <2>3 DEF Splits
  <2>6. Moved(h, b) # h BY <2>3, MovedIs
  <2> QED BY <2>4, <2>5, <2>6, AvoidingIs
<1>8. l \in Avoiding(new, h)
  <2> DEFINE C == {b \in DOMAIN cfg : Moved(h, b) \in Avoiding(new, h)}
  <2>1. 1 \in C
    <3>1. Moved(h, 1) = 1 /\ 1 \in Avoiding(new, h) BY <1>2, MovedIs, AvoidingIs
    <3> QED BY <3>1
  <2>2. ASSUME NEW b \in C PROVE CfgSuccessors(cfg, b) \subseteq C
    <3> SUFFICES ASSUME NEW c \in CfgSuccessors(cfg, b) PROVE c \in C OBVIOUS
    <3>1. c \in DOMAIN cfg BY SuccessorsAreBlocks
    <3>2. CASE c = h BY MovedIs, <1>7, <3>1, <3>2
    <3>3. CASE c # h
      <4>1. Moved(h, c) \in CfgSuccessors(new, Moved(h, b)) BY <3>3 DEF Splits
      <4>2. Moved(h, b) # h BY MovedIs
      <4>3. Moved(h, c) \in Avoiding(new, h) BY <4>1, <4>2, AvoidingIs
      <4> QED BY <3>1, <4>3
    <3> QED BY <3>2, <3>3
  <2>3. Avoiding(cfg, 0) \subseteq C
    <3> HIDE DEF C
    <3> QED BY <2>1, <2>2, AvoidingIs
  <2>4. l \in C BY <1>3, <2>3, ReachableIs
  <2> QED BY <1>2, <2>4
<1>9. ~IsHeader(new, h)
  <2> SUFFICES ASSUME IsHeader(new, h) PROVE FALSE OBVIOUS
  <2>1. PICK q : IsLatch(new, h, q) BY HeaderIs
  <2>2. q # h BY <1>4, <2>1 DEF IsLatch
  <2>3. q \in 1 .. n + 1 BY <2>1, ReachableNext DEF IsLatch
  <2>4. Origin(h, q) \in 1 .. n /\ Moved(h, Origin(h, q)) = q BY <2>2, <2>3, OriginOne
  <2>5. q = l BY <1>2, <1>5, <2>1, <2>4 DEF IsLatch
  <2> QED BY <1>8, <2>1, <2>2, <2>5 DEF IsLatch
<1> QED BY <1>6, <1>9

-----------------------------------------------------------------------------
(* A block put before a header for all who come from outside the loop.     *)

\* The latches come to the header, all others to the new block.
Enters(cfg, new, h) ==
    /\ Splits(cfg, new, h)
    /\ \A b \in DOMAIN cfg :
           /\ h \in CfgSuccessors(new, Moved(h, b)) => ~IsLatch(cfg, h, b)
           /\ h + 1 \in CfgSuccessors(new, Moved(h, b)) => IsLatch(cfg, h, b)

\* The header stays one, and the new block is a preheader of it.
LEMMA EntersHeader ==
    ASSUME NEW cfg, NEW new, NEW h, Enters(cfg, new, h), IsHeader(cfg, h)
    PROVE  IsHeader(new, h + 1) /\ ~IsHeader(new, h) /\ Pre(new, h + 1, h)
<1> DEFINE n == Len(cfg)
<1>0. Splits(cfg, new, h) BY DEF Enters
<1>1. /\ n \in Nat /\ DOMAIN cfg = 1 .. n /\ DOMAIN new = 1 .. n + 1
      /\ h \in 1 .. n /\ cfg # <<>> /\ new # <<>> /\ Graph(cfg) /\ Graph(new)
      /\ h + 1 \in DOMAIN new /\ h \in DOMAIN new
  BY <1>0, SplitsIs DEF Splits
<1> USE <1>0, <1>1
<1>2. CfgSuccessors(new, h) = {h + 1} BY DEF Splits
<1>3. PICK p : IsLatch(cfg, h, p) BY HeaderIs
<1>4. p \in 1 .. n /\ h \in ReachableFromEntry(cfg) BY <1>3, ReachableNext DEF IsLatch
<1>5. IsHeader(new, h + 1)
  <2>1. h + 1 \in CfgSuccessors(new, Moved(h, p)) BY <1>3, <1>4 DEF IsLatch, Splits, Enters
  <2>2. Moved(h, p) \in ReachableFromEntry(new) BY <1>3, SplitReaches DEF IsLatch
  <2>3. p # h => Moved(h, p) \notin Avoiding(new, h + 1)
    BY <1>4, MovedIs, SplitAvoidsHeader, <1>3 DEF IsLatch
  <2>4. p = h => Moved(h, p) = h + 1 BY MovedIs
  <2>5. IsLatch(new, h + 1, Moved(h, p)) BY <2>1, <2>2, <2>3, <2>4 DEF IsLatch
  <2> QED BY <2>5, HeaderIs
<1>6. ~IsHeader(new, h)
  <2> SUFFICES ASSUME IsHeader(new, h) PROVE FALSE OBVIOUS
  <2>1. PICK q : IsLatch(new, h, q) BY HeaderIs
  <2>2. q # h BY <1>2, <2>1 DEF IsLatch
  <2>3. q \in 1 .. n + 1 BY <2>1, ReachableNext DEF IsLatch
  <2> DEFINE b == Origin(h, q)
  <2>4. b \in 1 .. n /\ Moved(h, b) = q BY <2>2, <2>3, OriginOne
  <2>5. b \in ReachableFromEntry(cfg) BY <2>1, SplitReaches DEF IsLatch
  <2> HIDE DEF b
  <2>6. ~IsLatch(cfg, h, b) BY <2>1, <2>4 DEF IsLatch, Enters
  <2>7. h \in CfgSuccessors(cfg, b)
    <3>1. Origin(h, h) = h BY MovedIs
    <3> QED BY <2>1, <2>4, <3>1 DEF IsLatch, Splits
  <2>8. b \in Avoiding(cfg, h) /\ b # h BY <2>5, <2>6, <2>7 DEF IsLatch
  <2>9. q \in Avoiding(new, h) BY <2>4, <2>8, SplitAvoidsHeader
  <2> QED BY <2>1, <2>2, <2>9 DEF IsLatch
<1>7. h \in Avoiding(new, h + 1)
  <2>1. CASE h = 1 BY <2>1, AvoidingIs
  <2>2. CASE h # 1
    <3>1. PICK b \in Avoiding(cfg, h) : b # h /\ h \in CfgSuccessors(cfg, b) BY <1>4, <2>2, SomeEntry
    <3>2. b \in 1 .. n /\ b \in 0 .. n BY <3>1, AvoidingIs
    <3>3. ~IsLatch(cfg, h, b) BY <3>1 DEF IsLatch
    <3>4. h \in CfgSuccessors(new, Moved(h, b)) BY <3>1, <3>2, <3>3 DEF Splits, Enters
    <3>5. Moved(h, b) \in Avoiding(new, h + 1) /\ Moved(h, b) # h + 1
      BY <3>1, <3>2, SplitAvoidsHeader, MovedIs
    <3> QED BY <3>4, <3>5, AvoidingIs
  <2> QED BY <2>1, <2>2
<1>8. h + 1 \notin Avoiding(new, h)
  <2> DEFINE C == {x \in DOMAIN new : x # h + 1 /\ (x = h \/ Origin(h, x) \in Avoiding(cfg, h))}
  <2>1. 1 # h => 1 \in C
    <3> SUFFICES ASSUME 1 # h PROVE 1 \in C OBVIOUS
    <3>1. Origin(h, 1) = 1 /\ 1 # h + 1 BY MovedIs
    <3> QED BY <3>1, AvoidingIs
  <2>2. ASSUME NEW x \in C, x # h PROVE CfgSuccessors(new, x) \subseteq C
    <3> SUFFICES ASSUME NEW y \in CfgSuccessors(new, x) PROVE y \in C OBVIOUS
    <3> DEFINE b == Origin(h, x)
    <3>1. b \in 1 .. n /\ Moved(h, b) = x /\ b \in Avoiding(cfg, h) BY <2>2, OriginOne
    <3>2. b # h BY MovedIs, <3>1
    <3> HIDE DEF b
    <3>3. ~IsLatch(cfg, h, b) BY <3>1, <3>2 DEF IsLatch
    <3>4. y # h + 1 BY <3>1, <3>3 DEF Enters
    <3>5. Origin(h, y) \in Avoiding(cfg, h) BY <3>1, <3>2, AvoidingIs DEF Splits
    <3>6. y \in DOMAIN new BY SuccessorsAreBlocks
    <3> QED BY <3>4, <3>5, <3>6
  <2>3. Avoiding(new, h) \subseteq C
    <3> HIDE DEF C
    <3> QED BY <2>1, <2>2, AvoidingIs
  <2> QED BY <2>3
<1> QED BY <1>2, <1>5, <1>6, <1>7, <1>8 DEF Pre

-----------------------------------------------------------------------------
(* Where a block leads by falling off its end, and by jumping.             *)

\* Control can fall off the end of the block.
FallsOn(block) ==
    ~EndsWithTransfer(block) \/ (Last(block.insts).op = "Jump" /\ ~LeavesForGood(Last(block.insts)))
\* The block ends with a jump to label.
JumpsTo(block, label) ==
    EndsWithTransfer(block) /\ Last(block.insts).op = "Jump" /\ Last(block.insts).arg0 = label

\* An edge is a fall or a jump.
LEMMA SuccessorIs ==
    ASSUME NEW cfg, NEW b \in DOMAIN cfg, NEW c \in DOMAIN cfg
    PROVE  c \in CfgSuccessors(cfg, b) <=>
               (FallsOn(cfg[b]) /\ c = b + 1) \/ JumpsTo(cfg[b], cfg[c].label)
BY DEF CfgSuccessors, FallsOn, JumpsTo, BlocksLabelled

\* A jump to label is one of the instructions of the block.
LEMMA LastJump ==
    ASSUME NEW cfg, WfCfg(cfg), NEW b \in 1 .. Len(cfg), NEW label, JumpsTo(cfg[b], label)
    PROVE  /\ WfBlock(cfg[b])
           /\ \E i \in 1 .. Len(cfg[b].insts) :
                  cfg[b].insts[i].op = "Jump" /\ cfg[b].insts[i].arg0 = label
BY DEF WfCfg, Blocks, JumpsTo, EndsWithTransfer, Last

\* So its label is one that is below the bound.
LEMMA TargetIs ==
    ASSUME NEW cfg, WfCfg(cfg), NEW b \in 1 .. Len(cfg), NEW label, JumpsTo(cfg[b], label),
           NEW bound, LabelsBelow(cfg, bound)
    PROVE  label # 0 /\ label < bound
<1>1. PICK i \in 1 .. Len(cfg[b].insts) :
          cfg[b].insts[i].op = "Jump" /\ cfg[b].insts[i].arg0 = label
  BY LastJump
<1>2. label # 0
  <2>1. WfBlock(cfg[b]) BY LastJump, Zenon
  <2>2. cfg[b].insts[i].op = "Jump" => cfg[b].insts[i].arg0 # 0 BY <2>1 DEF WfBlock
  <2> QED BY <1>1, <2>2
<1>3. label < bound BY <1>1 DEF LabelsBelow
<1> QED BY <1>2, <1>3

-----------------------------------------------------------------------------
(* A block put in between.                                                 *)

\* new is cfg with block at place h.
Inserted(cfg, new, h, block) ==
    /\ new \in Seq(Blocks) /\ Len(new) = Len(cfg) + 1 /\ new[h] = block
    /\ \A b \in 1 .. Len(cfg) : new[Moved(h, b)] = cfg[b]

\* InsertBlock puts a block in between.
LEMMA InsertBlockIs ==
    ASSUME NEW cfg \in Seq(Blocks), NEW h \in 1 .. Len(cfg), NEW block \in Blocks
    PROVE  Inserted(cfg, InsertBlock(cfg, h, block), h, block)
<1> DEFINE n == Len(cfg)
           left == SubSeq(cfg, 1, h - 1)
           right == SubSeq(cfg, h, n)
           new == InsertBlock(cfg, h, block)
<1>1. n \in Nat /\ h \in Nat /\ h - 1 \in 0 .. n BY DEF n
<1>2. left \in Seq(Blocks) /\ Len(left) = h - 1 /\ \A i \in 1 .. h - 1 : left[i] = cfg[i]
  BY <1>1, PrefixIs
<1>3. right \in Seq(Blocks) /\ Len(right) = n - h + 1 /\ \A i \in 1 .. n - h + 1 : right[i] = cfg[h + i - 1]
  OBVIOUS
<1>4. new = (left \o <<block>>) \o right BY DEF InsertBlock
<1> HIDE DEF left, right, n, new
<1>5. <<block>> \in Seq(Blocks) /\ Len(<<block>>) = 1 /\ <<block>>[1] = block OBVIOUS
<1> DEFINE both == left \o <<block>>
<1>6. both \in Seq(Blocks) /\ Len(both) = h /\ both[h] = block /\ \A i \in 1 .. h - 1 : both[i] = cfg[i]
  BY <1>2, <1>5, Joined, <1>1
<1>0. new = both \o right BY <1>4
<1> HIDE DEF both
<1>7. /\ new \in Seq(Blocks) /\ Len(new) = n + 1
      /\ \A i \in 1 .. h : new[i] = both[i]
      /\ \A i \in 1 .. n - h + 1 : new[h + i] = cfg[h + i - 1]
  <2>1. /\ new \in Seq(Blocks) /\ Len(new) = Len(both) + Len(right)
        /\ \A i \in 1 .. Len(both) : new[i] = both[i]
        /\ \A i \in 1 .. Len(right) : new[Len(both) + i] = right[i]
    <3>1. both \in Seq(Blocks) /\ right \in Seq(Blocks) BY <1>3, <1>6
    <3>2. /\ both \o right \in Seq(Blocks) /\ Len(both \o right) = Len(both) + Len(right)
          /\ \A i \in 1 .. Len(both) : (both \o right)[i] = both[i]
          /\ \A i \in 1 .. Len(right) : (both \o right)[Len(both) + i] = right[i]
      BY <3>1, Joined
    <3> QED BY <1>0, <3>2
  <2>2. ASSUME NEW i \in 1 .. n - h + 1 PROVE new[h + i] = cfg[h + i - 1] BY <1>3, <1>6, <2>1
  <2>3. Len(new) = n + 1 BY <1>1, <1>3, <1>6, <2>1
  <2> QED BY <1>6, <2>1, <2>2, <2>3
<1>8. new[h] = block BY <1>1, <1>6, <1>7
<1>9. ASSUME NEW b \in 1 .. n PROVE new[Moved(h, b)] = cfg[b]
  <2>1. CASE b < h BY <1>1, <2>1, <1>6, <1>7 DEF Moved
  <2>2. CASE ~(b < h)
    <3> DEFINE i == b - h + 1
    <3>1. Moved(h, b) = h + i /\ i \in 1 .. n - h + 1 /\ h + i - 1 = b BY <1>1, <2>2 DEF Moved
    <3> HIDE DEF i
    <3> QED BY <1>7, <3>1
  <2> QED BY <2>1, <2>2
<1> QED BY <1>7, <1>8, <1>9 DEF Inserted, n, new

\* Blocks stay regular when the new one has a new label, and the one it is put
\* before has a label.
LEMMA InsertedRegular ==
    ASSUME NEW cfg, Regular(cfg), NEW h \in 1 .. Len(cfg), cfg[h].label # 0,
           NEW block, WfBlock(block), block.label # 0,
           \A b \in 1 .. Len(cfg) : cfg[b].label # block.label,
           NEW new, Inserted(cfg, new, h, block)
    PROVE  Regular(new)
<1> DEFINE n == Len(cfg)
<1>1. n \in Nat /\ h \in 1 .. n /\ cfg \in Seq(Blocks) /\ WfCfg(cfg) BY DEF Regular, WfCfg
<1>2. new \in Seq(Blocks) /\ Len(new) = n + 1 /\ new[h] = block BY DEF Inserted
<1>3. ASSUME NEW x \in 1 .. n + 1, x # h
      PROVE  Origin(h, x) \in 1 .. n /\ new[x] = cfg[Origin(h, x)] /\ Moved(h, Origin(h, x)) = x
  BY <1>1, <1>3, OriginOne DEF Inserted
<1> HIDE DEF n
<1>4. \A x \in 1 .. n + 1 : WfBlock(new[x]) BY <1>1, <1>2, <1>3 DEF WfCfg, n
<1>5. ASSUME NEW x \in 1 .. n + 1, NEW y \in 1 .. n + 1, new[x].label # 0, new[x].label = new[y].label
      PROVE  x = y BY <1>1, <1>3, <1>5, <1>2 DEF WfCfg, n
<1>6. ASSUME NEW x \in 1 .. n + 1, new[x].label = 0
      PROVE  new[x].insts # <<>> /\ (x = 1 \/ EndsWithTransfer(new[x - 1]))
  <2> DEFINE b == Origin(h, x)
  <2>1. x # h BY <1>2, <1>6
  <2>2. b \in 1 .. n /\ new[x] = cfg[b] /\ Moved(h, b) = x BY <1>3, <2>1
  <2> HIDE DEF b
  <2>3. b # h BY <1>6, <2>2
  <2>4. cfg[b].insts # <<>> /\ (b = 1 \/ EndsWithTransfer(cfg[b - 1])) BY <1>6, <2>2 DEF Regular, n
  <2>5. CASE b = 1 BY <1>1, <2>2, <2>3, <2>5, <2>4 DEF Moved
  <2>6. CASE b # 1 BY SMTT(30), <1>1, <2>2, <2>3, <2>6, <2>4 DEF Moved, Inserted, n
  <2> QED BY <2>5, <2>6
<1>7. WfCfg(new) BY <1>2, <1>4, <1>5 DEF WfCfg
<1> QED BY <1>2, <1>6, <1>7 DEF Regular

\* Nor do they get larger labels.
LEMMA InsertedBelow ==
    ASSUME NEW cfg \in Seq(Blocks), NEW h \in 1 .. Len(cfg), NEW block, NEW new,
           Inserted(cfg, new, h, block), NEW bound, LabelsBelow(cfg, bound),
           LabelsBelow(<<block>>, bound)
    PROVE  LabelsBelow(new, bound)
<1> DEFINE n == Len(cfg)
<1>1. n \in Nat /\ h \in 1 .. n OBVIOUS
<1>2. Len(new) = n + 1 /\ new[h] = block BY DEF Inserted
<1>3. ASSUME NEW x \in 1 .. n + 1
      PROVE  new[x] = block \/ \E b \in 1 .. n : new[x] = cfg[b]
  <2>1. CASE x = h BY <1>2, <2>1
  <2>2. CASE x # h
    <3>1. Origin(h, x) \in 1 .. n /\ Moved(h, Origin(h, x)) = x BY <1>1, <2>2, OriginOne
    <3> QED BY <3>1 DEF Inserted
  <2> QED BY <2>1, <2>2
<1>4. /\ block.label # 0 => block.label < bound
      /\ \A i \in 1 .. Len(block.insts) : block.insts[i].op = "Jump" => block.insts[i].arg0 < bound
  BY DEF LabelsBelow
<1> QED BY <1>2, <1>3, <1>4 DEF LabelsBelow

\* Where the other blocks lead when a block has come between.
LEMMA InsertedSuccessors ==
    ASSUME NEW cfg, WfCfg(cfg), NEW h \in 1 .. Len(cfg), NEW block, NEW new,
           Inserted(cfg, new, h, block), NEW b \in 1 .. Len(cfg)
    PROVE  /\ h \in CfgSuccessors(new, Moved(h, b)) <=>
                  (FallsOn(cfg[b]) /\ b = h - 1) \/ JumpsTo(cfg[b], block.label)
           /\ \A c \in 1 .. Len(cfg) : Moved(h, c) \in CfgSuccessors(new, Moved(h, b)) <=>
                  (FallsOn(cfg[b]) /\ b # h - 1 /\ c = b + 1) \/ JumpsTo(cfg[b], cfg[c].label)
<1> DEFINE n == Len(cfg)
<1>1. n \in Nat /\ h \in 1 .. n /\ b \in 1 .. n BY DEF WfCfg
<1>2. DOMAIN new = 1 .. n + 1 /\ new[h] = block BY DEF Inserted
<1>3. Moved(h, b) \in 1 .. n + 1 BY <1>1, MovedOne
<1>4. new[Moved(h, b)] = cfg[b] BY DEF Inserted
<1>5. h = Moved(h, b) + 1 <=> b = h - 1 BY <1>1 DEF Moved
<1>6. h \in CfgSuccessors(new, Moved(h, b)) <=>
          (FallsOn(cfg[b]) /\ b = h - 1) \/ JumpsTo(cfg[b], block.label)
  BY <1>1, <1>2, <1>3, <1>4, <1>5, SuccessorIs
<1>7. ASSUME NEW c \in 1 .. n
      PROVE  Moved(h, c) \in CfgSuccessors(new, Moved(h, b)) <=>
                 (FallsOn(cfg[b]) /\ b # h - 1 /\ c = b + 1) \/ JumpsTo(cfg[b], cfg[c].label)
  <2>1. Moved(h, c) \in DOMAIN new /\ Moved(h, b) \in DOMAIN new BY <1>1, <1>2, <1>3, MovedOne
  <2>2. new[Moved(h, c)] = cfg[c] BY DEF Inserted
  <2>3. Moved(h, c) = Moved(h, b) + 1 <=> b # h - 1 /\ c = b + 1 BY <1>1 DEF Moved
  <2> QED BY <1>4, <2>1, <2>2, <2>3, SuccessorIs
<1> QED BY <1>6, <1>7

-----------------------------------------------------------------------------
(* Blocks named by their labels, which do not move.                        *)

\* The labels of the blocks that are headers.
HeaderLabels(cfg) == {cfg[h].label : h \in {g \in DOMAIN cfg : IsHeader(cfg, g)}} \ {0}
\* The labels of the blocks that have a preheader.
PreLabels(cfg) == {cfg[h].label : h \in {g \in DOMAIN cfg : \E p : Pre(cfg, g, p)}} \ {0}

\* With different labels a label tells whether its block is a header, and whether
\* it has a preheader.
LEMMA LabelledBlock ==
    ASSUME NEW cfg, WfCfg(cfg), NEW h \in 1 .. Len(cfg), cfg[h].label # 0
    PROVE  /\ cfg[h].label \in HeaderLabels(cfg) <=> IsHeader(cfg, h)
           /\ cfg[h].label \in PreLabels(cfg) <=> \E p : Pre(cfg, h, p)
BY WfIsGraph DEF Graph, WfCfg, HeaderLabels, PreLabels

\* A label of a header is that of the loop LoopLabelled finds.
LEMMA LoopWithLabel ==
    ASSUME NEW cfg, WfCfg(cfg), NEW label \in HeaderLabels(cfg)
    PROVE  /\ LoopLabelled(cfg, label) \in NaturalLoops(cfg) /\ label # 0
           /\ cfg[LoopLabelled(cfg, label).header].label = label
           /\ LoopLabelled(cfg, label).header \in 1 .. Len(cfg)
BY WfIsGraph, LoopsAre DEF HeaderLabels, IsHeader, LoopLabelled, Graph

\* A split keeps the labels of the headers, and all others keep their preheaders.
LEMMA SplitLabels ==
    ASSUME NEW cfg, WfCfg(cfg), NEW new, WfCfg(new), NEW h, Splits(cfg, new, h),
           \A b \in 1 .. Len(cfg) : new[Moved(h, b)].label = cfg[b].label,
           IsHeader(new, h + 1), ~IsHeader(new, h), IsHeader(cfg, h)
    PROVE  /\ HeaderLabels(new) = HeaderLabels(cfg)
           /\ PreLabels(cfg) \ {cfg[h].label} \subseteq PreLabels(new)
<1> DEFINE n == Len(cfg)
<1>1. /\ n \in Nat /\ DOMAIN cfg = 1 .. n /\ DOMAIN new = 1 .. n + 1 /\ h \in 1 .. n
  BY SplitsIs
<1>2. Moved(h, h) = h + 1 /\ h + 1 \in 1 .. n + 1 BY <1>1, MovedIs
<1>3. ASSUME NEW l \in HeaderLabels(cfg) PROVE l \in HeaderLabels(new)
  <2>1. PICK g \in 1 .. n : IsHeader(cfg, g) /\ cfg[g].label = l /\ l # 0
    BY <1>1 DEF HeaderLabels
  <2>2. Moved(h, g) \in 1 .. n + 1 /\ new[Moved(h, g)].label = l BY <1>1, <2>1, MovedOne
  <2>3. IsHeader(new, Moved(h, g)) BY <1>2, <1>1, <2>1, SplitHeaders
  <2> QED BY <1>1, <2>1, <2>2, <2>3 DEF HeaderLabels
<1>4. ASSUME NEW l \in HeaderLabels(new) PROVE l \in HeaderLabels(cfg)
  <2>1. PICK x \in 1 .. n + 1 : IsHeader(new, x) /\ new[x].label = l /\ l # 0
    BY <1>1 DEF HeaderLabels
  <2>2. x # h BY <2>1
  <2>3. PICK g \in 1 .. n : Moved(h, g) = x BY <1>1, <2>2, OriginOne
  <2>4. cfg[g].label = l BY <2>1, <2>3
  <2>5. IsHeader(cfg, g) BY <1>1, <2>1, <2>3, SplitHeaders
  <2> QED BY <1>1, <2>1, <2>4, <2>5 DEF HeaderLabels
<1>5. ASSUME NEW l \in PreLabels(cfg) \ {cfg[h].label} PROVE l \in PreLabels(new)
  BY <1>1, <1>5, SplitPre, MovedOne DEF PreLabels
<1> QED BY <1>3, <1>4, <1>5

-----------------------------------------------------------------------------
(* Blocks with the same edges.                                             *)

\* The blocks of new lead where those of cfg do.
SameEdges(cfg, new) ==
    /\ Graph(cfg) /\ Graph(new) /\ Len(new) = Len(cfg)
    /\ \A b \in DOMAIN cfg : CfgSuccessors(new, b) = CfgSuccessors(cfg, b)

\* They have the same loops and the same preheaders.
LEMMA SameLoops ==
    ASSUME NEW cfg, NEW new, SameEdges(cfg, new)
    PROVE  /\ NaturalLoops(new) = NaturalLoops(cfg)
           /\ \A h, p : Pre(new, h, p) <=> Pre(cfg, h, p)
           /\ \A h : IsHeader(new, h) <=> IsHeader(cfg, h)
<1> DEFINE n == Len(cfg)
<1>1. n \in Nat /\ DOMAIN cfg = 1 .. n /\ DOMAIN new = 1 .. n /\ Graph(cfg) /\ Graph(new) /\ Len(new) = n
  BY DEF SameEdges, Graph
<1>2. \A b \in 1 .. n : CfgSuccessors(new, b) = CfgSuccessors(cfg, b) BY <1>1 DEF SameEdges
<1>3. CfgPredecessors(new) = CfgPredecessors(cfg) BY <1>2, <1>1, Predecessors
<1>4. new = <<>> <=> cfg = <<>> BY <1>1 DEF Graph
<1>5. ReachableFromEntry(new) = ReachableFromEntry(cfg)
  BY <1>1, <1>2, <1>4 DEF ReachableFromEntry
<1>6. NaturalLoops(new) = NaturalLoops(cfg)
  BY <1>3, <1>5 DEF NaturalLoops, Dominators
<1>7. ASSUME NEW d PROVE Avoiding(new, d) = Avoiding(cfg, d) BY <1>1, <1>2 DEF Avoiding
<1>8. ASSUME NEW h, NEW p PROVE Pre(new, h, p) <=> Pre(cfg, h, p)
  BY <1>1, <1>2, <1>7 DEF Pre
<1>9. \A h : IsHeader(new, h) <=> IsHeader(cfg, h) BY <1>6 DEF IsHeader
<1> QED BY <1>6, <1>8, <1>9

-----------------------------------------------------------------------------
(* The jump that is added.                                                 *)

\* The instruction that jumps to label l leaves the block for good.
LEMMA JumpIs ==
    ASSUME NEW l \in Nat \ {0}
    PROVE  /\ JumpI(l) \in Steps /\ JumpI(l).op = "Jump" /\ JumpI(l).arg0 = l
           /\ TransfersControl(JumpI(l)) /\ LeavesForGood(JumpI(l))
<1>1. JumpI(l) = [op |-> "Jump", arg0 |-> l, arg1 |-> 0, result |-> 0, imm |-> 0,
                  cond |-> "UNCONDITIONAL"]
  <2>1. Blank = [op |-> "VoidReturn", arg0 |-> 0, arg1 |-> 0, result |-> 0, imm |-> 0,
                 cond |-> "UNCONDITIONAL"]
    BY DEF Blank, NoSymbol
  <2>2. JumpI(l) = [[Blank EXCEPT !.op = "Jump"] EXCEPT !.arg0 = l] BY DEF JumpI, Plain
  <2>3. [Blank EXCEPT !.op = "Jump"] =
        [op |-> "Jump", arg0 |-> 0, arg1 |-> 0, result |-> 0, imm |-> 0, cond |-> "UNCONDITIONAL"]
    BY <2>1
  <2> QED BY <2>2, <2>3
<1>2. "Jump" \in Ops /\ "UNCONDITIONAL" \in Conditions BY DEF Ops, Conditions
<1>3. JumpI(l) \in Instructions BY <1>1, <1>2 DEF Instructions
<1> QED BY <1>1, <1>3 DEF Steps, TransfersControl, LeavesForGood

\* The two blocks that are put in: one that jumps to label l, and an empty one.
LEMMA NewBlocks ==
    ASSUME NEW fresh \in Nat \ {0}, NEW l \in Nat \ {0}, l < fresh
    PROVE  /\ WfBlock([label |-> fresh, insts |-> <<JumpI(l)>>])
           /\ LabelsBelow(<<[label |-> fresh, insts |-> <<JumpI(l)>>]>>, fresh + 1)
           /\ ~FallsOn([label |-> fresh, insts |-> <<JumpI(l)>>])
           /\ EndsForGood([label |-> fresh, insts |-> <<JumpI(l)>>])
           /\ \A m : JumpsTo([label |-> fresh, insts |-> <<JumpI(l)>>], m) <=> m = l
           /\ WfBlock([label |-> fresh, insts |-> <<>>])
           /\ LabelsBelow(<<[label |-> fresh, insts |-> <<>>]>>, fresh + 1)
           /\ FallsOn([label |-> fresh, insts |-> <<>>])
           /\ \A m : ~JumpsTo([label |-> fresh, insts |-> <<>>], m)
<1> DEFINE j == JumpI(l)
           one == [label |-> fresh, insts |-> <<j>>]
           none == [label |-> fresh, insts |-> <<>>]
<1>1. j \in Steps /\ j.op = "Jump" /\ j.arg0 = l /\ TransfersControl(j) /\ LeavesForGood(j) BY JumpIs
<1> HIDE DEF j
<1>2. <<j>> \in Seq(Steps) /\ Len(<<j>>) = 1 /\ <<j>>[1] = j /\ <<j>> # <<>> BY <1>1
<1>3. Last(<<j>>) = j BY <1>2 DEF Last
<1>4. one \in Blocks /\ one.insts = <<j>> /\ one.label = fresh BY <1>2 DEF Blocks
<1>5. none \in Blocks /\ none.insts = <<>> /\ none.label = fresh BY DEF Blocks
<1>6. Len(<<>>) = 0 OBVIOUS
<1>7. \A b : Len(<<b>>) = 1 /\ <<b>>[1] = b /\ \A i \in 1 .. 1 : i = 1 OBVIOUS
<1> HIDE DEF one, none
<1>8. WfBlock(one) BY <1>1, <1>2, <1>4, <1>7 DEF WfBlock
<1>9. WfBlock(none) BY <1>5, <1>6 DEF WfBlock
<1>10. LabelsBelow(<<one>>, fresh + 1) BY <1>1, <1>2, <1>4, <1>7 DEF LabelsBelow
<1>11. LabelsBelow(<<none>>, fresh + 1) BY <1>5, <1>6, <1>7 DEF LabelsBelow
<1>12. /\ EndsWithTransfer(one) /\ EndsForGood(one) /\ ~FallsOn(one)
       /\ \A m : JumpsTo(one, m) <=> m = l
  BY <1>1, <1>2, <1>3, <1>4 DEF EndsWithTransfer, EndsForGood, FallsOn, JumpsTo
<1>13. ~EndsWithTransfer(none) BY <1>5 DEF EndsWithTransfer
<1>14. FallsOn(none) /\ \A m : ~JumpsTo(none, m) BY <1>13 DEF FallsOn, JumpsTo
<1> QED BY <1>8, <1>9, <1>10, <1>11, <1>12, <1>14 DEF one, none, j

\* A bound on the labels may be raised by one.
LEMMA BelowGrows ==
    ASSUME NEW cfg, WfCfg(cfg), NEW bound \in Nat, LabelsBelow(cfg, bound)
    PROVE  LabelsBelow(cfg, bound + 1)
<1>1. ASSUME NEW b \in 1 .. Len(cfg)
      PROVE  /\ cfg[b].label # 0 => cfg[b].label < bound + 1
             /\ \A i \in 1 .. Len(cfg[b].insts) :
                    cfg[b].insts[i].op = "Jump" => cfg[b].insts[i].arg0 < bound + 1
  <2>1. cfg[b].label \in Nat /\ cfg[b].insts \in Seq(Steps) BY DEF WfCfg, WfBlock, Blocks
  <2>2. cfg[b].label # 0 => cfg[b].label < bound + 1 BY <2>1 DEF LabelsBelow
  <2>3. ASSUME NEW i \in 1 .. Len(cfg[b].insts), cfg[b].insts[i].op = "Jump"
        PROVE  cfg[b].insts[i].arg0 < bound + 1
    <3>1. cfg[b].insts[i] \in Steps BY <2>1
    <3>2. cfg[b].insts[i].arg0 \in Nat BY <3>1 DEF Steps, Instructions
    <3>3. cfg[b].insts[i].arg0 < bound BY <2>3 DEF LabelsBelow
    <3> QED BY <3>2, <3>3
  <2> QED BY <2>2, <2>3
<1> QED BY <1>1 DEF LabelsBelow

\* The bound itself is no label, and nothing jumps to it.
LEMMA LabelIsNew ==
    ASSUME NEW cfg, WfCfg(cfg), NEW fresh \in Nat \ {0}, LabelsBelow(cfg, fresh)
    PROVE  \A b \in 1 .. Len(cfg) : cfg[b].label # fresh /\ ~JumpsTo(cfg[b], fresh)
<1> TAKE b \in 1 .. Len(cfg)
<1>1. cfg[b].label # fresh BY DEF LabelsBelow
<1>2. ~JumpsTo(cfg[b], fresh)
  <2> SUFFICES ASSUME JumpsTo(cfg[b], fresh) PROVE FALSE OBVIOUS
  <2>1. fresh < fresh BY TargetIs
  <2> QED BY <2>1
<1> QED BY <1>1, <1>2

-----------------------------------------------------------------------------
(* LatchApart when the latch also jumps: a block of its own for the way    *)
(* back.                                                                   *)

\* The new block with the jump back makes a split in which the latch falls into it.
LEMMA ApartFalls ==
    ASSUME NEW cfg, Regular(cfg), NEW fresh \in Nat \ {0}, LabelsBelow(cfg, fresh),
           NEW h \in 1 .. Len(cfg), cfg[h].label # 0,
           h - 1 \in 1 .. Len(cfg), IsLatch(cfg, h, h - 1), FallsOn(cfg[h - 1]),
           NEW new, Inserted(cfg, new, h, [label |-> fresh, insts |-> <<JumpI(cfg[h].label)>>])
    PROVE  /\ Regular(new) /\ LabelsBelow(new, fresh + 1) /\ Falls(cfg, new, h)
           /\ EndsForGood(new[h])
<1> DEFINE n == Len(cfg)
           label == cfg[h].label
           block == [label |-> fresh, insts |-> <<JumpI(label)>>]
<1>1. n \in Nat /\ h \in 1 .. n /\ WfCfg(cfg) /\ cfg \in Seq(Blocks) BY DEF Regular, WfCfg
<1>2. label \in Nat \ {0} /\ label < fresh
  BY <1>1 DEF WfCfg, WfBlock, Blocks, LabelsBelow
<1>3. Inserted(cfg, new, h, block) OBVIOUS
<1>4. /\ WfBlock(block) /\ LabelsBelow(<<block>>, fresh + 1) /\ ~FallsOn(block) /\ EndsForGood(block)
      /\ \A m : JumpsTo(block, m) <=> m = label
  <2> HIDE DEF label
  <2> QED BY <1>2, NewBlocks
<1>5. block.label = fresh OBVIOUS
<1> HIDE DEF block, label
<1>6. \A b \in 1 .. n : cfg[b].label # fresh /\ ~JumpsTo(cfg[b], fresh) BY <1>1, LabelIsNew
<1>7. Regular(new) BY <1>1, <1>2, <1>3, <1>4, <1>5, <1>6, InsertedRegular
<1>8. LabelsBelow(new, fresh + 1) BY <1>1, BelowGrows, <1>3, <1>4, InsertedBelow
<1>9. Len(new) = n + 1 /\ new[h] = block /\ \A b \in 1 .. n : new[Moved(h, b)] = cfg[b]
  BY <1>3 DEF Inserted
<1>10. WfCfg(new) /\ Graph(new) /\ Graph(cfg) /\ DOMAIN cfg = 1 .. n /\ DOMAIN new = 1 .. n + 1
  BY <1>1, <1>7, <1>9, WfIsGraph DEF Regular, Graph
<1>11. CfgSuccessors(new, h) = {h + 1}
  <2>1. \A x \in 1 .. n + 1 : x \in CfgSuccessors(new, h) <=> new[x].label = label
    BY SMTT(30), <1>1, <1>4, <1>9, <1>10, SuccessorIs
  <2>2. Moved(h, h) = h + 1 /\ h + 1 \in 1 .. n + 1 BY <1>1, MovedIs
  <2>3. new[h + 1].label = label BY <1>1, <1>9, <2>2 DEF label
  <2>4. \A x \in 1 .. n + 1 : new[x].label = label => x = h + 1
    BY <1>2, <1>9, <1>10, <2>2, <2>3 DEF WfCfg
  <2>5. CfgSuccessors(new, h) \subseteq 1 .. n + 1 BY <1>10, SuccessorsAreBlocks
  <2> QED BY <2>1, <2>2, <2>3, <2>4, <2>5
<1>12. ASSUME NEW b \in 1 .. n
       PROVE  /\ h \in CfgSuccessors(new, Moved(h, b)) <=> FallsOn(cfg[b]) /\ b = h - 1
              /\ \A c \in 1 .. n : Moved(h, c) \in CfgSuccessors(new, Moved(h, b)) <=>
                     (FallsOn(cfg[b]) /\ b # h - 1 /\ c = b + 1) \/ JumpsTo(cfg[b], cfg[c].label)
  BY <1>1, <1>3, <1>5, <1>6, InsertedSuccessors
<1>13. ASSUME NEW b \in 1 .. n, NEW c \in 1 .. n
       PROVE  c \in CfgSuccessors(cfg, b) <=>
                  (FallsOn(cfg[b]) /\ c = b + 1) \/ JumpsTo(cfg[b], cfg[c].label)
  BY <1>10, SuccessorIs
<1>14. ASSUME NEW b \in 1 .. n
       PROVE  /\ \A x \in CfgSuccessors(new, Moved(h, b)) : Origin(h, x) \in CfgSuccessors(cfg, b)
              /\ \A c \in CfgSuccessors(cfg, b) :
                     c # h => Moved(h, c) \in CfgSuccessors(new, Moved(h, b))
              /\ h \in CfgSuccessors(cfg, b) =>
                     \/ h \in CfgSuccessors(new, Moved(h, b))
                     \/ h + 1 \in CfgSuccessors(new, Moved(h, b))
  <2>1. ASSUME NEW x \in CfgSuccessors(new, Moved(h, b)) PROVE Origin(h, x) \in CfgSuccessors(cfg, b)
    <3>1. x \in 1 .. n + 1 BY <1>10, SuccessorsAreBlocks
    <3>2. CASE x = h
      <4>1. FallsOn(cfg[b]) /\ b = h - 1 BY <1>12, <3>2
      <4>2. h = b + 1 /\ Origin(h, h) = h BY <1>1, <4>1, MovedIs
      <4> QED BY <1>1, <1>13, <3>2, <4>1, <4>2
    <3>3. CASE x # h
      <4>0. Origin(h, x) \in 1 .. n /\ Moved(h, Origin(h, x)) = x BY ZenonT(30), <1>1, <3>1, <3>3, OriginOne
      <4>1. PICK c \in 1 .. n : c = Origin(h, x) /\ Moved(h, c) = x BY <4>0
      <4> QED BY <1>12, <1>13, <4>1
    <3> QED BY <3>2, <3>3
  <2>2. ASSUME NEW c \in CfgSuccessors(cfg, b), c # h PROVE Moved(h, c) \in CfgSuccessors(new, Moved(h, b))
    BY <1>10, SuccessorsAreBlocks, <1>1, <2>2, <1>12, <1>13
  <2>3. ASSUME h \in CfgSuccessors(cfg, b)
        PROVE  \/ h \in CfgSuccessors(new, Moved(h, b))
               \/ h + 1 \in CfgSuccessors(new, Moved(h, b))
    BY <1>1, MovedIs, <1>12, <1>13, <2>3
  <2> QED BY <2>1, <2>2, <2>3
<1>15. Splits(cfg, new, h) BY <1>1, <1>9, <1>10, <1>11, <1>14 DEF Splits
<1>16. \A b \in 1 .. n : h \in CfgSuccessors(new, Moved(h, b)) <=> b = h - 1 BY <1>12
<1>17. Falls(cfg, new, h) BY <1>10, <1>15, <1>16 DEF Falls
<1> QED BY <1>4, <1>7, <1>8, <1>9, <1>17

-----------------------------------------------------------------------------
(* EnterThrough: the blocks that are no latches, with their jumps to the   *)
(* header led to the new label.                                            *)

\* A jump to label led to fresh instead.
LedIn(inst, label, fresh) ==
    IF inst.op = "Jump" /\ inst.arg0 = label THEN [inst EXCEPT !.arg0 = fresh] ELSE inst
\* All of the blocks with these jumps.
Retargeted(cfg, latches, label, fresh) ==
    [b \in DOMAIN cfg |->
        IF b \in latches THEN cfg[b]
        ELSE [cfg[b] EXCEPT !.insts = [i \in DOMAIN @ |-> LedIn(@[i], label, fresh)]]]

\* EnterThrough puts an empty block before the header of blocks so led.
LEMMA EnterThroughIs ==
    ASSUME NEW cfg, NEW loop, NEW fresh
    PROVE  EnterThrough([cfg |-> cfg, loop |-> loop, fresh |-> fresh]) =
               [cfg |-> InsertBlock(Retargeted(cfg, loop.latches, cfg[loop.header].label, fresh),
                                    loop.header, [label |-> fresh, insts |-> <<>>]),
                fresh |-> fresh + 1]
BY DEF EnterThrough, Retargeted, LedIn

\* Only jumps are changed, and only outside the latches.
LEMMA RetargetedIs ==
    ASSUME NEW cfg, WfCfg(cfg), NEW latches, NEW label, NEW fresh \in Nat \ {0}
    PROVE  LET mid == Retargeted(cfg, latches, label, fresh)
           IN  /\ Redirected(cfg, mid)
               /\ \A b \in 1 .. Len(cfg) : b \in latches => mid[b] = cfg[b]
               /\ \A b \in 1 .. Len(cfg) : \A i \in 1 .. Len(cfg[b].insts) :
                      b \notin latches => mid[b].insts[i] = LedIn(cfg[b].insts[i], label, fresh)
<1> DEFINE mid == Retargeted(cfg, latches, label, fresh)
           n == Len(cfg)
<1>1. cfg \in Seq(Blocks) /\ DOMAIN cfg = 1 .. n /\ n \in Nat BY DEF WfCfg
<1>2. ASSUME NEW b \in 1 .. n
      PROVE  /\ mid[b] \in Blocks /\ mid[b].label = cfg[b].label
             /\ Led(cfg[b].insts, mid[b].insts)
             /\ b \in latches => mid[b] = cfg[b]
             /\ b \notin latches => \A i \in 1 .. Len(cfg[b].insts) :
                    mid[b].insts[i] = LedIn(cfg[b].insts[i], label, fresh)
  <2> DEFINE s == cfg[b].insts
             t == [i \in DOMAIN s |-> LedIn(s[i], label, fresh)]
  <2>1. cfg[b] \in Blocks /\ WfBlock(cfg[b]) BY <1>1 DEF WfCfg
  <2>2. s \in Seq(Steps) /\ cfg[b].label \in Nat BY <2>1 DEF Blocks
  <2>3. \A i \in 1 .. Len(s) : s[i] \in Steps /\ (s[i].op = "Jump" => s[i].arg0 # 0)
    BY <2>1, <2>2 DEF WfBlock
  <2>4. CASE b \in latches
    <3>1. mid[b] = cfg[b] BY <1>1, <2>4 DEF Retargeted
    <3>2. Led(s, s) BY <2>2, <2>3 DEF Led
    <3> HIDE DEF mid
    <3> QED BY <2>1, <2>4, <3>1, <3>2
  <2>5. CASE b \notin latches
    <3>1. mid[b] = [cfg[b] EXCEPT !.insts = t] BY <1>1, <2>5, Zenon DEF Retargeted
    <3> HIDE DEF mid
    <3>2. mid[b] = [label |-> cfg[b].label, insts |-> t]
      <4> HIDE DEF t
      <4> QED BY <2>1, <3>1, ChangedBlock
    <3>3. ASSUME NEW i \in 1 .. Len(s)
          PROVE  /\ LedIn(s[i], label, fresh) \in Steps
                 /\ LedIn(s[i], label, fresh).op = s[i].op
                 /\ LedIn(s[i], label, fresh).cond = s[i].cond
                 /\ IF s[i].op = "Jump" THEN LedIn(s[i], label, fresh).arg0 # 0
                    ELSE LedIn(s[i], label, fresh) = s[i]
      <4>1. CASE s[i].op = "Jump" /\ s[i].arg0 = label
        <5>1. LedIn(s[i], label, fresh) = [s[i] EXCEPT !.arg0 = fresh] BY <4>1 DEF LedIn
        <5>2. s[i] \in Steps BY <2>3
        <5> HIDE DEF s
        <5> QED BY <4>1, <5>1, <5>2, Redirect
      <4>2. CASE ~(s[i].op = "Jump" /\ s[i].arg0 = label) BY <4>2, <2>3 DEF LedIn
      <4> QED BY <4>1, <4>2
    <3>4. t \in Seq(Steps) /\ Len(t) = Len(s) /\ \A i \in 1 .. Len(s) : t[i] = LedIn(s[i], label, fresh)
      <4>1. DOMAIN s = 1 .. Len(s) /\ Len(s) \in Nat BY <2>2
      <4> HIDE DEF s
      <4> QED BY <3>3, <4>1
    <3> HIDE DEF s, t
    <3>5. Led(s, t) BY <3>3, <3>4 DEF Led
    <3> QED BY <2>2, <2>5, <3>2, <3>4, <3>5 DEF Blocks, s
  <2> QED BY <2>4, <2>5
<1>3. mid \in Seq(Blocks) /\ Len(mid) = n
  <2>1. DOMAIN mid = 1 .. n /\ mid = [b \in 1 .. n |-> mid[b]] BY <1>1 DEF Retargeted
  <2> HIDE DEF mid
  <2> QED BY <1>1, <1>2, <2>1
<1> HIDE DEF mid
<1>4. Redirected(cfg, mid) BY <1>2, <1>3 DEF Redirected
<1> QED BY <1>2, <1>4 DEF mid

\* Where the blocks jump to now.
JumpsRetargeted(cfg, mid, latches, label, fresh, b) ==
    /\ FallsOn(mid[b]) <=> FallsOn(cfg[b])
    /\ b \in latches => mid[b] = cfg[b]
    /\ JumpsTo(mid[b], fresh) <=> b \notin latches /\ JumpsTo(cfg[b], label)
    /\ b \notin latches => ~JumpsTo(mid[b], label)
    /\ \A m : m # label /\ m # fresh => (JumpsTo(mid[b], m) <=> JumpsTo(cfg[b], m))

\* That is where the blocks of Retargeted jump.
LEMMA RetargetedJumps ==
    ASSUME NEW cfg, WfCfg(cfg), NEW latches, NEW label \in Nat, NEW fresh \in Nat \ {0},
           LabelsBelow(cfg, fresh), label # fresh, NEW b \in 1 .. Len(cfg)
    PROVE  JumpsRetargeted(cfg, Retargeted(cfg, latches, label, fresh), latches, label, fresh, b)
<1> DEFINE mid == Retargeted(cfg, latches, label, fresh)
           s == cfg[b].insts
           t == mid[b].insts
<1>1. /\ Redirected(cfg, mid)
      /\ b \in latches => mid[b] = cfg[b]
      /\ \A i \in 1 .. Len(s) : b \notin latches => t[i] = LedIn(s[i], label, fresh)
  BY RetargetedIs
<1>2. cfg[b] \in Blocks BY DEF WfCfg
<1>3. s \in Seq(Steps) /\ Led(s, t) BY <1>1, <1>2 DEF Blocks, Redirected
<1>4. ~JumpsTo(cfg[b], fresh) BY LabelIsNew
<1> HIDE DEF mid
<1>5. CASE b \in latches BY <1>1, <1>4, <1>5 DEF mid, JumpsRetargeted
<1>6. CASE b \notin latches
  <2>1. t = <<>> <=> s = <<>> BY <1>3, LedEnds
  <2>2. CASE s = <<>> BY <2>1, <2>2, <1>6 DEF EndsWithTransfer, FallsOn, JumpsTo, mid, JumpsRetargeted
  <2>3. CASE s # <<>>
    <3>1. /\ Last(s) = s[Len(s)] /\ Last(t) = t[Len(s)] /\ Len(s) \in 1 .. Len(s)
          /\ Last(t).op = Last(s).op /\ Last(t).cond = Last(s).cond
      BY <1>3, <2>3, LedEnds
    <3>2. Last(t) = LedIn(Last(s), label, fresh) BY <1>1, <1>6, <3>1
    <3>3. Last(s) \in Steps BY <1>3, <3>1
    <3>4. Last(s).op = "Jump" /\ Last(s).arg0 = label => Last(t).arg0 = fresh
      BY <3>3, <3>2 DEF Steps, Instructions, LedIn
    <3>5. ~(Last(s).op = "Jump" /\ Last(s).arg0 = label) => Last(t).arg0 = Last(s).arg0
      BY <3>2 DEF LedIn
    <3>6. TransfersControl(Last(t)) <=> TransfersControl(Last(s)) BY <3>1 DEF TransfersControl
    <3>7. LeavesForGood(Last(t)) <=> LeavesForGood(Last(s)) BY <3>1, <3>6 DEF LeavesForGood
    <3>8. EndsWithTransfer(mid[b]) <=> EndsWithTransfer(cfg[b])
      BY <2>1, <2>3, <3>6 DEF EndsWithTransfer
    <3>9. FallsOn(mid[b]) <=> FallsOn(cfg[b]) BY <3>1, <3>7, <3>8 DEF FallsOn
    <3>10. ASSUME NEW m
           PROVE  JumpsTo(mid[b], m) <=>
                      /\ EndsWithTransfer(cfg[b]) /\ Last(s).op = "Jump"
                      /\ m = IF Last(s).arg0 = label THEN fresh ELSE Last(s).arg0
      BY <3>1, <3>4, <3>5, <3>8 DEF JumpsTo
    <3>11. ASSUME NEW m
           PROVE  JumpsTo(cfg[b], m) <=>
                      EndsWithTransfer(cfg[b]) /\ Last(s).op = "Jump" /\ m = Last(s).arg0
      BY DEF JumpsTo
    <3> HIDE DEF s, t
    <3> QED BY <1>4, <1>6, <3>9, <3>10, <3>11 DEF mid, JumpsRetargeted
  <2> QED BY <2>2, <2>3
<1> QED BY <1>5, <1>6

\* The new label is the only new one.
LEMMA RetargetedBelow ==
    ASSUME NEW cfg, WfCfg(cfg), NEW latches, NEW label, NEW fresh \in Nat \ {0},
           LabelsBelow(cfg, fresh)
    PROVE  LabelsBelow(Retargeted(cfg, latches, label, fresh), fresh + 1)
<1> DEFINE mid == Retargeted(cfg, latches, label, fresh)
           n == Len(cfg)
<1>1. /\ Redirected(cfg, mid)
      /\ \A b \in 1 .. n : b \in latches => mid[b] = cfg[b]
      /\ \A b \in 1 .. n : \A i \in 1 .. Len(cfg[b].insts) :
             b \notin latches => mid[b].insts[i] = LedIn(cfg[b].insts[i], label, fresh)
  BY RetargetedIs
<1> HIDE DEF mid
<1>2. LabelsBelow(cfg, fresh + 1) BY BelowGrows
<1>3. ASSUME NEW b \in 1 .. n
      PROVE  /\ mid[b].label # 0 => mid[b].label < fresh + 1
             /\ \A i \in 1 .. Len(mid[b].insts) :
                    mid[b].insts[i].op = "Jump" => mid[b].insts[i].arg0 < fresh + 1
  <2>1. mid[b].label = cfg[b].label /\ Led(cfg[b].insts, mid[b].insts) BY <1>1 DEF Redirected
  <2>2. mid[b].label # 0 => mid[b].label < fresh + 1 BY <1>2, <2>1 DEF LabelsBelow
  <2>3. Len(mid[b].insts) = Len(cfg[b].insts) BY <2>1 DEF Led
  <2>4. ASSUME NEW i \in 1 .. Len(mid[b].insts), mid[b].insts[i].op = "Jump"
        PROVE  mid[b].insts[i].arg0 < fresh + 1
    <3>1. i \in 1 .. Len(cfg[b].insts) /\ cfg[b].insts[i].op = "Jump" BY <2>1, <2>3, <2>4 DEF Led
    <3>2. cfg[b].insts[i].arg0 < fresh + 1 BY <1>2, <3>1 DEF LabelsBelow
    <3>3. CASE b \in latches BY <1>1, <3>2, <3>3
    <3>4. CASE b \notin latches
      <4>1. mid[b].insts[i] = LedIn(cfg[b].insts[i], label, fresh) BY <1>1, <3>1, <3>4
      <4>2. CASE cfg[b].insts[i].arg0 = label
        BY <3>1, <4>1, <4>2, Redirect DEF LedIn, WfCfg, WfBlock, Blocks
      <4>3. CASE cfg[b].insts[i].arg0 # label BY <4>1, <4>3, <3>2 DEF LedIn
      <4> QED BY <4>2, <4>3
    <3> QED BY <3>3, <3>4
  <2> QED BY <2>2, <2>4
<1>4. Len(mid) = n BY <1>1 DEF Redirected
<1>5. LabelsBelow(mid, fresh + 1) BY <1>3, <1>4 DEF LabelsBelow
<1> QED BY <1>5 DEF mid

\* So all who come from outside the loop come through the new block, and no latch
\* does when none falls into the header.
LEMMA EntersIs ==
    ASSUME NEW cfg, Regular(cfg), NEW fresh \in Nat \ {0}, LabelsBelow(cfg, fresh),
           NEW h \in 1 .. Len(cfg), cfg[h].label # 0, NEW latches,
           \A b \in 1 .. Len(cfg) : b \in latches <=> IsLatch(cfg, h, b),
           h - 1 \in latches => ~FallsOn(cfg[h - 1]) \/ h = 1,
           NEW new,
           Inserted(Retargeted(cfg, latches, cfg[h].label, fresh), new, h,
                    [label |-> fresh, insts |-> <<>>])
    PROVE  /\ Regular(new) /\ LabelsBelow(new, fresh + 1) /\ Enters(cfg, new, h)
           /\ \A b \in 1 .. Len(cfg) : new[Moved(h, b)].label = cfg[b].label
<1> DEFINE n == Len(cfg)
           label == cfg[h].label
           mid == Retargeted(cfg, latches, label, fresh)
           block == [label |-> fresh, insts |-> <<>>]
<1>1. n \in Nat /\ h \in 1 .. n /\ WfCfg(cfg) /\ cfg \in Seq(Blocks) BY DEF Regular, WfCfg
<1>2. label \in Nat \ {0} /\ label < fresh /\ label # fresh
  BY <1>1 DEF WfCfg, WfBlock, Blocks, LabelsBelow
<1>3. Inserted(mid, new, h, block) /\ block.label = fresh OBVIOUS
<1> HIDE DEF block, label
<1>4. /\ WfBlock(block) /\ LabelsBelow(<<block>>, fresh + 1) /\ FallsOn(block)
      /\ \A m : ~JumpsTo(block, m)
  BY <1>2, NewBlocks DEF block
<1>5. /\ Redirected(cfg, mid) /\ Len(mid) = n /\ Regular(mid) /\ WfCfg(mid)
      /\ \A b \in 1 .. n : mid[b].label = cfg[b].label
  <2>1. Redirected(cfg, mid) BY <1>1, RetargetedIs
  <2> HIDE DEF mid
  <2> QED BY <1>1, <2>1, RedirectedWf DEF Redirected
<1>6. LabelsBelow(mid, fresh + 1) BY <1>1, RetargetedBelow
<1>7. ASSUME NEW b \in 1 .. n
      PROVE  /\ FallsOn(mid[b]) <=> FallsOn(cfg[b])
             /\ b \in latches => mid[b] = cfg[b]
             /\ JumpsTo(mid[b], fresh) <=> b \notin latches /\ JumpsTo(cfg[b], label)
             /\ b \notin latches => ~JumpsTo(mid[b], label)
             /\ \A m : m # label /\ m # fresh => (JumpsTo(mid[b], m) <=> JumpsTo(cfg[b], m))
  <2>1. label \in Nat /\ label # fresh /\ WfCfg(cfg) /\ b \in 1 .. Len(cfg) BY <1>1, <1>2
  <2>2. JumpsRetargeted(cfg, mid, latches, label, fresh, b) BY <2>1, RetargetedJumps
  <2> QED BY <2>2 DEF JumpsRetargeted
<1> HIDE DEF mid
<1>8. \A b \in 1 .. n : cfg[b].label # fresh /\ mid[b].label # fresh BY <1>1, <1>5, LabelIsNew
<1>9. Regular(new) BY <1>1, <1>2, <1>3, <1>4, <1>5, <1>8, InsertedRegular DEF label
<1>10. LabelsBelow(new, fresh + 1)
  BY <1>5, <1>1, <1>3, <1>4, <1>6, InsertedBelow DEF Redirected
<1>11. Len(new) = n + 1 /\ new[h] = block /\ \A b \in 1 .. n : new[Moved(h, b)] = mid[b]
  BY <1>3, <1>5 DEF Inserted
<1>12. WfCfg(new) /\ Graph(new) /\ Graph(cfg) /\ DOMAIN cfg = 1 .. n /\ DOMAIN new = 1 .. n + 1
  BY <1>1, <1>9, <1>11, WfIsGraph DEF Regular, Graph
<1>13. CfgSuccessors(new, h) = {h + 1}
  BY <1>1, <1>4, <1>11, <1>12, SuccessorIs, SuccessorsAreBlocks
<1>14. ASSUME NEW b \in 1 .. n
       PROVE  /\ h \in CfgSuccessors(new, Moved(h, b)) <=>
                     \/ FallsOn(cfg[b]) /\ b = h - 1
                     \/ b \notin latches /\ JumpsTo(cfg[b], label)
              /\ \A c \in 1 .. n : Moved(h, c) \in CfgSuccessors(new, Moved(h, b)) <=>
                     \/ FallsOn(cfg[b]) /\ b # h - 1 /\ c = b + 1
                     \/ JumpsTo(mid[b], cfg[c].label)
  BY <1>1, <1>3, <1>5, <1>7, InsertedSuccessors
<1>15. ASSUME NEW b \in 1 .. n, NEW c \in 1 .. n
       PROVE  c \in CfgSuccessors(cfg, b) <=>
                  (FallsOn(cfg[b]) /\ c = b + 1) \/ JumpsTo(cfg[b], cfg[c].label)
  BY <1>12, SuccessorIs
<1>16. ASSUME NEW b \in 1 .. n, NEW c \in 1 .. n, c # h
       PROVE  JumpsTo(mid[b], cfg[c].label) <=> JumpsTo(cfg[b], cfg[c].label)
  BY <1>1, <1>2, <1>16, <1>7, <1>8 DEF WfCfg, label
<1>17. Moved(h, h) = h + 1 /\ cfg[h].label = label /\ Origin(h, h) = h BY <1>1, MovedIs DEF label
<1>18. ASSUME NEW b \in 1 .. n
       PROVE  h + 1 \in CfgSuccessors(new, Moved(h, b)) <=> b \in latches /\ JumpsTo(cfg[b], label)
  BY <1>1, <1>14, <1>17, <1>7
<1>19. ASSUME NEW b \in 1 .. n
       PROVE  /\ \A x \in CfgSuccessors(new, Moved(h, b)) : Origin(h, x) \in CfgSuccessors(cfg, b)
              /\ \A c \in CfgSuccessors(cfg, b) :
                     c # h => Moved(h, c) \in CfgSuccessors(new, Moved(h, b))
              /\ h \in CfgSuccessors(cfg, b) =>
                     \/ h \in CfgSuccessors(new, Moved(h, b))
                     \/ h + 1 \in CfgSuccessors(new, Moved(h, b))
  <2>0. b = h - 1 <=> h = b + 1 BY <1>1
  <2>1. ASSUME NEW x \in CfgSuccessors(new, Moved(h, b)) PROVE Origin(h, x) \in CfgSuccessors(cfg, b)
    <3>1. x \in 1 .. n + 1 BY <1>12, SuccessorsAreBlocks
    <3>2. CASE x = h BY <1>1, <1>14, <1>15, <1>17, <2>0, <3>2
    <3>3. CASE x = h + 1
      <4>1. Origin(h, h + 1) = h /\ JumpsTo(cfg[b], label) BY <1>1, <1>18, <3>3, MovedIs
      <4> QED BY <1>1, <1>15, <1>17, <3>3, <4>1
    <3>4. CASE x # h /\ x # h + 1
      <4>0. Origin(h, x) \in 1 .. n /\ Moved(h, Origin(h, x)) = x /\ Origin(h, x) # h
        BY <1>1, <3>1, <3>4, OriginOne
      <4>1. PICK c \in 1 .. n : c = Origin(h, x) /\ Moved(h, c) = x /\ c # h BY <4>0
      <4> QED BY <1>14, <1>15, <1>16, <4>1
    <3> QED BY <3>2, <3>3, <3>4
  <2>2. ASSUME NEW c \in CfgSuccessors(cfg, b), c # h PROVE Moved(h, c) \in CfgSuccessors(new, Moved(h, b))
    BY <1>12, SuccessorsAreBlocks, <1>1, <2>2, <1>14, <1>15, <1>16
  <2>3. ASSUME h \in CfgSuccessors(cfg, b)
        PROVE  \/ h \in CfgSuccessors(new, Moved(h, b))
               \/ h + 1 \in CfgSuccessors(new, Moved(h, b))
    BY <1>1, <1>14, <1>15, <1>17, <1>18, <2>0, <2>3
  <2> QED BY <2>1, <2>2, <2>3
<1>20. Splits(cfg, new, h) BY <1>1, <1>11, <1>12, <1>13, <1>19 DEF Splits
<1>21. ASSUME NEW b \in 1 .. n
       PROVE  /\ h \in CfgSuccessors(new, Moved(h, b)) => ~IsLatch(cfg, h, b)
              /\ h + 1 \in CfgSuccessors(new, Moved(h, b)) => IsLatch(cfg, h, b)
  BY <1>1, <1>14, <1>18
<1>22. Enters(cfg, new, h) BY <1>12, <1>20, <1>21 DEF Enters
<1> QED BY <1>5, <1>9, <1>10, <1>11, <1>22

-----------------------------------------------------------------------------
(* A jump added at the end of a block that fell into the header.           *)

\* A block that fell off its end, with a jump to l put there, leads to l alone.
LEMMA AppendedJump ==
    ASSUME NEW block, WfBlock(block), ~EndsWithTransfer(block), NEW l \in Nat \ {0}
    PROVE  LET new == [label |-> block.label, insts |-> Append(block.insts, JumpI(l))]
           IN  /\ WfBlock(new) /\ EndsForGood(new) /\ EndsWithTransfer(new) /\ ~FallsOn(new)
               /\ \A m : JumpsTo(new, m) <=> m = l
               /\ \A bound : l < bound /\ LabelsBelow(<<block>>, bound) => LabelsBelow(<<new>>, bound)
<1> DEFINE s == block.insts
           j == JumpI(l)
           t == Append(s, j)
           new == [label |-> block.label, insts |-> t]
           n == Len(s)
<1>1. j \in Steps /\ j.op = "Jump" /\ j.arg0 = l /\ TransfersControl(j) /\ LeavesForGood(j) BY JumpIs
<1>2. block \in Blocks /\ s \in Seq(Steps) /\ block.label \in Nat BY DEF WfBlock, Blocks
<1>3. n \in Nat BY <1>2
<1> HIDE DEF j, s
<1>4. t \in Seq(Steps) /\ Len(t) = n + 1 /\ t[n + 1] = j /\ \A i \in 1 .. n : t[i] = s[i]
  BY <1>1, <1>2, Appended
<1> HIDE DEF t
<1>5. t # <<>> /\ Last(t) = j BY <1>3, <1>4 DEF Last
<1>6. new \in Blocks /\ new.insts = t /\ new.label = block.label BY <1>2, <1>4 DEF Blocks
<1> HIDE DEF new
<1>7. \A i \in 1 .. n : ~TransfersControl(s[i])
  BY <1>3 DEF WfBlock, s, n, Last, EndsWithTransfer
<1>8. \A i \in 1 .. n + 1 : i \in 1 .. n \/ i = n + 1 BY <1>3
<1>9. WfBlock(new) BY <1>1, <1>4, <1>6, <1>7, <1>8 DEF WfBlock, s, n
<1>10. /\ EndsForGood(new) /\ EndsWithTransfer(new) /\ ~FallsOn(new)
       /\ \A m : JumpsTo(new, m) <=> m = l
  BY <1>1, <1>5, <1>6 DEF EndsWithTransfer, EndsForGood, FallsOn, JumpsTo
<1>11. ASSUME NEW bound, l < bound, LabelsBelow(<<block>>, bound) PROVE LabelsBelow(<<new>>, bound)
  <2>1. \A b : Len(<<b>>) = 1 /\ <<b>>[1] = b /\ 1 \in 1 .. 1 /\ \A i \in 1 .. 1 : i = 1 OBVIOUS
  <2>2. /\ block.label # 0 => block.label < bound
        /\ \A i \in 1 .. n : s[i].op = "Jump" => s[i].arg0 < bound
    BY <1>11, <2>1 DEF LabelsBelow, s, n
  <2> QED BY <1>1, <1>4, <1>6, <1>8, <1>11, <2>1, <2>2 DEF LabelsBelow
<1> QED BY <1>9, <1>10, <1>11 DEF new, t, j, s

\* LatchApart when the latch only falls: a jump at its end changes no edge.
LEMMA ApartLeaps ==
    ASSUME NEW cfg, Regular(cfg), NEW fresh \in Nat \ {0}, LabelsBelow(cfg, fresh),
           NEW h \in 1 .. Len(cfg), cfg[h].label # 0,
           h - 1 \in 1 .. Len(cfg), ~EndsWithTransfer(cfg[h - 1]),
           NEW new, new = [cfg EXCEPT ![h - 1].insts = Append(@, JumpI(cfg[h].label))]
    PROVE  /\ Regular(new) /\ LabelsBelow(new, fresh) /\ SameEdges(cfg, new)
           /\ \A b \in 1 .. Len(cfg) : new[b].label = cfg[b].label
           /\ EndsForGood(new[h - 1])
<1> DEFINE n == Len(cfg)
           label == cfg[h].label
           l == h - 1
           block == [label |-> cfg[l].label, insts |-> Append(cfg[l].insts, JumpI(label))]
<1>1. n \in Nat /\ h \in 1 .. n /\ l \in 1 .. n /\ WfCfg(cfg) /\ cfg \in Seq(Blocks)
      /\ DOMAIN cfg = 1 .. n
  BY DEF Regular, WfCfg
<1>2. label \in Nat \ {0} /\ label < fresh
  BY <1>1 DEF WfCfg, WfBlock, Blocks, LabelsBelow
<1>3. WfBlock(cfg[l]) /\ cfg[l] \in Blocks /\ ~EndsWithTransfer(cfg[l]) BY <1>1 DEF WfCfg
<1>4. new = [cfg EXCEPT ![l] = block]
  <2>1. new = [cfg EXCEPT ![l] = [cfg[l] EXCEPT !.insts = Append(cfg[l].insts, JumpI(label))]]
    OBVIOUS
  <2> HIDE DEF l, label
  <2>2. [cfg[l] EXCEPT !.insts = Append(cfg[l].insts, JumpI(label))] = block BY <1>3, ChangedBlock
  <2> HIDE DEF block
  <2> QED BY <2>1, <2>2
<1>5. /\ WfBlock(block) /\ EndsForGood(block) /\ EndsWithTransfer(block) /\ ~FallsOn(block)
      /\ \A m : JumpsTo(block, m) <=> m = label
      /\ \A bound : label < bound /\ LabelsBelow(<<cfg[l]>>, bound) => LabelsBelow(<<block>>, bound)
  <2> HIDE DEF label, l
  <2> QED BY <1>2, <1>3, AppendedJump
<1>6. block.label = cfg[l].label OBVIOUS
<1> HIDE DEF block, label
<1>7. block \in Blocks BY <1>5 DEF WfBlock
<1>8. /\ new \in Seq(Blocks) /\ Len(new) = n /\ DOMAIN new = 1 .. n /\ new[l] = block
      /\ \A b \in 1 .. n : b # l => new[b] = cfg[b]
  BY <1>1, <1>4, <1>7
<1>9. \A b \in 1 .. n : new[b].label = cfg[b].label BY <1>6, <1>8
<1>10. WfCfg(new)
  <2>1. \A b \in 1 .. n : WfBlock(new[b]) BY <1>1, <1>5, <1>8 DEF WfCfg
  <2>2. \A b, c \in 1 .. n : cfg[b].label # 0 /\ cfg[b].label = cfg[c].label => b = c
    BY <1>1 DEF WfCfg
  <2>3. \A b, c \in 1 .. n : new[b].label # 0 /\ new[b].label = new[c].label => b = c
    BY <1>9, <2>2
  <2> QED BY <1>8, <2>1, <2>3 DEF WfCfg
<1>11. Regular(new) BY <1>9, <1>5, <1>8, <1>1, <1>10 DEF Regular, EndsForGood
<1>12. LabelsBelow(new, fresh)
  <2>1. LabelsBelow(<<cfg[l]>>, fresh)
    <3>1. Len(<<cfg[l]>>) = 1 /\ <<cfg[l]>>[1] = cfg[l] /\ \A i \in 1 .. 1 : i = 1 OBVIOUS
    <3> HIDE DEF l
    <3> QED BY <1>1, <3>1 DEF LabelsBelow
  <2>2. LabelsBelow(<<block>>, fresh) BY <1>2, <1>5, <2>1
  <2>3. /\ block.label # 0 => block.label < fresh
        /\ \A i \in 1 .. Len(block.insts) : block.insts[i].op = "Jump" => block.insts[i].arg0 < fresh
    BY <2>2 DEF LabelsBelow
  <2>4. \A b \in 1 .. n : new[b] = block \/ new[b] = cfg[b] BY <1>8
  <2> QED BY ZenonT(30), <1>8, <2>3, <2>4 DEF LabelsBelow
<1>13. SameEdges(cfg, new)
  <2>1. ASSUME NEW b \in 1 .. n PROVE CfgSuccessors(new, b) = CfgSuccessors(cfg, b)
    <3>1. ASSUME NEW c \in 1 .. n PROVE c \in CfgSuccessors(new, b) <=> c \in CfgSuccessors(cfg, b)
      <4>1. c \in CfgSuccessors(cfg, b) <=>
                (FallsOn(cfg[b]) /\ c = b + 1) \/ JumpsTo(cfg[b], cfg[c].label)
        BY <1>1, SuccessorIs
      <4>2. c \in CfgSuccessors(new, b) <=>
                (FallsOn(new[b]) /\ c = b + 1) \/ JumpsTo(new[b], cfg[c].label)
        BY <1>8, <1>9, SuccessorIs
      <4>3. CASE b # l BY <1>8, <4>1, <4>2, <4>3
      <4>4. CASE b = l
        <5>1. c \in CfgSuccessors(new, b) <=> cfg[c].label = label BY <1>5, <1>8, <4>2, <4>4
        <5>2. cfg[c].label = label <=> c = h BY <1>1, <1>2 DEF WfCfg, label
        <5>3. c \in CfgSuccessors(cfg, b) <=> c = b + 1
          BY <1>3, <4>1, <4>4 DEF FallsOn, JumpsTo
        <5>4. c = b + 1 <=> c = h BY <1>1, <4>4
        <5> QED BY <5>1, <5>2, <5>3, <5>4
      <4> QED BY <4>3, <4>4
    <3>2. CfgSuccessors(new, b) \subseteq 1 .. n /\ CfgSuccessors(cfg, b) \subseteq 1 .. n
      BY <1>1, <1>8, SuccessorsAreBlocks
    <3> QED BY <3>1, <3>2
  <2> QED BY <1>1, <1>8, <2>1 DEF SameEdges, Graph
<1> QED BY <1>5, <1>8, <1>9, <1>11, <1>12, <1>13

-----------------------------------------------------------------------------
(* What insertPreheaders knows between two loops: fresh is above every     *)
(* label there is.                                                         *)

\* Regular blocks and a label above all of theirs.
Fresh(cfg, fresh) == Regular(cfg) /\ fresh \in Nat \ {0} /\ LabelsBelow(cfg, fresh)

\* After LatchApart no latch falls into the header; nothing else changes.
LEMMA LatchApartIs ==
    ASSUME NEW cfg, NEW fresh, Fresh(cfg, fresh), NEW loop \in NaturalLoops(cfg),
           cfg[loop.header].label # 0
    PROVE  LET at == LatchApart(cfg, loop, fresh)
           IN  /\ at = [cfg |-> at.cfg, loop |-> at.loop, fresh |-> at.fresh]
               /\ Fresh(at.cfg, at.fresh)
               /\ at.loop \in NaturalLoops(at.cfg)
               /\ at.cfg[at.loop.header].label = cfg[loop.header].label
               /\ ~FallsThroughToHeader(at.cfg, at.loop)
               /\ HeaderLabels(at.cfg) = HeaderLabels(cfg)
               /\ PreLabels(cfg) \ {cfg[loop.header].label} \subseteq PreLabels(at.cfg)
<1> DEFINE n == Len(cfg)
           h == loop.header
           l == h - 1
           label == cfg[h].label
           at == LatchApart(cfg, loop, fresh)
           apart == InsertBlock(cfg, h, [label |-> fresh, insts |-> <<JumpI(label)>>])
           leaping == [cfg EXCEPT ![l].insts = Append(@, JumpI(label))]
<1>1. /\ Regular(cfg) /\ WfCfg(cfg) /\ cfg \in Seq(Blocks) /\ n \in Nat /\ DOMAIN cfg = 1 .. n
      /\ Graph(cfg) /\ fresh \in Nat \ {0} /\ LabelsBelow(cfg, fresh)
  BY SMTT(30), WfIsGraph DEF Fresh, Regular, WfCfg
<1>2. h \in 1 .. n /\ loop.latches \subseteq 1 .. n /\ cfg # <<>>
  BY <1>1, LoopsAre, ReachableNext
<1>3. label # 0 OBVIOUS
<1>4. CASE ~FallsThroughToHeader(cfg, loop)
  <2>1. at = [cfg |-> cfg, loop |-> loop, fresh |-> fresh] BY <1>4 DEF LatchApart
  <2>2. at.cfg = cfg /\ at.loop = loop /\ at.fresh = fresh BY <2>1
  <2> HIDE DEF at
  <2>3. Fresh(at.cfg, at.fresh) BY <2>2
  <2> QED BY <1>4, <2>1, <2>2, <2>3 DEF at
<1>5. CASE FallsThroughToHeader(cfg, loop)
  <2>1. l \in loop.latches /\ ~EndsForGood(cfg[l]) BY <1>5 DEF FallsThroughToHeader
  <2>2. l \in 1 .. n /\ IsLatch(cfg, h, l) BY <1>1, <1>2, <2>1, LatchesAre
  <2>3. CASE EndsWithTransfer(cfg[l])
    <3>1. FallsOn(cfg[l])
      BY <2>2, <1>1, <1>2, SuccessorIs, <2>1 DEF IsLatch, JumpsTo, FallsOn, EndsForGood,
         EndsWithTransfer
    <3>2. at = [cfg |-> apart, loop |-> LoopLabelled(apart, label), fresh |-> fresh + 1]
      BY <1>5, <2>3 DEF LatchApart
    <3>3. Inserted(cfg, apart, h, [label |-> fresh, insts |-> <<JumpI(label)>>])
      <4>1. label \in Nat /\ label < fresh BY <1>1, <1>2 DEF WfCfg, WfBlock, Blocks, LabelsBelow
      <4> HIDE DEF label, h
      <4>2. [label |-> fresh, insts |-> <<JumpI(label)>>] \in Blocks
        BY <1>1, <1>3, <4>1, NewBlocks DEF WfBlock
      <4> QED BY <1>1, <1>2, <4>2, InsertBlockIs
    <3> HIDE DEF apart
    <3>4. Regular(apart) /\ LabelsBelow(apart, fresh + 1) /\ Falls(cfg, apart, h) /\ EndsForGood(apart[h])
      <4> HIDE DEF h
      <4> QED BY <1>1, <1>2, <1>3, <2>2, <3>1, <3>3, ApartFalls
    <3>5. Splits(cfg, apart, h) /\ WfCfg(apart) BY <3>4 DEF Falls, Regular
    <3>6. \A b \in 1 .. n : apart[Moved(h, b)].label = cfg[b].label BY <3>3 DEF Inserted
    <3>7. IsHeader(cfg, h) BY DEF IsHeader
    <3>8. IsHeader(apart, h + 1) /\ ~IsHeader(apart, h) BY <3>4, FallsHeader
    <3>9. /\ HeaderLabels(apart) = HeaderLabels(cfg)
          /\ PreLabels(cfg) \ {label} \subseteq PreLabels(apart)
      <4> HIDE DEF h
      <4> QED BY <1>1, <3>5, <3>6, <3>7, <3>8, SplitLabels
    <3>10. label \in HeaderLabels(apart) BY <1>1, <1>2, <1>3, <3>7, <3>9, LabelledBlock
    <3> DEFINE other == LoopLabelled(apart, label)
    <3>11. other \in NaturalLoops(apart) /\ apart[other.header].label = label
           /\ other.header \in 1 .. Len(apart)
      <4> HIDE DEF label
      <4> QED BY <3>5, <3>10, LoopWithLabel
    <3> HIDE DEF other
    <3>12. other.header = h + 1
      <4>0. Moved(h, h) = h + 1
        <5> HIDE DEF h
        <5> QED BY <1>1, <1>2, MovedIs
      <4>1. Moved(h, h) = h + 1 /\ h + 1 \in 1 .. n + 1 BY <1>1, <1>2, <4>0
      <4>2. apart[h + 1].label = label BY <1>2, <3>6, <4>1
      <4>3. Len(apart) = n + 1 BY <3>3 DEF Inserted
      <4> QED BY <1>3, <3>5, <3>11, <4>1, <4>2, <4>3 DEF WfCfg
    <3>13. ~FallsThroughToHeader(apart, other)
      BY <1>1, <1>2, <3>12, <3>4 DEF FallsThroughToHeader
    <3>14. Fresh(apart, fresh + 1) BY <1>1, <3>4 DEF Fresh
    <3>15. at.cfg = apart /\ at.loop = other /\ at.fresh = fresh + 1 BY <3>2 DEF other
    <3>16. at = [cfg |-> apart, loop |-> other, fresh |-> fresh + 1] BY <3>2 DEF other
    <3> HIDE DEF at, label
    <3> QED BY <3>9, <3>11, <3>13, <3>14, <3>15, <3>16 DEF at, label
  <2>4. CASE ~EndsWithTransfer(cfg[l])
    <3>1. at = [cfg |-> leaping, loop |-> loop, fresh |-> fresh] BY <1>5, <2>4 DEF LatchApart
    <3>2. /\ Regular(leaping) /\ LabelsBelow(leaping, fresh) /\ SameEdges(cfg, leaping)
          /\ \A b \in 1 .. n : leaping[b].label = cfg[b].label
          /\ EndsForGood(leaping[l])
      <4> DEFINE new == leaping
      <4>1. new = [cfg EXCEPT ![h - 1].insts = Append(@, JumpI(cfg[h].label))] OBVIOUS
      <4> HIDE DEF new, h
      <4> QED BY <1>1, <1>2, <1>3, <2>2, <2>4, <4>1, ApartLeaps DEF new
    <3> HIDE DEF leaping
    <3>3. /\ NaturalLoops(leaping) = NaturalLoops(cfg)
          /\ \A g, p : Pre(leaping, g, p) <=> Pre(cfg, g, p)
          /\ \A g : IsHeader(leaping, g) <=> IsHeader(cfg, g)
      BY <3>2, SameLoops
    <3>4. DOMAIN leaping = 1 .. n BY <1>1, <3>2 DEF SameEdges, Graph
    <3>5. HeaderLabels(leaping) = HeaderLabels(cfg) BY <1>1, <3>2, <3>3, <3>4 DEF HeaderLabels
    <3>6. PreLabels(cfg) \subseteq PreLabels(leaping) BY <1>1, <3>2, <3>3, <3>4 DEF PreLabels
    <3>7. ~FallsThroughToHeader(leaping, loop) BY <3>2 DEF FallsThroughToHeader
    <3>8. Fresh(leaping, fresh) BY <1>1, <3>2 DEF Fresh
    <3>9. leaping[h].label = label BY <1>2, <3>2
    <3>10. loop \in NaturalLoops(leaping) BY <3>3
    <3>11. at.cfg = leaping /\ at.loop = loop /\ at.fresh = fresh BY <3>1
    <3> HIDE DEF at, label
    <3> QED BY <3>1, <3>5, <3>6, <3>7, <3>8, <3>9, <3>10, <3>11 DEF at, label
  <2> QED BY <2>3, <2>4
<1> QED BY <1>4, <1>5

\* After EnterThrough the loop has a preheader.
LEMMA EnterThroughKeeps ==
    ASSUME NEW cfg, NEW fresh, Fresh(cfg, fresh), NEW loop \in NaturalLoops(cfg),
           cfg[loop.header].label # 0, ~FallsThroughToHeader(cfg, loop)
    PROVE  LET new == EnterThrough([cfg |-> cfg, loop |-> loop, fresh |-> fresh])
           IN  /\ Fresh(new.cfg, new.fresh)
               /\ HeaderLabels(new.cfg) = HeaderLabels(cfg)
               /\ PreLabels(cfg) \cup {cfg[loop.header].label} \subseteq PreLabels(new.cfg)
<1> DEFINE n == Len(cfg)
           h == loop.header
           label == cfg[h].label
           block == [label |-> fresh, insts |-> <<>>]
           mid == Retargeted(cfg, loop.latches, label, fresh)
           all == InsertBlock(mid, h, block)
           new == EnterThrough([cfg |-> cfg, loop |-> loop, fresh |-> fresh])
<1>1. /\ Regular(cfg) /\ WfCfg(cfg) /\ cfg \in Seq(Blocks) /\ n \in Nat /\ DOMAIN cfg = 1 .. n
      /\ Graph(cfg) /\ fresh \in Nat \ {0} /\ LabelsBelow(cfg, fresh)
  BY WfIsGraph DEF Fresh, Regular, WfCfg
<1>2. h \in 1 .. n /\ loop.latches \subseteq 1 .. n /\ cfg # <<>>
  BY <1>1, LoopsAre, ReachableNext
<1>3. label # 0 /\ label \in Nat BY <1>1, <1>2 DEF WfCfg, WfBlock, Blocks
<1>4. new = [cfg |-> all, fresh |-> fresh + 1] BY EnterThroughIs
<1>5. \A b \in 1 .. n : b \in loop.latches <=> IsLatch(cfg, h, b) BY <1>1, LatchesAre
<1>6. Inserted(mid, all, h, block)
  <2>1. Redirected(cfg, mid) BY <1>1, RetargetedIs
  <2>2. mid \in Seq(Blocks) /\ Len(mid) = n BY <2>1 DEF Redirected
  <2>3. block \in Blocks BY <1>1 DEF Blocks
  <2> HIDE DEF mid, block, h
  <2> QED BY <1>2, <2>2, <2>3, InsertBlockIs
<1>7. h - 1 \in loop.latches => ~FallsOn(cfg[h - 1]) \/ h = 1
  BY DEF FallsThroughToHeader, EndsForGood, FallsOn, EndsWithTransfer, LeavesForGood
<1> HIDE DEF all
<1>8. /\ Regular(all) /\ LabelsBelow(all, fresh + 1) /\ Enters(cfg, all, h)
      /\ \A b \in 1 .. n : all[Moved(h, b)].label = cfg[b].label
  <2> HIDE DEF h
  <2> QED BY <1>1, <1>2, <1>3, <1>5, <1>6, <1>7, EntersIs
<1>9. IsHeader(cfg, h) BY DEF IsHeader
<1> HIDE DEF h, new
<1>10. IsHeader(all, h + 1) /\ ~IsHeader(all, h) /\ Pre(all, h + 1, h) BY <1>8, <1>9, EntersHeader
<1>11. Splits(cfg, all, h) /\ WfCfg(all) BY <1>8 DEF Enters, Regular
<1>12. /\ HeaderLabels(all) = HeaderLabels(cfg)
       /\ PreLabels(cfg) \ {label} \subseteq PreLabels(all)
  BY <1>1, <1>8, <1>9, <1>10, <1>11, SplitLabels
<1>13. label \in PreLabels(all)
  <2>1. Moved(h, h) = h + 1 BY <1>1, <1>2, MovedIs
  <2>2. all[h + 1].label = label BY <1>2, <1>8, <2>1
  <2>3. h + 1 \in DOMAIN all BY <1>10, <1>11, SplitsIs
  <2> QED BY <1>3, <1>10, <2>2, <2>3 DEF PreLabels
<1>14. Fresh(all, fresh + 1) BY <1>1, <1>8 DEF Fresh
<1>15. new.cfg = all /\ new.fresh = fresh + 1 BY <1>4
<1> QED BY <1>12, <1>13, <1>14, <1>15 DEF new, h

-----------------------------------------------------------------------------
(* The numbers of a finite set in descending order.                        *)

\* The members of S that are larger than x.
Above(S, x) == {y \in S : y > x}
\* What Sorted makes of S: at place i the number with i - 1 larger ones.
Descending(S) ==
    [i \in 1 .. Cardinality(S) |-> CHOOSE x \in S : Cardinality(Above(S, x)) = i - 1]

\* Sorting by > gives them in that order.
LEMMA SortedIs ==
    ASSUME NEW S
    PROVE  Sorted(S, LAMBDA x, y : x > y) = Descending(S)
BY DEF Sorted, Descending, Above

\* Different numbers have differently many larger ones.
LEMMA AboveIs ==
    ASSUME NEW S, S \subseteq Nat, IsFiniteSet(S)
    PROVE  /\ Cardinality(S) \in Nat
           /\ \A x \in S : Cardinality(Above(S, x)) \in 0 .. Cardinality(S) - 1
           /\ \A x, y \in S : Cardinality(Above(S, x)) = Cardinality(Above(S, y)) => x = y
<1>1. Cardinality(S) \in Nat BY FS_CardinalityType
<1>2. ASSUME NEW x \in S PROVE Cardinality(Above(S, x)) \in 0 .. Cardinality(S) - 1
  BY <1>2, Smaller DEF Above
<1>3. ASSUME NEW x \in S, NEW y \in S, x < y
      PROVE  Cardinality(Above(S, y)) < Cardinality(Above(S, x))
  <2>1. Above(S, y) \subseteq Above(S, x) /\ y \in Above(S, x) /\ y \notin Above(S, y)
    <3>1. x \in Nat /\ y \in Nat OBVIOUS
    <3>2. \A z \in S : z > y => z > x BY <1>3, <3>1
    <3>3. Above(S, y) \subseteq Above(S, x) BY <3>2 DEF Above
    <3>4. y > x /\ ~ (y > y) BY <1>3, <3>1
    <3>5. y \in Above(S, x) /\ y \notin Above(S, y) BY <3>4 DEF Above
    <3> QED BY <3>3, <3>5
  <2>2. Above(S, x) \subseteq S BY DEF Above
  <2>3. IsFiniteSet(Above(S, x)) BY <2>2, Smaller
  <2> QED BY <2>1, <2>3, Smaller
<1>4. ASSUME NEW x \in S, NEW y \in S, Cardinality(Above(S, x)) = Cardinality(Above(S, y))
      PROVE  x = y BY <1>2, <1>3, <1>4
<1> QED BY <1>1, <1>2, <1>4

\* The order has every number of the set, and no others.
LEMMA DescendingIs ==
    ASSUME NEW S, S \subseteq Nat, IsFiniteSet(S)
    PROVE  /\ Cardinality(S) \in Nat /\ DOMAIN Descending(S) = 1 .. Cardinality(S)
           /\ \A i \in 1 .. Cardinality(S) : Descending(S)[i] \in S
           /\ \A x \in S : \E i \in 1 .. Cardinality(S) : Descending(S)[i] = x
<1> DEFINE n == Cardinality(S)
           T == 1 .. n
           f == [x \in S |-> Cardinality(Above(S, x)) + 1]
<1>1. /\ n \in Nat /\ \A x \in S : Cardinality(Above(S, x)) \in 0 .. n - 1
      /\ \A x, y \in S : Cardinality(Above(S, x)) = Cardinality(Above(S, y)) => x = y
  BY AboveIs
<1>2. f \in Injection(S, T) BY <1>1 DEF Injection, IsInjective
<1>3. IsFiniteSet(T) /\ Cardinality(T) = n BY <1>1, FS_Interval
<1>4. f \in Surjection(S, T) BY <1>2, <1>3, FS_Injection
<1>5. ASSUME NEW i \in 1 .. n PROVE \E x \in S : Cardinality(Above(S, x)) = i - 1
  <2>1. PICK x \in S : f[x] = i BY <1>4 DEF Surjection
  <2>2. Cardinality(Above(S, x)) \in Int /\ Cardinality(Above(S, x)) + 1 = i BY <1>1, <2>1
  <2> QED BY <2>2
<1>6. ASSUME NEW i \in 1 .. n
      PROVE  Descending(S)[i] \in S /\ Cardinality(Above(S, Descending(S)[i])) = i - 1
  BY <1>5 DEF Descending
<1>7. ASSUME NEW x \in S PROVE \E i \in 1 .. n : Descending(S)[i] = x
  <2> DEFINE i == Cardinality(Above(S, x)) + 1
  <2>1. i \in 1 .. n /\ i - 1 = Cardinality(Above(S, x)) BY <1>1
  <2> HIDE DEF i
  <2>2. Descending(S)[i] = x BY <1>1, <1>6, <2>1
  <2> QED BY <2>1, <2>2
<1>8. DOMAIN Descending(S) = 1 .. n BY DEF Descending
<1> QED BY <1>1, <1>6, <1>7, <1>8

\* The labels of all headers that have one.
LEMMA HeadersLastFirstIs ==
    ASSUME NEW cfg, WfCfg(cfg)
    PROVE  LET loops == {l \in NaturalLoops(cfg) : cfg[l.header].label \in HeaderLabels(cfg)}
               seq == HeadersLastFirst(cfg, loops)
           IN  /\ Len(seq) \in Nat /\ DOMAIN seq = 1 .. Len(seq)
               /\ \A i \in 1 .. Len(seq) : seq[i] \in HeaderLabels(cfg)
               /\ \A label \in HeaderLabels(cfg) : \E i \in 1 .. Len(seq) : seq[i] = label
<1> DEFINE loops == {l \in NaturalLoops(cfg) : cfg[l.header].label \in HeaderLabels(cfg)}
           S == {l.header : l \in loops}
           seq == HeadersLastFirst(cfg, loops)
<1>1. Graph(cfg) /\ DOMAIN cfg = 1 .. Len(cfg) /\ Len(cfg) \in Nat BY WfIsGraph DEF Graph
<1>2. S \subseteq 1 .. Len(cfg) BY <1>1, LoopsAre
<1>3. S \subseteq Nat /\ IsFiniteSet(S)
  <2>1. IsFiniteSet(1 .. Len(cfg)) BY <1>1, FS_Interval
  <2> QED BY <1>2, <2>1, Smaller
<1>4. \A h \in S : cfg[h].label \in HeaderLabels(cfg) OBVIOUS
<1>5. \A label \in HeaderLabels(cfg) : \E h \in S : cfg[h].label = label
  <2> TAKE label \in HeaderLabels(cfg)
  <2>1. PICK h \in DOMAIN cfg : IsHeader(cfg, h) /\ cfg[h].label = label BY DEF HeaderLabels
  <2>2. PICK loop \in NaturalLoops(cfg) : loop.header = h BY <2>1 DEF IsHeader
  <2>3. loop \in loops BY <2>1, <2>2
  <2> HIDE DEF loops
  <2> QED BY <2>1, <2>2, <2>3
<1>6. seq = [i \in DOMAIN Descending(S) |-> cfg[Descending(S)[i]].label]
  <2>1. HeadersLastFirst(cfg, loops) =
            [i \in DOMAIN Sorted(S, LAMBDA x, y : x > y) |->
                cfg[Sorted(S, LAMBDA x, y : x > y)[i]].label]
    BY DEF HeadersLastFirst
  <2>2. Sorted(S, LAMBDA x, y : x > y) = Descending(S) BY SortedIs
  <2> QED BY <2>1, <2>2
<1> HIDE DEF S, seq
<1> DEFINE m == Cardinality(S)
<1>7. /\ m \in Nat /\ DOMAIN Descending(S) = 1 .. m
      /\ \A i \in 1 .. m : Descending(S)[i] \in S
      /\ \A x \in S : \E i \in 1 .. m : Descending(S)[i] = x
  BY <1>3, DescendingIs
<1> HIDE DEF m
<1>8. DOMAIN seq = 1 .. m /\ Len(seq) = m /\ \A i \in 1 .. m : seq[i] = cfg[Descending(S)[i]].label
  BY <1>6, <1>7
<1>9. \A i \in 1 .. m : seq[i] \in HeaderLabels(cfg) BY <1>4, <1>7, <1>8
<1>10. ASSUME NEW label \in HeaderLabels(cfg) PROVE \E i \in 1 .. m : seq[i] = label
  BY <1>5, <1>7, <1>8
<1> QED BY <1>7, <1>8, <1>9, <1>10 DEF seq

-----------------------------------------------------------------------------
(* insertPreheaders, one loop after the other.                             *)

\* What a step starts from, and leaves: L are the labels of the headers.
Accs(L) ==
    {acc \in [cfg : Seq(Blocks), fresh : Nat \ {0}] :
        Fresh(acc.cfg, acc.fresh) /\ HeaderLabels(acc.cfg) = L}
\* What is done for the loop whose header has this label.
Step(acc, label) == InsertUnlessThere(acc, LoopLabelled(acc.cfg, label))

\* Such blocks and a label above theirs are what a step starts from.
LEMMA FreshIsAcc ==
    ASSUME NEW cfg, NEW fresh, Fresh(cfg, fresh), NEW L, HeaderLabels(cfg) = L
    PROVE  [cfg |-> cfg, fresh |-> fresh] \in Accs(L)
BY DEF Fresh, Regular, WfCfg, Accs

\* A step keeps the headers and the preheaders there are, and gives its loop one.
LEMMA StepIs ==
    ASSUME NEW L, NEW acc \in Accs(L), NEW label \in L
    PROVE  /\ Step(acc, label) \in Accs(L)
           /\ PreLabels(acc.cfg) \cup {label} \subseteq PreLabels(Step(acc, label).cfg)
<1> DEFINE cfg == acc.cfg
           fresh == acc.fresh
           loop == LoopLabelled(cfg, label)
           new == Step(acc, label)
<1>1. Fresh(cfg, fresh) /\ HeaderLabels(cfg) = L BY DEF Accs
<1>2. WfCfg(cfg) /\ Graph(cfg) BY <1>1, WfIsGraph DEF Fresh, Regular
<1>3. /\ loop \in NaturalLoops(cfg) /\ label # 0 /\ cfg[loop.header].label = label
      /\ loop.header \in 1 .. Len(cfg)
  <2> HIDE DEF cfg
  <2> QED BY <1>1, <1>2, LoopWithLabel
<1>4. CASE HasPreheader(cfg, loop)
  <2>1. new = acc BY <1>4 DEF Step, InsertUnlessThere
  <2>2. \E p : Pre(cfg, loop.header, p) BY <1>2, <1>3, <1>4, PreheaderIs
  <2>3. label \in PreLabels(cfg)
    <3> HIDE DEF loop, cfg
    <3> QED BY <1>2, <1>3, <2>2, LabelledBlock
  <2> QED BY <2>1, <2>3
<1>5. CASE ~HasPreheader(cfg, loop)
  <2> DEFINE at == LatchApart(cfg, loop, fresh)
  <2>1. new = EnterThrough(at)
    <3>1. new = InsertPreheader(cfg, loop, fresh) BY <1>5 DEF Step, InsertUnlessThere
    <3> HIDE DEF new, cfg, loop, fresh
    <3> QED BY <1>3, <3>1 DEF InsertPreheader, NoSymbol
  <2> HIDE DEF new
  <2>2. /\ at = [cfg |-> at.cfg, loop |-> at.loop, fresh |-> at.fresh]
        /\ Fresh(at.cfg, at.fresh)
        /\ at.loop \in NaturalLoops(at.cfg)
        /\ at.cfg[at.loop.header].label = label
        /\ ~FallsThroughToHeader(at.cfg, at.loop)
        /\ HeaderLabels(at.cfg) = L
        /\ PreLabels(cfg) \ {label} \subseteq PreLabels(at.cfg)
    <3>1. cfg[loop.header].label # 0 BY <1>3
    <3>2. LET at0 == LatchApart(cfg, loop, fresh)
          IN  /\ at0 = [cfg |-> at0.cfg, loop |-> at0.loop, fresh |-> at0.fresh]
              /\ Fresh(at0.cfg, at0.fresh)
              /\ at0.loop \in NaturalLoops(at0.cfg)
              /\ at0.cfg[at0.loop.header].label = cfg[loop.header].label
              /\ ~FallsThroughToHeader(at0.cfg, at0.loop)
              /\ HeaderLabels(at0.cfg) = HeaderLabels(cfg)
              /\ PreLabels(cfg) \ {cfg[loop.header].label} \subseteq PreLabels(at0.cfg)
      <4> HIDE DEF cfg, loop, fresh
      <4> QED BY <1>1, <1>3, <3>1, LatchApartIs
    <3> HIDE DEF cfg, loop, fresh
    <3> QED BY <1>1, <1>3, <3>2
  <2> DEFINE r == EnterThrough([cfg |-> at.cfg, loop |-> at.loop, fresh |-> at.fresh])
             c == at.cfg
             f == at.fresh
             l == at.loop
  <2>3. new = r BY <2>1, <2>2
  <2>4. /\ Fresh(r.cfg, r.fresh) /\ HeaderLabels(r.cfg) = L
        /\ PreLabels(c) \cup {label} \subseteq PreLabels(r.cfg)
    <3>1. /\ Fresh(c, f) /\ l \in NaturalLoops(c) /\ c[l.header].label = label /\ HeaderLabels(c) = L
          /\ ~FallsThroughToHeader(c, l)
      BY <2>2
    <3>2. r = EnterThrough([cfg |-> c, loop |-> l, fresh |-> f]) OBVIOUS
    <3> HIDE DEF r, c, f, l, at, cfg, loop, fresh
    <3>3. c[l.header].label # 0 BY <1>3, <3>1
    <3> QED BY <3>1, <3>2, <3>3, EnterThroughKeeps
  <2>5. r = [cfg |-> r.cfg, fresh |-> r.fresh]
    <3>1. PICK a, b : r = [cfg |-> a, fresh |-> b]
      <4>1. r = EnterThrough([cfg |-> c, loop |-> l, fresh |-> f]) OBVIOUS
      <4> HIDE DEF r, c, f, l
      <4>2. EnterThrough([cfg |-> c, loop |-> l, fresh |-> f]) =
                [cfg |-> InsertBlock(Retargeted(c, l.latches, c[l.header].label, f),
                                     l.header, [label |-> f, insts |-> <<>>]),
                 fresh |-> f + 1]
        BY EnterThroughIs, Zenon
      <4> QED BY <4>1, <4>2
    <3> HIDE DEF r
    <3> QED BY <3>1
  <2> HIDE DEF r, at, cfg
  <2>6. [cfg |-> r.cfg, fresh |-> r.fresh] \in Accs(L) BY <2>4, FreshIsAcc
  <2>7. new \in Accs(L) BY <2>3, <2>5, <2>6
  <2>8. PreLabels(cfg) \cup {label} \subseteq PreLabels(r.cfg)
    <3>1. PreLabels(cfg) \ {label} \subseteq PreLabels(c) BY <2>2
    <3> HIDE DEF c
    <3> QED BY <2>4, <3>1
  <2> QED BY <2>3, <2>7, <2>8 DEF new, cfg
<1> QED BY <1>4, <1>5

\* After all steps every header with a label has a preheader.
LEMMA PreheadersInserted ==
    ASSUME NEW cfg0, NEW fresh0, Fresh(cfg0, fresh0)
    PROVE  LET new == InsertPreheadersFor(cfg0, HeaderLabels(cfg0), fresh0).cfg
           IN  Regular(new) /\ HeaderLabels(new) \subseteq PreLabels(new)
<1> DEFINE L == HeaderLabels(cfg0)
           X == Accs(L)
           seq == HeadersLastFirst(cfg0, {l \in NaturalLoops(cfg0) : cfg0[l.header].label \in L})
           n == Len(seq)
           start == [cfg |-> cfg0, fresh |-> fresh0]
           g == [x \in X \X (1 .. n) |-> Step(x[1], seq[x[2]])]
           Raw(f) == f = [i \in 0 .. Len(seq) |->
                             IF i = 0 THEN start
                             ELSE LET before == f[i - 1]
                                  IN  IF before = before THEN Step(before, seq[i]) ELSE before]
           w == CHOOSE f : Raw(f)
<1>1. InsertPreheadersFor(cfg0, L, fresh0) = w[Len(seq)]
  BY Zenon DEF InsertPreheadersFor, Walk, Step
<1>2. WfCfg(cfg0) BY DEF Fresh, Regular
<1>3. /\ n \in Nat /\ \A i \in 1 .. n : seq[i] \in L
      /\ \A label \in L : \E i \in 1 .. n : seq[i] = label
  BY <1>2, HeadersLastFirstIs
<1>4. start \in X BY FreshIsAcc
<1> HIDE DEF start, seq, L
<1>5. IsFold(n, X, start, g)
  <2>1. ASSUME NEW x \in X \X (1 .. n) PROVE Step(x[1], seq[x[2]]) \in X BY <1>3, StepIs
  <2> HIDE DEF n, X
  <2>2. g \in [X \X (1 .. n) -> X] BY <2>1
  <2> HIDE DEF g
  <2> QED BY <1>3, <1>4, <2>2 DEF IsFold
<1>6. PICK u : Folding(n, X, start, g, u)
  <2> HIDE DEF g, n, X
  <2> QED BY <1>5, Iterated
<1>7. u \in [0 .. n -> X] /\ u[0] = start /\ \A i \in 1 .. n : u[i] = g[<<u[i - 1], i>>]
  BY <1>6 DEF Folding
<1>8. ASSUME NEW i \in 1 .. n PROVE u[i] = Step(u[i - 1], seq[i]) /\ u[i - 1] \in X
  <2>1. i - 1 \in 0 .. n BY <1>3
  <2>2. u[i - 1] \in X /\ <<u[i - 1], i>> \in X \X (1 .. n) BY <1>7, <2>1
  <2> HIDE DEF X
  <2>3. g[<<u[i - 1], i>>] = Step(u[i - 1], seq[i]) BY <2>2
  <2> HIDE DEF g
  <2> QED BY <1>7, <2>2, <2>3
<1> HIDE DEF g, X
<1>9. Raw(u) BY <1>3, <1>7, <1>8
<1>10. Raw(w)
  <2> HIDE DEF Raw
  <2> QED BY <1>9
<1>11. w[n] = u[n]
  <2> DEFINE E == {i \in 0 .. n : w[i] = u[i]}
  <2> HIDE DEF w
  <2>1. 0 \in E BY <1>3, <1>7, <1>10
  <2>2. ASSUME NEW i \in 1 .. n, i - 1 \in E PROVE i \in E BY <1>3, <2>2, <1>10, <1>8
  <2> HIDE DEF E, n
  <2>3. \A i \in 0 .. n : i \in E BY <1>3, <2>1, <2>2, UpTo
  <2>4. n \in E BY <1>3, <2>3
  <2> QED BY <2>4 DEF E
<1> HIDE DEF w, Raw
<1>12. \A k \in 0 .. n : \A j \in 1 .. n : j <= k => seq[j] \in PreLabels(u[k].cfg)
  <2> DEFINE E == {k \in 0 .. n : \A j \in 1 .. n : j <= k => seq[j] \in PreLabels(u[k].cfg)}
  <2> HIDE DEF n
  <2>1. 0 \in E BY <1>3
  <2>2. ASSUME NEW k \in 1 .. n, k - 1 \in E PROVE k \in E
    <3>1. ASSUME NEW j \in 1 .. n, j <= k PROVE seq[j] \in PreLabels(u[k].cfg)
      <4>1. u[k - 1] \in Accs(L) /\ seq[k] \in L /\ u[k] = Step(u[k - 1], seq[k]) BY <1>3, <1>8 DEF X
      <4>2. PreLabels(u[k - 1].cfg) \cup {seq[k]} \subseteq PreLabels(u[k].cfg) BY <4>1, StepIs
      <4>3. j <= k - 1 \/ j = k BY <1>3, <3>1
      <4> QED BY <2>2, <4>2, <4>3
    <3>2. k \in 0 .. n BY <1>3
    <3> QED BY <3>1, <3>2
  <2> HIDE DEF E
  <2>3. \A k \in 0 .. n : k \in E BY <1>3, <2>1, <2>2, UpTo
  <2> QED BY <2>3 DEF E
<1> DEFINE new == u[n].cfg
<1>13. new = InsertPreheadersFor(cfg0, L, fresh0).cfg BY <1>1, <1>11
<1>14. u[n] \in X BY <1>3, <1>7
<1>15. Regular(new) /\ HeaderLabels(new) = L BY <1>14 DEF X, Accs, Fresh
<1>16. L \subseteq PreLabels(new) BY <1>3, <1>12
<1> HIDE DEF new
<1> QED BY <1>13, <1>15, <1>16 DEF L

-----------------------------------------------------------------------------
(* The invariant of the specification.                                     *)

\* Every header with a label has a preheader.
Preheaders(cfg) == HeaderLabels(cfg) \subseteq PreLabels(cfg)
\* Bodies are well formed at every stage. Until preheaders are inserted the labels in
\* use are below the first fresh one; afterwards the headers have preheaders.
Inv ==
    /\ stage \in {"generate", "sealed", "cleaned", "preheaders"}
    /\ WfBody(body)
    /\ stage # "preheaders" => BodyBelow(body, FreshLabel)
    /\ stage = "preheaders" => Preheaders(BuildCfg(body))

\* The empty body is well formed.
LEMMA InvInit == Init => Inv
BY DEF Init, WfBody, BodyBelow, Inv

\* Generating an instruction keeps the invariant: labels are defined once.
LEMMA EmitKeeps ==
    ASSUME Inv, NEW inst \in Instructions, Emit(inst),
           inst.op = "Label" => /\ inst = LabelI(inst.arg0)
                                /\ \A i \in 1 .. Len(body) : body[i] # inst,
           inst.op \in {"Label", "Jump"} => inst.arg0 \in LabelIds
    PROVE  Inv'
BY LabelsAssumption, AppendWf, AppendBelow DEF Inv, Emit, WfBody

\* So does inserting preheaders: rebuilding the blocks from their text finds the same
\* blocks again.
LEMMA InsertKeeps ==
    ASSUME Inv, InsertPreheaders
    PROVE  Inv'
<1> DEFINE cfg == BuildCfg(body)
           new == InsertPreheadersFor(cfg, HeaderLabels(cfg), FreshLabel).cfg
<1>1. WfBody(body) /\ BodyBelow(body, FreshLabel) BY DEF Inv, InsertPreheaders
<1>2. Regular(cfg) /\ FlattenCfg(cfg) = body BY <1>1, BuildCfgIs
<1>3. LabelsBelow(cfg, FreshLabel) BY <1>1, <1>2, BelowIs DEF Regular
<1>4. Fresh(cfg, FreshLabel) BY <1>2, <1>3, LabelsAssumption DEF Fresh
<1>5. {cfg[l.header].label : l \in NaturalLoops(cfg)} \ {NoSymbol} = HeaderLabels(cfg)
  <2>1. Graph(cfg) BY <1>2, WfIsGraph DEF Regular
  <2>2. \A l \in NaturalLoops(cfg) : l.header \in DOMAIN cfg BY <2>1, LoopsAre
  <2> HIDE DEF cfg
  <2>3. ASSUME NEW l \in NaturalLoops(cfg), cfg[l.header].label # 0
        PROVE  cfg[l.header].label \in HeaderLabels(cfg)
    BY <2>2, <2>3 DEF IsHeader, HeaderLabels
  <2>4. ASSUME NEW m \in HeaderLabels(cfg)
        PROVE  m # 0 /\ \E l \in NaturalLoops(cfg) : cfg[l.header].label = m
    BY DEF HeaderLabels, IsHeader
  <2> QED BY <2>3, <2>4 DEF NoSymbol
<1>6. body' = FlattenCfg(new) /\ stage' = "preheaders" BY <1>5 DEF InsertPreheaders
<1> HIDE DEF cfg
<1>7. Regular(new) /\ Preheaders(new) BY <1>4, PreheadersInserted DEF Preheaders
<1> HIDE DEF new
<1>8. WfBody(body') /\ BuildCfg(body') = new
  BY <1>6, <1>7, FlattenCfgIs, BuildFlat DEF Regular
<1>9. Inv' <=> /\ stage' \in {"generate", "sealed", "cleaned", "preheaders"}
               /\ WfBody(body')
               /\ stage' # "preheaders" => BodyBelow(body', FreshLabel)
               /\ stage' = "preheaders" => Preheaders(BuildCfg(body'))
  BY DEF Inv
<1> QED BY <1>6, <1>7, <1>8, <1>9

\* Every step keeps the invariant.
LEMMA InvNext == Inv /\ [Next]_vars => Inv'
<1> SUFFICES ASSUME Inv, [Next]_vars PROVE Inv' OBVIOUS
<1>0. Inv' <=> /\ stage' \in {"generate", "sealed", "cleaned", "preheaders"}
               /\ WfBody(body')
               /\ stage' # "preheaders" => BodyBelow(body', FreshLabel)
               /\ stage' = "preheaders" => Preheaders(BuildCfg(body'))
  BY DEF Inv
<1>1. ASSUME NEW inst \in Ordinary \cup Transfers, Emit(inst) PROVE Inv'
  BY InstructionsAssumption, <1>1, EmitKeeps DEF TransfersControl
<1>2. ASSUME NEW label \in LabelIds, EmitLabel(label) PROVE Inv'
  <2> DEFINE inst == LabelI(label)
  <2>1. label \in Nat BY LabelsAssumption
  <2>2. inst \in Instructions /\ inst.op = "Label" /\ inst.arg0 = label BY <2>1, LabelsAre
  <2>3. label \notin Labels(body) /\ Emit(inst) BY <1>2 DEF EmitLabel
  <2> HIDE DEF inst
  <2>4. \A i \in 1 .. Len(body) : body[i] # inst BY <2>2, <2>3 DEF Inv, WfBody, Labels
  <2>5. inst = LabelI(inst.arg0) BY <2>2 DEF inst
  <2> QED BY <2>2, <2>3, <2>4, <2>5, EmitKeeps
<1>3. CASE Seal BY <1>3, SealedWf, <1>0 DEF Seal, Inv
<1>4. CASE CleanBlocks BY <1>4, CleanedWf, <1>0 DEF CleanBlocks, Inv
<1>5. CASE InsertPreheaders BY <1>5, InsertKeeps
<1>6. CASE UNCHANGED vars BY <1>6, <1>0 DEF vars, Inv
<1>7. Done => UNCHANGED vars BY DEF Done
<1> QED BY <1>1, <1>2, <1>3, <1>4, <1>5, <1>6, <1>7 DEF Next

\* The bodies the code generator makes, and those the passes of Cfg.cpp and
\* LoopFacts.cpp make of them, define every label once, jump to labels only, and
\* end blocks at transfers of control; after insertPreheaders every loop whose header
\* has a label has a preheader.
THEOREM BodiesWellFormed == Spec => []Inv
<1> QED BY InvInit, InvNext, PTL DEF Spec

\* The blocks of the body are regular.
LEMMA BodyGraph ==
    ASSUME Inv
    PROVE  Regular(BuildCfg(body)) /\ WfCfg(BuildCfg(body)) /\ Graph(BuildCfg(body))
BY BuildCfgIs, WfIsGraph DEF Inv, Regular

\* The sets that the rounds of Loops.cpp arrive at are the dominators of the blocks:
\* d is in the set of b exactly when every path from the entry to b goes through d.
THEOREM DominatorsHold == Spec => []DominatorsExact
<1>1. ASSUME Inv PROVE DominatorsExact
  <2> DEFINE cfg == BuildCfg(body)
  <2>1. Graph(cfg) BY <1>1, BodyGraph
  <2>2. ASSUME NEW b \in ReachableFromEntry(cfg), NEW d \in DOMAIN cfg
        PROVE  d \in Dominators(cfg)[b] <=> b \notin Avoiding(cfg, d) \/ b = d
    <3> HIDE DEF cfg
    <3>1. cfg # <<>> BY <2>1, NoBlocks
    <3> QED BY <2>1, <3>1, DominatorsAre
  <2> QED BY <2>2 DEF DominatorsExact, Avoiding
<1> QED BY <1>1, BodiesWellFormed, PTL

\* The natural loops that Loops.cpp finds are entered at their header alone: every
\* other block of a loop is no entry, and comes only after blocks of the loop.
THEOREM LoopsHold == Spec => []LoopsEnteredAtHeader
<1>1. ASSUME Inv PROVE LoopsEnteredAtHeader
  BY <1>1, BodyGraph, LoopsEntered DEF LoopsEnteredAtHeader
<1> QED BY <1>1, BodiesWellFormed, PTL

\* After insertPreheaders every loop whose header has a label has a preheader that
\* LoopFacts.cpp recognises: inserting one for a loop, which moves blocks, retargets
\* jumps and makes labels, undoes none of the others.
THEOREM PreheadersHold == Spec => []PreheadersFound
<1>1. ASSUME Inv PROVE PreheadersFound
  <2> DEFINE cfg == BuildCfg(body)
  <2> SUFFICES ASSUME stage = "preheaders", NEW loop \in NaturalLoops(cfg),
                      cfg[loop.header].label # NoSymbol
               PROVE  HasPreheader(cfg, loop)
    BY DEF PreheadersFound
  <2>1. WfCfg(cfg) /\ Graph(cfg) /\ Preheaders(cfg) BY <1>1, BodyGraph DEF Inv
  <2> HIDE DEF cfg
  <2> DEFINE h == loop.header
  <2>2. h \in 1 .. Len(cfg) /\ cfg[h].label # 0 /\ IsHeader(cfg, h)
    BY <2>1, LoopsAre DEF Graph, IsHeader, NoSymbol
  <2>3. \E p : Pre(cfg, h, p)
    <3> HIDE DEF h
    <3>1. cfg[h].label \in HeaderLabels(cfg) BY <2>1, <2>2, LabelledBlock
    <3>2. cfg[h].label \in PreLabels(cfg) BY <2>1, <3>1 DEF Preheaders
    <3> QED BY <2>1, <2>2, <3>2, LabelledBlock
  <2> QED BY <2>1, <2>3, PreheaderIs
<1> QED BY <1>1, BodiesWellFormed, PTL

=============================================================================
