------------------------ MODULE TerminalSidebarProofs ------------------------
(***************************************************************************)
(* Theorems about the Linux sidebar, for every finite set of screens and   *)
(* every startup list: as long as no tab is moved by a slot or inserted    *)
(* between nested rows, the list stays a pre-order traversal of the tree,  *)
(* rows are drawn and captured as they are linked, and a step moves one    *)
(* family at most.                                                         *)
(***************************************************************************)
EXTENDS TerminalSidebar, OrderedSetsProofs, SequenceTheorems

\* The local form of the traversal: each row is a root, or its parent is above
\* it, one level up, and all rows in between are deeper than that parent.
PreOrdered(list, par, depth) ==
    /\ list \in Seq(Screens)
    /\ \A i, j \in DOMAIN list : list[i] = list[j] => i = j
    /\ par \in [Screens -> Screens \cup {NoRow}]
    /\ depth \in [Screens -> Nat]
    /\ \A j \in DOMAIN list :
          \/ par[list[j]] = NoRow /\ depth[list[j]] = 0
          \/ \E i \in 1..(j - 1) :
                /\ par[list[j]] = list[i]
                /\ depth[list[j]] = depth[list[i]] + 1
                /\ \A k \in (i + 1)..(j - 1) : depth[list[k]] > depth[list[i]]

-----------------------------------------------------------------------------
(* The chain of parents. *)

\* The number of screens bounds every walk.
LEMMA ScreensCounted == Cardinality(Screens) \in Nat
BY ScreensAssumption, FS_CardinalityType

\* The walk from a row exists: each step goes to the parent, and stays at none.
LEMMA ChainSteps ==
    ASSUME NEW par, NEW r
    PROVE  /\ DOMAIN Chain(par, r) = 0..Cardinality(Screens)
           /\ Chain(par, r)[0] = r
           /\ \A n \in 1..Cardinality(Screens) :
                 Chain(par, r)[n] = IF Chain(par, r)[n - 1] = NoRow THEN NoRow
                                    ELSE par[Chain(par, r)[n - 1]]
<1> DEFINE N == Cardinality(Screens)
           Step(x) == IF x = NoRow THEN NoRow ELSE par[x]
           IsWalk(f, n) == f = [k \in 0..n |-> IF k = 0 THEN r ELSE Step(f[k - 1])]
           Missing == {n \in Nat : ~\E f : IsWalk(f, n)}
<1>1. N \in Nat
  BY ScreensCounted
<1>2. Missing = {}
  <2> SUFFICES ASSUME Missing # {} PROVE FALSE
    OBVIOUS
  <2>1. PICK n \in Missing : \A m \in Missing : n <= m
    BY LeastNatural
  <2>2. CASE n = 0
    <3>1. IsWalk([k \in 0..0 |-> r], 0)
      OBVIOUS
    <3> QED BY <2>1, <2>2, <3>1
  <2>3. CASE n # 0
    <3>1. n - 1 \in Nat /\ n \in Nat
      BY <2>1, <2>3
    <3>2. PICK f : IsWalk(f, n - 1)
      BY <2>1, <3>1
    <3> DEFINE g == [k \in 0..n |-> IF k = n THEN Step(f[n - 1]) ELSE f[k]]
    <3> HIDE DEF Step
    <3>3. \A k \in 0..(n - 1) : f[k] = IF k = 0 THEN r ELSE Step(f[k - 1])
      BY <3>1, <3>2
    <3>4. ASSUME NEW k \in 0..n PROVE g[k] = IF k = 0 THEN r ELSE Step(g[k - 1])
      <4>1. CASE k = n
        <5>1. g[n] = Step(f[n - 1]) /\ g[n - 1] = f[n - 1]
          BY <3>1
        <5> QED BY <5>1, <4>1, <2>3
      <4>2. CASE k # n
        <5>1. k \in 0..(n - 1) /\ g[k] = f[k]
          BY <3>1, <4>2
        <5>2. k # 0 => g[k - 1] = f[k - 1]
          BY <3>1, <4>2
        <5> QED BY <5>1, <5>2, <3>3
      <4> QED BY <4>1, <4>2
    <3>5. IsWalk(g, n)
      BY <3>4
    <3> QED BY <2>1, <3>5
  <2> QED BY <2>2, <2>3
<1>3. \E f : IsWalk(f, N)
  BY <1>1, <1>2
<1>4. Chain(par, r) = CHOOSE f : IsWalk(f, N)
  BY DEF Chain
<1>5. IsWalk(Chain(par, r), N)
  BY <1>3, <1>4
<1> HIDE DEF Step
<1>6. /\ DOMAIN Chain(par, r) = 0..N
      /\ \A k \in 0..N : Chain(par, r)[k] = IF k = 0 THEN r ELSE Step(Chain(par, r)[k - 1])
  BY <1>5
<1>7. 0 \in 0..N /\ \A n \in 1..N : n \in 0..N /\ n # 0
  BY <1>1
<1>8. Chain(par, r)[0] = r /\ \A n \in 1..N : Chain(par, r)[n] = Step(Chain(par, r)[n - 1])
  BY <1>6, <1>7
<1> QED BY <1>6, <1>8 DEF Step

\* There is no way up from no row.
LEMMA NoChain ==
    ASSUME NEW par, NEW n \in 0..Cardinality(Screens)
    PROVE  Chain(par, NoRow)[n] = NoRow
<1> DEFINE up == Chain(par, NoRow)
           Bad == {m \in Nat : m \in 0..Cardinality(Screens) /\ up[m] # NoRow}
<1> SUFFICES ASSUME Bad # {} PROVE FALSE
  BY ScreensCounted
<1>1. PICK m \in Bad : \A k \in Bad : m <= k
  BY LeastNatural
<1>2. up[0] = NoRow /\ \A k \in 1..Cardinality(Screens) : up[k - 1] = NoRow => up[k] = NoRow
  BY ChainSteps
<1> HIDE DEF up
<1>3. m # 0 /\ m \in 1..Cardinality(Screens)
  BY <1>1, <1>2, ScreensCounted
<1>4. m - 1 \notin Bad
  BY <1>1, <1>3
<1>5. up[m - 1] = NoRow
  BY <1>3, <1>4, ScreensCounted
<1> QED BY <1>1, <1>2, <1>3, <1>5

\* The walk from a row is the walk from its parent, one step later.
LEMMA ChainOfParent ==
    ASSUME NEW par, NEW r, r # NoRow, NEW n \in 1..Cardinality(Screens)
    PROVE  Chain(par, r)[n] = Chain(par, par[r])[n - 1]
<1> DEFINE N == Cardinality(Screens)
           up == Chain(par, r)
           above == Chain(par, par[r])
           Bad == {m \in Nat : m \in 1..N /\ up[m] # above[m - 1]}
<1> SUFFICES ASSUME Bad # {} PROVE FALSE
  BY ScreensCounted
<1>1. PICK m \in Bad : \A k \in Bad : m <= k
  BY LeastNatural
<1>2. /\ up[0] = r
      /\ \A k \in 1..N : up[k] = IF up[k - 1] = NoRow THEN NoRow ELSE par[up[k - 1]]
      /\ above[0] = par[r]
      /\ \A k \in 1..N : above[k] = IF above[k - 1] = NoRow THEN NoRow ELSE par[above[k - 1]]
  BY ChainSteps
<1> HIDE DEF up, above
<1>3. N \in Nat /\ m \in 1..N
  BY <1>1, ScreensCounted
<1> HIDE DEF N
<1>4. CASE m = 1
  BY <1>1, <1>2, <1>3, <1>4
<1>5. CASE m # 1
  <2>1. m - 1 \in 1..N /\ m - 1 \in Nat /\ (m - 1) - 1 = m - 2 /\ m - 1 < m
    BY <1>3, <1>5
  <2>2. m - 1 \notin Bad
    BY <1>1, <2>1
  <2>3. up[m - 1] = above[(m - 1) - 1]
    BY <2>1, <2>2
  <2>4. above[m - 1] = IF above[(m - 1) - 1] = NoRow THEN NoRow ELSE par[above[(m - 1) - 1]]
    BY <1>2, <2>1
  <2>5. up[m] = IF up[m - 1] = NoRow THEN NoRow ELSE par[up[m - 1]]
    BY <1>2, <1>3
  <2>6. up[m] = above[m - 1]
    BY <2>3, <2>4, <2>5
  <2> QED BY <1>1, <2>6
<1> QED BY <1>4, <1>5

-----------------------------------------------------------------------------
(* Positions, depths and families. *)

\* The shape of a list without repetitions.
LEMMA ListRows ==
    ASSUME NEW list, NEW par, NEW depth, PreOrdered(list, par, depth)
    PROVE  /\ Len(list) \in Nat
           /\ DOMAIN list = 1..Len(list)
           /\ \A j \in 1..Len(list) : /\ list[j] \in Screens
                                      /\ list[j] # NoRow
                                      /\ list[j] \in Range(list)
                                      /\ RowIndex(list, list[j]) = j
                                      /\ depth[list[j]] \in Nat
           /\ \A r \in Range(list) : /\ RowIndex(list, r) \in 1..Len(list)
                                     /\ list[RowIndex(list, r)] = r
                                     /\ r \in Screens
                                     /\ r # NoRow
           /\ Len(list) <= Cardinality(Screens)
<1>1. list \in Seq(Screens) /\ depth \in [Screens -> Nat]
  BY DEF PreOrdered
<1>2. Len(list) \in Nat /\ DOMAIN list = 1..Len(list) /\ list \in [1..Len(list) -> Screens]
  BY <1>1, LenProperties
<1>3. \A i, j \in 1..Len(list) : list[i] = list[j] => i = j
  BY <1>2 DEF PreOrdered
<1>4. \A j \in 1..Len(list) : list[j] \in Screens /\ list[j] # NoRow /\ list[j] \in Range(list)
                              /\ depth[list[j]] \in Nat
  BY <1>1, <1>2, NoRowAssumption DEF Range
<1>5. \A r \in Range(list) : RowIndex(list, r) \in 1..Len(list) /\ list[RowIndex(list, r)] = r
  BY <1>2 DEF Range, RowIndex
<1>6. \A j \in 1..Len(list) : RowIndex(list, list[j]) = j
  BY <1>3, <1>4, <1>5
<1>7. \A r \in Range(list) : r \in Screens /\ r # NoRow
  BY <1>2, NoRowAssumption DEF Range
<1>8. list \in Injection(1..Len(list), Screens)
  BY <1>2, <1>3 DEF Injection, IsInjective
<1>9. Cardinality(1..Len(list)) <= Cardinality(Screens)
  BY <1>8, ScreensAssumption, FS_Injection
<1>10. Cardinality(1..Len(list)) = Len(list)
  <2>1. Cardinality(1..Len(list)) = IF 1 > Len(list) THEN 0 ELSE Len(list) - 1 + 1
    BY <1>2, FS_Interval
  <2> QED BY <1>2, <2>1
<1> QED BY <1>2, <1>4, <1>5, <1>6, <1>7, <1>9, <1>10

\* A row that has a parent: where that parent is.
LEMMA ParentRow ==
    ASSUME NEW list, NEW par, NEW depth, PreOrdered(list, par, depth),
           NEW j \in 1..Len(list), par[list[j]] # NoRow
    PROVE  \E i \in 1..(j - 1) :
              /\ i \in 1..Len(list) /\ i < j
              /\ par[list[j]] = list[i]
              /\ depth[list[j]] = depth[list[i]] + 1
              /\ \A k \in (i + 1)..(j - 1) : depth[list[k]] > depth[list[i]]
<1>1. Len(list) \in Nat /\ DOMAIN list = 1..Len(list)
  BY ListRows
<1>2. PICK i \in 1..(j - 1) :
              /\ par[list[j]] = list[i]
              /\ depth[list[j]] = depth[list[i]] + 1
              /\ \A k \in (i + 1)..(j - 1) : depth[list[k]] > depth[list[i]]
  BY <1>1 DEF PreOrdered
<1>3. i \in 1..Len(list) /\ i < j
  BY <1>1
<1> QED BY <1>2, <1>3

\* A row without a parent is not indented.
LEMMA RootRow ==
    ASSUME NEW list, NEW par, NEW depth, PreOrdered(list, par, depth),
           NEW j \in 1..Len(list), par[list[j]] = NoRow
    PROVE  depth[list[j]] = 0
<1>1. Len(list) \in Nat /\ DOMAIN list = 1..Len(list)
  BY ListRows
<1>2. \/ par[list[j]] = NoRow /\ depth[list[j]] = 0
      \/ \E i \in 1..(j - 1) : par[list[j]] = list[i]
  BY <1>1 DEF PreOrdered
<1>3. \A i \in 1..(j - 1) : list[i] # NoRow
  <2>1. \A i \in 1..(j - 1) : i \in 1..Len(list)
    BY <1>1
  <2> QED BY <2>1, ListRows
<1> QED BY <1>2, <1>3

\* The walk up from a row takes as many steps as the row is deep.
LEMMA ChainEnds ==
    ASSUME NEW list, NEW par, NEW depth, PreOrdered(list, par, depth),
           NEW j \in 1..Len(list)
    PROVE  /\ depth[list[j]] < j
           /\ \A n \in 0..Cardinality(Screens) :
                 Chain(par, list[j])[n] # NoRow <=> n <= depth[list[j]]
<1> DEFINE N == Cardinality(Screens)
           Good(k) == /\ depth[list[k]] < k
                      /\ \A n \in 0..N : Chain(par, list[k])[n] # NoRow <=> n <= depth[list[k]]
           Bad == {k \in Nat : k \in 1..Len(list) /\ ~Good(k)}
<1> SUFFICES ASSUME Bad # {} PROVE FALSE
  OBVIOUS
<1>1. PICK k \in Bad : \A m \in Bad : k <= m
  BY LeastNatural
<1>2. N \in Nat /\ k \in 1..Len(list) /\ k \in Nat /\ Len(list) \in Nat
  BY <1>1, ScreensCounted, ListRows
<1>3. list[k] # NoRow /\ depth[list[k]] \in Nat
  BY <1>2, ListRows
<1>4. Chain(par, list[k])[0] = list[k]
  BY ChainSteps
<1>5. \A n \in 1..N : Chain(par, list[k])[n] = Chain(par, par[list[k]])[n - 1]
  BY <1>3, ChainOfParent
<1>6. CASE par[list[k]] = NoRow
  <2>1. depth[list[k]] = 0
    BY <1>2, <1>6, RootRow
  <2>2. ASSUME NEW n \in 1..N PROVE Chain(par, list[k])[n] = NoRow
    <3>1. n - 1 \in 0..N
      BY <1>2
    <3>2. Chain(par, NoRow)[n - 1] = NoRow
      BY <3>1, NoChain
    <3> QED BY <1>5, <1>6, <3>2
  <2>3. \A n \in 0..N : n # 0 => n \in 1..N
    BY <1>2
  <2>4. ASSUME NEW n \in 0..N PROVE Chain(par, list[k])[n] # NoRow <=> n <= depth[list[k]]
    BY <1>2, <1>3, <1>4, <2>1, <2>2, <2>3
  <2> QED BY <1>1, <1>2, <2>1, <2>4
<1>7. CASE par[list[k]] # NoRow
  <2>1. PICK i \in 1..(k - 1) : /\ i \in 1..Len(list) /\ i < k /\ par[list[k]] = list[i]
                                /\ depth[list[k]] = depth[list[i]] + 1
    BY <1>2, <1>7, ParentRow
  <2>2. i \notin Bad /\ i \in Nat
    BY <1>1, <1>2, <2>1
  <2>3. Good(i)
    BY <2>1, <2>2
  <2>4. depth[list[i]] \in Nat
    BY <2>1, ListRows
  <2>5. depth[list[k]] < k
    BY <1>2, <2>1, <2>3, <2>4
  <2>6. ASSUME NEW n \in 0..N PROVE Chain(par, list[k])[n] # NoRow <=> n <= depth[list[k]]
    <3>1. CASE n = 0
      BY <1>3, <1>4, <3>1
    <3>2. CASE n # 0
      <4>1. n \in 1..N /\ n - 1 \in 0..N
        BY <1>2, <3>2
      <4>2. Chain(par, list[k])[n] = Chain(par, list[i])[n - 1]
        BY <1>5, <2>1, <4>1
      <4>3. Chain(par, list[i])[n - 1] # NoRow <=> n - 1 <= depth[list[i]]
        BY <2>3, <4>1
      <4>4. n - 1 <= depth[list[i]] <=> n <= depth[list[k]]
        BY <2>1, <2>4, <4>1
      <4> QED BY <4>2, <4>3, <4>4
    <3> QED BY <3>1, <3>2
  <2> QED BY <1>1, <1>2, <2>5, <2>6
<1> QED BY <1>6, <1>7

\* So row_depth returns the depth.
LEMMA DepthIs ==
    ASSUME NEW list, NEW par, NEW depth, PreOrdered(list, par, depth),
           NEW j \in 1..Len(list)
    PROVE  RowDepth(par, list[j]) = depth[list[j]]
<1> DEFINE N == Cardinality(Screens)
           d == depth[list[j]]
           up == Chain(par, list[j])
<1>1. /\ N \in Nat /\ d \in Nat /\ d < j /\ j <= N
      /\ DOMAIN up = 0..N /\ \A n \in 0..N : up[n] # NoRow <=> n <= d
  BY ScreensCounted, ListRows, ChainEnds, ChainSteps
<1>2. RowDepth(par, list[j]) = Cardinality({n \in DOMAIN up \ {0} : up[n] # NoRow})
  BY DEF RowDepth
<1> HIDE DEF N, d, up
<1>3. {n \in DOMAIN up \ {0} : up[n] # NoRow} = 1..d
  BY <1>1
<1>4. Cardinality(1..d) = IF 1 > d THEN 0 ELSE d - 1 + 1
  BY <1>1, FS_Interval
<1>5. Cardinality(1..d) = d
  BY <1>1, <1>4
<1> QED BY <1>2, <1>3, <1>5 DEF d

\* A row descends from another if its parent is that row or descends from it.
LEMMA DescendantStep ==
    ASSUME NEW list, NEW par, NEW depth, PreOrdered(list, par, depth),
           NEW j \in 1..Len(list), NEW a \in Screens
    PROVE  IsDescendantOf(par, list[j], a)
              <=> par[list[j]] = a \/ (par[list[j]] # NoRow /\ IsDescendantOf(par, par[list[j]], a))
<1> DEFINE N == Cardinality(Screens)
           p == par[list[j]]
           up == Chain(par, list[j])
           above == Chain(par, p)
<1>1. N \in Nat /\ j <= N /\ j \in Nat /\ j >= 1 /\ a # NoRow /\ list[j] # NoRow
  BY ScreensCounted, ListRows, NoRowAssumption
<1>2. DOMAIN up = 0..N /\ DOMAIN above = 0..N /\ above[0] = p
  BY ChainSteps
<1>3. \A n \in 1..N : up[n] = above[n - 1]
  BY <1>1, ChainOfParent
<1>4. p = NoRow => \A n \in 0..N : above[n] = NoRow
  BY NoChain
<1>5. ASSUME p # NoRow, NEW m \in 1..N, above[m] = a PROVE m + 1 \in 1..N
  <2>1. PICK i \in 1..(j - 1) : i \in 1..Len(list) /\ i < j /\ p = list[i]
    BY <1>5, ParentRow
  <2>2. depth[list[i]] < i /\ (above[m] # NoRow <=> m <= depth[list[i]])
    BY <1>1, <2>1, ChainEnds
  <2>3. depth[list[i]] \in Nat
    BY <2>1, ListRows
  <2> QED BY <1>1, <1>5, <2>1, <2>2, <2>3
<1>6. IsDescendantOf(par, list[j], a) <=> \E n \in 1..N : up[n] = a
  <2>1. IsDescendantOf(par, list[j], a) <=> \E n \in DOMAIN up \ {0} : up[n] = a
    BY DEF IsDescendantOf
  <2>2. DOMAIN up \ {0} = 1..N
    BY <1>1, <1>2
  <2> QED BY <2>1, <2>2
<1>7. IsDescendantOf(par, p, a) <=> \E n \in 1..N : above[n] = a
  <2>1. IsDescendantOf(par, p, a) <=> \E n \in DOMAIN above \ {0} : above[n] = a
    BY DEF IsDescendantOf
  <2>2. DOMAIN above \ {0} = 1..N
    BY <1>1, <1>2
  <2> QED BY <2>1, <2>2
<1> HIDE DEF up, above, p, N
<1>8. ASSUME NEW n \in 1..N, up[n] = a
      PROVE  p = a \/ (p # NoRow /\ \E m \in 1..N : above[m] = a)
  <2>1. n - 1 \in 0..N /\ above[n - 1] = a
    BY <1>1, <1>3, <1>8
  <2>2. p # NoRow
    BY <1>1, <1>4, <2>1
  <2>3. CASE n = 1
    BY <1>2, <2>1, <2>3
  <2>4. CASE n # 1
    <3>1. n - 1 \in 1..N
      BY <1>1, <2>4
    <3> QED BY <2>1, <2>2, <3>1
  <2> QED BY <2>3, <2>4
<1>9. ASSUME p = a PROVE \E n \in 1..N : up[n] = a
  <2>1. 1 \in 1..N /\ 1 - 1 = 0
    BY <1>1
  <2>2. up[1] = above[1 - 1]
    BY <1>3, <2>1
  <2> QED BY <1>2, <1>9, <2>1, <2>2
<1>10. ASSUME p # NoRow, NEW m \in 1..N, above[m] = a PROVE \E n \in 1..N : up[n] = a
  <2>1. m + 1 \in 1..N /\ (m + 1) - 1 = m
    BY <1>1, <1>5, <1>10
  <2>2. up[m + 1] = above[(m + 1) - 1]
    BY <1>3, <2>1
  <2> QED BY <1>10, <2>1, <2>2
<1>11. (\E n \in 1..N : up[n] = a) <=> p = a \/ (p # NoRow /\ \E m \in 1..N : above[m] = a)
  BY <1>8, <1>9, <1>10
<1> QED BY <1>6, <1>7, <1>11 DEF p

\* Where the run of deeper rows below row i ends.
EndsAt(list, depth, i, e) ==
    /\ e \in (i + 1)..(Len(list) + 1)
    /\ \A k \in (i + 1)..(e - 1) : depth[list[k]] > depth[list[i]]
    /\ e <= Len(list) => depth[list[e]] <= depth[list[i]]

\* subtree_end_index finds it.
LEMMA EndIs ==
    ASSUME NEW list, NEW par, NEW depth, PreOrdered(list, par, depth),
           NEW i \in 1..Len(list)
    PROVE  EndsAt(list, depth, i, SubtreeEnd(list, par, i))
<1> DEFINE n == Len(list)
           T == {j \in (i + 1)..(n + 1) : j > n \/ depth[list[j]] <= depth[list[i]]}
           e == SubtreeEnd(list, par, i)
<1>1. n \in Nat /\ i \in 1..n /\ \A j \in 1..n : depth[list[j]] \in Nat
  BY ListRows
<1>2. \A j \in 1..n : RowDepth(par, list[j]) = depth[list[j]]
  BY DepthIs
<1>3. {j \in (i + 1)..(n + 1) : j > n \/ RowDepth(par, list[j]) <= RowDepth(par, list[i])} = T
  <2>1. \A j \in (i + 1)..(n + 1) : j > n \/ j \in 1..n
    BY <1>1
  <2> QED BY <1>1, <1>2, <2>1
<1>4. e = CHOOSE x \in T : \A y \in T : x <= y
  BY <1>3 DEF SubtreeEnd, Min
<1>5. T \in SUBSET Nat /\ n + 1 \in T
  BY <1>1
<1>6. \E x \in T : \A y \in T : x <= y
  BY <1>5, LeastNatural
<1>7. e \in T /\ \A y \in T : e <= y
  BY <1>4, <1>6
<1> HIDE DEF e
<1>8. ASSUME NEW k \in (i + 1)..(e - 1) PROVE depth[list[k]] > depth[list[i]]
  <2>1. k \notin T /\ k \in (i + 1)..(n + 1) /\ k \in 1..n
    BY <1>1, <1>7
  <2>2. depth[list[k]] \in Nat /\ depth[list[i]] \in Nat
    BY <1>1, <2>1
  <2> QED BY <2>1, <2>2
<1>9. EndsAt(list, depth, i, e)
  BY <1>1, <1>7, <1>8 DEF EndsAt
<1> QED BY <1>9 DEF e

\* The rows of that run are the row itself and all its descendants.
LEMMA FamilyIsRun ==
    ASSUME NEW list, NEW par, NEW depth, PreOrdered(list, par, depth),
           NEW i \in 1..Len(list), NEW e, EndsAt(list, depth, i, e),
           NEW j \in 1..Len(list)
    PROVE  j = i \/ IsDescendantOf(par, list[j], list[i]) <=> j \in i..(e - 1)
<1> DEFINE Desc(k) == IsDescendantOf(par, list[k], list[i])
           Bad == {k \in Nat : k \in 1..Len(list) /\ ~(k = i \/ Desc(k) <=> k \in i..(e - 1))}
<1> SUFFICES ASSUME Bad # {} PROVE FALSE
  OBVIOUS
<1>1. PICK k \in Bad : \A m \in Bad : k <= m
  BY LeastNatural
<1>2. /\ Len(list) \in Nat /\ k \in 1..Len(list) /\ i \in 1..Len(list)
      /\ \A m \in 1..Len(list) : depth[list[m]] \in Nat
      /\ list[i] \in Screens /\ list[i] # NoRow
  BY <1>1, ListRows
<1>3. /\ e \in (i + 1)..(Len(list) + 1)
      /\ \A m \in (i + 1)..(e - 1) : depth[list[m]] > depth[list[i]]
      /\ e <= Len(list) => depth[list[e]] <= depth[list[i]]
  BY DEF EndsAt
<1>4. k # i
  BY <1>1, <1>2, <1>3
<1>5. Desc(k) <=> par[list[k]] = list[i] \/ (par[list[k]] # NoRow /\ IsDescendantOf(par, par[list[k]], list[i]))
  BY <1>2, DescendantStep
<1>6. CASE par[list[k]] = NoRow
  <2>1. depth[list[k]] = 0
    BY <1>2, <1>6, RootRow
  <2>2. ~Desc(k)
    BY <1>2, <1>5, <1>6
  <2>3. k \notin i..(e - 1)
    <3> SUFFICES ASSUME k \in i..(e - 1) PROVE FALSE
      OBVIOUS
    <3>1. k \in (i + 1)..(e - 1)
      BY <1>2, <1>3, <1>4
    <3>2. depth[list[i]] \in Nat /\ depth[list[k]] > depth[list[i]]
      BY <1>2, <1>3, <3>1
    <3> QED BY <2>1, <3>2
  <2> QED BY <1>1, <1>4, <2>2, <2>3
<1>7. CASE par[list[k]] # NoRow
  <2>1. PICK p \in 1..(k - 1) :
          /\ p \in 1..Len(list) /\ p < k
          /\ par[list[k]] = list[p]
          /\ depth[list[k]] = depth[list[p]] + 1
          /\ \A m \in (p + 1)..(k - 1) : depth[list[m]] > depth[list[p]]
    BY <1>2, <1>7, ParentRow
  <2>2. p \notin Bad
    BY <1>1, <1>2, <2>1
  <2>3. p = i \/ Desc(p) <=> p \in i..(e - 1)
    BY <1>2, <2>1, <2>2
  <2>4. list[p] = list[i] <=> p = i
    BY <1>2, <2>1, ListRows
  <2>5. Desc(k) <=> p = i \/ Desc(p)
    BY <1>5, <1>7, <2>1, <2>4
  <2>6. Desc(k) <=> p \in i..(e - 1)
    BY <2>3, <2>5
  <2>7. depth[list[p]] \in Nat /\ depth[list[k]] \in Nat /\ depth[list[i]] \in Nat
    BY <1>2, <2>1
  <2>8. ASSUME p \in i..(e - 1) PROVE k \in i..(e - 1)
    <3> SUFFICES ASSUME e <= k PROVE FALSE
      BY <1>2, <1>3, <2>1, <2>8
    <3>1. e \in 1..Len(list) /\ depth[list[e]] <= depth[list[i]] /\ depth[list[e]] \in Nat
      BY <1>2, <1>3
    <3>2. depth[list[p]] >= depth[list[i]]
      <4>1. p = i \/ p \in (i + 1)..(e - 1)
        BY <1>2, <1>3, <2>1, <2>8
      <4> QED BY <1>3, <2>7, <4>1
    <3>3. depth[list[e]] > depth[list[p]]
      <4>1. e = k \/ e \in (p + 1)..(k - 1)
        BY <1>2, <1>3, <2>1, <2>8
      <4> QED BY <2>1, <2>7, <4>1, SMTT(90)
    <3> QED BY <2>7, <3>1, <3>2, <3>3, SMTT(90)
  <2>9. ASSUME k \in i..(e - 1) PROVE p \in i..(e - 1)
    <3> SUFFICES ASSUME p < i PROVE FALSE
      BY <1>2, <1>3, <2>1, <2>9
    <3>1. i \in (p + 1)..(k - 1) /\ k \in (i + 1)..(e - 1)
      BY <1>2, <1>3, <1>4, <2>1, <2>9
    <3>2. depth[list[i]] > depth[list[p]] /\ depth[list[k]] > depth[list[i]]
      BY <1>3, <2>1, <3>1
    <3> QED BY <2>1, <2>7, <3>2, SMTT(90)
  <2> QED BY <1>1, <1>2, <1>4, <2>6, <2>8, <2>9
<1> QED BY <1>6, <1>7

\* The rows of a run are as many as its positions.
LEMMA RunSize ==
    ASSUME NEW list, NEW par, NEW depth, PreOrdered(list, par, depth),
           NEW i \in 1..Len(list), NEW e \in (i + 1)..(Len(list) + 1)
    PROVE  Cardinality({list[k] : k \in i..(e - 1)}) = e - i
<1> DEFINE S == i..(e - 1)
           T == {list[k] : k \in S}
           f == [k \in S |-> list[k]]
<1>1. Len(list) \in Nat /\ \A k \in S : k \in 1..Len(list)
  BY ListRows
<1>2. \A k, m \in S : list[k] = list[m] => k = m
  BY <1>1, ListRows, SMTT(90) DEF PreOrdered
<1>3. IsFiniteSet(S) /\ Cardinality(S) = e - i
  <2>1. IsFiniteSet(S) /\ Cardinality(S) = IF i > e - 1 THEN 0 ELSE (e - 1) - i + 1
    BY <1>1, FS_Interval, SMTT(90)
  <2> QED BY <1>1, <2>1
<1>4. f \in Surjection(S, T)
  BY DEF Surjection
<1>5. f \in Injection(S, T)
  BY <1>2 DEF Injection, IsInjective
<1> HIDE DEF S, T, f
<1>6. Cardinality(T) = Cardinality(S)
  BY <1>3, <1>4, <1>5, FS_Surjection
<1> QED BY <1>3, <1>6 DEF S, T

\* A family of the sidebar, as positions.
LEMMA FamilyRows ==
    ASSUME PreOrdered(rows, parent, indent), NEW i \in 1..Len(rows), NEW e,
           EndsAt(rows, indent, i, e)
    PROVE  Family(rows[i]) = {rows[k] : k \in i..(e - 1)}
<1>1. Len(rows) \in Nat /\ DOMAIN rows = 1..Len(rows) /\ e \in (i + 1)..(Len(rows) + 1)
  BY ListRows DEF EndsAt
<1>2. \A k \in 1..Len(rows) : k = i \/ IsDescendantOf(parent, rows[k], rows[i]) <=> k \in i..(e - 1)
  BY FamilyIsRun
<1>3. \A k \in 1..Len(rows) : rows[k] = rows[i] <=> k = i
  BY ListRows
<1>4. \A k \in i..(e - 1) : k \in 1..Len(rows)
  BY <1>1
<1>5. Listed = {rows[k] : k \in 1..Len(rows)}
  BY <1>1 DEF Listed, Range
<1>6. Family(rows[i]) = {x \in Listed : x = rows[i] \/ IsDescendantOf(parent, x, rows[i])}
  BY DEF Family
<1>7. ASSUME NEW k \in 1..Len(rows) PROVE rows[k] \in Family(rows[i]) <=> k \in i..(e - 1)
  BY <1>2, <1>3, <1>5, <1>6
<1>8. ASSUME NEW x \in Family(rows[i]) PROVE x \in {rows[k] : k \in i..(e - 1)}
  <2>1. PICK k \in 1..Len(rows) : x = rows[k]
    BY <1>5, <1>6
  <2> QED BY <1>7, <2>1
<1>9. ASSUME NEW k \in i..(e - 1) PROVE rows[k] \in Family(rows[i])
  BY <1>4, <1>7
<1> QED BY <1>8, <1>9

\* The local form implies what a pre-order traversal is: families are runs.
LEMMA LocalImpliesRuns ==
    ASSUME PreOrdered(rows, parent, indent)
    PROVE  SidebarPreOrder
<1> SUFFICES ASSUME NEW r \in Listed
             PROVE  Family(r) = Range(SubSeq(rows, RowIndex(rows, r),
                                             RowIndex(rows, r) + Cardinality(Family(r)) - 1))
  BY DEF SidebarPreOrder
<1> DEFINE i == RowIndex(rows, r)
           e == SubtreeEnd(rows, parent, i)
<1>1. i \in 1..Len(rows) /\ rows[i] = r /\ Len(rows) \in Nat
  BY ListRows DEF Listed
<1> HIDE DEF i
<1>2. EndsAt(rows, indent, i, e)
  BY <1>1, EndIs
<1>3. e \in (i + 1)..(Len(rows) + 1)
  BY <1>2 DEF EndsAt
<1> HIDE DEF e
<1>4. Family(r) = {rows[k] : k \in i..(e - 1)}
  BY <1>1, <1>2, FamilyRows
<1>5. Cardinality(Family(r)) = e - i
  BY <1>1, <1>3, <1>4, RunSize
<1>6. i + Cardinality(Family(r)) - 1 = e - 1
  BY <1>1, <1>3, <1>5
<1>7. \A k \in i..(e - 1) : rows[k] \in Screens
  <2>1. \A k \in i..(e - 1) : k \in 1..Len(rows)
    BY <1>1, <1>3
  <2> QED BY <2>1, ListRows
<1> DEFINE run == SubSeq(rows, i, e - 1)
<1>8. /\ run \in Seq(Screens) /\ Len(run) = (e - 1) - i + 1
      /\ \A k \in 1..((e - 1) - i + 1) : run[k] = rows[i + k - 1]
  <2>1. i \in Int /\ e - 1 \in Int /\ i <= e - 1
    BY <1>1, <1>3
  <2>2. /\ run \in Seq(Screens) /\ Len(run) = IF i <= e - 1 THEN (e - 1) - i + 1 ELSE 0
        /\ \A k \in 1..((e - 1) - i + 1) : run[k] = rows[i + k - 1]
    BY <1>7, <2>1, SubSeqProperties
  <2> QED BY <2>1, <2>2
<1>9. DOMAIN run = 1..((e - 1) - i + 1)
  BY <1>8, LenProperties
<1> HIDE DEF run
<1>10. Range(run) = {run[k] : k \in 1..((e - 1) - i + 1)}
  BY <1>9 DEF Range
<1>11. ASSUME NEW k \in i..(e - 1) PROVE rows[k] \in Range(run)
  <2>1. k - i + 1 \in 1..((e - 1) - i + 1) /\ i + (k - i + 1) - 1 = k
    BY <1>1, <1>3
  <2>2. run[k - i + 1] = rows[i + (k - i + 1) - 1]
    BY <1>8, <2>1
  <2> QED BY <1>10, <2>1, <2>2
<1>12. ASSUME NEW k \in 1..((e - 1) - i + 1) PROVE run[k] \in {rows[m] : m \in i..(e - 1)}
  <2>1. i + k - 1 \in i..(e - 1)
    BY <1>1, <1>3
  <2> QED BY <1>8, <2>1
<1>13. Family(r) = Range(run)
  BY <1>4, <1>10, <1>11, <1>12
<1> QED BY <1>6, <1>13 DEF run, i

-----------------------------------------------------------------------------
(* What the operations on the list box return. *)

\* Where gtk_list_box_insert puts a row.
Slot(list, at) == IF at \in 1..Len(list) THEN at ELSE Len(list) + 1

\* A block put into a list pushes back what follows.
LEMMA InsertedIs ==
    ASSUME NEW list \in Seq(Screens), NEW block \in Seq(Screens), NEW at
    PROVE  /\ Inserted(list, block, at) \in Seq(Screens)
           /\ Len(Inserted(list, block, at)) = Len(list) + Len(block)
           /\ Slot(list, at) \in 1..(Len(list) + 1)
           /\ \A k \in 1..(Len(list) + Len(block)) :
                 Inserted(list, block, at)[k] =
                    IF k < Slot(list, at) THEN list[k]
                    ELSE IF k < Slot(list, at) + Len(block) THEN block[k - Slot(list, at) + 1]
                    ELSE list[k - Len(block)]
<1> DEFINE p == Slot(list, at)
           n == Len(list)
           m == Len(block)
           head == SubSeq(list, 1, p - 1)
           tail == SubSeq(list, p, n)
<1>1. n \in Nat /\ m \in Nat /\ \A k \in 1..n : list[k] \in Screens
  BY LenProperties, ElementOfSeq
<1>2. p \in 1..(n + 1)
  BY <1>1 DEF Slot
<1>3. Inserted(list, block, at) = head \o block \o tail
  BY DEF Inserted, Slot
<1> HIDE DEF p
<1>4. /\ head \in Seq(Screens) /\ Len(head) = p - 1
      /\ \A k \in 1..(p - 1) : head[k] = list[k]
  <2>1. \A k \in 1..(p - 1) : list[k] \in Screens
    BY <1>1, <1>2
  <2>2. 1 \in Int /\ p - 1 \in Int /\ (IF 1 <= p - 1 THEN (p - 1) - 1 + 1 ELSE 0) = p - 1
    BY <1>1, <1>2
  <2>3. /\ head \in Seq(Screens) /\ Len(head) = IF 1 <= p - 1 THEN (p - 1) - 1 + 1 ELSE 0
        /\ \A k \in 1..((p - 1) - 1 + 1) : head[k] = list[1 + k - 1]
    BY <2>1, <2>2, SubSeqProperties
  <2>4. (p - 1) - 1 + 1 = p - 1 /\ \A k \in 1..(p - 1) : 1 + k - 1 = k
    BY <1>1, <1>2
  <2> QED BY <2>2, <2>3, <2>4
<1>5. /\ tail \in Seq(Screens) /\ Len(tail) = n - p + 1
      /\ \A k \in 1..(n - p + 1) : tail[k] = list[p + k - 1]
  <2>1. \A k \in p..n : list[k] \in Screens
    BY <1>1, <1>2
  <2>2. p \in Int /\ n \in Int /\ (IF p <= n THEN n - p + 1 ELSE 0) = n - p + 1
    BY <1>1, <1>2
  <2>3. /\ tail \in Seq(Screens) /\ Len(tail) = IF p <= n THEN n - p + 1 ELSE 0
        /\ \A k \in 1..(n - p + 1) : tail[k] = list[p + k - 1]
    BY <2>1, <2>2, SubSeqProperties
  <2> QED BY <2>2, <2>3
<1> HIDE DEF head, tail
<1> DEFINE front == head \o block
<1>6. /\ front \in Seq(Screens) /\ Len(front) = (p - 1) + m
      /\ \A k \in 1..((p - 1) + m) : front[k] = IF k <= p - 1 THEN head[k] ELSE block[k - (p - 1)]
  <2>1. /\ front \in Seq(Screens) /\ Len(front) = Len(head) + Len(block)
        /\ \A k \in 1..(Len(head) + Len(block)) :
              front[k] = IF k <= Len(head) THEN head[k] ELSE block[k - Len(head)]
    BY <1>4, ConcatProperties
  <2> QED BY <1>4, <2>1
<1> HIDE DEF front
<1> DEFINE all == front \o tail
<1>7. /\ all \in Seq(Screens) /\ Len(all) = ((p - 1) + m) + (n - p + 1)
      /\ \A k \in 1..(((p - 1) + m) + (n - p + 1)) :
            all[k] = IF k <= (p - 1) + m THEN front[k] ELSE tail[k - ((p - 1) + m)]
  <2>1. /\ all \in Seq(Screens) /\ Len(all) = Len(front) + Len(tail)
        /\ \A k \in 1..(Len(front) + Len(tail)) :
              all[k] = IF k <= Len(front) THEN front[k] ELSE tail[k - Len(front)]
    BY <1>5, <1>6, ConcatProperties
  <2> QED BY <1>5, <1>6, <2>1
<1>8. ((p - 1) + m) + (n - p + 1) = n + m
  BY <1>1, <1>2
<1>9. Inserted(list, block, at) = all
  BY <1>3 DEF front
<1> HIDE DEF all, n, m
<1>10. ASSUME NEW k \in 1..(n + m)
       PROVE  all[k] = IF k < p THEN list[k] ELSE IF k < p + m THEN block[k - p + 1] ELSE list[k - m]
  <2>1. CASE k < p
    <3>1. k \in 1..(p - 1) /\ k \in 1..((p - 1) + m) /\ k <= (p - 1) + m /\ k <= p - 1
      BY <1>1, <1>2, <2>1
    <3>2. all[k] = front[k] /\ front[k] = head[k] /\ head[k] = list[k]
      BY <1>4, <1>6, <1>7, <1>8, <3>1
    <3> QED BY <2>1, <3>2
  <2>2. CASE ~(k < p) /\ k < p + m
    <3>1. k \in 1..((p - 1) + m) /\ k <= (p - 1) + m /\ ~(k <= p - 1) /\ k - (p - 1) = k - p + 1
      BY <1>1, <1>2, <2>2
    <3>2. all[k] = front[k] /\ front[k] = block[k - (p - 1)]
      BY <1>6, <1>7, <1>8, <3>1
    <3> QED BY <2>2, <3>1, <3>2
  <2>3. CASE ~(k < p) /\ ~(k < p + m)
    <3>1. ~(k <= (p - 1) + m) /\ k - ((p - 1) + m) \in 1..(n - p + 1)
          /\ p + (k - ((p - 1) + m)) - 1 = k - m
      BY <1>1, <1>2, <2>3
    <3>2. all[k] = tail[k - ((p - 1) + m)]
      BY <1>7, <1>8, <3>1
    <3>3. tail[k - ((p - 1) + m)] = list[p + (k - ((p - 1) + m)) - 1]
      BY <1>5, <3>1
    <3> QED BY <2>3, <3>1, <3>2, <3>3
  <2> QED BY <2>1, <2>2, <2>3
<1> QED BY <1>2, <1>7, <1>8, <1>9, <1>10 DEF p, n, m

\* Rows taken out of a list pull up what follows.
LEMMA CutIs ==
    ASSUME NEW list \in Seq(Screens), NEW i \in 1..Len(list), NEW m \in Nat, i + m <= Len(list) + 1,
           NEW rest, rest = SubSeq(list, 1, i - 1) \o SubSeq(list, i + m, Len(list))
    PROVE  /\ rest \in Seq(Screens)
           /\ Len(rest) = Len(list) - m
           /\ \A k \in 1..(Len(list) - m) : rest[k] = IF k < i THEN list[k] ELSE list[k + m]
<1> DEFINE n == Len(list)
           head == SubSeq(list, 1, i - 1)
           tail == SubSeq(list, i + m, n)
<1>1. n \in Nat /\ \A k \in 1..n : list[k] \in Screens
  BY LenProperties, ElementOfSeq
<1>2. /\ head \in Seq(Screens) /\ Len(head) = i - 1
      /\ \A k \in 1..(i - 1) : head[k] = list[k]
  <2>1. \A k \in 1..(i - 1) : list[k] \in Screens
    BY <1>1
  <2>2. 1 \in Int /\ i - 1 \in Int /\ (IF 1 <= i - 1 THEN (i - 1) - 1 + 1 ELSE 0) = i - 1
    BY <1>1
  <2>3. /\ head \in Seq(Screens) /\ Len(head) = IF 1 <= i - 1 THEN (i - 1) - 1 + 1 ELSE 0
        /\ \A k \in 1..((i - 1) - 1 + 1) : head[k] = list[1 + k - 1]
    BY <2>1, <2>2, SubSeqProperties
  <2>4. (i - 1) - 1 + 1 = i - 1 /\ \A k \in 1..(i - 1) : 1 + k - 1 = k
    BY <1>1
  <2> QED BY <2>2, <2>3, <2>4
<1>3. /\ tail \in Seq(Screens) /\ Len(tail) = n - (i + m) + 1
      /\ \A k \in 1..(n - (i + m) + 1) : tail[k] = list[(i + m) + k - 1]
  <2>1. \A k \in (i + m)..n : list[k] \in Screens
    BY <1>1
  <2>2. i + m \in Int /\ n \in Int /\ (IF i + m <= n THEN n - (i + m) + 1 ELSE 0) = n - (i + m) + 1
    BY <1>1
  <2>3. /\ tail \in Seq(Screens) /\ Len(tail) = IF i + m <= n THEN n - (i + m) + 1 ELSE 0
        /\ \A k \in 1..(n - (i + m) + 1) : tail[k] = list[(i + m) + k - 1]
    BY <2>1, <2>2, SubSeqProperties
  <2> QED BY <2>2, <2>3
<1> HIDE DEF head, tail
<1>4. /\ rest \in Seq(Screens) /\ Len(rest) = (i - 1) + (n - (i + m) + 1)
      /\ \A k \in 1..((i - 1) + (n - (i + m) + 1)) :
            rest[k] = IF k <= i - 1 THEN head[k] ELSE tail[k - (i - 1)]
  <2>1. rest = head \o tail
    BY DEF head, tail
  <2>2. /\ rest \in Seq(Screens) /\ Len(rest) = Len(head) + Len(tail)
        /\ \A k \in 1..(Len(head) + Len(tail)) :
              rest[k] = IF k <= Len(head) THEN head[k] ELSE tail[k - Len(head)]
    <3>1. head \in Seq(Screens) /\ tail \in Seq(Screens)
      BY <1>2, <1>3
    <3>2. /\ head \o tail \in Seq(Screens) /\ Len(head \o tail) = Len(head) + Len(tail)
          /\ \A k \in 1..(Len(head) + Len(tail)) :
                (head \o tail)[k] = IF k <= Len(head) THEN head[k] ELSE tail[k - Len(head)]
      BY <3>1, ConcatProperties
    <3> QED BY <2>1, <3>2
  <2> QED BY <1>2, <1>3, <2>2
<1>5. (i - 1) + (n - (i + m) + 1) = n - m
  BY <1>1
<1>6. ASSUME NEW k \in 1..(n - m) PROVE rest[k] = IF k < i THEN list[k] ELSE list[k + m]
  <2>1. CASE k < i
    <3>1. k \in 1..(i - 1) /\ k <= i - 1
      BY <1>1, <2>1
    <3> QED BY <1>2, <1>4, <1>5, <2>1, <3>1
  <2>2. CASE ~(k < i)
    <3>1. ~(k <= i - 1) /\ k - (i - 1) \in 1..(n - (i + m) + 1) /\ (i + m) + (k - (i - 1)) - 1 = k + m
      BY <1>1, <2>2
    <3>2. rest[k] = tail[k - (i - 1)]
      BY <1>4, <1>5, <3>1
    <3>3. tail[k - (i - 1)] = list[(i + m) + (k - (i - 1)) - 1]
      BY <1>3, <3>1
    <3> QED BY <2>2, <3>1, <3>2, <3>3
  <2> QED BY <2>1, <2>2
<1> QED BY <1>4, <1>5, <1>6

\* The new position of row j when the rows a..b-1 and b..c-1 change places.
SwapTo(a, b, c, j) ==
    IF j < a \/ j >= c THEN j ELSE IF j < b THEN j + (c - b) ELSE j - (b - a)

\* Such an exchange is what every move of a family comes to.
IsSwap(list, new, a, b, c) ==
    /\ a \in 1..(Len(list) + 1) /\ b \in a..(Len(list) + 1) /\ c \in b..(Len(list) + 1)
    /\ new \in Seq(Screens)
    /\ Len(new) = Len(list)
    /\ \A j \in 1..Len(list) : new[SwapTo(a, b, c, j)] = list[j]

\* Positions are exchanged one to one.
LEMMA SwapOnce ==
    ASSUME NEW n \in Nat, NEW a \in 1..(n + 1), NEW b \in a..(n + 1), NEW c \in b..(n + 1)
    PROVE  /\ \A j \in 1..n : SwapTo(a, b, c, j) \in 1..n
           /\ \A j, k \in 1..n : SwapTo(a, b, c, j) = SwapTo(a, b, c, k) => j = k
           /\ \A k \in 1..n : \E j \in 1..n : SwapTo(a, b, c, j) = k
<1>1. \A j \in 1..n : SwapTo(a, b, c, j) \in 1..n
  BY DEF SwapTo
<1>2. \A j, k \in 1..n : SwapTo(a, b, c, j) = SwapTo(a, b, c, k) => j = k
  BY DEF SwapTo
<1>3. ASSUME NEW k \in 1..n PROVE \E j \in 1..n : SwapTo(a, b, c, j) = k
  <2>1. CASE k < a \/ k >= c
    BY <2>1 DEF SwapTo
  <2>2. CASE ~(k < a \/ k >= c) /\ k < a + (c - b)
    <3>1. k + (b - a) \in 1..n /\ SwapTo(a, b, c, k + (b - a)) = k
      BY <2>2 DEF SwapTo
    <3> QED BY <3>1
  <2>3. CASE ~(k < a \/ k >= c) /\ ~(k < a + (c - b))
    <3>1. k - (c - b) \in 1..n /\ SwapTo(a, b, c, k - (c - b)) = k
      BY <2>3 DEF SwapTo
    <3> QED BY <3>1
  <2> QED BY <2>1, <2>2, <2>3
<1> QED BY <1>1, <1>2, <1>3

\* A row that is moved with its run to place t, or to the end, changes places
\* with the rows in between.
LEMMA MovedIs ==
    ASSUME NEW list, NEW par, NEW depth, PreOrdered(list, par, depth),
           NEW i \in 1..Len(list), NEW e, e = SubtreeEnd(list, par, i),
           NEW t \in 1..(Len(list) + 1), t <= i \/ t >= e
    PROVE  /\ IF t <= i THEN IsSwap(list, Moved(list, par, list[i], t), t, i, e)
              ELSE IsSwap(list, Moved(list, par, list[i], t), i, e, t)
           /\ IsSwap(list, Moved(list, par, list[i], 0), i, e, Len(list) + 1)
<1> DEFINE n == Len(list)
           m == e - i
           block == SubSeq(list, i, e - 1)
           rest == SubSeq(list, 1, i - 1) \o SubSeq(list, i + m, n)
           target(at) == IF i < at THEN at - m ELSE at
           new(at) == Inserted(rest, block, target(at))
<1>1. /\ list \in Seq(Screens) /\ n \in Nat /\ RowIndex(list, list[i]) = i /\ i \in 1..n
      /\ \A k \in 1..n : list[k] \in Screens
  <2>1. list \in Seq(Screens)
    BY DEF PreOrdered
  <2> QED BY <2>1, ListRows
<1>2. e \in (i + 1)..(n + 1)
  BY EndIs DEF EndsAt
<1>3. Subtree(list, par, list[i]) = block
  BY <1>1 DEF Subtree
<1>4. /\ block \in Seq(Screens) /\ Len(block) = m
      /\ \A k \in 1..m : block[k] = list[i + k - 1]
  <2>1. \A k \in i..(e - 1) : list[k] \in Screens
    BY <1>1, <1>2
  <2>2. i \in Int /\ e - 1 \in Int /\ i <= e - 1 /\ (e - 1) - i + 1 = m
    BY <1>1, <1>2
  <2>3. /\ block \in Seq(Screens) /\ Len(block) = IF i <= e - 1 THEN (e - 1) - i + 1 ELSE 0
        /\ \A k \in 1..((e - 1) - i + 1) : block[k] = list[i + k - 1]
    BY <2>1, <2>2, SubSeqProperties
  <2> QED BY <2>2, <2>3
<1>5. m \in Nat /\ i + m <= n + 1 /\ i + m = e /\ m >= 1
  BY <1>1, <1>2
<1> HIDE DEF block, m
<1>6. /\ rest \in Seq(Screens) /\ Len(rest) = n - m
      /\ \A k \in 1..(n - m) : rest[k] = IF k < i THEN list[k] ELSE list[k + m]
  <2>1. rest = SubSeq(list, 1, i - 1) \o SubSeq(list, i + m, Len(list))
    OBVIOUS
  <2> HIDE DEF rest
  <2> QED BY <1>1, <1>5, <2>1, CutIs, ZenonT(90)
<1>7. \A at : Moved(list, par, list[i], at) = new(at)
  BY <1>1, <1>3, <1>4 DEF Moved
<1> HIDE DEF rest, n
<1>8. ASSUME NEW at, NEW p, Slot(rest, target(at)) = p
      PROVE  /\ new(at) \in Seq(Screens) /\ Len(new(at)) = n
             /\ \A k \in 1..n : new(at)[k] = IF k < p THEN rest[k]
                                             ELSE IF k < p + m THEN list[i + k - p]
                                             ELSE rest[k - m]
             /\ p \in 1..(n - m + 1)
  <2> HIDE DEF target
  <2>1. /\ new(at) \in Seq(Screens) /\ Len(new(at)) = (n - m) + m
        /\ p \in 1..((n - m) + 1)
        /\ \A k \in 1..((n - m) + m) :
              new(at)[k] = IF k < p THEN rest[k] ELSE IF k < p + m THEN block[k - p + 1]
                           ELSE rest[k - m]
    <3>1. /\ Inserted(rest, block, target(at)) \in Seq(Screens)
          /\ Len(Inserted(rest, block, target(at))) = Len(rest) + Len(block)
          /\ Slot(rest, target(at)) \in 1..(Len(rest) + 1)
          /\ \A k \in 1..(Len(rest) + Len(block)) :
                Inserted(rest, block, target(at))[k] =
                   IF k < Slot(rest, target(at)) THEN rest[k]
                   ELSE IF k < Slot(rest, target(at)) + Len(block)
                   THEN block[k - Slot(rest, target(at)) + 1] ELSE rest[k - Len(block)]
      BY <1>4, <1>6, InsertedIs, ZenonT(90)
    <3> QED BY <1>4, <1>6, <1>8, <3>1
  <2>2. (n - m) + m = n
    BY <1>1, <1>5
  <2> HIDE DEF new
  <2>3. ASSUME NEW k \in 1..n, ~(k < p), k < p + m PROVE block[k - p + 1] = list[i + k - p]
    <3>1. k - p + 1 \in 1..m /\ i + (k - p + 1) - 1 = i + k - p
      BY <1>1, <1>5, <2>1, <2>3
    <3>2. block[k - p + 1] = list[i + (k - p + 1) - 1]
      BY <1>4, <3>1
    <3> QED BY <3>1, <3>2
  <2> QED BY <2>1, <2>2, <2>3
<1>9. ASSUME NEW u \in 1..(n + 1), u <= i, NEW s, s \in Seq(Screens), Len(s) = n,
             \A k \in 1..n : s[k] = IF k < u THEN rest[k]
                                    ELSE IF k < u + m THEN list[i + k - u] ELSE rest[k - m]
      PROVE  IsSwap(list, s, u, i, e)
  <2>1. ASSUME NEW j \in 1..n PROVE s[SwapTo(u, i, e, j)] = list[j]
    <3>1. CASE j < u
      <4>1. SwapTo(u, i, e, j) = j /\ j \in 1..(n - m) /\ j < i
        BY <1>1, <1>5, <1>9, <3>1 DEF SwapTo
      <4> QED BY <1>6, <1>9, <3>1, <4>1
    <3>2. CASE u <= j /\ j < i
      <4>1. /\ SwapTo(u, i, e, j) = j + m /\ j \in 1..(n - m) /\ j + m \in 1..n
            /\ ~(j + m < u) /\ ~(j + m < u + m) /\ (j + m) - m = j
        BY <1>1, <1>2, <1>5, <1>9, <3>2 DEF SwapTo
      <4>2. s[j + m] = rest[(j + m) - m]
        BY <1>9, <4>1
      <4> QED BY <1>6, <3>2, <4>1, <4>2
    <3>3. CASE i <= j /\ j < e
      <4> DEFINE k == j - (i - u)
      <4>1. SwapTo(u, i, e, j) = k /\ k \in 1..n /\ ~(k < u) /\ k < u + m /\ i + k - u = j
        BY <1>1, <1>2, <1>5, <1>9, <3>3 DEF SwapTo
      <4> HIDE DEF k
      <4>2. s[k] = list[i + k - u]
        BY <1>9, <4>1
      <4> QED BY <4>1, <4>2
    <3>4. CASE e <= j
      <4>1. /\ SwapTo(u, i, e, j) = j /\ j - m \in 1..(n - m) /\ ~(j < u) /\ ~(j < u + m)
            /\ ~(j - m < i) /\ (j - m) + m = j
        BY <1>1, <1>2, <1>5, <1>9, <3>4 DEF SwapTo
      <4>2. s[j] = rest[j - m]
        BY <1>9, <4>1
      <4>3. rest[j - m] = list[(j - m) + m]
        BY <1>6, <4>1
      <4> QED BY <4>1, <4>2, <4>3
    <3> QED BY <1>1, <1>2, <1>9, <3>1, <3>2, <3>3, <3>4
  <2>2. i \in u..(n + 1) /\ e \in i..(n + 1)
    BY <1>1, <1>2, <1>9
  <2> QED BY <1>9, <2>1, <2>2 DEF IsSwap, n
<1>10. ASSUME NEW u \in 1..(n + 1), u >= e, NEW s, s \in Seq(Screens), Len(s) = n,
              \A k \in 1..n : s[k] = IF k < u - m THEN rest[k]
                                     ELSE IF k < (u - m) + m THEN list[i + k - (u - m)]
                                     ELSE rest[k - m]
       PROVE  IsSwap(list, s, i, e, u)
  <2>1. ASSUME NEW j \in 1..n PROVE s[SwapTo(i, e, u, j)] = list[j]
    <3>1. CASE j < i
      <4>1. SwapTo(i, e, u, j) = j /\ j \in 1..(n - m) /\ j < u - m
        BY <1>1, <1>2, <1>5, <1>10, <3>1 DEF SwapTo
      <4> QED BY <1>6, <1>10, <3>1, <4>1
    <3>2. CASE i <= j /\ j < e
      <4> DEFINE k == j + (u - e)
      <4>1. /\ SwapTo(i, e, u, j) = k /\ k \in 1..n /\ ~(k < u - m) /\ k < (u - m) + m
            /\ i + k - (u - m) = j
        <5>1. SwapTo(i, e, u, j) = k
          BY <1>1, <1>2, <1>10, <3>2 DEF SwapTo
        <5>2. u \in Int /\ i \in Int /\ m \in Int /\ j \in Int /\ n \in Int /\ e = i + m
          BY <1>1, <1>2, <1>5, <1>10
        <5>3. i <= j /\ j < i + m /\ 1 <= i /\ u <= n + 1 /\ u >= i + m
          BY <1>1, <1>2, <1>5, <1>10, <3>2
        <5>4. k = j + (u - (i + m))
          BY <5>2
        <5> HIDE DEF k
        <5>5. /\ k \in 1..n /\ ~(k < u - m) /\ k < (u - m) + m
              /\ i + k - (u - m) = j
          BY <5>2, <5>3, <5>4
        <5> QED BY <5>1, <5>5
      <4> HIDE DEF k
      <4>2. s[k] = list[i + k - (u - m)]
        BY <1>10, <4>1
      <4> QED BY <4>1, <4>2
    <3>3. CASE e <= j /\ j < u
      <4>1. /\ SwapTo(i, e, u, j) = j - m /\ j - m \in 1..n /\ j - m \in 1..(n - m)
            /\ j - m < u - m /\ ~(j - m < i) /\ (j - m) + m = j
        BY <1>1, <1>2, <1>5, <1>10, <3>3 DEF SwapTo
      <4>2. s[j - m] = rest[j - m]
        BY <1>10, <4>1
      <4>3. rest[j - m] = list[(j - m) + m]
        BY <1>6, <4>1
      <4> QED BY <4>1, <4>2, <4>3
    <3>4. CASE u <= j
      <4>1. /\ SwapTo(i, e, u, j) = j /\ j - m \in 1..(n - m) /\ ~(j < u - m) /\ ~(j < (u - m) + m)
            /\ ~(j - m < i) /\ (j - m) + m = j
        BY <1>1, <1>2, <1>5, <1>10, <3>4 DEF SwapTo
      <4>2. s[j] = rest[j - m]
        BY <1>10, <4>1
      <4>3. rest[j - m] = list[(j - m) + m]
        BY <1>6, <4>1
      <4> QED BY <4>1, <4>2, <4>3
    <3> QED BY <1>1, <1>2, <1>10, <3>1, <3>2, <3>3, <3>4
  <2>2. e \in i..(n + 1) /\ u \in e..(n + 1) /\ i \in 1..(n + 1)
    BY <1>1, <1>2, <1>10
  <2> QED BY <1>10, <2>1, <2>2 DEF IsSwap, n
<1>11. ASSUME t <= i PROVE IsSwap(list, new(t), t, i, e)
  <2>1. Slot(rest, target(t)) = t
    BY <1>1, <1>5, <1>6, <1>11 DEF Slot, n
  <2> HIDE DEF new
  <2> QED BY <1>8, <1>9, <1>11, <2>1 DEF n
<1>12. ASSUME NEW at, NEW u \in 1..(n + 1), u >= e, Slot(rest, target(at)) = u - m
       PROVE  IsSwap(list, new(at), i, e, u)
  <2> HIDE DEF new, target
  <2>1. /\ new(at) \in Seq(Screens) /\ Len(new(at)) = n
        /\ \A k \in 1..n : new(at)[k] = IF k < u - m THEN rest[k]
                                        ELSE IF k < (u - m) + m THEN list[i + k - (u - m)]
                                        ELSE rest[k - m]
    BY <1>8, <1>12
  <2> QED BY <1>10, <1>12, <2>1
<1>13. ASSUME t >= e PROVE IsSwap(list, new(t), i, e, t)
  <2>1. t \in 1..(n + 1) /\ target(t) = t - m /\ t - m \in 1..(n - m + 1)
    BY <1>1, <1>2, <1>5, <1>13 DEF n
  <2>2. Slot(rest, t - m) = t - m
    <3>1. CASE t - m \in 1..Len(rest)
      BY <3>1 DEF Slot
    <3>2. CASE t - m \notin 1..Len(rest)
      <4>1. Len(rest) + 1 = t - m
        BY <1>1, <1>5, <1>6, <2>1, <3>2
      <4> QED BY <3>2, <4>1 DEF Slot
    <3> QED BY <3>1, <3>2
  <2> HIDE DEF new
  <2> QED BY <1>12, <1>13, <2>1, <2>2
<1>14. IsSwap(list, new(0), i, e, n + 1)
  <2>1. n + 1 \in 1..(n + 1) /\ n + 1 >= e /\ target(0) = 0 /\ (n + 1) - m = (n - m) + 1
    BY <1>1, <1>2, <1>5
  <2>2. Slot(rest, 0) = (n + 1) - m
    BY <1>1, <1>5, <1>6, <2>1 DEF Slot
  <2> HIDE DEF new
  <2> QED BY <1>12, <2>1, <2>2
<1>15. ~(t <= i) => t >= e
  OBVIOUS
<1> HIDE DEF new
<1> QED BY <1>7, <1>11, <1>13, <1>14, <1>15 DEF n

-----------------------------------------------------------------------------
(* A family that is moved to a place where it fits. *)

\* A row is within a run below its head exactly when its parent is in the run.
LEMMA RunClosed ==
    ASSUME NEW list, NEW par, NEW depth, PreOrdered(list, par, depth),
           NEW i \in 1..Len(list), NEW e, EndsAt(list, depth, i, e),
           NEW j \in 1..Len(list), j # i, NEW p \in 1..Len(list), par[list[j]] = list[p]
    PROVE  j \in i..(e - 1) <=> p \in i..(e - 1)
<1>1. list[i] \in Screens /\ list[p] # NoRow /\ (list[p] = list[i] <=> p = i)
  BY ListRows
<1>2. j = i \/ IsDescendantOf(par, list[j], list[i]) <=> j \in i..(e - 1)
  BY FamilyIsRun
<1>3. p = i \/ IsDescendantOf(par, list[p], list[i]) <=> p \in i..(e - 1)
  BY FamilyIsRun
<1>4. IsDescendantOf(par, list[j], list[i])
         <=> list[p] = list[i] \/ (list[p] # NoRow /\ IsDescendantOf(par, list[p], list[i]))
  BY <1>1, DescendantStep
<1> QED BY <1>1, <1>2, <1>3, <1>4

\* The position of row j after the rows i..e-1 were moved to place t.
MoveTo(i, e, t, j) == IF t <= i THEN SwapTo(t, i, e, j) ELSE SwapTo(i, e, t, j)

\* The list after that move.
IsMove(list, new, i, e, t) ==
    /\ new \in Seq(Screens)
    /\ Len(new) = Len(list)
    /\ \A j \in 1..Len(list) : new[MoveTo(i, e, t, j)] = list[j]

\* A move is one to one; it keeps the order within the block and within the
\* rest, and the block comes after exactly those that were before place t.
LEMMA MoveOrder ==
    ASSUME NEW n \in Nat, NEW i \in 1..n, NEW e \in (i + 1)..(n + 1), NEW t \in 1..(n + 1),
           t <= i \/ t >= e
    PROVE  /\ \A j \in 1..n : MoveTo(i, e, t, j) \in 1..n
           /\ \A k \in 1..n : \E j \in 1..n : MoveTo(i, e, t, j) = k
           /\ \A j, k \in 1..n : MoveTo(i, e, t, j) = MoveTo(i, e, t, k) => j = k
           /\ \A j, k \in 1..n : (j \in i..(e - 1) <=> k \in i..(e - 1))
                 => (j < k <=> MoveTo(i, e, t, j) < MoveTo(i, e, t, k))
           /\ \A j, k \in 1..n : j \notin i..(e - 1) /\ k \in i..(e - 1)
                 => (j < t <=> MoveTo(i, e, t, j) < MoveTo(i, e, t, k))
<1>1. CASE t <= i
  <2>1. t \in 1..(n + 1) /\ i \in t..(n + 1) /\ e \in i..(n + 1)
    BY <1>1
  <2>2. \A j \in 1..n : MoveTo(i, e, t, j) = SwapTo(t, i, e, j)
    BY <1>1 DEF MoveTo
  <2>3. /\ \A j \in 1..n : SwapTo(t, i, e, j) \in 1..n
        /\ \A j, k \in 1..n : SwapTo(t, i, e, j) = SwapTo(t, i, e, k) => j = k
        /\ \A k \in 1..n : \E j \in 1..n : SwapTo(t, i, e, j) = k
    BY <2>1, SwapOnce, ZenonT(90)
  <2>4. \A j, k \in 1..n : (j \in i..(e - 1) <=> k \in i..(e - 1))
                 => (j < k <=> SwapTo(t, i, e, j) < SwapTo(t, i, e, k))
    BY <1>1 DEF SwapTo
  <2>5. \A j, k \in 1..n : j \notin i..(e - 1) /\ k \in i..(e - 1)
                 => (j < t <=> SwapTo(t, i, e, j) < SwapTo(t, i, e, k))
    BY <1>1 DEF SwapTo
  <2> QED BY <2>2, <2>3, <2>4, <2>5
<1>2. CASE ~(t <= i)
  <2>1. i \in 1..(n + 1) /\ e \in i..(n + 1) /\ t \in e..(n + 1)
    BY <1>2
  <2>2. \A j \in 1..n : MoveTo(i, e, t, j) = SwapTo(i, e, t, j)
    BY <1>2 DEF MoveTo
  <2>3. /\ \A j \in 1..n : SwapTo(i, e, t, j) \in 1..n
        /\ \A j, k \in 1..n : SwapTo(i, e, t, j) = SwapTo(i, e, t, k) => j = k
        /\ \A k \in 1..n : \E j \in 1..n : SwapTo(i, e, t, j) = k
    BY <2>1, SwapOnce, ZenonT(90)
  <2>4. \A j, k \in 1..n : (j \in i..(e - 1) <=> k \in i..(e - 1))
                 => (j < k <=> SwapTo(i, e, t, j) < SwapTo(i, e, t, k))
    BY <2>1 DEF SwapTo
  <2>5. \A j, k \in 1..n : j \notin i..(e - 1) /\ k \in i..(e - 1)
                 => (j < t <=> SwapTo(i, e, t, j) < SwapTo(i, e, t, k))
    BY <2>1 DEF SwapTo
  <2> QED BY <2>2, <2>3, <2>4, <2>5
<1> QED BY <1>1, <1>2

\* What the code computes is a move, to place t or to the end.
LEMMA MovedIsMove ==
    ASSUME NEW list, NEW par, NEW depth, PreOrdered(list, par, depth),
           NEW i \in 1..Len(list), NEW e, e = SubtreeEnd(list, par, i),
           NEW t \in 1..(Len(list) + 1), t <= i \/ t >= e
    PROVE  /\ IsMove(list, Moved(list, par, list[i], t), i, e, t)
           /\ IsMove(list, Moved(list, par, list[i], 0), i, e, Len(list) + 1)
<1>1. Len(list) \in Nat /\ e \in (i + 1)..(Len(list) + 1)
  BY ListRows, EndIs DEF EndsAt
<1>2. /\ IF t <= i THEN IsSwap(list, Moved(list, par, list[i], t), t, i, e)
         ELSE IsSwap(list, Moved(list, par, list[i], t), i, e, t)
      /\ IsSwap(list, Moved(list, par, list[i], 0), i, e, Len(list) + 1)
  BY MovedIs
<1>3. ~(Len(list) + 1 <= i)
  BY <1>1
<1> QED BY <1>2, <1>3 DEF IsSwap, IsMove, MoveTo

\* A place t and a parent at depth nd - 1 for the run i..e-1: nobody's children
\* are split, and the rows from the parent to the place are its family.
Fits(list, par, depth, i, e, t, q, nd) ==
    /\ t \in 1..(Len(list) + 1)
    /\ t <= i \/ t >= e
    /\ \A p, j \in 1..Len(list) \ i..(e - 1) :
          par[list[j]] = list[p] /\ p < t /\ t <= j => nd > depth[list[p]]
    /\ \/ q = NoRow /\ nd = 0
       \/ \E p \in 1..Len(list) \ i..(e - 1) :
             /\ p < t /\ q = list[p] /\ nd = depth[list[p]] + 1
             /\ \A k \in 1..Len(list) \ i..(e - 1) : p < k /\ k < t => depth[list[k]] > depth[list[p]]

\* The depths when the run i..e-1 is put at depth nd.
Shifted(list, depth, i, e, nd) ==
    [r \in Screens |-> IF \E k \in i..(e - 1) : r = list[k]
                       THEN depth[r] - depth[list[i]] + nd ELSE depth[r]]

\* A family that fits leaves a traversal when it is moved and linked there.
LEMMA MoveKeepsOrder ==
    ASSUME NEW list, NEW par, NEW depth, PreOrdered(list, par, depth),
           NEW i \in 1..Len(list), NEW e, EndsAt(list, depth, i, e),
           NEW t, NEW q \in Screens \cup {NoRow}, NEW nd \in Nat,
           Fits(list, par, depth, i, e, t, q, nd),
           NEW new, IsMove(list, new, i, e, t)
    PROVE  PreOrdered(new, [par EXCEPT ![list[i]] = q], Shifted(list, depth, i, e, nd))
<1> DEFINE n == Len(list)
           To(j) == MoveTo(i, e, t, j)
           par2 == [par EXCEPT ![list[i]] = q]
           d2 == Shifted(list, depth, i, e, nd)
           In(j) == j \in i..(e - 1)
<1>1. /\ n \in Nat /\ DOMAIN list = 1..n /\ list \in Seq(Screens)
      /\ par \in [Screens -> Screens \cup {NoRow}] /\ depth \in [Screens -> Nat]
  BY ListRows DEF PreOrdered
<1>2. \A j \in 1..n : list[j] \in Screens /\ list[j] # NoRow /\ depth[list[j]] \in Nat
  BY ListRows
<1>3. \A j, k \in 1..n : list[j] = list[k] => j = k
  BY <1>1 DEF PreOrdered
<1>4. e \in (i + 1)..(n + 1) /\ t \in 1..(n + 1) /\ (t <= i \/ t >= e)
  BY DEF EndsAt, Fits
<1>5. /\ \A j \in 1..n : To(j) \in 1..n
      /\ \A k \in 1..n : \E j \in 1..n : To(j) = k
      /\ \A j, k \in 1..n : To(j) = To(k) => j = k
      /\ \A j, k \in 1..n : (In(j) <=> In(k)) => (j < k <=> To(j) < To(k))
      /\ \A j, k \in 1..n : ~In(j) /\ In(k) => (j < t <=> To(j) < To(k))
  BY <1>1, <1>4, MoveOrder
<1>6. new \in Seq(Screens) /\ Len(new) = n /\ \A j \in 1..n : new[To(j)] = list[j]
  BY DEF IsMove
<1>7. DOMAIN new = 1..n
  BY <1>6, LenProperties
<1>8. In(i) /\ \A k : In(k) => k \in 1..n /\ (k = i \/ k \in (i + 1)..(e - 1))
  BY <1>1, <1>4
<1>9. \A k : k \in (i + 1)..(e - 1) => depth[list[k]] > depth[list[i]]
  BY DEF EndsAt
<1>10. \A j \in 1..n : /\ In(j) => d2[list[j]] = depth[list[j]] - depth[list[i]] + nd
                       /\ ~In(j) => d2[list[j]] = depth[list[j]]
  BY <1>2, <1>3, <1>8 DEF Shifted
<1>11. ASSUME NEW j \in 1..n, In(j) PROVE d2[list[j]] >= nd /\ depth[list[j]] >= depth[list[i]]
  <2>1. depth[list[j]] \in Nat /\ depth[list[i]] \in Nat
    BY <1>2
  <2>2. j = i \/ depth[list[j]] > depth[list[i]]
    BY <1>8, <1>9, <1>11
  <2>3. depth[list[j]] >= depth[list[i]]
    BY <2>1, <2>2
  <2>4. d2[list[j]] = depth[list[j]] - depth[list[i]] + nd
    BY <1>10, <1>11
  <2> HIDE DEF d2
  <2> QED BY <2>1, <2>3, <2>4
<1>12. d2 \in [Screens -> Nat]
  <2> SUFFICES ASSUME NEW r \in Screens PROVE d2[r] \in Nat
    BY DEF Shifted
  <2>1. CASE \E k \in i..(e - 1) : r = list[k]
    <3>1. PICK k \in i..(e - 1) : r = list[k]
      BY <2>1
    <3>2. k \in 1..n
      BY <1>8
    <3>3. depth[list[k]] \in Nat /\ depth[list[i]] \in Nat /\ depth[list[k]] >= depth[list[i]]
      BY <1>2, <1>11, <3>2
    <3> QED BY <1>10, <3>1, <3>2, <3>3
  <2>2. CASE ~\E k \in i..(e - 1) : r = list[k]
    BY <1>1, <2>2 DEF Shifted
  <2> QED BY <2>1, <2>2
<1>13. par2 \in [Screens -> Screens \cup {NoRow}] /\ par2[list[i]] = q
       /\ \A j \in 1..n : j # i => par2[list[j]] = par[list[j]]
  BY <1>1, <1>2, <1>3
<1> HIDE DEF n, To, par2, d2, In
<1>14. ASSUME NEW j \in 1..n, NEW p \in 1..n,
              To(p) < To(j), par2[list[j]] = list[p], d2[list[j]] = d2[list[p]] + 1,
              \A k \in 1..n : To(p) < To(k) /\ To(k) < To(j) => d2[list[k]] > d2[list[p]]
       PROVE  \E m \in 1..(To(j) - 1) :
                 /\ par2[new[To(j)]] = new[m]
                 /\ d2[new[To(j)]] = d2[new[m]] + 1
                 /\ \A k \in (m + 1)..(To(j) - 1) : d2[new[k]] > d2[new[m]]
  <2>1. To(p) \in 1..(To(j) - 1) /\ new[To(p)] = list[p] /\ new[To(j)] = list[j] /\ To(j) \in 1..n
    BY <1>1, <1>5, <1>6, <1>14
  <2>2. ASSUME NEW k \in (To(p) + 1)..(To(j) - 1) PROVE d2[new[k]] > d2[new[To(p)]]
    <3>0. n \in Nat /\ To(p) \in 1..n /\ To(j) \in 1..n
      BY <1>1, <1>5
    <3>1. k \in 1..n /\ To(p) < k /\ k < To(j)
      BY <3>0
    <3>2. PICK m \in 1..n : To(m) = k
      BY <1>5, <3>1
    <3>3. new[k] = list[m] /\ d2[list[m]] > d2[list[p]]
      BY <1>6, <1>14, <3>1, <3>2
    <3> QED BY <2>1, <3>3
  <2> QED BY <1>14, <2>1, <2>2
<1> DEFINE Placed(j) == \/ par2[list[j]] = NoRow /\ d2[list[j]] = 0
                        \/ \E p \in 1..n :
                              /\ To(p) < To(j) /\ par2[list[j]] = list[p]
                              /\ d2[list[j]] = d2[list[p]] + 1
                              /\ \A k \in 1..n : To(p) < To(k) /\ To(k) < To(j)
                                                    => d2[list[k]] > d2[list[p]]
<1>15. Placed(i)
  <2>1. CASE q = NoRow /\ nd = 0
    BY <1>2, <1>8, <1>10, <1>13, <2>1
  <2>2. CASE \E p \in 1..n \ i..(e - 1) :
             /\ p < t /\ q = list[p] /\ nd = depth[list[p]] + 1
             /\ \A k \in 1..n \ i..(e - 1) : p < k /\ k < t => depth[list[k]] > depth[list[p]]
    <3>1. PICK p \in 1..n \ i..(e - 1) :
             /\ p < t /\ q = list[p] /\ nd = depth[list[p]] + 1
             /\ \A k \in 1..n \ i..(e - 1) : p < k /\ k < t => depth[list[k]] > depth[list[p]]
      BY <2>2
    <3>2. ~In(p) /\ p \in 1..n /\ i \in 1..n
      BY DEF In, n
    <3>3. To(p) < To(i)
      BY <1>5, <1>8, <3>1, <3>2
    <3>4. d2[list[i]] = nd /\ d2[list[p]] = depth[list[p]] /\ par2[list[i]] = list[p]
      BY <1>2, <1>8, <1>10, <1>13, <3>1, <3>2
    <3>5. ASSUME NEW k \in 1..n, To(p) < To(k), To(k) < To(i) PROVE d2[list[k]] > d2[list[p]]
      <4>1. ~In(k)
        <5> SUFFICES ASSUME In(k) PROVE FALSE
          OBVIOUS
        <5>1. k < i
          BY <1>5, <1>8, <3>2, <3>5
        <5> QED BY <1>1, <1>4, <5>1 DEF In
      <4>2. p < k /\ k < t
        BY <1>5, <1>8, <3>2, <3>5, <4>1
      <4>3. depth[list[k]] > depth[list[p]]
        BY <3>1, <4>1, <4>2 DEF In
      <4> QED BY <1>10, <3>4, <4>1, <4>3
    <3> QED BY <3>1, <3>2, <3>3, <3>4, <3>5
  <2> QED BY <2>1, <2>2 DEF Fits, n
<1>16. ASSUME NEW j \in 1..n, In(j), j # i PROVE Placed(j)
  <2>1. depth[list[j]] > depth[list[i]] /\ depth[list[j]] \in Nat /\ depth[list[i]] \in Nat
    BY <1>2, <1>8, <1>9, <1>16
  <2>2. par[list[j]] # NoRow
    <3> SUFFICES ASSUME par[list[j]] = NoRow PROVE FALSE
      OBVIOUS
    <3>1. depth[list[j]] = 0
      BY RootRow DEF n
    <3> QED BY <2>1, <3>1
  <2>3. PICK p \in 1..(j - 1) :
          /\ p \in 1..n /\ p < j
          /\ par[list[j]] = list[p]
          /\ depth[list[j]] = depth[list[p]] + 1
          /\ \A k \in (p + 1)..(j - 1) : depth[list[k]] > depth[list[p]]
    BY <2>2, ParentRow DEF n
  <2>4. In(p)
    BY <1>16, <2>3, RunClosed DEF n, In
  <2>5. To(p) < To(j)
    BY <1>5, <1>16, <2>3, <2>4
  <2>6. par2[list[j]] = list[p]
    BY <1>13, <1>16, <2>3
  <2>7. d2[list[j]] = d2[list[p]] + 1
    <3>1. depth[list[p]] \in Nat
      BY <1>2, <2>3
    <3>2. d2[list[j]] = depth[list[j]] - depth[list[i]] + nd /\ d2[list[p]] = depth[list[p]] - depth[list[i]] + nd
      BY <1>10, <1>16, <2>3, <2>4
    <3> QED BY <2>1, <2>3, <3>1, <3>2
  <2>8. ASSUME NEW k \in 1..n, To(p) < To(k), To(k) < To(j) PROVE d2[list[k]] > d2[list[p]]
    <3>1. In(k)
      <4> SUFFICES ASSUME ~In(k) PROVE FALSE
        OBVIOUS
      <4>1. k < t
        BY <1>5, <1>16, <2>8
      <4>2. To(k) < To(p)
        BY <1>5, <2>3, <2>4, <4>1
      <4>3. To(k) \in 1..n /\ To(p) \in 1..n
        BY <1>5, <2>3
      <4> QED BY <1>1, <2>8, <4>2, <4>3
    <3>2. p < k /\ k < j
      BY <1>5, <1>16, <2>3, <2>4, <2>8, <3>1
    <3>3. depth[list[k]] > depth[list[p]] /\ depth[list[k]] \in Nat /\ depth[list[p]] \in Nat
      <4>1. k \in (p + 1)..(j - 1)
        BY <1>1, <2>3, <3>2
      <4> QED BY <1>2, <2>3, <4>1
    <3>4. d2[list[k]] = depth[list[k]] - depth[list[i]] + nd /\ d2[list[p]] = depth[list[p]] - depth[list[i]] + nd
      BY <1>10, <2>3, <2>4, <3>1
    <3>5. \A x, y, z, w \in Nat : x > y => x - z + w > y - z + w
      OBVIOUS
    <3>6. depth[list[k]] - depth[list[i]] + nd > depth[list[p]] - depth[list[i]] + nd
      BY <2>1, <3>3, <3>5
    <3> QED BY <3>4, <3>6
  <2> QED BY <2>3, <2>5, <2>6, <2>7, <2>8
<1>17. ASSUME NEW j \in 1..n, ~In(j) PROVE Placed(j)
  <2>1. j # i /\ par2[list[j]] = par[list[j]] /\ d2[list[j]] = depth[list[j]]
    BY <1>8, <1>10, <1>13, <1>17
  <2>2. CASE par[list[j]] = NoRow
    <3>1. depth[list[j]] = 0
      BY <2>2, RootRow DEF n
    <3> QED BY <2>1, <2>2, <3>1
  <2>3. CASE par[list[j]] # NoRow
    <3>1. PICK p \in 1..(j - 1) :
            /\ p \in 1..n /\ p < j
            /\ par[list[j]] = list[p]
            /\ depth[list[j]] = depth[list[p]] + 1
            /\ \A k \in (p + 1)..(j - 1) : depth[list[k]] > depth[list[p]]
      BY <2>3, ParentRow DEF n
    <3>2. ~In(p)
      BY <1>17, <2>1, <3>1, RunClosed DEF n, In
    <3>3. To(p) < To(j) /\ d2[list[p]] = depth[list[p]]
      BY <1>5, <1>10, <1>17, <3>1, <3>2
    <3>4. ASSUME NEW k \in 1..n, To(p) < To(k), To(k) < To(j) PROVE d2[list[k]] > d2[list[p]]
      <4>1. CASE ~In(k)
        <5>1. p < k /\ k < j
          BY <1>5, <1>17, <3>1, <3>2, <3>4, <4>1
        <5>2. depth[list[k]] > depth[list[p]]
          BY <1>1, <3>1, <5>1
        <5> QED BY <1>10, <3>3, <4>1, <5>2
      <4>2. CASE In(k)
        <5>1. p < t
          BY <1>5, <3>1, <3>2, <3>4, <4>2
        <5>2. ~(j < t)
          <6> SUFFICES ASSUME j < t PROVE FALSE
            OBVIOUS
          <6>1. To(j) < To(k)
            BY <1>5, <1>17, <4>2
          <6>2. To(k) \in 1..n /\ To(j) \in 1..n
            BY <1>5
          <6> QED BY <1>1, <3>4, <6>1, <6>2
        <5>3. t <= j
          BY <1>1, <1>4, <5>2
        <5>4. nd > depth[list[p]]
          BY <1>17, <3>1, <3>2, <5>1, <5>3 DEF Fits, In, n
        <5>5. d2[list[k]] >= nd /\ d2[list[k]] \in Nat /\ depth[list[p]] \in Nat
          BY <1>2, <1>11, <1>12, <3>1, <4>2
        <5> QED BY <3>3, <5>4, <5>5
      <4> QED BY <4>1, <4>2
    <3> QED BY <2>1, <3>1, <3>3, <3>4
  <2> QED BY <2>2, <2>3
<1>18. \A j \in 1..n : Placed(j)
  BY <1>15, <1>16, <1>17
<1>19. ASSUME NEW k \in 1..n
       PROVE  \/ par2[new[k]] = NoRow /\ d2[new[k]] = 0
              \/ \E m \in 1..(k - 1) :
                    /\ par2[new[k]] = new[m]
                    /\ d2[new[k]] = d2[new[m]] + 1
                    /\ \A x \in (m + 1)..(k - 1) : d2[new[x]] > d2[new[m]]
  <2>1. PICK j \in 1..n : To(j) = k
    BY <1>5
  <2>2. new[k] = list[j]
    BY <1>6, <2>1
  <2>3. Placed(j)
    BY <1>18
  <2>4. CASE par2[list[j]] = NoRow /\ d2[list[j]] = 0
    BY <2>2, <2>4
  <2>5. CASE \E p \in 1..n : /\ To(p) < To(j) /\ par2[list[j]] = list[p]
                             /\ d2[list[j]] = d2[list[p]] + 1
                             /\ \A x \in 1..n : To(p) < To(x) /\ To(x) < To(j)
                                                   => d2[list[x]] > d2[list[p]]
    <3>1. \E m \in 1..(To(j) - 1) :
                 /\ par2[new[To(j)]] = new[m]
                 /\ d2[new[To(j)]] = d2[new[m]] + 1
                 /\ \A x \in (m + 1)..(To(j) - 1) : d2[new[x]] > d2[new[m]]
      BY <1>14, <2>5
    <3> QED BY <2>1, <3>1
  <2> QED BY <2>3, <2>4, <2>5
<1>20. ASSUME NEW k \in 1..n, NEW m \in 1..n, new[k] = new[m] PROVE k = m
  <2>1. PICK j \in 1..n : To(j) = k
    BY <1>5
  <2>2. PICK x \in 1..n : To(x) = m
    BY <1>5
  <2> QED BY <1>3, <1>6, <1>20, <2>1, <2>2
<1>21. PreOrdered(new, par2, d2)
  BY <1>6, <1>7, <1>12, <1>13, <1>19, <1>20 DEF PreOrdered
<1> QED BY <1>21 DEF par2, d2

\* A run ends at one place.
LEMMA OneEnd ==
    ASSUME NEW list, NEW par, NEW depth, PreOrdered(list, par, depth),
           NEW i \in 1..Len(list), NEW e, EndsAt(list, depth, i, e), NEW f, EndsAt(list, depth, i, f)
    PROVE  e = f
<1>1. /\ Len(list) \in Nat /\ depth[list[i]] \in Nat
      /\ \A k \in 1..Len(list) : depth[list[k]] \in Nat
  BY ListRows
<1>2. /\ e \in (i + 1)..(Len(list) + 1) /\ f \in (i + 1)..(Len(list) + 1)
      /\ \A k \in (i + 1)..(e - 1) : depth[list[k]] > depth[list[i]]
      /\ \A k \in (i + 1)..(f - 1) : depth[list[k]] > depth[list[i]]
      /\ e <= Len(list) => depth[list[e]] <= depth[list[i]]
      /\ f <= Len(list) => depth[list[f]] <= depth[list[i]]
  BY DEF EndsAt
<1>3. ~(e < f)
  <2> SUFFICES ASSUME e < f PROVE FALSE
    OBVIOUS
  <2>1. e \in (i + 1)..(f - 1) /\ e \in 1..Len(list) /\ e <= Len(list)
    BY <1>1, <1>2
  <2> QED BY <1>1, <1>2, <2>1
<1>4. ~(f < e)
  <2> SUFFICES ASSUME f < e PROVE FALSE
    OBVIOUS
  <2>1. f \in (i + 1)..(e - 1) /\ f \in 1..Len(list) /\ f <= Len(list)
    BY <1>1, <1>2
  <2> QED BY <1>1, <1>2, <2>1
<1> QED BY <1>1, <1>2, <1>3, <1>4

\* Two runs are nested or apart: no place at a row outside a run, or at the end
\* of its run, is within the run.
LEMMA RunsNest ==
    ASSUME NEW list, NEW par, NEW depth, PreOrdered(list, par, depth),
           NEW i \in 1..Len(list), NEW e, EndsAt(list, depth, i, e),
           NEW x \in 1..Len(list), NEW f, EndsAt(list, depth, x, f),
           x \in i..(e - 1) => x = i
    PROVE  (x <= i \/ x >= e) /\ (f <= i \/ f >= e)
<1>1. Len(list) \in Nat /\ \A k \in 1..Len(list) : depth[list[k]] \in Nat
  BY ListRows
<1>2. /\ e \in (i + 1)..(Len(list) + 1) /\ f \in (x + 1)..(Len(list) + 1)
      /\ \A k \in (i + 1)..(e - 1) : depth[list[k]] > depth[list[i]]
      /\ \A k \in (x + 1)..(f - 1) : depth[list[k]] > depth[list[x]]
      /\ f <= Len(list) => depth[list[f]] <= depth[list[x]]
  BY DEF EndsAt
<1>3. x <= i \/ x >= e
  BY <1>1, <1>2
<1>4. CASE x >= e
  BY <1>1, <1>2, <1>3, <1>4
<1>5. CASE x <= i
  <2> SUFFICES ASSUME i < f, f < e PROVE FALSE
    BY <1>1, <1>2, <1>3
  <2>1. f \in 1..Len(list) /\ f \in (i + 1)..(e - 1) /\ f <= Len(list)
    BY <1>1, <1>2
  <2>2. depth[list[f]] > depth[list[i]] /\ depth[list[f]] <= depth[list[x]]
    BY <1>2, <2>1
  <2>3. x = i \/ i \in (x + 1)..(f - 1)
    BY <1>1, <1>2, <1>5
  <2>4. depth[list[i]] >= depth[list[x]]
    BY <1>1, <1>2, <2>3
  <2>5. depth[list[f]] \in Nat /\ depth[list[i]] \in Nat /\ depth[list[x]] \in Nat
    BY <1>1, <2>1
  <2> QED BY <2>2, <2>4, <2>5
<1> QED BY <1>3, <1>4, <1>5

\* Where a drop puts a family, it fits.
LEMMA DropFits ==
    ASSUME NEW list, NEW par, NEW depth, PreOrdered(list, par, depth),
           NEW i \in 1..Len(list), NEW e, EndsAt(list, depth, i, e),
           NEW x \in 1..Len(list), NEW f, EndsAt(list, depth, x, f),
           x \in i..(e - 1) => x = i, NEW zone \in Zones, zone = "child" => x # i
    PROVE  Fits(list, par, depth, i, e, IF zone = "before" THEN x ELSE f,
                IF zone = "child" THEN list[x] ELSE par[list[x]],
                IF zone = "child" THEN depth[list[x]] + 1 ELSE depth[list[x]])
<1> DEFINE n == Len(list)
           t == IF zone = "before" THEN x ELSE f
           q == IF zone = "child" THEN list[x] ELSE par[list[x]]
           nd == IF zone = "child" THEN depth[list[x]] + 1 ELSE depth[list[x]]
           Outside == 1..n \ i..(e - 1)
<1>1. n \in Nat /\ \A k \in 1..n : depth[list[k]] \in Nat /\ list[k] # NoRow
  BY ListRows
<1>2. /\ e \in (i + 1)..(n + 1) /\ f \in (x + 1)..(n + 1)
      /\ \A k \in (x + 1)..(f - 1) : depth[list[k]] > depth[list[x]]
      /\ f <= n => depth[list[f]] <= depth[list[x]]
  BY DEF EndsAt
<1>3. (x <= i \/ x >= e) /\ (f <= i \/ f >= e)
  BY RunsNest
<1>4. /\ t \in 1..(n + 1) /\ (t <= i \/ t >= e) /\ x <= t
      /\ zone = "before" => t = x
      /\ zone # "before" => t = f
  BY <1>1, <1>2, <1>3
<1>5. nd \in Nat /\ nd >= depth[list[x]]
  BY <1>1
<1> HIDE DEF t, nd
<1>6. ASSUME NEW p \in Outside, NEW j \in Outside, par[list[j]] = list[p], p < t, t <= j
      PROVE  nd > depth[list[p]]
  <2>1. p \in 1..n /\ j \in 1..n /\ depth[list[p]] \in Nat /\ depth[list[x]] \in Nat
    BY <1>1
  <2>2. par[list[j]] # NoRow
    BY <1>1, <1>6, <2>1
  <2>3. PICK m \in 1..(j - 1) :
          /\ m \in 1..n /\ m < j
          /\ par[list[j]] = list[m]
          /\ depth[list[j]] = depth[list[m]] + 1
          /\ \A k \in (m + 1)..(j - 1) : depth[list[k]] > depth[list[m]]
    BY <2>1, <2>2, ParentRow
  <2>4. m = p
    <3>1. RowIndex(list, list[m]) = m /\ RowIndex(list, list[p]) = p
      BY <2>1, <2>3, ListRows
    <3> QED BY <1>6, <2>3, <3>1
  <2>5. ASSUME NEW k \in 1..n, p < k, k <= j PROVE depth[list[k]] > depth[list[p]]
    <3>1. k = j \/ k \in (p + 1)..(j - 1)
      BY <1>1, <2>1, <2>5
    <3> QED BY <2>1, <2>3, <2>4, <3>1
  <2>6. CASE p < x
    <3>1. x <= j
      BY <1>1, <1>2, <1>4, <1>6, <2>1
    <3>2. depth[list[x]] > depth[list[p]]
      BY <2>5, <2>6, <3>1
    <3> QED BY <1>5, <2>1, <3>2
  <2>7. CASE ~(p < x)
    <3>1. t = f /\ f \in 1..n /\ p < f /\ f <= j /\ f <= n
      BY <1>1, <1>2, <1>4, <1>6, <2>1, <2>7
    <3>2. depth[list[f]] > depth[list[p]] /\ depth[list[f]] <= depth[list[x]] /\ depth[list[f]] \in Nat
      BY <1>1, <1>2, <2>5, <3>1
    <3>3. p = x \/ p \in (x + 1)..(f - 1)
      BY <1>1, <1>2, <2>1, <2>7, <3>1
    <3>4. depth[list[p]] >= depth[list[x]]
      BY <1>2, <2>1, <3>3, SMTT(90)
    <3> QED BY <2>1, <3>2, <3>4
  <2> QED BY <2>6, <2>7
<1>7. \/ q = NoRow /\ nd = 0
      \/ \E p \in Outside : /\ p < t /\ q = list[p] /\ nd = depth[list[p]] + 1
                            /\ \A k \in Outside : p < k /\ k < t => depth[list[k]] > depth[list[p]]
  <2>1. CASE zone = "child"
    <3>1. x \in Outside /\ x < t /\ q = list[x] /\ nd = depth[list[x]] + 1
      BY <1>1, <1>2, <1>4, <2>1 DEF nd
    <3>2. ASSUME NEW k \in Outside, x < k, k < t PROVE depth[list[k]] > depth[list[x]]
      <4>1. k \in (x + 1)..(f - 1)
        BY <1>1, <1>2, <1>4, <2>1, <3>2
      <4> QED BY <1>2, <4>1
    <3> QED BY <3>1, <3>2
  <2>2. CASE zone # "child"
    <3>1. q = par[list[x]] /\ nd = depth[list[x]]
      BY <2>2 DEF nd
    <3>2. CASE par[list[x]] = NoRow
      BY <3>1, <3>2, RootRow
    <3>3. CASE par[list[x]] # NoRow
      <4>1. PICK p \in 1..(x - 1) :
              /\ p \in 1..n /\ p < x
              /\ par[list[x]] = list[p]
              /\ depth[list[x]] = depth[list[p]] + 1
              /\ \A k \in (p + 1)..(x - 1) : depth[list[k]] > depth[list[p]]
        BY <3>3, ParentRow
      <4>2. p \in Outside
        <5>1. CASE x = i
          BY <1>1, <4>1, <5>1
        <5>2. CASE x # i
          <6>1. x \notin i..(e - 1)
            BY <5>2
          <6> QED BY <4>1, <5>2, <6>1, RunClosed
        <5> QED BY <5>1, <5>2
      <4>3. ASSUME NEW k \in Outside, p < k, k < t PROVE depth[list[k]] > depth[list[p]]
        <5>1. depth[list[k]] \in Nat /\ depth[list[p]] \in Nat /\ depth[list[x]] \in Nat /\ k \in 1..n
          BY <1>1, <4>1
        <5>2. k \in (p + 1)..(x - 1) \/ k = x \/ k \in (x + 1)..(f - 1)
          BY <1>1, <1>2, <1>4, <4>1, <4>3
        <5> QED BY <1>2, <4>1, <5>1, <5>2, SMTT(90)
      <4>4. p < t
        BY <1>1, <1>4, <4>1
      <4> QED BY <3>1, <4>1, <4>2, <4>3, <4>4
    <3> QED BY <3>2, <3>3
  <2> QED BY <2>1, <2>2
<1>8. Fits(list, par, depth, i, e, t, q, nd)
  BY <1>4, <1>6, <1>7 DEF Fits
<1> QED BY <1>8 DEF t, nd

\* A family fits at the end of the list, as a root.
LEMMA EndFits ==
    ASSUME NEW list, NEW par, NEW depth, PreOrdered(list, par, depth),
           NEW i \in 1..Len(list), NEW e, EndsAt(list, depth, i, e)
    PROVE  Fits(list, par, depth, i, e, Len(list) + 1, NoRow, 0)
<1>1. Len(list) \in Nat /\ e \in (i + 1)..(Len(list) + 1)
  BY ListRows DEF EndsAt
<1>2. Len(list) + 1 \in 1..(Len(list) + 1) /\ Len(list) + 1 >= e
      /\ \A j \in 1..Len(list) : ~(Len(list) + 1 <= j)
  BY <1>1
<1> QED BY <1>2 DEF Fits

-----------------------------------------------------------------------------
(* Indentation. *)

\* Only the depths of listed rows matter.
LEMMA SameDepths ==
    ASSUME NEW list, NEW par, NEW depth, PreOrdered(list, par, depth),
           NEW other \in [Screens -> Nat], \A k \in 1..Len(list) : other[list[k]] = depth[list[k]]
    PROVE  PreOrdered(list, par, other)
<1>1. Len(list) \in Nat /\ DOMAIN list = 1..Len(list)
  BY ListRows
<1>2. ASSUME NEW j \in 1..Len(list)
      PROVE  \/ par[list[j]] = NoRow /\ other[list[j]] = 0
             \/ \E i \in 1..(j - 1) :
                   /\ par[list[j]] = list[i]
                   /\ other[list[j]] = other[list[i]] + 1
                   /\ \A k \in (i + 1)..(j - 1) : other[list[k]] > other[list[i]]
  <2>1. CASE par[list[j]] = NoRow
    BY <2>1, RootRow
  <2>2. CASE par[list[j]] # NoRow
    <3>1. PICK i \in 1..(j - 1) :
            /\ i \in 1..Len(list) /\ i < j
            /\ par[list[j]] = list[i]
            /\ depth[list[j]] = depth[list[i]] + 1
            /\ \A k \in (i + 1)..(j - 1) : depth[list[k]] > depth[list[i]]
      BY <2>2, ParentRow
    <3>2. \A k \in (i + 1)..(j - 1) : k \in 1..Len(list)
      BY <1>1, <3>1
    <3> QED BY <3>1, <3>2
  <2> QED BY <2>1, <2>2
<1> QED BY <1>1, <1>2 DEF PreOrdered

\* The rows of a subtree, by position.
LEMMA SubtreeRange ==
    ASSUME NEW list, NEW par, NEW depth, PreOrdered(list, par, depth),
           NEW i \in 1..Len(list), NEW e, EndsAt(list, depth, i, e),
           NEW j \in 1..Len(list)
    PROVE  list[j] \in Range(Subtree(list, par, list[i])) <=> j \in i..(e - 1)
<1> DEFINE run == SubSeq(list, i, e - 1)
<1>1. /\ Len(list) \in Nat /\ RowIndex(list, list[i]) = i
      /\ \A k \in 1..Len(list) : list[k] \in Screens /\ RowIndex(list, list[k]) = k
  BY ListRows
<1>2. SubtreeEnd(list, par, i) = e
  BY EndIs, OneEnd
<1>3. Subtree(list, par, list[i]) = run
  BY <1>1, <1>2 DEF Subtree
<1>4. e \in (i + 1)..(Len(list) + 1)
  BY DEF EndsAt
<1>5. /\ run \in Seq(Screens) /\ Len(run) = e - i
      /\ \A k \in 1..(e - i) : run[k] = list[i + k - 1]
  <2>1. \A k \in i..(e - 1) : list[k] \in Screens
    BY <1>1, <1>4
  <2>2. i \in Int /\ e - 1 \in Int /\ i <= e - 1 /\ (e - 1) - i + 1 = e - i
    BY <1>1, <1>4
  <2>3. /\ run \in Seq(Screens) /\ Len(run) = IF i <= e - 1 THEN (e - 1) - i + 1 ELSE 0
        /\ \A k \in 1..((e - 1) - i + 1) : run[k] = list[i + k - 1]
    BY <2>1, <2>2, SubSeqProperties
  <2> QED BY <2>2, <2>3
<1>6. DOMAIN run = 1..(e - i)
  BY <1>5, LenProperties
<1> HIDE DEF run
<1>7. ASSUME j \in i..(e - 1) PROVE list[j] \in Range(run)
  <2>1. j - i + 1 \in 1..(e - i) /\ i + (j - i + 1) - 1 = j
    BY <1>1, <1>4, <1>7
  <2>2. run[j - i + 1] = list[i + (j - i + 1) - 1]
    BY <1>5, <2>1
  <2> QED BY <1>6, <2>1, <2>2 DEF Range
<1>8. ASSUME list[j] \in Range(run) PROVE j \in i..(e - 1)
  <2>1. PICK k \in 1..(e - i) : run[k] = list[j]
    BY <1>6, <1>8 DEF Range
  <2>2. i + k - 1 \in i..(e - 1) /\ i + k - 1 \in 1..Len(list)
    BY <1>1, <1>4
  <2>3. list[i + k - 1] = list[j]
    BY <1>5, <2>1
  <2>4. i + k - 1 = j
    BY <1>1, <2>2, <2>3
  <2> QED BY <2>2, <2>4
<1> QED BY <1>3, <1>7, <1>8

\* A family that is moved is drawn again, all of it, so every row ends up
\* indented for its depth.
LEMMA MoveIndents ==
    ASSUME PreOrdered(rows, parent, indent),
           NEW i \in 1..Len(rows), NEW e, EndsAt(rows, indent, i, e),
           NEW t, NEW q \in Screens \cup {NoRow}, NEW nd \in Nat,
           Fits(rows, parent, indent, i, e, t, q, nd),
           NEW new, IsMove(rows, new, i, e, t), NEW par, par = [parent EXCEPT ![rows[i]] = q]
    PROVE  /\ PreOrdered(new, par, SubtreeApplyIndent(new, par, rows[i]))
           /\ Range(new) = Listed /\ Len(new) = Len(rows)
<1> DEFINE n == Len(rows)
           d2 == Shifted(rows, indent, i, e, nd)
           To(j) == MoveTo(i, e, t, j)
           drawn == Range(Subtree(new, par, rows[i]))
           ind2 == SubtreeApplyIndent(new, par, rows[i])
<1>1. PreOrdered(new, par, d2)
  BY MoveKeepsOrder
<1>2. n \in Nat /\ e \in (i + 1)..(n + 1) /\ t \in 1..(n + 1) /\ (t <= i \/ t >= e)
  <2>1. e \in (i + 1)..(n + 1) /\ t \in 1..(n + 1) /\ (t <= i \/ t >= e)
    BY DEF EndsAt, Fits
  <2> QED BY <2>1, ListRows
<1>0. i \in 1..n
  OBVIOUS
<1> HIDE DEF n
<1>3. /\ \A j \in 1..n : To(j) \in 1..n
      /\ \A j, k \in 1..n : To(j) = To(k) => j = k
      /\ \A k \in 1..n : \E j \in 1..n : To(j) = k
      /\ \A j, k \in 1..n : (j \in i..(e - 1) <=> k \in i..(e - 1)) => (j < k <=> To(j) < To(k))
      /\ \A j, k \in 1..n : j \notin i..(e - 1) /\ k \in i..(e - 1) => (j < t <=> To(j) < To(k))
  <2>1. /\ \A j \in 1..n : MoveTo(i, e, t, j) \in 1..n
        /\ \A k \in 1..n : \E j \in 1..n : MoveTo(i, e, t, j) = k
        /\ \A j, k \in 1..n : MoveTo(i, e, t, j) = MoveTo(i, e, t, k) => j = k
        /\ \A j, k \in 1..n : (j \in i..(e - 1) <=> k \in i..(e - 1))
              => (j < k <=> MoveTo(i, e, t, j) < MoveTo(i, e, t, k))
        /\ \A j, k \in 1..n : j \notin i..(e - 1) /\ k \in i..(e - 1)
              => (j < t <=> MoveTo(i, e, t, j) < MoveTo(i, e, t, k))
    BY <1>2, <1>0, MoveOrder
  <2> QED BY <2>1, Zenon
<1>4. Len(new) = n /\ DOMAIN new = 1..n /\ \A j \in 1..n : new[To(j)] = rows[j]
  <2>1. Len(new) = n /\ \A j \in 1..n : new[To(j)] = rows[j]
    BY DEF IsMove, n
  <2>2. DOMAIN new = 1..Len(new)
    BY <1>1, ListRows
  <2> QED BY <2>1, <2>2
<1>5. DOMAIN rows = 1..n /\ \A j \in 1..n : rows[j] \in Screens /\ indent[rows[j]] \in Nat
  BY ListRows DEF n
<1>6. \A k \in i..(e - 1) : k \in 1..n
  BY <1>2
<1>7. \A j \in 1..n : /\ j \in i..(e - 1) => d2[rows[j]] = indent[rows[j]] - indent[rows[i]] + nd
                      /\ j \notin i..(e - 1) => d2[rows[j]] = indent[rows[j]]
  <2>1. \A j, k \in 1..n : rows[j] = rows[k] => j = k
    BY <1>5 DEF PreOrdered
  <2> QED BY <1>5, <1>6, <2>1 DEF Shifted
<1>8. \A k \in (i + 1)..(e - 1) : indent[rows[k]] > indent[rows[i]]
  BY DEF EndsAt
<1> HIDE DEF d2, To
<1>9. Range(new) = Listed
  <2>1. ASSUME NEW j \in 1..n PROVE rows[j] \in Range(new)
    BY <1>3, <1>4 DEF Range
  <2>2. ASSUME NEW k \in 1..n PROVE new[k] \in Listed
    <3>1. PICK j \in 1..n : To(j) = k
      BY <1>3
    <3> QED BY <1>4, <1>5, <3>1 DEF Listed, Range
  <2> QED BY <1>4, <1>5, <2>1, <2>2 DEF Listed, Range
<1>10. ASSUME NEW j \in i..(e - 1) PROVE rows[j] \in drawn
  <2> DEFINE f == SubtreeEnd(new, par, To(i))
  <2>1. i \in 1..n /\ j \in 1..n /\ i \in i..(e - 1) /\ To(i) \in 1..n /\ To(j) \in 1..n
    <3>1. i \in i..(e - 1)
      BY <1>2
    <3> QED BY <1>0, <1>3, <1>6, <3>1
  <2>2. EndsAt(new, d2, To(i), f)
    BY <1>1, <1>4, <2>1, EndIs
  <2> HIDE DEF f
  <2>3. f \in (To(i) + 1)..(n + 1) /\ (f <= n => d2[new[f]] <= d2[new[To(i)]])
    BY <1>4, <2>2 DEF EndsAt
  <2>4. To(j) >= To(i)
    <3>1. j = i \/ i < j
      BY <1>2
    <3> QED BY <1>2, <1>3, <2>1, <3>1
  <2>5. To(j) < f
    <3> SUFFICES ASSUME f <= To(j) PROVE FALSE
      BY <1>2, <2>1, <2>3
    <3>1. f \in 1..n /\ f <= n /\ To(i) < f
      BY <1>2, <2>1, <2>3
    <3>2. PICK m \in 1..n : To(m) = f
      BY <1>3, <3>1
    <3>3. m \in i..(e - 1)
      <4> SUFFICES ASSUME m \notin i..(e - 1) PROVE FALSE
        OBVIOUS
      <4>1. f # To(j)
        <5>1. m # j
          BY <1>10
        <5> QED BY <1>3, <2>1, <3>2, <5>1
      <4>2. To(m) < To(j)
        BY <1>2, <2>1, <3>1, <3>2, <4>1
      <4>3. m < t
        BY <1>3, <2>1, <4>2
      <4>4. To(m) < To(i)
        BY <1>3, <2>1, <4>3
      <4> QED BY <1>2, <2>1, <3>1, <3>2, <4>4
    <3>4. m \in (i + 1)..(e - 1)
      <4>1. m # i
        BY <1>2, <2>1, <3>1, <3>2
      <4> QED BY <1>2, <3>3, <4>1
    <3>5. indent[rows[m]] > indent[rows[i]] /\ indent[rows[m]] \in Nat /\ indent[rows[i]] \in Nat
      BY <1>5, <1>8, <2>1, <3>2, <3>4
    <3>6. d2[rows[m]] = indent[rows[m]] - indent[rows[i]] + nd
          /\ d2[rows[i]] = indent[rows[i]] - indent[rows[i]] + nd
      BY <1>7, <2>1, <3>2, <3>3
    <3>7. d2[rows[m]] > d2[rows[i]]
      <4>1. \A x, y, z \in Nat : x > y => x - y + z > y - y + z
        OBVIOUS
      <4> QED BY <3>5, <3>6, <4>1
    <3>8. d2[new[f]] <= d2[new[To(i)]] /\ new[f] = rows[m] /\ new[To(i)] = rows[i]
      BY <1>4, <2>1, <2>3, <3>1, <3>2
    <3>9. d2[rows[m]] \in Nat /\ d2[rows[i]] \in Nat
      BY <1>1, <1>5, <2>1, <3>2 DEF PreOrdered
    <3> QED BY <3>7, <3>8, <3>9
  <2>6. new[To(j)] \in Range(Subtree(new, par, new[To(i)])) <=> To(j) \in To(i)..(f - 1)
    BY <1>1, <1>4, <2>1, <2>2, SubtreeRange
  <2>7. To(j) \in To(i)..(f - 1)
    BY <1>2, <2>1, <2>3, <2>4, <2>5
  <2> QED BY <1>4, <2>1, <2>6, <2>7
<1>11. ASSUME NEW k \in 1..n PROVE ind2[new[k]] = d2[new[k]]
  <2>1. PICK j \in 1..n : To(j) = k
    BY <1>3
  <2>2. new[k] = rows[j] /\ rows[j] \in Screens /\ new[k] \in Range(new)
    BY <1>4, <1>5, <2>1 DEF Range
  <2>3. CASE new[k] \in drawn
    <3>1. ind2[new[k]] = RowDepth(par, new[k])
      BY <2>2, <2>3 DEF SubtreeApplyIndent, Indented
    <3>2. RowDepth(par, new[k]) = d2[new[k]]
      BY <1>1, <1>4, DepthIs
    <3> QED BY <3>1, <3>2
  <2>4. CASE new[k] \notin drawn
    <3>1. ind2[new[k]] = indent[new[k]]
      BY <2>2, <2>4 DEF SubtreeApplyIndent, Indented
    <3>2. j \notin i..(e - 1)
      BY <1>10, <2>2, <2>4
    <3> QED BY <1>7, <2>2, <3>1, <3>2
  <2> QED BY <2>3, <2>4
<1>12. ASSUME NEW r \in Screens PROVE ind2[r] \in Nat
  <2>1. CASE r \in Range(new)
    <3>1. PICK k \in 1..n : r = new[k]
      BY <1>4, <2>1 DEF Range
    <3> QED BY <1>1, <1>11, <3>1 DEF PreOrdered
  <2>2. CASE r \notin Range(new)
    <3>1. r \notin drawn
      <4>1. ASSUME NEW x \in drawn PROVE x \in Range(new)
        <5> DEFINE s == RowIndex(new, rows[i])
                   f == SubtreeEnd(new, par, s)
        <5>1. rows[i] \in Range(new)
          BY <1>5, <1>9 DEF Listed, Range, n
        <5>2. s \in 1..n
          BY <1>1, <1>4, <5>1, ListRows
        <5> HIDE DEF s
        <5>3. f \in (s + 1)..(n + 1)
          BY <1>1, <1>4, <5>2, EndIs DEF EndsAt
        <5> HIDE DEF f
        <5>4. Subtree(new, par, rows[i]) = SubSeq(new, s, f - 1)
          BY DEF Subtree, s, f
        <5>5. \A m \in s..(f - 1) : new[m] \in Range(new)
          <6>1. \A m \in s..(f - 1) : m \in 1..n
            BY <1>2, <5>2, <5>3
          <6> QED BY <1>4, <6>1 DEF Range
        <5>6. s \in Int /\ f - 1 \in Int
          BY <1>2, <5>2, <5>3
        <5>7. SubSeq(new, s, f - 1) \in Seq(Range(new))
          BY <5>5, <5>6, SubSeqProperties
        <5> DEFINE run == SubSeq(new, s, f - 1)
        <5> HIDE DEF run
        <5>8. run \in Seq(Range(new)) /\ x \in Range(run)
          BY <4>1, <5>4, <5>7 DEF run
        <5>9. PICK m \in DOMAIN run : x = run[m]
          BY <5>8 DEF Range
        <5>10. m \in 1..Len(run)
          BY <5>8, LenProperties
        <5> QED BY <5>8, <5>9, <5>10, ElementOfSeq
      <4> QED BY <2>2, <4>1
    <3> QED BY <2>2, <3>1 DEF SubtreeApplyIndent, Indented
  <2> QED BY <2>1, <2>2
<1>13. ind2 = [r \in Screens |-> ind2[r]]
  BY DEF SubtreeApplyIndent, Indented
<1>14. ind2 \in [Screens -> Nat]
  BY <1>12, <1>13
<1> HIDE DEF ind2
<1>15. PreOrdered(new, par, ind2)
  BY <1>1, <1>4, <1>11, <1>14, SameDepths
<1> QED BY <1>4, <1>9, <1>15 DEF ind2, n

-----------------------------------------------------------------------------
(* A row is added. *)

\* The list with a new row at a slot, by position.
IsAdd(list, new, s, p) ==
    /\ p \in 1..(Len(list) + 1)
    /\ new \in Seq(Screens)
    /\ Len(new) = Len(list) + 1
    /\ new[p] = s
    /\ \A j \in 1..Len(list) : new[IF j < p THEN j ELSE j + 1] = list[j]

\* Inserting one row is such an addition.
LEMMA InsertedIsAdd ==
    ASSUME NEW list \in Seq(Screens), NEW s \in Screens, NEW at
    PROVE  IsAdd(list, Inserted(list, <<s>>, at), s, Slot(list, at))
<1> DEFINE n == Len(list)
           p == Slot(list, at)
           new == Inserted(list, <<s>>, at)
           block == <<s>>
<1>1. n \in Nat
  BY LenProperties
<1>2. block \in Seq(Screens) /\ Len(block) = 1 /\ block[1] = s
  OBVIOUS
<1> HIDE DEF block
<1>3. /\ Inserted(list, block, at) \in Seq(Screens)
      /\ Len(Inserted(list, block, at)) = n + Len(block)
      /\ p \in 1..(n + 1)
      /\ \A k \in 1..(n + Len(block)) :
            Inserted(list, block, at)[k] = IF k < p THEN list[k]
                                           ELSE IF k < p + Len(block) THEN block[k - p + 1]
                                           ELSE list[k - Len(block)]
  BY <1>2, InsertedIs
<1>4. new = Inserted(list, block, at)
  BY DEF block
<1> HIDE DEF new, p, n
<1>5. /\ new \in Seq(Screens) /\ Len(new) = n + 1 /\ p \in 1..(n + 1)
      /\ \A k \in 1..(n + 1) : new[k] = IF k < p THEN list[k]
                                        ELSE IF k < p + 1 THEN block[k - p + 1] ELSE list[k - 1]
  BY <1>2, <1>3, <1>4
<1>6. new[p] = s
  <2>1. p \in 1..(n + 1) /\ ~(p < p) /\ p < p + 1 /\ p - p + 1 = 1
    BY <1>1, <1>5
  <2> QED BY <1>2, <1>5, <2>1
<1>7. ASSUME NEW j \in 1..n PROVE new[IF j < p THEN j ELSE j + 1] = list[j]
  <2>1. CASE j < p
    <3>1. j \in 1..(n + 1)
      BY <1>1
    <3> QED BY <1>5, <2>1, <3>1
  <2>2. CASE ~(j < p)
    <3>1. j + 1 \in 1..(n + 1) /\ ~(j + 1 < p) /\ ~(j + 1 < p + 1) /\ (j + 1) - 1 = j
      BY <1>1, <1>5, <2>2
    <3>2. new[j + 1] = list[(j + 1) - 1]
      BY <1>5, <3>1
    <3> QED BY <2>2, <3>1, <3>2
  <2> QED BY <2>1, <2>2
<1>8. IsAdd(list, new, s, p)
  BY <1>5, <1>6, <1>7 DEF IsAdd, n
<1> QED BY <1>8 DEF new, p

\* A new row goes to the end or among rows that are all roots, and leaves a
\* traversal in which it is a root without children.
LEMMA AddKeepsOrder ==
    ASSUME NEW list, NEW par, NEW depth, PreOrdered(list, par, depth),
           NEW s \in Screens, s \notin Range(list), NEW p, NEW new, IsAdd(list, new, s, p),
           p = Len(list) + 1 \/ \A j \in 1..Len(list) : par[list[j]] = NoRow
    PROVE  /\ PreOrdered(new, [par EXCEPT ![s] = NoRow], [depth EXCEPT ![s] = 0])
           /\ EndsAt(new, [depth EXCEPT ![s] = 0], p, p + 1)
           /\ Range(new) = Range(list) \cup {s}
<1> DEFINE n == Len(list)
           To(j) == IF j < p THEN j ELSE j + 1
           par2 == [par EXCEPT ![s] = NoRow]
           d2 == [depth EXCEPT ![s] = 0]
<1>1. /\ n \in Nat /\ DOMAIN list = 1..n
      /\ \A j \in 1..n : list[j] \in Screens /\ list[j] # s /\ depth[list[j]] \in Nat
  BY ListRows
<1>2. par \in [Screens -> Screens \cup {NoRow}] /\ depth \in [Screens -> Nat]
      /\ \A j, k \in 1..n : list[j] = list[k] => j = k
  BY <1>1 DEF PreOrdered
<1>3. /\ p \in 1..(n + 1) /\ new \in Seq(Screens) /\ Len(new) = n + 1 /\ new[p] = s
      /\ \A j \in 1..n : new[To(j)] = list[j]
  BY DEF IsAdd
<1>4. DOMAIN new = 1..(n + 1)
  BY <1>3, LenProperties
<1>5. \A j \in 1..n : par2[list[j]] = par[list[j]] /\ d2[list[j]] = depth[list[j]]
  BY <1>1, <1>2
<1>6. par2 \in [Screens -> Screens \cup {NoRow}] /\ d2 \in [Screens -> Nat]
      /\ par2[s] = NoRow /\ d2[s] = 0
  BY <1>2
<1> HIDE DEF par2, d2
<1>7. \A k \in 1..(n + 1) : k = p \/ \E j \in 1..n : To(j) = k
  <2> SUFFICES ASSUME NEW k \in 1..(n + 1), k # p PROVE \E j \in 1..n : To(j) = k
    OBVIOUS
  <2>1. CASE k < p
    <3>1. k \in 1..n /\ To(k) = k
      BY <1>1, <1>3, <2>1
    <3> QED BY <3>1
  <2>2. CASE p < k
    <3>1. k - 1 \in 1..n /\ To(k - 1) = k
      BY <1>1, <1>3, <2>2
    <3> QED BY <3>1
  <2> QED BY <1>1, <1>3, <2>1, <2>2
<1>8. \A j \in 1..n : To(j) \in 1..(n + 1) /\ To(j) # p
  BY <1>1, <1>3
<1>9. p = n + 1 => \A j \in 1..n : To(j) = j
  BY <1>1
<1> HIDE DEF To, n
<1>10. \A j, k \in 1..(n + 1) : new[j] = new[k] => j = k
  <2> SUFFICES ASSUME NEW j \in 1..(n + 1), NEW k \in 1..(n + 1), new[j] = new[k] PROVE j = k
    OBVIOUS
  <2>1. ASSUME NEW x \in 1..(n + 1), x # p PROVE \E m \in 1..n : To(m) = x /\ new[x] = list[m] /\ new[x] # s
    BY <1>1, <1>3, <1>7, <2>1, ZenonT(90)
  <2>2. CASE j = p
    BY <1>3, <2>1, <2>2
  <2>3. CASE k = p
    BY <1>3, <2>1, <2>3
  <2>4. CASE j # p /\ k # p
    BY <1>2, <2>1, <2>4
  <2> QED BY <2>2, <2>3, <2>4
<1>11. ASSUME NEW k \in 1..(n + 1)
       PROVE  \/ par2[new[k]] = NoRow /\ d2[new[k]] = 0
              \/ \E i \in 1..(k - 1) :
                    /\ par2[new[k]] = new[i]
                    /\ d2[new[k]] = d2[new[i]] + 1
                    /\ \A m \in (i + 1)..(k - 1) : d2[new[m]] > d2[new[i]]
  <2>1. CASE k = p
    BY <1>3, <1>6, <2>1
  <2>2. CASE k # p
    <3>1. PICK j \in 1..n : To(j) = k
      BY <1>7, <2>2
    <3>2. new[k] = list[j] /\ par2[new[k]] = par[list[j]] /\ d2[new[k]] = depth[list[j]]
      BY <1>3, <1>5, <3>1
    <3>3. CASE par[list[j]] = NoRow
      <4>1. depth[list[j]] = 0
        BY <3>3, RootRow DEF n
      <4> QED BY <3>2, <3>3, <4>1
    <3>4. CASE par[list[j]] # NoRow
      <4>1. PICK i \in 1..(j - 1) :
              /\ i \in 1..n /\ i < j
              /\ par[list[j]] = list[i]
              /\ depth[list[j]] = depth[list[i]] + 1
              /\ \A m \in (i + 1)..(j - 1) : depth[list[m]] > depth[list[i]]
        BY <3>4, ParentRow DEF n
      <4>2. p = n + 1
        BY <3>4 DEF n
      <4>3. k = j /\ \A m \in 1..n : new[m] = list[m] /\ d2[new[m]] = depth[list[m]]
        BY <1>3, <1>5, <1>9, <3>1, <4>2
      <4>4. \A m \in (i + 1)..(j - 1) : m \in 1..n
        BY <1>1, <4>1
      <4> QED BY <3>2, <4>1, <4>3, <4>4
    <3> QED BY <3>3, <3>4
  <2> QED BY <2>1, <2>2
<1>12. PreOrdered(new, par2, d2)
  <2>1. \A j, k \in DOMAIN new : new[j] = new[k] => j = k
    BY <1>4, <1>10
  <2>2. \A j \in DOMAIN new :
          \/ par2[new[j]] = NoRow /\ d2[new[j]] = 0
          \/ \E i \in 1..(j - 1) :
                /\ par2[new[j]] = new[i]
                /\ d2[new[j]] = d2[new[i]] + 1
                /\ \A k \in (i + 1)..(j - 1) : d2[new[k]] > d2[new[i]]
    BY <1>4, <1>11
  <2> QED BY <1>3, <1>6, <2>1, <2>2 DEF PreOrdered
<1>13. EndsAt(new, d2, p, p + 1)
  <2>1. p + 1 \in (p + 1)..(Len(new) + 1) /\ \A k : ~(k \in (p + 1)..((p + 1) - 1))
    BY <1>1, <1>3
  <2>2. ASSUME p + 1 <= Len(new) PROVE d2[new[p + 1]] <= d2[new[p]]
    <3>1. p # n + 1 /\ p + 1 \in 1..(n + 1) /\ p + 1 # p
      BY <1>1, <1>3, <2>2
    <3>2. PICK j \in 1..n : To(j) = p + 1
      BY <1>7, <3>1
    <3>3. par[list[j]] = NoRow
      BY <3>1 DEF n
    <3>4. depth[list[j]] = 0
      BY <3>3, RootRow DEF n
    <3>5. d2[new[p + 1]] = 0 /\ d2[new[p]] = 0
      BY <1>3, <1>5, <1>6, <3>2, <3>4
    <3> QED BY <3>5
  <2> QED BY <2>1, <2>2 DEF EndsAt
<1>14. Range(new) = Range(list) \cup {s}
  <2>1. ASSUME NEW k \in 1..(n + 1) PROVE new[k] \in Range(list) \cup {s}
    BY <1>1, <1>3, <1>7, ZenonT(90) DEF Range
  <2>2. ASSUME NEW j \in 1..n PROVE list[j] \in Range(new)
    BY <1>3, <1>4, <1>8 DEF Range
  <2>3. s \in Range(new)
    BY <1>3, <1>4 DEF Range
  <2> QED BY <1>1, <1>4, <2>1, <2>2, <2>3 DEF Range
<1> QED BY <1>12, <1>13, <1>14 DEF par2, d2

-----------------------------------------------------------------------------
(* A row is removed. *)

\* The list without row i, by position.
IsRemoval(list, new, i) ==
    /\ new \in Seq(Screens)
    /\ Len(new) = Len(list) - 1
    /\ \A j \in 1..Len(list) : j # i => new[IF j < i THEN j ELSE j - 1] = list[j]

\* Taking out one row is such a removal.
LEMMA RemoveAtIs ==
    ASSUME NEW list \in Seq(Screens), NEW i \in 1..Len(list)
    PROVE  IsRemoval(list, RemoveAt(list, i), i)
<1> DEFINE n == Len(list)
           new == RemoveAt(list, i)
<1>1. n \in Nat
  BY LenProperties
<1>2. new = SubSeq(list, 1, i - 1) \o SubSeq(list, i + 1, n)
  BY DEF RemoveAt
<1>3. i + 1 <= n + 1
  BY <1>1
<1> HIDE DEF new
<1>4. /\ new \in Seq(Screens) /\ Len(new) = n - 1
      /\ \A k \in 1..(n - 1) : new[k] = IF k < i THEN list[k] ELSE list[k + 1]
  <2>1. 1 \in Nat /\ i + 1 <= Len(list) + 1
    BY <1>3
  <2> QED BY <1>1, <1>2, <2>1, CutIs, ZenonT(90)
<1>5. ASSUME NEW j \in 1..n, j # i PROVE new[IF j < i THEN j ELSE j - 1] = list[j]
  <2>1. CASE j < i
    <3>1. j \in 1..(n - 1)
      BY <1>1, <2>1
    <3> QED BY <1>4, <2>1, <3>1
  <2>2. CASE ~(j < i)
    <3>1. j - 1 \in 1..(n - 1) /\ ~(j - 1 < i) /\ (j - 1) + 1 = j
      BY <1>1, <1>5, <2>2
    <3>2. new[j - 1] = list[(j - 1) + 1]
      BY <1>4, <3>1
    <3> QED BY <2>2, <3>1, <3>2
  <2> QED BY <2>1, <2>2
<1>6. IsRemoval(list, new, i)
  BY <1>4, <1>5 DEF IsRemoval
<1> QED BY <1>6 DEF new

\* Every child of a row that closes is found in its run and handed on.
LEMMA HoistedIs ==
    ASSUME PreOrdered(rows, parent, indent), NEW i \in 1..Len(rows),
           NEW j \in 1..Len(rows), j # i
    PROVE  HoistedParents(rows[i])[rows[j]] =
              IF parent[rows[j]] = rows[i] THEN parent[rows[i]] ELSE parent[rows[j]]
<1> DEFINE e == SubtreeEnd(rows, parent, i)
<1>1. EndsAt(rows, indent, i, e)
  BY EndIs
<1>2. e \in (i + 1)..(Len(rows) + 1)
  BY <1>1 DEF EndsAt
<1> HIDE DEF e
<1>3. Len(rows) \in Nat /\ rows[j] \in Screens /\ rows[j] # rows[i]
  BY ListRows DEF PreOrdered
<1>4. rows[j] \in Range(Subtree(rows, parent, rows[i])) <=> j \in i..(e - 1)
  BY <1>1, SubtreeRange
<1>5. ASSUME parent[rows[j]] = rows[i] PROVE rows[j] \in Range(Subtree(rows, parent, rows[i]))
  <2>1. i \in i..(e - 1)
    BY <1>2, <1>3
  <2>2. j \in i..(e - 1)
    BY <1>1, <1>5, <2>1, RunClosed
  <2> QED BY <1>4, <2>2
<1> QED BY <1>3, <1>5 DEF HoistedParents

\* The depths when the rows below row i have moved up by one.
Hoisted(list, depth, i, e) ==
    [r \in Screens |-> IF \E k \in (i + 1)..(e - 1) : r = list[k] THEN depth[r] - 1 ELSE depth[r]]

\* A removal whose children are hoisted leaves a traversal.
LEMMA RemovalKeepsOrder ==
    ASSUME NEW list, NEW par, NEW depth, PreOrdered(list, par, depth),
           NEW i \in 1..Len(list), NEW e, EndsAt(list, depth, i, e),
           NEW new, IsRemoval(list, new, i), NEW par2 \in [Screens -> Screens \cup {NoRow}],
           \A j \in 1..Len(list) : j # i =>
              par2[list[j]] = IF par[list[j]] = list[i] THEN par[list[i]] ELSE par[list[j]]
    PROVE  /\ PreOrdered(new, par2, Hoisted(list, depth, i, e))
           /\ Range(new) = Range(list) \ {list[i]}
<1> DEFINE n == Len(list)
           To(j) == IF j < i THEN j ELSE j - 1
           d2 == Hoisted(list, depth, i, e)
           In(j) == j \in (i + 1)..(e - 1)
           Kept == 1..n \ {i}
<1>1. /\ n \in Nat /\ DOMAIN list = 1..n /\ i \in 1..n
      /\ \A j \in 1..n : list[j] \in Screens /\ list[j] # NoRow /\ depth[list[j]] \in Nat
  BY ListRows
<1>2. depth \in [Screens -> Nat] /\ \A j, k \in 1..n : list[j] = list[k] => j = k
  BY <1>1 DEF PreOrdered
<1>3. e \in (i + 1)..(n + 1) /\ \A k : In(k) => depth[list[k]] > depth[list[i]]
  BY DEF EndsAt
<1>4. new \in Seq(Screens) /\ Len(new) = n - 1 /\ \A j \in Kept : new[To(j)] = list[j]
  BY DEF IsRemoval
<1>5. DOMAIN new = 1..(n - 1)
  BY <1>4, LenProperties
<1>6. \A k : In(k) => k \in Kept
  BY <1>1, <1>3
<1>7. \A j \in 1..n : /\ In(j) => d2[list[j]] = depth[list[j]] - 1
                      /\ ~In(j) => d2[list[j]] = depth[list[j]]
  BY <1>1, <1>2, <1>6 DEF Hoisted
<1>8. d2 \in [Screens -> Nat]
  <2> SUFFICES ASSUME NEW r \in Screens PROVE d2[r] \in Nat
    BY DEF Hoisted
  <2>1. CASE \E k \in (i + 1)..(e - 1) : r = list[k]
    <3>1. PICK k \in (i + 1)..(e - 1) : r = list[k]
      BY <2>1
    <3>2. k \in 1..n /\ depth[list[k]] \in Nat /\ depth[list[i]] \in Nat /\ depth[list[k]] > depth[list[i]]
      BY <1>1, <1>3, <1>6
    <3> QED BY <1>7, <3>1, <3>2
  <2>2. CASE ~\E k \in (i + 1)..(e - 1) : r = list[k]
    BY <1>2, <2>2 DEF Hoisted
  <2> QED BY <2>1, <2>2
<1>9. /\ \A j \in Kept : To(j) \in 1..(n - 1)
      /\ \A j, k \in Kept : j < k <=> To(j) < To(k)
      /\ \A k \in 1..(n - 1) : \E j \in Kept : To(j) = k
  <2>1. \A j \in Kept : To(j) \in 1..(n - 1)
    BY <1>1
  <2>2. \A j, k \in Kept : j < k <=> To(j) < To(k)
    BY <1>1
  <2>3. ASSUME NEW k \in 1..(n - 1) PROVE \E j \in Kept : To(j) = k
    <3>1. CASE k < i
      <4>1. k \in Kept /\ To(k) = k
        BY <1>1, <3>1
      <4> QED BY <4>1
    <3>2. CASE ~(k < i)
      <4>1. k + 1 \in Kept /\ To(k + 1) = k
        BY <1>1, <3>2
      <4> QED BY <4>1
    <3> QED BY <3>1, <3>2
  <2> QED BY <2>1, <2>2, <2>3
<1>10. \A j \in Kept : par2[list[j]] = IF par[list[j]] = list[i] THEN par[list[i]] ELSE par[list[j]]
  OBVIOUS
<1>11. \A j \in Kept : j \in 1..n /\ j # i
  OBVIOUS
<1>12. \A j \in Kept : In(j) <=> j \in i..(e - 1)
  BY <1>1, <1>3
<1> HIDE DEF n, To, d2, In, Kept
<1> DEFINE Placed(j) == \/ par2[list[j]] = NoRow /\ d2[list[j]] = 0
                        \/ \E p \in Kept :
                              /\ p < j /\ par2[list[j]] = list[p]
                              /\ d2[list[j]] = d2[list[p]] + 1
                              /\ \A k \in Kept : p < k /\ k < j => d2[list[k]] > d2[list[p]]
<1>13. ASSUME NEW j \in Kept PROVE Placed(j)
  <2>1. j \in 1..n /\ j # i /\ depth[list[j]] \in Nat /\ depth[list[i]] \in Nat
    BY <1>1, <1>11
  <2>2. CASE par[list[j]] = NoRow
    <3>1. depth[list[j]] = 0
      BY <2>1, <2>2, RootRow DEF n
    <3>2. ~In(j)
      BY <1>3, <2>1, <3>1
    <3>3. par2[list[j]] = NoRow
      BY <1>1, <1>10, <2>2
    <3> QED BY <1>7, <2>1, <3>1, <3>2, <3>3
  <2>3. CASE par[list[j]] = list[i]
    <3>1. PICK p \in 1..(j - 1) :
            /\ p \in 1..n /\ p < j /\ par[list[j]] = list[p]
            /\ depth[list[j]] = depth[list[p]] + 1
            /\ \A k \in (p + 1)..(j - 1) : depth[list[k]] > depth[list[p]]
      BY <1>1, <2>1, <2>3, ParentRow, ZenonT(90) DEF n
    <3>2. p = i
      BY <1>1, <1>2, <2>3, <3>1
    <3>3. In(j)
      <4>1. i \in i..(e - 1)
        BY <1>1, <1>3
      <4>2. j \in i..(e - 1)
        BY <2>1, <2>3, <4>1, RunClosed DEF n
      <4> QED BY <1>12, <4>2
    <3>4. d2[list[j]] = depth[list[i]]
      BY <1>7, <2>1, <3>1, <3>2, <3>3
    <3>5. par2[list[j]] = par[list[i]]
      BY <1>10, <2>3
    <3>6. CASE par[list[i]] = NoRow
      BY <1>1, <3>4, <3>5, <3>6, RootRow DEF n
    <3>7. CASE par[list[i]] # NoRow
      <4>1. PICK g \in 1..(i - 1) :
              /\ g \in 1..n /\ g < i /\ par[list[i]] = list[g]
              /\ depth[list[i]] = depth[list[g]] + 1
              /\ \A k \in (g + 1)..(i - 1) : depth[list[k]] > depth[list[g]]
        BY <1>1, <3>7, ParentRow, ZenonT(90) DEF n
      <4>2. g \in Kept /\ ~In(g) /\ g < j /\ depth[list[g]] \in Nat
        BY <1>1, <3>1, <3>2, <4>1 DEF Kept, In
      <4>3. d2[list[g]] = depth[list[g]]
        BY <1>7, <4>1, <4>2
      <4>4. ASSUME NEW k \in Kept, g < k, k < j PROVE d2[list[k]] > d2[list[g]]
        <5>1. k \in 1..n /\ k # i /\ depth[list[k]] \in Nat
          BY <1>1, <1>11
        <5>2. CASE k < i
          <6>1. k \in (g + 1)..(i - 1) /\ ~In(k)
            BY <1>1, <4>1, <4>4, <5>1, <5>2 DEF In
          <6> QED BY <1>7, <4>1, <4>3, <5>1, <6>1
        <5>3. CASE i < k
          <6>1. In(k)
            BY <1>1, <1>3, <2>1, <3>3, <4>4, <5>1, <5>3 DEF In
          <6>2. d2[list[k]] = depth[list[k]] - 1 /\ depth[list[k]] > depth[list[i]]
            BY <1>3, <1>7, <5>1, <6>1
          <6> QED BY <4>1, <4>2, <4>3, <5>1, <6>2
        <5> QED BY <1>1, <5>1, <5>2, <5>3
      <4> QED BY <3>4, <3>5, <4>1, <4>2, <4>3, <4>4
    <3> QED BY <3>6, <3>7
  <2>4. CASE par[list[j]] # NoRow /\ par[list[j]] # list[i]
    <3>1. PICK p \in 1..(j - 1) :
            /\ p \in 1..n /\ p < j /\ par[list[j]] = list[p]
            /\ depth[list[j]] = depth[list[p]] + 1
            /\ \A k \in (p + 1)..(j - 1) : depth[list[k]] > depth[list[p]]
      BY <2>1, <2>4, ParentRow DEF n
    <3>2. p # i /\ p \in Kept /\ depth[list[p]] \in Nat /\ par2[list[j]] = list[p]
      BY <1>1, <1>10, <2>4, <3>1 DEF Kept
    <3>3. In(j) <=> In(p)
      <4>1. j \in i..(e - 1) <=> p \in i..(e - 1)
        BY <2>1, <3>1, RunClosed DEF n
      <4> QED BY <1>12, <3>2, <4>1
    <3>4. d2[list[j]] = d2[list[p]] + 1
      <4>1. CASE In(j)
        <5>1. d2[list[j]] = depth[list[j]] - 1 /\ d2[list[p]] = depth[list[p]] - 1
          BY <1>7, <2>1, <3>1, <3>3, <4>1
        <5>2. \A x, y \in Nat : x = y + 1 => x - 1 = (y - 1) + 1
          OBVIOUS
        <5> QED BY <2>1, <3>1, <3>2, <5>1, <5>2
      <4>2. CASE ~In(j)
        BY <1>7, <2>1, <3>1, <3>2, <3>3, <4>2
      <4> QED BY <4>1, <4>2
    <3>5. ASSUME NEW k \in Kept, p < k, k < j PROVE d2[list[k]] > d2[list[p]]
      <4>1. k \in 1..n /\ k # i /\ k \in (p + 1)..(j - 1)
        BY <1>1, <1>11, <2>1, <3>1, <3>5
      <4>2. depth[list[k]] > depth[list[p]] /\ depth[list[k]] \in Nat
        BY <1>1, <3>1, <4>1
      <4>3. CASE In(j)
        <5>1. In(k) /\ In(p)
          BY <1>1, <1>3, <2>1, <3>1, <3>3, <4>1, <4>3 DEF In
        <5> QED BY <1>7, <3>1, <3>2, <4>1, <4>2, <5>1
      <4>4. CASE ~In(j) /\ ~In(k)
        BY <1>7, <3>1, <3>3, <4>1, <4>2, <4>4
      <4>5. CASE ~In(j) /\ In(k)
        <5>1. i \in (p + 1)..(j - 1)
          BY <1>1, <1>3, <2>1, <3>1, <3>2, <3>3, <4>1, <4>5 DEF In
        <5>2. depth[list[i]] > depth[list[p]] /\ depth[list[k]] > depth[list[i]]
          BY <1>3, <3>1, <4>5, <5>1
        <5>3. d2[list[k]] = depth[list[k]] - 1 /\ d2[list[p]] = depth[list[p]]
          BY <1>7, <3>1, <3>3, <4>1, <4>5
        <5> QED BY <2>1, <3>2, <4>2, <5>2, <5>3
      <4> QED BY <4>3, <4>4, <4>5
    <3> QED BY <3>1, <3>2, <3>4, <3>5
  <2> QED BY <2>2, <2>3, <2>4
<1>14. ASSUME NEW x \in 1..(n - 1)
       PROVE  \/ par2[new[x]] = NoRow /\ d2[new[x]] = 0
              \/ \E m \in 1..(x - 1) :
                    /\ par2[new[x]] = new[m]
                    /\ d2[new[x]] = d2[new[m]] + 1
                    /\ \A y \in (m + 1)..(x - 1) : d2[new[y]] > d2[new[m]]
  <2>1. PICK j \in Kept : To(j) = x
    BY <1>9
  <2>2. new[x] = list[j]
    BY <1>4, <2>1
  <2>3. CASE par2[list[j]] = NoRow /\ d2[list[j]] = 0
    BY <2>2, <2>3
  <2>4. CASE \E p \in Kept : /\ p < j /\ par2[list[j]] = list[p]
                             /\ d2[list[j]] = d2[list[p]] + 1
                             /\ \A k \in Kept : p < k /\ k < j => d2[list[k]] > d2[list[p]]
    <3>1. PICK p \in Kept : /\ p < j /\ par2[list[j]] = list[p]
                            /\ d2[list[j]] = d2[list[p]] + 1
                            /\ \A k \in Kept : p < k /\ k < j => d2[list[k]] > d2[list[p]]
      BY <2>4
    <3>2. To(p) \in 1..(n - 1) /\ To(p) < x /\ new[To(p)] = list[p]
      BY <1>4, <1>9, <2>1, <3>1
    <3>3. To(p) \in 1..(x - 1)
      BY <1>1, <3>2
    <3>4. ASSUME NEW y \in (To(p) + 1)..(x - 1) PROVE d2[new[y]] > d2[new[To(p)]]
      <4>1. y \in 1..(n - 1) /\ To(p) < y /\ y < x
        BY <1>1, <3>2
      <4>2. PICK k \in Kept : To(k) = y
        BY <1>9, <4>1
      <4>3. p < k /\ k < j /\ new[y] = list[k]
        BY <1>4, <1>9, <2>1, <4>1, <4>2
      <4> QED BY <3>1, <3>2, <4>3
    <3> QED BY <2>2, <3>1, <3>2, <3>3, <3>4
  <2> QED BY <1>13, <2>3, <2>4
<1>15. ASSUME NEW x \in 1..(n - 1), NEW y \in 1..(n - 1), new[x] = new[y] PROVE x = y
  <2>1. PICK j \in Kept : To(j) = x
    BY <1>9
  <2>2. PICK k \in Kept : To(k) = y
    BY <1>9
  <2>3. list[j] = list[k]
    BY <1>4, <1>15, <2>1, <2>2
  <2> QED BY <1>2, <1>11, <2>1, <2>2, <2>3
<1>16. PreOrdered(new, par2, d2)
  <2>1. \A j, k \in DOMAIN new : new[j] = new[k] => j = k
    BY <1>5, <1>15
  <2>2. \A j \in DOMAIN new :
          \/ par2[new[j]] = NoRow /\ d2[new[j]] = 0
          \/ \E m \in 1..(j - 1) :
                /\ par2[new[j]] = new[m]
                /\ d2[new[j]] = d2[new[m]] + 1
                /\ \A k \in (m + 1)..(j - 1) : d2[new[k]] > d2[new[m]]
    BY <1>5, <1>14
  <2> QED BY <1>4, <1>8, <2>1, <2>2 DEF PreOrdered
<1>17. Range(new) = Range(list) \ {list[i]}
  <2>1. ASSUME NEW x \in 1..(n - 1) PROVE new[x] \in Range(list) \ {list[i]}
    <3>1. PICK j \in Kept : To(j) = x
      BY <1>9
    <3>2. new[x] = list[j] /\ j \in 1..n /\ list[j] # list[i]
      BY <1>1, <1>2, <1>4, <1>11, <3>1
    <3> QED BY <1>1, <3>2 DEF Range
  <2>2. ASSUME NEW r \in Range(list) \ {list[i]} PROVE r \in Range(new)
    <3>1. PICK j \in 1..n : r = list[j]
      BY <1>1 DEF Range
    <3>2. j \in Kept
      BY <3>1 DEF Kept
    <3>3. To(j) \in 1..(n - 1) /\ new[To(j)] = r
      BY <1>4, <1>9, <3>1, <3>2
    <3> QED BY <1>5, <3>3 DEF Range
  <2>3. ASSUME NEW r \in Range(new) PROVE r \in Range(list) \ {list[i]}
    BY <1>5, <2>1 DEF Range
  <2> QED BY <2>2, <2>3
<1> QED BY <1>16, <1>17 DEF d2

\* The rows below the one that closed are drawn again.
LEMMA RemoveIndents ==
    ASSUME PreOrdered(rows, parent, indent), NEW i \in 1..Len(rows),
           NEW new, new = RemoveAt(rows, i), NEW par, par = HoistedParents(rows[i])
    PROVE  /\ PreOrdered(new, par, Indented(new, par, Range(Subtree(rows, parent, rows[i])) \ {rows[i]}))
           /\ Range(new) = Listed \ {rows[i]}
           /\ IsRemoval(rows, new, i)
<1> DEFINE n == Len(rows)
           e == SubtreeEnd(rows, parent, i)
           d2 == Hoisted(rows, indent, i, e)
           drawn == Range(Subtree(rows, parent, rows[i])) \ {rows[i]}
           ind2 == Indented(new, par, drawn)
<1>1. EndsAt(rows, indent, i, e)
  BY EndIs
<1> HIDE DEF e
<1>2. /\ n \in Nat /\ DOMAIN rows = 1..n
      /\ \A j \in 1..n : rows[j] \in Screens /\ indent[rows[j]] \in Nat
  BY ListRows
<1>3. /\ rows \in Seq(Screens) /\ parent \in [Screens -> Screens \cup {NoRow}]
      /\ \A j, k \in 1..n : rows[j] = rows[k] => j = k
  BY <1>2 DEF PreOrdered
<1>4. IsRemoval(rows, new, i)
  BY <1>3, RemoveAtIs
<1>5. par \in [Screens -> Screens \cup {NoRow}]
  BY <1>2, <1>3 DEF HoistedParents
<1>6. \A j \in 1..n : j # i =>
         par[rows[j]] = IF parent[rows[j]] = rows[i] THEN parent[rows[i]] ELSE parent[rows[j]]
  BY HoistedIs
<1>7. PreOrdered(new, par, d2) /\ Range(new) = Range(rows) \ {rows[i]}
  BY <1>1, <1>4, <1>5, <1>6, RemovalKeepsOrder
<1>8. e \in (i + 1)..(n + 1)
  BY <1>1 DEF EndsAt
<1>9. \A k \in (i + 1)..(e - 1) : k \in 1..n /\ k # i /\ k \in i..(e - 1)
  BY <1>2, <1>8
<1>10. ASSUME NEW j \in 1..n, j # i
       PROVE  /\ rows[j] \in drawn <=> j \in (i + 1)..(e - 1)
              /\ rows[j] \notin drawn => d2[rows[j]] = indent[rows[j]]
  <2>1. rows[j] \in Range(Subtree(rows, parent, rows[i])) <=> j \in i..(e - 1)
    BY <1>1, SubtreeRange
  <2>2. rows[j] # rows[i]
    BY <1>3, <1>10
  <2>3. j \in i..(e - 1) <=> j \in (i + 1)..(e - 1)
    BY <1>2, <1>8, <1>10
  <2>4. rows[j] \in drawn <=> j \in (i + 1)..(e - 1)
    BY <2>1, <2>2, <2>3
  <2>5. ASSUME rows[j] \notin drawn PROVE d2[rows[j]] = indent[rows[j]]
    <3>1. ~\E k \in (i + 1)..(e - 1) : rows[j] = rows[k]
      BY <1>3, <1>9, <2>4, <2>5
    <3> QED BY <1>2, <3>1 DEF Hoisted
  <2> QED BY <2>4, <2>5
<1> HIDE DEF d2
<1>11. ASSUME NEW k \in 1..Len(new) PROVE ind2[new[k]] = d2[new[k]]
  <2>1. new[k] \in Range(new) /\ new[k] \in Screens
    BY <1>7, ListRows
  <2>2. PICK j \in 1..n : rows[j] = new[k] /\ j # i
    BY <1>2, <1>7, <2>1 DEF Range
  <2>3. CASE new[k] \in drawn
    <3>1. ind2[new[k]] = RowDepth(par, new[k])
      BY <2>1, <2>3 DEF Indented
    <3>2. RowDepth(par, new[k]) = d2[new[k]]
      BY <1>7, DepthIs
    <3> QED BY <3>1, <3>2
  <2>4. CASE new[k] \notin drawn
    <3>1. ind2[new[k]] = indent[new[k]]
      BY <2>1, <2>4 DEF Indented
    <3> QED BY <1>10, <2>2, <2>4, <3>1
  <2> QED BY <2>3, <2>4
<1>12. ASSUME NEW r \in Screens PROVE ind2[r] \in Nat
  <2>1. CASE r \in Range(new)
    <3>1. PICK k \in 1..Len(new) : r = new[k]
      BY <1>7, <2>1, ListRows
    <3>2. d2[r] \in Nat
      BY <1>7 DEF PreOrdered
    <3> QED BY <1>11, <3>1, <3>2
  <2>2. CASE r \notin Range(new)
    <3>1. r \notin drawn
      <4> SUFFICES ASSUME r \in drawn PROVE FALSE
        OBVIOUS
      <4> DEFINE run == SubSeq(rows, i, e - 1)
      <4>1. RowIndex(rows, rows[i]) = i
        BY ListRows
      <4>2. Subtree(rows, parent, rows[i]) = run
        BY <4>1 DEF Subtree, e
      <4>3. \A m \in i..(e - 1) : rows[m] \in Range(rows)
        <5>1. \A m \in i..(e - 1) : m \in 1..n
          BY <1>2, <1>8
        <5> QED BY <1>2, <5>1 DEF Range
      <4>4. i \in Int /\ e - 1 \in Int
        BY <1>2, <1>8
      <4>5. run \in Seq(Range(rows))
        BY <4>3, <4>4, SubSeqProperties
      <4> HIDE DEF run
      <4>6. PICK m \in DOMAIN run : r = run[m]
        BY <4>2 DEF Range
      <4>7. m \in 1..Len(run)
        BY <4>5, <4>6, LenProperties
      <4>8. r \in Range(rows)
        BY <4>5, <4>6, <4>7, ElementOfSeq
      <4> QED BY <1>7, <2>2, <4>8
    <3> QED BY <2>2, <3>1 DEF Indented
  <2> QED BY <2>1, <2>2
<1>13. ind2 = [r \in Screens |-> ind2[r]]
  BY DEF Indented
<1>14. ind2 \in [Screens -> Nat]
  BY <1>12, <1>13
<1> HIDE DEF ind2, drawn
<1>15. PreOrdered(new, par, ind2)
  BY <1>7, <1>11, <1>14, SameDepths
<1> QED BY <1>4, <1>7, <1>15 DEF ind2, drawn, Listed

-----------------------------------------------------------------------------
(* The order of the rows from one step to the next. *)

\* A row is before another when its position is.
LEMMA BeforeIs ==
    ASSUME NEW list, NEW par, NEW depth, PreOrdered(list, par, depth),
           NEW a \in 1..Len(list), NEW b \in 1..Len(list)
    PROVE  Before(list, list[a], list[b]) <=> a < b
<1>1. DOMAIN list = 1..Len(list)
  BY ListRows
<1>2. \A i, j \in DOMAIN list : list[i] = list[j] => i = j
  BY DEF PreOrdered
<1> QED BY <1>1, <1>2 DEF Before

\* Rows keep their order when their positions do.
LEMMA OrderKept ==
    ASSUME NEW list, NEW par, NEW depth, PreOrdered(list, par, depth),
           NEW new, NEW par2, NEW depth2, PreOrdered(new, par2, depth2),
           NEW K \in SUBSET (1..Len(list)), NEW To,
           \A j \in K : To[j] \in 1..Len(new) /\ new[To[j]] = list[j],
           \A j, k \in K : j < k <=> To[j] < To[k]
    PROVE  SameOrder({list[j] : j \in K}, list, new)
<1> SUFFICES ASSUME NEW j \in K, NEW k \in K
             PROVE  Before(list, list[j], list[k]) <=> Before(new, list[j], list[k])
  BY DEF SameOrder
<1>1. Before(list, list[j], list[k]) <=> j < k
  BY BeforeIs
<1>2. Before(new, new[To[j]], new[To[k]]) <=> To[j] < To[k]
  BY BeforeIs
<1> QED BY <1>1, <1>2

\* A row that is added changes no order.
LEMMA AddOrder ==
    ASSUME NEW list, NEW par, NEW depth, PreOrdered(list, par, depth),
           NEW new, NEW par2, NEW depth2, PreOrdered(new, par2, depth2),
           NEW s, NEW p, IsAdd(list, new, s, p)
    PROVE  SameOrder(Range(list), list, new)
<1> DEFINE n == Len(list)
           To == [j \in 1..n |-> IF j < p THEN j ELSE j + 1]
<1>1. n \in Nat /\ DOMAIN list = 1..n
  BY ListRows
<1>2. /\ p \in 1..(n + 1) /\ Len(new) = n + 1
      /\ \A j \in 1..n : new[IF j < p THEN j ELSE j + 1] = list[j]
  BY DEF IsAdd
<1>3. \A j \in 1..n : To[j] \in 1..Len(new) /\ new[To[j]] = list[j]
  BY <1>1, <1>2
<1>4. \A j, k \in 1..n : j < k <=> To[j] < To[k]
  BY <1>1, <1>2
<1> HIDE DEF To
<1>5. SameOrder({list[j] : j \in 1..n}, list, new)
  BY <1>3, <1>4, OrderKept
<1>6. {list[j] : j \in 1..n} = Range(list)
  BY <1>1 DEF Range
<1> QED BY <1>5, <1>6

\* Nor does one that is taken out.
LEMMA RemovalOrder ==
    ASSUME NEW list, NEW par, NEW depth, PreOrdered(list, par, depth),
           NEW new, NEW par2, NEW depth2, PreOrdered(new, par2, depth2),
           NEW i \in 1..Len(list), IsRemoval(list, new, i)
    PROVE  SameOrder(Range(list) \ {list[i]}, list, new)
<1> DEFINE n == Len(list)
           K == 1..n \ {i}
           To == [j \in K |-> IF j < i THEN j ELSE j - 1]
<1>1. /\ n \in Nat /\ DOMAIN list = 1..n
      /\ \A j \in 1..n : list[j] = list[i] <=> j = i
  BY ListRows
<1>2. /\ Len(new) = n - 1
      /\ \A j \in 1..n : j # i => new[IF j < i THEN j ELSE j - 1] = list[j]
  BY DEF IsRemoval
<1>3. \A j \in K : To[j] \in 1..Len(new) /\ new[To[j]] = list[j]
  BY <1>1, <1>2
<1>4. \A j, k \in K : j < k <=> To[j] < To[k]
  BY <1>1, <1>2
<1>5. K \in SUBSET (1..n)
  OBVIOUS
<1> HIDE DEF To, K
<1>6. SameOrder({list[j] : j \in K}, list, new)
  BY <1>3, <1>4, <1>5, OrderKept
<1>7. {list[j] : j \in K} = Range(list) \ {list[i]}
  BY <1>1 DEF Range, K
<1> QED BY <1>6, <1>7

\* A move keeps the order within the run and within the rest.
LEMMA MoveKeeps ==
    ASSUME NEW list, NEW par, NEW depth, PreOrdered(list, par, depth),
           NEW new, NEW par2, NEW depth2, PreOrdered(new, par2, depth2),
           NEW i \in 1..Len(list), NEW e \in (i + 1)..(Len(list) + 1),
           NEW t \in 1..(Len(list) + 1), t <= i \/ t >= e,
           IsMove(list, new, i, e, t)
    PROVE  /\ SameOrder({list[k] : k \in i..(e - 1)}, list, new)
           /\ SameOrder(Range(list) \ {list[k] : k \in i..(e - 1)}, list, new)
<1> DEFINE n == Len(list)
           In == i..(e - 1)
           Out == 1..n \ In
           To == [j \in 1..n |-> MoveTo(i, e, t, j)]
<1>1. n \in Nat /\ DOMAIN list = 1..n
  BY ListRows
<1>2. \A j, k \in 1..n : list[j] = list[k] => j = k
  BY <1>1 DEF PreOrdered
<1>3. In \in SUBSET (1..n) /\ Out \in SUBSET (1..n)
  BY <1>1
<1>4. Len(new) = n /\ \A j \in 1..n : new[MoveTo(i, e, t, j)] = list[j]
  BY DEF IsMove
<1>5. /\ \A j \in 1..n : MoveTo(i, e, t, j) \in 1..n
      /\ \A j, k \in 1..n : (j \in i..(e - 1) <=> k \in i..(e - 1))
            => (j < k <=> MoveTo(i, e, t, j) < MoveTo(i, e, t, k))
  BY <1>1, MoveOrder
<1>6. \A j \in 1..n : To[j] \in 1..Len(new) /\ new[To[j]] = list[j]
  BY <1>4, <1>5
<1>7. \A j, k \in 1..n : (j \in In <=> k \in In) => (j < k <=> To[j] < To[k])
  BY <1>5
<1> HIDE DEF To
<1>8. SameOrder({list[j] : j \in In}, list, new)
  <2>1. \A j, k \in In : j < k <=> To[j] < To[k]
    BY <1>3, <1>7
  <2>2. \A j \in In : To[j] \in 1..Len(new) /\ new[To[j]] = list[j]
    BY <1>3, <1>6
  <2> HIDE DEF In
  <2> QED BY <1>3, <2>1, <2>2, OrderKept
<1>9. SameOrder({list[j] : j \in Out}, list, new)
  <2>1. \A j, k \in Out : j < k <=> To[j] < To[k]
    BY <1>3, <1>7
  <2>2. \A j \in Out : To[j] \in 1..Len(new) /\ new[To[j]] = list[j]
    BY <1>3, <1>6
  <2> HIDE DEF Out
  <2> QED BY <1>3, <2>1, <2>2, OrderKept, ZenonT(90)
<1> HIDE DEF n
<1>10. {list[j] : j \in Out} = Range(list) \ {list[j] : j \in In}
  <2> HIDE DEF In
  <2> QED BY <1>1, <1>2, <1>3 DEF Range
<1> QED BY <1>8, <1>9, <1>10

-----------------------------------------------------------------------------
(* The actions. *)

\* In the collapsed view the cells are those of the rows, in their order, but for the
\* startup tab that was moved last.
CellsShown ==
    view = "collapsed" =>
        /\ Range(cells) \subseteq Listed /\ Listed \ Range(cells) \subseteq NestedLast
        /\ IsInjective(cells)
        /\ SameOrder(Listed \ NestedLast, cells, rows)

\* The client has a path for each tab that was created.
PathsInv == paths \in Seq(Screens \cup {NoRow})

\* The inductive invariant: rows are indented for their depth in a traversal.
SidebarInv == PreOrdered(rows, parent, indent) /\ CellsShown /\ PathsInv

\* A list that is redrawn as it is shows each screen in its place.
LEMMA CellsRebuilt ==
    ASSUME PreOrdered(rows', parent', indent'), NEW state, view' = state,
           cells' = RebuiltCells(rows', state)
    PROVE  CellsShown'
<1> SUFFICES ASSUME view' = "collapsed"
             PROVE  /\ Range(cells') \subseteq Listed'
                    /\ Listed' \ Range(cells') \subseteq NestedLast'
                    /\ IsInjective(cells') /\ SameOrder(Listed' \ NestedLast', cells', rows')
  BY DEF CellsShown
<1>1. cells' = rows'
  BY DEF RebuiltCells
<1>2. IsInjective(rows')
  BY DEF PreOrdered, IsInjective
<1>3. SameOrder(Listed' \ NestedLast', rows', rows')
  BY DEF SameOrder
<1> QED BY <1>1, <1>2, <1>3 DEF Listed

\* A row that is closed.
LEMMA RemoveStep ==
    ASSUME SidebarInv, NEW s \in Screens, RemoveScreen(s)
    PROVE  SidebarInv'
<1> DEFINE i == RowIndex(rows, s)
<1>1. i \in 1..Len(rows) /\ rows[i] = s
  BY ListRows DEF SidebarInv, RemoveScreen, Listed
<1> HIDE DEF i
<1>2. rows' = RemoveAt(rows, i) /\ parent' = HoistedParents(rows[i])
  BY <1>1 DEF RemoveScreen, i
<1>3. PreOrdered(rows', parent', Indented(rows', parent', Range(Subtree(rows, parent, rows[i])) \ {rows[i]}))
  BY <1>1, <1>2, RemoveIndents DEF SidebarInv
<1>4. indent' = Indented(rows', parent', Range(Subtree(rows, parent, rows[i])) \ {rows[i]})
  BY <1>1 DEF RemoveScreen
<1>5. CellsShown'
  BY <1>3, <1>4, CellsRebuilt DEF RemoveScreen
<1>6. PathsInv'
  BY DEF SidebarInv, PathsInv, RemoveScreen
<1> QED BY <1>3, <1>4, <1>5, <1>6 DEF SidebarInv

\* Where a drop takes place, and what it moves.
LEMMA DropShape ==
    ASSUME PreOrdered(rows, parent, indent),
           NEW source \in Screens, NEW target \in Screens, NEW zone \in Zones,
           DropOnRow(source, target, zone)
    PROVE  \E i \in 1..Len(rows), e, t, nd \in Nat :
              /\ rows[i] = source /\ EndsAt(rows, indent, i, e)
              /\ Fits(rows, parent, indent, i, e, t, parent'[source], nd)
              /\ IsMove(rows, rows', i, e, t)
              /\ parent'[source] \in Screens \cup {NoRow}
              /\ parent' = [parent EXCEPT ![rows[i]] = parent'[source]]
<1> DEFINE i == RowIndex(rows, source)
           x == RowIndex(rows, target)
           e == SubtreeEnd(rows, parent, i)
           f == SubtreeEnd(rows, parent, x)
           t == IF zone = "before" THEN x ELSE f
           q == IF zone = "child" THEN target ELSE parent[target]
           nd == IF zone = "child" THEN indent[target] + 1 ELSE indent[target]
<1>1. /\ i \in 1..Len(rows) /\ rows[i] = source /\ x \in 1..Len(rows) /\ rows[x] = target
      /\ Len(rows) \in Nat
  BY ListRows DEF DropOnRow, Listed
<1>2. indent \in [Screens -> Nat] /\ parent \in [Screens -> Screens \cup {NoRow}]
  BY DEF PreOrdered
<1>3. ~IsDescendantOf(parent, target, source) /\ ~(source = target /\ zone = "child")
  BY DEF DropOnRow
<1>4. parent' = [parent EXCEPT ![source] = q] /\ rows' = Moved(rows, parent, source, t)
  BY DEF DropOnRow
<1> HIDE DEF i, x
<1>5. EndsAt(rows, indent, i, e) /\ EndsAt(rows, indent, x, f)
  BY <1>1, EndIs
<1>6. x \in i..(e - 1) => x = i
  BY <1>1, <1>3, <1>5, FamilyIsRun
<1>7. zone = "child" => x # i
  BY <1>1, <1>3
<1>8. Fits(rows, parent, indent, i, e, t, q, nd)
  <2>1. Fits(rows, parent, indent, i, e, IF zone = "before" THEN x ELSE f,
             IF zone = "child" THEN rows[x] ELSE parent[rows[x]],
             IF zone = "child" THEN indent[rows[x]] + 1 ELSE indent[rows[x]])
    <3> HIDE DEF e, f
    <3> QED BY <1>1, <1>5, <1>6, <1>7, DropFits
  <2> QED BY <1>1, <2>1
<1>9. nd \in Nat /\ q \in Screens \cup {NoRow} /\ parent'[source] = q
  BY <1>2, <1>4
<1>10. t \in 1..(Len(rows) + 1) /\ (t <= i \/ t >= e)
  BY <1>8 DEF Fits
<1> HIDE DEF t, q, nd
<1>11. IsMove(rows, Moved(rows, parent, rows[i], t), i, e, t)
  <2>1. e = SubtreeEnd(rows, parent, i)
    OBVIOUS
  <2> HIDE DEF e
  <2> QED BY <1>1, <1>10, <2>1, MovedIsMove
<1> HIDE DEF e, f
<1>12. e \in Nat /\ t \in Nat
  BY <1>1, <1>5, <1>10 DEF EndsAt
<1>13. /\ rows[i] = source /\ EndsAt(rows, indent, i, e)
       /\ Fits(rows, parent, indent, i, e, t, parent'[source], nd)
       /\ IsMove(rows, rows', i, e, t)
       /\ parent'[source] \in Screens \cup {NoRow}
       /\ parent' = [parent EXCEPT ![rows[i]] = parent'[source]]
  BY <1>1, <1>4, <1>5, <1>8, <1>9, <1>11
<1> QED BY <1>1, <1>9, <1>12, <1>13

\* A row that is dropped on another.
LEMMA DropStep ==
    ASSUME SidebarInv, NEW source \in Screens, NEW target \in Screens, NEW zone \in Zones,
           DropOnRow(source, target, zone)
    PROVE  SidebarInv'
<1>1. PreOrdered(rows, parent, indent)
  BY DEF SidebarInv
<1>2. PICK i \in 1..Len(rows), e, t, nd \in Nat :
              /\ rows[i] = source /\ EndsAt(rows, indent, i, e)
              /\ Fits(rows, parent, indent, i, e, t, parent'[source], nd)
              /\ IsMove(rows, rows', i, e, t)
              /\ parent'[source] \in Screens \cup {NoRow}
              /\ parent' = [parent EXCEPT ![rows[i]] = parent'[source]]
  BY <1>1, DropShape
<1>3. PreOrdered(rows', parent', SubtreeApplyIndent(rows', parent', rows[i]))
  BY <1>1, <1>2, MoveIndents
<1>4. indent' = SubtreeApplyIndent(rows', parent', rows[i])
  BY <1>2 DEF DropOnRow
<1>5. CellsShown'
  BY <1>3, <1>4, CellsRebuilt DEF DropOnRow
<1>6. PathsInv'
  BY DEF SidebarInv, PathsInv, DropOnRow
<1> QED BY <1>3, <1>4, <1>5, <1>6 DEF SidebarInv

\* A row that is dropped below all others goes to the end, as a root.
LEMMA BelowAllShape ==
    ASSUME PreOrdered(rows, parent, indent), NEW source \in Screens, DropBelowAll(source)
    PROVE  \E i \in 1..Len(rows), e \in Nat :
              /\ rows[i] = source /\ EndsAt(rows, indent, i, e)
              /\ Fits(rows, parent, indent, i, e, Len(rows) + 1, NoRow, 0)
              /\ IsMove(rows, rows', i, e, Len(rows) + 1)
              /\ parent' = [parent EXCEPT ![rows[i]] = NoRow]
<1> DEFINE i == RowIndex(rows, source)
           e == SubtreeEnd(rows, parent, i)
<1>1. i \in 1..Len(rows) /\ rows[i] = source /\ Len(rows) \in Nat
  BY ListRows DEF DropBelowAll, Listed
<1>2. parent' = [parent EXCEPT ![source] = NoRow] /\ rows' = Moved(rows, parent, source, 0)
  BY DEF DropBelowAll
<1> HIDE DEF i
<1>3. EndsAt(rows, indent, i, e) /\ e = SubtreeEnd(rows, parent, i)
  BY <1>1, EndIs
<1> HIDE DEF e
<1>4. Fits(rows, parent, indent, i, e, Len(rows) + 1, NoRow, 0)
  BY <1>1, <1>3, EndFits
<1>5. Len(rows) + 1 \in 1..(Len(rows) + 1) /\ (Len(rows) + 1 <= i \/ Len(rows) + 1 >= e)
  BY <1>4 DEF Fits
<1>6. IsMove(rows, Moved(rows, parent, rows[i], 0), i, e, Len(rows) + 1)
  BY <1>1, <1>3, <1>5, MovedIsMove
<1>7. e \in Nat
  BY <1>1, <1>3 DEF EndsAt
<1> QED BY <1>1, <1>2, <1>3, <1>4, <1>6, <1>7

\* A row that is dropped below all others.
LEMMA BelowAllStep ==
    ASSUME SidebarInv, NEW source \in Screens, DropBelowAll(source)
    PROVE  SidebarInv'
<1>1. PreOrdered(rows, parent, indent)
  BY DEF SidebarInv
<1>2. PICK i \in 1..Len(rows), e \in Nat :
              /\ rows[i] = source /\ EndsAt(rows, indent, i, e)
              /\ Fits(rows, parent, indent, i, e, Len(rows) + 1, NoRow, 0)
              /\ IsMove(rows, rows', i, e, Len(rows) + 1)
              /\ parent' = [parent EXCEPT ![rows[i]] = NoRow]
  BY <1>1, BelowAllShape
<1>3. PreOrdered(rows', parent', SubtreeApplyIndent(rows', parent', rows[i]))
  BY <1>1, <1>2, MoveIndents
<1>4. indent' = SubtreeApplyIndent(rows', parent', rows[i])
  BY <1>2 DEF DropBelowAll
<1>5. CellsShown'
  BY <1>3, <1>4, CellsRebuilt DEF DropBelowAll
<1>6. PathsInv'
  BY DEF SidebarInv, PathsInv, DropBelowAll
<1> QED BY <1>3, <1>4, <1>5, <1>6 DEF SidebarInv


\* A screen that is added goes to the end, or beside others that are roots.
LEMMA NewPlace ==
    ASSUME PreOrdered(rows, parent, indent), ~NestedMoves,
           NEW s \in Fresh, NEW position \in NewTabPositions
    PROVE  /\ s \in Screens /\ s \notin Listed /\ s \notin Range(paths)
           /\ IsAdd(rows, Inserted(rows, <<s>>, position), s, Slot(rows, position))
           /\ PreOrdered(Inserted(rows, <<s>>, position),
                         [parent EXCEPT ![s] = NoRow], [indent EXCEPT ![s] = 0])
           /\ EndsAt(Inserted(rows, <<s>>, position), [indent EXCEPT ![s] = 0],
                     Slot(rows, position), Slot(rows, position) + 1)
           /\ Range(Inserted(rows, <<s>>, position)) = Listed \cup {s}
<1> DEFINE added == Inserted(rows, <<s>>, position)
           p == Slot(rows, position)
<1>1. s \in Screens /\ s \notin Listed /\ s \notin Range(paths)
  BY DEF Fresh
<1>2. rows \in Seq(Screens)
  BY DEF PreOrdered
<1>3. IsAdd(rows, added, s, p)
  BY <1>1, <1>2, InsertedIsAdd
<1>4. p = Len(rows) + 1 \/ \A j \in 1..Len(rows) : parent[rows[j]] = NoRow
  <2>1. CASE Nested(parent)
    <3>1. position = 0
      BY <2>1 DEF NewTabPositions
    <3>2. Len(rows) \in Nat
      BY ListRows
    <3> QED BY <3>1, <3>2 DEF Slot
  <2>2. CASE ~Nested(parent)
    <3>1. \A j \in 1..Len(rows) : rows[j] \in Listed
      BY ListRows DEF Listed
    <3> QED BY <2>2, <3>1 DEF Nested
  <2> QED BY <2>1, <2>2
<1>5. s \notin Range(rows)
  BY <1>1 DEF Listed
<1> HIDE DEF added, p
<1>6. /\ PreOrdered(added, [parent EXCEPT ![s] = NoRow], [indent EXCEPT ![s] = 0])
      /\ EndsAt(added, [indent EXCEPT ![s] = 0], p, p + 1)
      /\ Range(added) = Range(rows) \cup {s}
  BY <1>1, <1>3, <1>4, <1>5, AddKeepsOrder, SMTT(90)
<1> QED BY <1>1, <1>3, <1>6 DEF added, p, Listed

\* A tab that is opened.
LEMMA NewTabStep ==
    ASSUME SidebarInv, ~NestedMoves, NewTab
    PROVE  SidebarInv'
<1>1. PICK s \in Fresh, position \in NewTabPositions : AddScreen(s, position)
  BY DEF NewTab
<1>2. PreOrdered(Inserted(rows, <<s>>, position), [parent EXCEPT ![s] = NoRow],
                 [indent EXCEPT ![s] = 0])
  BY NewPlace DEF SidebarInv
<1>3. PreOrdered(rows', parent', indent')
  BY <1>1, <1>2 DEF AddScreen
<1>4. CellsShown'
  BY <1>1, <1>3, CellsRebuilt DEF AddScreen
<1>5. PathsInv'
  BY <1>1 DEF SidebarInv, PathsInv, AddScreen
<1> QED BY <1>3, <1>4, <1>5 DEF SidebarInv

\* A move leaves the rows that were there.
LEMMA MoveRange ==
    ASSUME NEW list, DOMAIN list = 1..Len(list), Len(list) \in Nat,
           NEW i \in 1..Len(list), NEW e \in (i + 1)..(Len(list) + 1),
           NEW t \in 1..(Len(list) + 1), t <= i \/ t >= e,
           NEW new, IsMove(list, new, i, e, t)
    PROVE  Range(new) = Range(list)
<1> DEFINE n == Len(list)
           To(j) == MoveTo(i, e, t, j)
<1>1. (\A j \in 1..n : To(j) \in 1..n) /\ (\A k \in 1..n : \E j \in 1..n : To(j) = k)
  BY MoveOrder, ZenonT(90)
<1>2. new \in Seq(Screens) /\ Len(new) = n /\ \A j \in 1..n : new[To(j)] = list[j]
  BY DEF IsMove
<1>3. DOMAIN new = 1..n
  BY <1>2, LenProperties
<1> HIDE DEF n, To
<1>4. DOMAIN list = 1..n
  BY DEF n
<1>5. ASSUME NEW r \in Range(list) PROVE r \in Range(new)
  <2>1. PICK j \in 1..n : r = list[j]
    BY <1>4 DEF Range
  <2>2. To(j) \in DOMAIN new /\ new[To(j)] = r
    BY <1>1, <1>2, <1>3, <2>1
  <2> QED BY <2>2 DEF Range
<1>6. ASSUME NEW r \in Range(new) PROVE r \in Range(list)
  <2>1. PICK k \in 1..n : r = new[k]
    BY <1>3 DEF Range
  <2>2. PICK j \in 1..n : To(j) = k
    BY <1>1
  <2>3. list[j] = r
    BY <1>2, <2>1, <2>2
  <2> QED BY <1>4, <2>3 DEF Range
<1> QED BY <1>5, <1>6

\* A startup tab that is put under its parent.
LEMMA UnderParent ==
    ASSUME NEW list, NEW par, NEW depth, PreOrdered(list, par, depth),
           NEW i \in 1..Len(list), EndsAt(list, depth, i, i + 1),
           NEW x \in 1..Len(list), x # i
    PROVE  LET f == SubtreeEnd(list, par, x)
               new == Moved(list, par, list[i], f)
               par2 == [par EXCEPT ![list[i]] = list[x]]
           IN  /\ f \in 1..(Len(list) + 1) /\ (f <= i \/ f >= i + 1)
               /\ IsMove(list, new, i, i + 1, f)
               /\ Range(new) = Range(list)
               /\ PreOrdered(new, par2, [depth EXCEPT ![list[i]] = RowDepth(par2, list[i])])
<1> DEFINE n == Len(list)
           f == SubtreeEnd(list, par, x)
           e == SubtreeEnd(list, par, i)
           new == Moved(list, par, list[i], f)
           par2 == [par EXCEPT ![list[i]] = list[x]]
           nd == depth[list[x]] + 1
           d2 == Shifted(list, depth, i, i + 1, nd)
           d3 == [depth EXCEPT ![list[i]] = RowDepth(par2, list[i])]
           k == MoveTo(i, i + 1, f, i)
<1>1. /\ n \in Nat /\ DOMAIN list = 1..n /\ list[i] \in Screens /\ list[x] \in Screens
      /\ depth[list[x]] \in Nat
  BY ListRows
<1>2. EndsAt(list, depth, x, f) /\ EndsAt(list, depth, i, e)
  BY EndIs
<1>3. e = i + 1
  <2> HIDE DEF e
  <2> QED BY <1>2, OneEnd
<1>4. x \in i..((i + 1) - 1) => x = i
  BY <1>1
<1>5. "child" \in Zones
  BY DEF Zones
<1> HIDE DEF f
<1>6. Fits(list, par, depth, i, i + 1, IF "child" = "before" THEN x ELSE f,
           IF "child" = "child" THEN list[x] ELSE par[list[x]],
           IF "child" = "child" THEN depth[list[x]] + 1 ELSE depth[list[x]])
  BY <1>2, <1>4, <1>5, DropFits
<1>7. Fits(list, par, depth, i, i + 1, f, list[x], nd)
  BY <1>6
<1>8. f \in 1..(n + 1) /\ (f <= i \/ f >= i + 1)
  BY <1>7 DEF Fits
<1>9. IsMove(list, new, i, i + 1, f)
  <2> HIDE DEF new
  <2> QED BY <1>3, <1>8, MovedIsMove DEF e, new
<1>10. nd \in Nat /\ list[x] \in Screens \cup {NoRow}
  BY <1>1
<1> HIDE DEF new, nd
<1>11. PreOrdered(new, par2, d2)
  BY <1>7, <1>9, <1>10, MoveKeepsOrder
<1>12. i + 1 \in (i + 1)..(n + 1)
  BY <1>1
<1>13. Range(new) = Range(list)
  BY <1>1, <1>8, <1>9, <1>12, MoveRange
<1>14. k \in 1..n
  BY <1>1, <1>8, <1>12, MoveOrder
<1>15. new[k] = list[i] /\ Len(new) = n
  BY <1>9 DEF IsMove
<1> HIDE DEF k, par2
<1>16. RowDepth(par2, list[i]) = d2[list[i]]
  BY <1>11, <1>14, <1>15, DepthIs
<1>17. \A r \in Screens : r # list[i] => d2[r] = depth[r]
  <2>1. \A r \in Screens : r # list[i] => ~\E m \in i..((i + 1) - 1) : r = list[m]
    BY <1>1
  <2> QED BY <2>1 DEF Shifted
<1>18. d2 \in [Screens -> Nat] /\ depth \in [Screens -> Nat]
  BY <1>11 DEF PreOrdered
<1> HIDE DEF d2
<1>19. d3 = d2
  BY <1>1, <1>16, <1>17, <1>18
<1> QED BY <1>8, <1>9, <1>11, <1>13, <1>19 DEF f, new, par2, d3

\* The list the cells are drawn of: that of the rows, or one of those before the move.
DrawnOf(list, s, added) ==
    /\ cells' = RebuiltCells(list, view)
    /\ \/ list = rows'
       \/ parent'[s] # NoRow /\ list \in {added, rows}

\* What create_instance does to the rows: one is added, and may be moved.
LEMMA CreateShape ==
    ASSUME PreOrdered(rows, parent, indent), ~NestedMoves, NEW s \in Fresh, CreateInstance(s)
    PROVE  /\ PreOrdered(rows', parent', indent')
           /\ \E added, p :
                 /\ IsAdd(rows, added, s, p)
                 /\ \E par, depth : PreOrdered(added, par, depth)
                 /\ \E list : DrawnOf(list, s, added)
                 /\ Range(added) = Range(rows') /\ Len(added) = Len(rows')
                 /\ \/ rows' = added
                    \/ \E f \in 1..(Len(added) + 1) :
                          (f <= p \/ f >= p + 1) /\ IsMove(added, rows', p, p + 1, f)
                 /\ \E q : parent' = [parent EXCEPT ![s] = q]
<1> DEFINE q == SidebarParent(Len(paths) + 1)
<1>1. PICK position \in NewTabPositions :
              LET linked == SetScreenParent(Inserted(rows, <<s>>, position), parent, s, q)
              IN  /\ rows' = linked.rows
                  /\ parent' = linked.parent
                  /\ indent' = [indent EXCEPT ![s] = RowDepth(linked.parent, s)]
                  /\ \E list \in CellLists(s, Inserted(rows, <<s>>, position), linked) :
                        cells' = RebuiltCells(list, view)
  BY DEF CreateInstance
<1> DEFINE added == Inserted(rows, <<s>>, position)
           p == Slot(rows, position)
           rooted == [parent EXCEPT ![s] = NoRow]
           d == [indent EXCEPT ![s] = 0]
<1>2. /\ s \in Screens /\ s \notin Range(paths)
      /\ IsAdd(rows, added, s, p) /\ PreOrdered(added, rooted, d)
      /\ EndsAt(added, d, p, p + 1)
  BY NewPlace
<1>3. q # s
  <2>1. CASE startup[Len(paths) + 1] \in DOMAIN paths
    <3>1. q \in Range(paths)
      BY <2>1 DEF SidebarParent, Range
    <3> QED BY <1>2, <3>1
  <2>2. CASE startup[Len(paths) + 1] \notin DOMAIN paths
    BY <1>2, <2>2, NoRowAssumption DEF SidebarParent
  <2> QED BY <2>1, <2>2
<1>4. /\ parent \in [Screens -> Screens \cup {NoRow}] /\ indent \in [Screens -> Nat]
      /\ Len(rows) \in Nat
  <2>1. Len(rows) \in Nat
    BY ListRows
  <2> QED BY <2>1 DEF PreOrdered
<1>5. added[p] = s /\ p \in 1..Len(added) /\ Len(added) \in Nat
  BY <1>2, <1>4 DEF IsAdd
<1> HIDE DEF q, p
<1> DEFINE linked == SetScreenParent(added, parent, s, q)
<1>6. /\ rows' = linked.rows /\ parent' = linked.parent
      /\ \E list \in CellLists(s, added, linked) : cells' = RebuiltCells(list, view)
  BY <1>1
<1> HIDE DEF linked
<1>7. \E list : /\ cells' = RebuiltCells(list, view)
                /\ \/ list = added /\ parent'[s] = NoRow
                   \/ parent'[s] # NoRow /\ list \in {added, rows, rows'}
  BY <1>6 DEF CellLists
<1>8. CASE q \notin Range(added)
  <2>1. rows' = added /\ parent' = rooted /\ indent' = [indent EXCEPT ![s] = RowDepth(rooted, s)]
    BY <1>1, <1>8 DEF SetScreenParent
  <2> HIDE DEF added, rooted, d
  <2>2. RowDepth(rooted, s) = d[s]
    BY <1>2, <1>5, DepthIs
  <2>3. indent' = d
    BY <1>2, <1>4, <2>1, <2>2 DEF d
  <2>4. PreOrdered(rows', parent', indent')
    BY <1>2, <2>1, <2>3
  <2>5. \E f : parent' = [parent EXCEPT ![s] = f]
    BY <2>1 DEF rooted
  <2>6. \E list : DrawnOf(list, s, added)
    BY <1>7, <2>1 DEF DrawnOf
  <2> QED BY <1>2, <2>1, <2>4, <2>5, <2>6
<1>9. CASE q \in Range(added)
  <2> DEFINE x == RowIndex(added, q)
             f == SubtreeEnd(added, rooted, x)
             par2 == [rooted EXCEPT ![s] = q]
  <2>1. /\ rows' = Moved(added, rooted, s, f) /\ parent' = [parent EXCEPT ![s] = q]
        /\ indent' = [indent EXCEPT ![s] = RowDepth([parent EXCEPT ![s] = q], s)]
    BY <1>1, <1>9 DEF SetScreenParent
  <2>2. par2 = [parent EXCEPT ![s] = q]
    BY <1>2, <1>4
  <2> HIDE DEF added, rooted, d
  <2>3. x \in 1..Len(added) /\ added[x] = q
    BY <1>2, <1>9, ListRows
  <2>4. x # p
    BY <1>3, <1>5, <2>3
  <2> HIDE DEF x
  <2>5. /\ f \in 1..(Len(added) + 1) /\ (f <= p \/ f >= p + 1)
        /\ IsMove(added, Moved(added, rooted, added[p], f), p, p + 1, f)
        /\ Range(Moved(added, rooted, added[p], f)) = Range(added)
        /\ PreOrdered(Moved(added, rooted, added[p], f), [rooted EXCEPT ![added[p]] = added[x]],
                [d EXCEPT ![added[p]] = RowDepth([rooted EXCEPT ![added[p]] = added[x]], added[p])])
    BY <1>2, <1>5, <2>3, <2>4, UnderParent
  <2> HIDE DEF f
  <2>6. /\ IsMove(added, rows', p, p + 1, f) /\ Range(rows') = Range(added)
        /\ PreOrdered(rows', par2, [d EXCEPT ![s] = RowDepth(par2, s)])
    BY <1>5, <2>1, <2>3, <2>5
  <2>7. [d EXCEPT ![s] = RowDepth(par2, s)] = indent'
    <3> HIDE DEF par2
    <3> QED BY <1>2, <1>4, <2>1, <2>2 DEF d
  <2>8. PreOrdered(rows', parent', indent')
    BY <2>1, <2>2, <2>6, <2>7
  <2>9. Len(rows') = Len(added)
    BY <2>6 DEF IsMove
  <2>10. \E r : parent' = [parent EXCEPT ![s] = r]
    BY <2>1
  <2>11. parent'[s] # NoRow
    BY <1>2, <1>4, <1>9, <2>1, NoRowAssumption, ListRows
  <2>12. \E list : DrawnOf(list, s, added)
    BY <1>7, <2>11 DEF DrawnOf
  <2> QED BY <1>2, <2>5, <2>6, <2>8, <2>9, <2>10, <2>12
<1> QED BY <1>8, <1>9

\* The rows that were there keep their order when one is added and then moved.
LEMMA CreateOrder ==
    ASSUME PreOrdered(rows, parent, indent), PreOrdered(rows', parent', indent'),
           NEW s, s \notin Listed, NEW added, NEW p, IsAdd(rows, added, s, p),
           NEW par, NEW depth, PreOrdered(added, par, depth),
           \/ rows' = added
           \/ \E f \in 1..(Len(added) + 1) :
                 (f <= p \/ f >= p + 1) /\ IsMove(added, rows', p, p + 1, f)
    PROVE  /\ Range(added) = Listed \cup {s}
           /\ SameOrder(Listed, added, rows') /\ SameOrder(Listed, rows, rows')
<1>1. SameOrder(Range(rows), rows, added)
  BY AddOrder
<1>2. /\ Len(rows) \in Nat /\ DOMAIN rows = 1..Len(rows)
      /\ DOMAIN added = 1..Len(added) /\ Len(added) \in Nat
  BY ListRows
<1>3. /\ p \in 1..Len(added) /\ p + 1 \in (p + 1)..(Len(added) + 1) /\ added[p] = s
      /\ Len(added) = Len(rows) + 1
      /\ \A j \in 1..Len(rows) : added[IF j < p THEN j ELSE j + 1] = rows[j]
  BY <1>2 DEF IsAdd
<1>4. Listed \subseteq Range(added)
  <2> SUFFICES ASSUME NEW r \in Listed PROVE r \in Range(added)
    OBVIOUS
  <2>1. PICK j \in 1..Len(rows) : r = rows[j]
    BY <1>2 DEF Listed, Range
  <2> DEFINE m == IF j < p THEN j ELSE j + 1
  <2>2. m \in 1..Len(added)
    BY <1>2, <1>3
  <2>3. added[m] = r
    BY <1>3, <2>1
  <2> HIDE DEF m
  <2> QED BY <1>2, <2>2, <2>3 DEF Range
<1>5. Range(added) \subseteq Listed \cup {s}
  <2> SUFFICES ASSUME NEW k \in 1..Len(added), k # p PROVE added[k] \in Listed
    BY <1>2, <1>3 DEF Range
  <2> DEFINE j == IF k < p THEN k ELSE k - 1
  <2>1. j \in 1..Len(rows) /\ (IF j < p THEN j ELSE j + 1) = k
    BY <1>2, <1>3
  <2>2. added[k] = rows[j]
    BY <1>3, <2>1
  <2> HIDE DEF j
  <2> QED BY <1>2, <2>1, <2>2 DEF Listed, Range
<1>6. Range(added) = Listed \cup {s}
  <2>1. s \in Range(added)
    BY <1>2, <1>3 DEF Range
  <2> QED BY <1>4, <1>5, <2>1
<1>7. SameOrder(Listed, added, rows')
  <2>1. CASE rows' = added
    BY <2>1 DEF SameOrder
  <2>2. ASSUME NEW f \in 1..(Len(added) + 1), f <= p \/ f >= p + 1,
               IsMove(added, rows', p, p + 1, f)
        PROVE  SameOrder(Listed, added, rows')
    <3>1. SameOrder(Range(added) \ {added[k] : k \in p..((p + 1) - 1)}, added, rows')
      BY <1>3, <2>2, MoveKeeps
    <3>2. {added[k] : k \in p..((p + 1) - 1)} = {s}
      BY <1>2, <1>3
    <3> QED BY <1>4, <3>1, <3>2 DEF SameOrder
  <2> QED BY <2>1, <2>2
<1>8. SameOrder(Listed, rows, rows')
  BY <1>1, <1>7 DEF SameOrder, Listed
<1> QED BY <1>6, <1>7, <1>8

\* The tab that was created last, when it was nested.
LEMMA CreatedLast ==
    ASSUME PathsInv, NEW s \in Screens, s \in Listed', parent'[s] # NoRow, paths' = Append(paths, s)
    PROVE  s \in NestedLast'
<1>1. Len(paths) \in Nat /\ DOMAIN paths = 1..Len(paths) /\ paths \in Seq(Screens \cup {NoRow})
  BY DEF PathsInv
<1>2. /\ Len(paths') = Len(paths) + 1 /\ DOMAIN paths' = 1..(Len(paths) + 1)
      /\ paths'[Len(paths) + 1] = s
  BY <1>1
<1>3. \E i \in DOMAIN paths' : paths'[i] = s /\ \A j \in (i + 1)..Len(paths') : paths'[j] = NoRow
  <2>1. (Len(paths) + 1) + 1 > Len(paths')
    BY <1>1, <1>2
  <2> WITNESS Len(paths) + 1 \in DOMAIN paths'
  <2> QED BY <1>1, <1>2, <2>1
<1> QED BY <1>3 DEF NestedLast

\* A tab that could not be created is not the last one.
LEMMA FailedLast ==
    ASSUME PathsInv, paths' = Append(paths, NoRow), rows' = rows, parent' = parent,
           PreOrdered(rows, parent, indent)
    PROVE  NestedLast' = NestedLast
<1>1. Len(paths) \in Nat /\ DOMAIN paths = 1..Len(paths) /\ paths \in Seq(Screens \cup {NoRow})
  BY DEF PathsInv
<1>2. /\ Len(paths') = Len(paths) + 1 /\ DOMAIN paths' = 1..(Len(paths) + 1)
      /\ paths'[Len(paths) + 1] = NoRow /\ \A i \in 1..Len(paths) : paths'[i] = paths[i]
  BY <1>1
<1>3. \A r \in Listed : r # NoRow
  BY ListRows DEF Listed
<1>4. ASSUME NEW r \in Listed
      PROVE  (\E i \in DOMAIN paths' : paths'[i] = r /\ \A j \in (i + 1)..Len(paths') : paths'[j] = NoRow)
             <=> \E i \in DOMAIN paths : paths[i] = r /\ \A j \in (i + 1)..Len(paths) : paths[j] = NoRow
  <2>1. ASSUME NEW i \in 1..Len(paths), paths[i] = r
        PROVE  (\A j \in (i + 1)..Len(paths') : paths'[j] = NoRow)
               <=> \A j \in (i + 1)..Len(paths) : paths[j] = NoRow
    BY <1>1, <1>2
  <2>2. paths'[Len(paths) + 1] # r
    BY <1>2, <1>3
  <2>3. \A i \in DOMAIN paths' : i \in 1..Len(paths) \/ i = Len(paths) + 1
    BY <1>1, <1>2
  <2> QED BY <1>1, <1>2, <2>1, <2>2, <2>3
<1> QED BY <1>4 DEF NestedLast, Listed

\* A startup tab.
LEMMA CreateInstanceStep ==
    ASSUME SidebarInv, ~NestedMoves, NEW s \in Fresh, CreateInstance(s)
    PROVE  SidebarInv'
<1>1. PreOrdered(rows, parent, indent) /\ PathsInv /\ s \in Screens /\ s \notin Listed
  BY DEF SidebarInv, Fresh
<1>2. PreOrdered(rows', parent', indent')
  BY <1>1, CreateShape
<1>3. view' = view /\ paths' = Append(paths, s)
  BY DEF CreateInstance
<1>4. PathsInv'
  BY <1>1, <1>3 DEF PathsInv
<1>5. PICK added, p :
         /\ IsAdd(rows, added, s, p)
         /\ \E par, depth : PreOrdered(added, par, depth)
         /\ \E list : DrawnOf(list, s, added)
         /\ Range(added) = Range(rows') /\ Len(added) = Len(rows')
         /\ \/ rows' = added
            \/ \E f \in 1..(Len(added) + 1) :
                  (f <= p \/ f >= p + 1) /\ IsMove(added, rows', p, p + 1, f)
         /\ \E q : parent' = [parent EXCEPT ![s] = q]
  BY <1>1, CreateShape
<1>6. PICK par, depth : PreOrdered(added, par, depth)
  BY <1>5
<1>7. /\ Range(added) = Listed \cup {s}
      /\ SameOrder(Listed, added, rows') /\ SameOrder(Listed, rows, rows')
  BY <1>1, <1>2, <1>5, <1>6, CreateOrder
<1>8. Listed' = Listed \cup {s}
  BY <1>5, <1>7 DEF Listed
<1>9. PICK list : DrawnOf(list, s, added)
  BY <1>5
<1>10. CASE list = rows'
  BY <1>2, <1>3, <1>4, <1>9, <1>10, CellsRebuilt DEF SidebarInv, DrawnOf
<1>11. CASE parent'[s] # NoRow /\ list \in {added, rows}
  <2>1. s \in NestedLast'
    BY <1>1, <1>3, <1>8, <1>11, CreatedLast
  <2>2. Listed' \ NestedLast' \subseteq Listed
    BY <1>8, <2>1
  <2>3. /\ Range(list) \subseteq Listed' /\ Listed' \ Range(list) \subseteq {s}
        /\ SameOrder(Listed, list, rows')
    BY <1>7, <1>8, <1>11 DEF Listed
  <2>4. IsInjective(list)
    BY <1>1, <1>6, <1>11 DEF PreOrdered, IsInjective
  <2>5. SameOrder(Listed' \ NestedLast', list, rows')
    BY <2>2, <2>3 DEF SameOrder
  <2>6. view' = "collapsed" => cells' = list
    BY <1>3, <1>9 DEF RebuiltCells, DrawnOf
  <2>7. CellsShown'
    BY <2>1, <2>3, <2>4, <2>5, <2>6 DEF CellsShown
  <2> QED BY <1>2, <1>4, <2>7 DEF SidebarInv
<1> QED BY <1>9, <1>10, <1>11 DEF DrawnOf

\* A row taken out and put back at a place among the others.
LEMMA ReorderIsMove ==
    ASSUME NEW list \in Seq(Screens), NEW i \in 1..Len(list), NEW p \in 1..Len(list)
    PROVE  IsMove(list, Inserted(RemoveAt(list, i), <<list[i]>>, p), i, i + 1,
                  IF p > i THEN p + 1 ELSE p)
<1> DEFINE n == Len(list)
           rest == RemoveAt(list, i)
           s == list[i]
           new == Inserted(rest, <<s>>, p)
           t == IF p > i THEN p + 1 ELSE p
<1>1. n \in Nat /\ s \in Screens /\ i \in 1..n /\ p \in 1..n
  BY LenProperties, ElementOfSeq
<1>2. IsRemoval(list, rest, i)
  BY RemoveAtIs
<1>3. /\ rest \in Seq(Screens) /\ Len(rest) = n - 1
      /\ \A j \in 1..n : j # i => rest[IF j < i THEN j ELSE j - 1] = list[j]
  BY <1>2 DEF IsRemoval
<1> HIDE DEF rest, s
<1>4. IsAdd(rest, new, s, Slot(rest, p))
  BY <1>1, <1>3, InsertedIsAdd
<1>5. Slot(rest, p) = p
  BY <1>1, <1>3 DEF Slot
<1> HIDE DEF new
<1>6. /\ new \in Seq(Screens) /\ Len(new) = (n - 1) + 1 /\ new[p] = s
      /\ \A j \in 1..(n - 1) : new[IF j < p THEN j ELSE j + 1] = rest[j]
  BY <1>3, <1>4, <1>5 DEF IsAdd
<1>7. ASSUME NEW j \in 1..n PROVE new[MoveTo(i, i + 1, t, j)] = list[j]
  <2>1. CASE j = i
    <3>1. MoveTo(i, i + 1, t, j) = p
      BY <1>1, <2>1 DEF MoveTo, SwapTo
    <3> QED BY <1>6, <2>1, <3>1 DEF s
  <2>2. CASE j # i
    <3> DEFINE m == IF j < i THEN j ELSE j - 1
    <3>1. m \in 1..(n - 1) /\ MoveTo(i, i + 1, t, j) = IF m < p THEN m ELSE m + 1
      BY <1>1, <2>2 DEF MoveTo, SwapTo
    <3>2. rest[m] = list[j]
      BY <1>3, <2>2
    <3> HIDE DEF m
    <3> QED BY <1>6, <3>1, <3>2
  <2> QED BY <2>1, <2>2
<1>8. Len(new) = n
  BY <1>1, <1>6
<1> QED BY <1>6, <1>7, <1>8 DEF IsMove, new, rest, s

\* A tab is reordered among roots, each a family of its own.
LEMMA ReorderShape ==
    ASSUME PreOrdered(rows, parent, indent), ~NestedMoves,
           NEW s \in Screens, NEW direction \in {1, -1}, ReorderScreen(s, direction)
    PROVE  \E i \in 1..Len(rows), t \in 1..(Len(rows) + 1) :
              /\ rows[i] = s /\ EndsAt(rows, indent, i, i + 1)
              /\ t <= i \/ t >= i + 1
              /\ IsMove(rows, rows', i, i + 1, t)
              /\ PreOrdered(rows', parent, indent)
<1> DEFINE n == Len(rows)
           i == RowIndex(rows, s)
           a == (i - 1) + direction + n
           p == (a % n) + 1
           t == IF p > i THEN p + 1 ELSE p
<1>1. n \in Nat /\ i \in 1..n /\ rows[i] = s /\ DOMAIN rows = 1..n
  BY ListRows DEF ReorderScreen, Listed
<1> HIDE DEF i
<1>2. a \in Nat
  BY <1>1
<1> HIDE DEF a
<1>3. p \in 1..n
  BY <1>1, <1>2
<1>4. rows' = Inserted(RemoveAt(rows, i), <<s>>, p)
  BY DEF ReorderScreen, i, a
<1>5. /\ rows \in Seq(Screens) /\ indent \in [Screens -> Nat]
      /\ parent \in [Screens -> Screens \cup {NoRow}]
  BY DEF PreOrdered
<1> HIDE DEF p
<1>6. IsMove(rows, rows', i, i + 1, t)
  BY <1>1, <1>3, <1>4, <1>5, ReorderIsMove
<1>7. t \in 1..(n + 1) /\ (t <= i \/ t >= i + 1)
  BY <1>1, <1>3
<1>8. \A j \in 1..n : rows[j] \in Screens /\ rows[j] # NoRow /\ parent[rows[j]] = NoRow
  <2>1. \A j \in 1..n : rows[j] \in Listed /\ rows[j] \in Screens /\ rows[j] # NoRow
    BY ListRows DEF Listed
  <2>2. ~Nested(parent)
    BY DEF ReorderScreen
  <2> QED BY <2>1, <2>2 DEF Nested
<1>9. \A j \in 1..n : indent[rows[j]] = 0
  BY <1>8, RootRow
<1>10. EndsAt(rows, indent, i, i + 1)
  <2>1. i + 1 \in (i + 1)..(n + 1) /\ (i + 1 <= n => i + 1 \in 1..n)
        /\ \A k \in (i + 1)..((i + 1) - 1) : FALSE
    BY <1>1
  <2> QED BY <1>1, <1>9, <2>1 DEF EndsAt
<1> HIDE DEF t
<1>11. Fits(rows, parent, indent, i, i + 1, t, NoRow, 0)
  BY <1>7, <1>8 DEF Fits
<1>12. 0 \in Nat /\ NoRow \in Screens \cup {NoRow}
  OBVIOUS
<1> DEFINE par2 == [parent EXCEPT ![rows[i]] = NoRow]
           d2 == Shifted(rows, indent, i, i + 1, 0)
<1>13. PreOrdered(rows', par2, d2)
  BY <1>1, <1>6, <1>10, <1>11, <1>12, MoveKeepsOrder
<1>14. par2 = parent
  BY <1>1, <1>5, <1>8
<1>15. d2 = indent
  <2>1. \A r \in Screens : (\E k \in i..((i + 1) - 1) : r = rows[k]) <=> r = rows[i]
    BY <1>1
  <2>2. \A r \in Screens : d2[r] = indent[r]
    BY <1>1, <1>5, <1>9, <2>1 DEF Shifted
  <2>3. d2 = [r \in Screens |-> d2[r]]
    BY DEF Shifted
  <2> HIDE DEF d2
  <2> QED BY <1>5, <2>2, <2>3
<1> QED BY <1>1, <1>6, <1>7, <1>10, <1>13, <1>14, <1>15

\* A tab that is reordered.
LEMMA ReorderStep ==
    ASSUME SidebarInv, ~NestedMoves,
           NEW s \in Screens, NEW direction \in {1, -1}, ReorderScreen(s, direction)
    PROVE  SidebarInv'
<1>1. PreOrdered(rows', parent, indent)
  BY ReorderShape DEF SidebarInv
<1>2. PreOrdered(rows', parent', indent')
  BY <1>1 DEF ReorderScreen
<1>3. CellsShown'
  BY <1>2, CellsRebuilt DEF ReorderScreen
<1>4. PathsInv'
  BY DEF SidebarInv, PathsInv, ReorderScreen
<1> QED BY <1>2, <1>3, <1>4 DEF SidebarInv

\* Every step keeps the traversal.
LEMMA SidebarNext ==
    ASSUME SidebarInv, ~NestedMoves, [Next]_vars
    PROVE  SidebarInv'
<1>1. CASE NewTab
  BY <1>1, NewTabStep
<1>2. CASE \E s \in Screens : RemoveScreen(s)
  BY <1>2, RemoveStep
<1>3. CASE \E source, target \in Screens, zone \in Zones : DropOnRow(source, target, zone)
  BY <1>3, DropStep
<1>4. CASE \E source \in Screens : DropBelowAll(source)
  BY <1>4, BelowAllStep
<1>5. CASE \E s \in Screens, direction \in {1, -1} : ReorderScreen(s, direction)
  BY <1>5, ReorderStep
<1>6. CASE \E state \in Views : ApplyState(state)
  <2>1. PICK state \in Views : ApplyState(state)
    BY <1>6
  <2>2. rows' = rows /\ parent' = parent /\ indent' = indent /\ paths' = paths
    BY <2>1 DEF ApplyState
  <2>3. PreOrdered(rows', parent', indent') /\ PathsInv'
    BY <2>2 DEF SidebarInv, PathsInv
  <2>4. CellsShown'
    BY <2>1, <2>2, <2>3, CellsRebuilt DEF ApplyState
  <2> QED BY <2>3, <2>4 DEF SidebarInv
<1>7. CASE RedrawCells
  <2>1. rows' = rows /\ parent' = parent /\ indent' = indent /\ paths' = paths /\ view' = view
    BY <1>7 DEF RedrawCells
  <2>2. PreOrdered(rows', parent', indent') /\ PathsInv'
    BY <2>1 DEF SidebarInv, PathsInv
  <2>3. CellsShown'
    BY <1>7, <2>1, <2>2, CellsRebuilt DEF RedrawCells
  <2> QED BY <2>2, <2>3 DEF SidebarInv
<1>8. CASE \E s \in Fresh : CreateInstance(s)
  BY <1>8, CreateInstanceStep
<1>9. CASE CreateInstanceFails
  <2>1. UNCHANGED <<rows, parent, indent, view, cells>> /\ paths' = Append(paths, NoRow)
    BY <1>9 DEF CreateInstanceFails
  <2>2. NestedLast' = NestedLast
    BY <2>1, FailedLast DEF SidebarInv
  <2>3. CellsShown'
    BY <2>1, <2>2 DEF SidebarInv, CellsShown, Listed
  <2>4. PathsInv'
    BY <2>1 DEF SidebarInv, PathsInv
  <2> QED BY <2>1, <2>3, <2>4 DEF SidebarInv
<1>10. CASE UNCHANGED vars
  <2>1. UNCHANGED <<rows, parent, indent, view, cells, paths>>
    BY <1>10 DEF vars
  <2>2. CellsShown' /\ PathsInv'
    BY <2>1 DEF SidebarInv, CellsShown, PathsInv, NestedLast, Listed
  <2> QED BY <2>1, <2>2 DEF SidebarInv
<1> QED BY <1>1, <1>2, <1>3, <1>4, <1>5, <1>6, <1>7, <1>8, <1>9, <1>10 DEF Next

\* The inductive invariant of the sidebar, while no row is moved by its index
\* among nested ones: the list is a traversal of the tree, each row indented
\* for its depth, and the cells are those of the rows but for the tab nested last.
THEOREM SidebarInvariant ==
    ASSUME ~NestedMoves
    PROVE  Spec => []SidebarInv
<1>1. Init => SidebarInv
  <2> SUFFICES ASSUME Init PROVE SidebarInv
    OBVIOUS
  <2>1. rows = <<>> /\ cells = <<>> /\ parent = [s \in Screens |-> NoRow] /\ indent = [s \in Screens |-> 0]
    BY DEF Init
  <2>2. rows \in Seq(Screens) /\ DOMAIN rows = {}
    BY <2>1
  <2>3. PreOrdered(rows, parent, indent)
    BY <2>1, <2>2 DEF PreOrdered
  <2>4. CellsShown
    <3>1. Range(rows) = {}
      BY <2>2 DEF Range
    <3>2. IsInjective(cells)
      BY <2>1, <2>2 DEF IsInjective
    <3> QED BY <2>1, <3>1, <3>2 DEF CellsShown, Listed, SameOrder
  <2>5. PathsInv
    BY DEF Init, PathsInv
  <2> QED BY <2>3, <2>4, <2>5 DEF SidebarInv
<1>2. SidebarInv /\ [Next]_vars => SidebarInv'
  BY SidebarNext
<1> QED BY <1>1, <1>2, PTL DEF Spec

\* A family is a run of consecutive rows that starts with its head, as the
\* comment over the hierarchy helpers of terminal-sidebar.cc says, after any
\* drops, closes, new tabs and startup tabs in any order.
THEOREM SidebarIsPreOrder ==
    ASSUME ~NestedMoves
    PROVE  Spec => []SidebarPreOrder
<1>1. SidebarInv => SidebarPreOrder
  BY LocalImpliesRuns DEF SidebarInv
<1> QED BY <1>1, SidebarInvariant, PTL

\* No listed row points to a row that is gone: terminal_sidebar_remove_screen
\* finds all the children of the row it destroys among the deeper rows below it.
THEOREM SidebarParentsListed ==
    ASSUME ~NestedMoves
    PROVE  Spec => []ParentsListed
<1>1. SidebarInv => ParentsListed
  <2> SUFFICES ASSUME SidebarInv, NEW r \in Listed PROVE parent[r] \in Listed \cup {NoRow}
    BY DEF ParentsListed
  <2>1. PreOrdered(rows, parent, indent)
    BY DEF SidebarInv
  <2>2. PICK j \in 1..Len(rows) : r = rows[j]
    BY <2>1, ListRows DEF Listed
  <2>3. ASSUME parent[r] # NoRow PROVE parent[r] \in Listed
    <3>1. PICK i \in 1..Len(rows) : parent[r] = rows[i]
      BY <2>1, <2>2, <2>3, ParentRow
    <3> QED BY <2>1, <3>1, ListRows DEF Listed
  <2> QED BY <2>3
<1> QED BY <1>1, SidebarInvariant, PTL

\* Each row is indented for the depth its parents give it, and in the collapsed view
\* the cells are those of the rows in their order, none of a closed screen; only the
\* cell of the startup tab that was moved last can be out of place or missing.
THEOREM SidebarDrawnAsLinked ==
    ASSUME ~NestedMoves
    PROVE  Spec => []DrawnAsLinked
<1>1. SidebarInv => DrawnAsLinked
  <2> SUFFICES ASSUME SidebarInv PROVE DrawnAsLinked
    OBVIOUS
  <2>1. PreOrdered(rows, parent, indent) /\ CellsShown
    BY DEF SidebarInv
  <2>2. ASSUME NEW r \in Listed PROVE indent[r] = RowDepth(parent, r)
    <3>1. PICK j \in 1..Len(rows) : r = rows[j]
      BY <2>1, ListRows DEF Listed
    <3> QED BY <2>1, <3>1, DepthIs
  <2> QED BY <2>1, <2>2 DEF DrawnAsLinked, CellsShown
<1> QED BY <1>1, SidebarInvariant, PTL

-----------------------------------------------------------------------------
(* Families travel as one. *)

\* What FamiliesTravel says of one step.
Travels ==
    LET gone == Listed \ Range(rows')
        new == Range(rows') \ Listed
    IN  IF gone # {}
        THEN /\ new = {}
             /\ SameOrder(Listed \ gone, rows, rows')
             /\ \A r \in Listed \ gone :
                   parent'[r] = IF parent[r] \in gone THEN parent[parent[r]] ELSE parent[r]
        ELSE \/ SameOrder(Listed, rows, rows') /\ \A r \in Listed : parent'[r] = parent[r]
             \/ /\ new = {}
                /\ \E r \in Listed :
                      /\ SameOrder(Listed \ Family(r), rows, rows')
                      /\ SameOrder(Family(r), rows, rows')
                      /\ \A x \in Listed \ {r} : parent'[x] = parent[x]

\* One family is moved, and its head alone may have a new parent.
LEMMA MoveTravels ==
    ASSUME PreOrdered(rows, parent, indent), PreOrdered(rows', parent', indent'),
           NEW i \in 1..Len(rows), NEW e, EndsAt(rows, indent, i, e),
           NEW t \in 1..(Len(rows) + 1), t <= i \/ t >= e,
           IsMove(rows, rows', i, e, t),
           \A x \in Listed \ {rows[i]} : parent'[x] = parent[x]
    PROVE  Travels
<1>1. /\ e \in (i + 1)..(Len(rows) + 1) /\ Len(rows) \in Nat /\ DOMAIN rows = 1..Len(rows)
      /\ rows[i] \in Listed
  BY ListRows DEF EndsAt, Listed
<1>2. Range(rows') = Range(rows)
  BY <1>1, MoveRange
<1>3. Family(rows[i]) = {rows[k] : k \in i..(e - 1)}
  BY FamilyRows
<1>4. /\ SameOrder({rows[k] : k \in i..(e - 1)}, rows, rows')
      /\ SameOrder(Range(rows) \ {rows[k] : k \in i..(e - 1)}, rows, rows')
  BY <1>1, MoveKeeps
<1>5. /\ SameOrder(Listed \ Family(rows[i]), rows, rows')
      /\ SameOrder(Family(rows[i]), rows, rows')
  BY <1>3, <1>4 DEF Listed
<1> QED BY <1>1, <1>2, <1>5 DEF Travels, Listed

\* A close hands on the children and moves nothing.
LEMMA RemoveTravels ==
    ASSUME PreOrdered(rows, parent, indent), PreOrdered(rows', parent', indent'),
           NEW s \in Screens, RemoveScreen(s)
    PROVE  Travels
<1> DEFINE i == RowIndex(rows, s)
<1>1. /\ i \in 1..Len(rows) /\ rows[i] = s /\ s \in Listed /\ DOMAIN rows = 1..Len(rows)
      /\ \A j \in 1..Len(rows) : rows[j] = rows[i] <=> j = i
  BY ListRows DEF RemoveScreen, Listed
<1>2. rows' = RemoveAt(rows, i) /\ parent' = HoistedParents(rows[i])
  BY <1>1 DEF RemoveScreen
<1> HIDE DEF i
<1>3. Range(rows') = Listed \ {rows[i]} /\ IsRemoval(rows, rows', i)
  BY <1>1, <1>2, RemoveIndents
<1>4. SameOrder(Range(rows) \ {rows[i]}, rows, rows')
  BY <1>1, <1>3, RemovalOrder
<1>5. \A j \in 1..Len(rows) : j # i =>
         parent'[rows[j]] = IF parent[rows[j]] = rows[i] THEN parent[rows[i]] ELSE parent[rows[j]]
  BY <1>1, <1>2, HoistedIs
<1>6. ASSUME NEW r \in Listed, r # s
      PROVE  parent'[r] = IF parent[r] \in {s} THEN parent[parent[r]] ELSE parent[r]
  <2>1. PICK j \in 1..Len(rows) : r = rows[j] /\ j # i
    BY <1>1, <1>6 DEF Listed, Range
  <2> QED BY <1>1, <1>5, <2>1
<1>7. Listed \ Range(rows') = {s} /\ Range(rows') \ Listed = {}
  BY <1>1, <1>3
<1>8. SameOrder(Listed \ {s}, rows, rows')
  BY <1>1, <1>4 DEF Listed
<1> QED BY <1>6, <1>7, <1>8 DEF Travels

\* A tab that is opened changes the order and the parents of no other.
LEMMA NewTabTravels ==
    ASSUME PreOrdered(rows, parent, indent), PreOrdered(rows', parent', indent'),
           ~NestedMoves, NewTab
    PROVE  Travels
<1>1. PICK s \in Fresh, position \in NewTabPositions : AddScreen(s, position)
  BY DEF NewTab
<1>2. /\ s \notin Listed
      /\ IsAdd(rows, Inserted(rows, <<s>>, position), s, Slot(rows, position))
      /\ Range(Inserted(rows, <<s>>, position)) = Listed \cup {s}
  BY NewPlace
<1>3. /\ rows' = Inserted(rows, <<s>>, position) /\ parent' = [parent EXCEPT ![s] = NoRow]
  BY <1>1 DEF AddScreen
<1>4. IsAdd(rows, rows', s, Slot(rows, position)) /\ Range(rows') = Listed \cup {s}
  BY <1>2, <1>3
<1>5. SameOrder(Range(rows), rows, rows')
  BY <1>4, AddOrder
<1>6. parent \in [Screens -> Screens \cup {NoRow}] /\ \A r \in Listed : r \in Screens
  <2>1. \A r \in Listed : r \in Screens
    BY ListRows DEF Listed
  <2> QED BY <2>1 DEF PreOrdered
<1>7. \A r \in Listed : parent'[r] = parent[r]
  BY <1>2, <1>3, <1>6
<1> QED BY <1>4, <1>5, <1>7 DEF Travels, Listed

\* Nor does a startup tab, wherever it is put.
LEMMA CreateTravels ==
    ASSUME PreOrdered(rows, parent, indent), PreOrdered(rows', parent', indent'),
           ~NestedMoves, NEW s \in Fresh, CreateInstance(s)
    PROVE  Travels
<1>1. PICK added, p :
         /\ IsAdd(rows, added, s, p)
         /\ \E par, depth : PreOrdered(added, par, depth)
         /\ Range(added) = Range(rows') /\ Len(added) = Len(rows')
         /\ \/ rows' = added
            \/ \E f \in 1..(Len(added) + 1) :
                  (f <= p \/ f >= p + 1) /\ IsMove(added, rows', p, p + 1, f)
         /\ \E q : parent' = [parent EXCEPT ![s] = q]
  BY CreateShape
<1>2. PICK par, depth : PreOrdered(added, par, depth)
  BY <1>1
<1>3. s \in Screens /\ s \notin Listed
  BY DEF Fresh
<1>4. Range(added) = Listed \cup {s} /\ SameOrder(Listed, rows, rows')
  BY <1>1, <1>2, <1>3, CreateOrder
<1>5. parent \in [Screens -> Screens \cup {NoRow}] /\ \A r \in Listed : r \in Screens
  <2>1. \A r \in Listed : r \in Screens
    BY ListRows DEF Listed
  <2> QED BY <2>1 DEF PreOrdered
<1>6. \A r \in Listed : parent'[r] = parent[r]
  BY <1>1, <1>3, <1>5
<1>7. Listed \ Range(rows') = {}
  BY <1>1, <1>4
<1> QED BY <1>4, <1>6, <1>7 DEF Travels

\* Every step.
LEMMA TravelsNext ==
    ASSUME SidebarInv, SidebarInv', ~NestedMoves, Next
    PROVE  Travels
<1>1. PreOrdered(rows, parent, indent) /\ PreOrdered(rows', parent', indent')
  BY DEF SidebarInv
<1>2. parent \in [Screens -> Screens \cup {NoRow}] /\ Listed \subseteq Screens
  <2>1. Listed \subseteq Screens
    BY <1>1, ListRows DEF Listed
  <2> QED BY <1>1, <2>1 DEF PreOrdered
<1>3. ASSUME rows' = rows, parent' = parent PROVE Travels
  BY <1>3 DEF Travels, SameOrder, Listed
<1>4. CASE NewTab
  BY <1>1, <1>4, NewTabTravels
<1>5. CASE \E s \in Screens : RemoveScreen(s)
  BY <1>1, <1>5, RemoveTravels
<1>6. CASE \E source, target \in Screens, zone \in Zones : DropOnRow(source, target, zone)
  <2>1. PICK source \in Screens, target \in Screens, zone \in Zones : DropOnRow(source, target, zone)
    BY <1>6
  <2>2. PICK i \in 1..Len(rows), e, t, nd \in Nat :
              /\ rows[i] = source /\ EndsAt(rows, indent, i, e)
              /\ Fits(rows, parent, indent, i, e, t, parent'[source], nd)
              /\ IsMove(rows, rows', i, e, t)
              /\ parent'[source] \in Screens \cup {NoRow}
              /\ parent' = [parent EXCEPT ![rows[i]] = parent'[source]]
    BY <1>1, <2>1, DropShape
  <2>3. t \in 1..(Len(rows) + 1) /\ (t <= i \/ t >= e)
    BY <2>2 DEF Fits
  <2>4. \A x \in Listed \ {rows[i]} : parent'[x] = parent[x]
    BY <1>2, <2>2
  <2> QED BY <1>1, <2>2, <2>3, <2>4, MoveTravels
<1>7. CASE \E source \in Screens : DropBelowAll(source)
  <2>1. PICK source \in Screens : DropBelowAll(source)
    BY <1>7
  <2>2. PICK i \in 1..Len(rows), e \in Nat :
              /\ rows[i] = source /\ EndsAt(rows, indent, i, e)
              /\ Fits(rows, parent, indent, i, e, Len(rows) + 1, NoRow, 0)
              /\ IsMove(rows, rows', i, e, Len(rows) + 1)
              /\ parent' = [parent EXCEPT ![rows[i]] = NoRow]
    BY <1>1, <2>1, BelowAllShape
  <2>3. Len(rows) + 1 \in 1..(Len(rows) + 1) /\ (Len(rows) + 1 <= i \/ Len(rows) + 1 >= e)
    BY <2>2 DEF Fits
  <2>4. \A x \in Listed \ {rows[i]} : parent'[x] = parent[x]
    BY <1>2, <2>2
  <2> QED BY <1>1, <2>2, <2>3, <2>4, MoveTravels
<1>8. CASE \E s \in Screens, direction \in {1, -1} : ReorderScreen(s, direction)
  <2>1. PICK s \in Screens, direction \in {1, -1} : ReorderScreen(s, direction)
    BY <1>8
  <2>2. PICK i \in 1..Len(rows), t \in 1..(Len(rows) + 1) :
              /\ rows[i] = s /\ EndsAt(rows, indent, i, i + 1)
              /\ t <= i \/ t >= i + 1
              /\ IsMove(rows, rows', i, i + 1, t)
    BY <1>1, <2>1, ReorderShape
  <2>3. \A x \in Listed \ {rows[i]} : parent'[x] = parent[x]
    BY <2>1 DEF ReorderScreen
  <2> QED BY <1>1, <2>2, <2>3, MoveTravels
<1>9. CASE \E state \in Views : ApplyState(state)
  BY <1>3, <1>9 DEF ApplyState
<1>10. CASE RedrawCells
  BY <1>3, <1>10 DEF RedrawCells
<1>11. CASE \E s \in Fresh : CreateInstance(s)
  BY <1>1, <1>11, CreateTravels
<1>12. CASE CreateInstanceFails
  BY <1>3, <1>12 DEF CreateInstanceFails
<1> QED BY <1>4, <1>5, <1>6, <1>7, <1>8, <1>9, <1>10, <1>11, <1>12 DEF Next

\* A step that opens or closes no screen moves at most one family, in its own
\* order, past the others, and gives a new parent to its head alone; a close
\* hands on the children and moves nothing.
THEOREM SidebarFamiliesTravel ==
    ASSUME ~NestedMoves
    PROVE  Spec => FamiliesTravel
<1>1. SidebarInv /\ SidebarInv' /\ [Next]_vars => [Travels]_vars
  BY TravelsNext
<1>2. Spec => [][Travels]_vars
  BY <1>1, SidebarInvariant, PTL DEF Spec
<1>3. FamiliesTravel <=> [][Travels]_vars
  BY PTL DEF FamiliesTravel, Travels
<1> QED BY <1>2, <1>3

-----------------------------------------------------------------------------
(* Capturing the tree and launching it again. *)

\* The first rows, under their parents, as the launch of their entries is to make them.
Prefix(i) == [rows |-> SubSeq(rows, 1, i),
              parent |-> [s \in Screens |-> IF \E k \in 1..i : s = rows[k] THEN parent[s] ELSE NoRow]]

\* The first rows, by position.
LEMMA PrefixRows ==
    ASSUME PreOrdered(rows, parent, indent), NEW i \in 0..Len(rows)
    PROVE  /\ SubSeq(rows, 1, i) \in Seq(Screens)
           /\ Len(SubSeq(rows, 1, i)) = i
           /\ \A k \in 1..i : SubSeq(rows, 1, i)[k] = rows[k]
<1>1. Len(rows) \in Nat /\ \A k \in 1..Len(rows) : rows[k] \in Screens
  BY ListRows
<1>2. i \in Int /\ 1 \in Int /\ \A k \in 1..i : rows[k] \in Screens
  BY <1>1
<1>3. /\ SubSeq(rows, 1, i) \in Seq(Screens)
      /\ Len(SubSeq(rows, 1, i)) = IF 1 <= i THEN i - 1 + 1 ELSE 0
      /\ \A k \in 1..(i - 1 + 1) : SubSeq(rows, 1, i)[k] = rows[1 + k - 1]
  BY <1>2, SubSeqProperties
<1>4. (IF 1 <= i THEN i - 1 + 1 ELSE 0) = i /\ i - 1 + 1 = i /\ \A k \in 1..i : 1 + k - 1 = k
  BY <1>1
<1>5. Len(SubSeq(rows, 1, i)) = i
  BY <1>3, <1>4
<1>6. \A k \in 1..i : SubSeq(rows, 1, i)[k] = rows[k]
  BY <1>3, <1>4
<1> QED BY <1>3, <1>5, <1>6

\* A captured entry names the entry of its row's parent, which is an earlier
\* one, so that it is found when the entries are expanded into tabs.
LEMMA CapturedParent ==
    ASSUME PreOrdered(rows, parent, indent), NEW i \in 1..Len(rows)
    PROVE  /\ DOMAIN CaptureEntries = 1..Len(rows)
           /\ CaptureEntries[i].id = rows[i]
           /\ (IF ExpandEntries(CaptureEntries)[i] = 0 THEN NoRow
               ELSE CaptureEntries[ExpandEntries(CaptureEntries)[i]].id) = parent[rows[i]]
<1> DEFINE n == Len(rows)
           entries == CaptureEntries
           named == {j \in DOMAIN entries : entries[j].id = entries[i].parent}
<1>1. /\ n \in Nat /\ DOMAIN rows = 1..n
      /\ \A j \in 1..n : rows[j] \in Listed /\ rows[j] # NoRow
  BY ListRows DEF Listed
<1>2. DOMAIN entries = 1..n /\ \A j \in 1..n : entries[j].id = rows[j]
  BY <1>1 DEF CaptureEntries
<1>3. entries[i].parent = IF parent[rows[i]] \in Listed THEN parent[rows[i]] ELSE NoRow
  BY <1>1 DEF CaptureEntries
<1>4. ExpandEntries(entries)[i] = IF named # {} /\ Max(named) < i THEN Max(named) ELSE 0
  BY <1>2 DEF ExpandEntries
<1> HIDE DEF entries
<1>5. CASE parent[rows[i]] = NoRow
  <2>1. entries[i].parent = NoRow
    BY <1>3, <1>5
  <2>2. named = {}
    BY <1>1, <1>2, <2>1
  <2>3. ExpandEntries(entries)[i] = 0
    BY <1>4, <2>2
  <2> QED BY <1>2, <1>5, <2>3 DEF entries
<1>6. CASE parent[rows[i]] # NoRow
  <2>1. PICK j \in 1..n : j < i /\ parent[rows[i]] = rows[j]
    BY <1>6, ParentRow
  <2>2. entries[i].parent = rows[j]
    BY <1>1, <1>3, <2>1
  <2>3. \A k \in 1..n : rows[k] = rows[j] <=> k = j
    BY ListRows
  <2>4. named = {j}
    BY <1>2, <2>1, <2>2, <2>3
  <2>5. Max({j}) = j
    <3>1. j \in Nat
      BY <1>1
    <3> QED BY <3>1 DEF Max
  <2> HIDE DEF named
  <2>6. Max(named) = j /\ named # {} /\ j # 0
    BY <1>1, <2>4, <2>5
  <2>7. ExpandEntries(entries)[i] = j /\ j # 0
    BY <1>4, <2>1, <2>6
  <2> QED BY <1>2, <2>1, <2>7 DEF entries
<1> QED BY <1>5, <1>6

\* A last row whose parent's run reaches it stays where it is when it is moved
\* to the end of that run.
LEMMA StaysLast ==
    ASSUME NEW list, NEW par, NEW depth, PreOrdered(list, par, depth),
           NEW i, i = Len(list), i \in 1..Len(list), par[list[i]] = NoRow,
           NEW x \in 1..(i - 1), \A k \in (x + 1)..(i - 1) : depth[list[k]] > depth[list[x]]
    PROVE  Moved(list, par, list[i], SubtreeEnd(list, par, x)) = list
<1> DEFINE f == SubtreeEnd(list, par, x)
           e == SubtreeEnd(list, par, i)
           new == Moved(list, par, list[i], i)
<1>1. /\ i \in Nat /\ x \in 1..Len(list) /\ i <= Len(list) /\ i \in (x + 1)..(Len(list) + 1)
      /\ i + 1 \in (i + 1)..(Len(list) + 1) /\ ~(i + 1 <= Len(list))
      /\ \A k \in (i + 1)..((i + 1) - 1) : FALSE
  BY ListRows
<1>2. depth[list[i]] = 0 /\ depth[list[x]] \in Nat
  BY <1>1, RootRow, ListRows
<1>3. EndsAt(list, depth, x, i)
  BY <1>1, <1>2 DEF EndsAt
<1>4. EndsAt(list, depth, i, i + 1)
  BY <1>1 DEF EndsAt
<1>5. EndsAt(list, depth, x, f) /\ EndsAt(list, depth, i, e)
  BY <1>1, EndIs
<1> HIDE DEF f, e
<1>6. f = i
  BY <1>1, <1>3, <1>5, OneEnd
<1>7. e = i + 1
  BY <1>4, <1>5, OneEnd
<1>8. i \in 1..(Len(list) + 1) /\ i <= i
  BY <1>1
<1>9. IsMove(list, new, i, i + 1, i)
  BY <1>7, <1>8, MovedIsMove DEF e
<1> HIDE DEF new
<1>10. new \in Seq(Screens) /\ Len(new) = Len(list) /\ list \in Seq(Screens)
  BY <1>9 DEF IsMove, PreOrdered
<1>11. ASSUME NEW k \in 1..Len(new) PROVE new[k] = list[k]
  <2>1. k \in 1..Len(list) /\ MoveTo(i, i + 1, i, k) = k
    BY <1>1, <1>10 DEF MoveTo, SwapTo
  <2> QED BY <1>9, <2>1 DEF IsMove
<1>12. new = list
  BY <1>10, <1>11, SeqEqual
<1> QED BY <1>6, <1>12 DEF f, new

\* Launching one more entry makes one more row, under its parent.
LEMMA LaunchNext ==
    ASSUME PreOrdered(rows, parent, indent), NEW i \in 1..Len(rows)
    PROVE  SetScreenParent(Append(Prefix(i - 1).rows, rows[i]), Prefix(i - 1).parent,
                           rows[i], parent[rows[i]]) = Prefix(i)
<1> DEFINE n == Len(rows)
           s == rows[i]
           q == parent[s]
           list == SubSeq(rows, 1, i)
           before == Prefix(i - 1).parent
           rooted == [before EXCEPT ![s] = NoRow]
           after == Prefix(i).parent
           d == [indent EXCEPT ![s] = 0]
<1>1. /\ n \in Nat /\ DOMAIN rows = 1..n /\ i \in Nat
      /\ \A j \in 1..n : rows[j] \in Screens /\ rows[j] # NoRow /\ indent[rows[j]] \in Nat
  BY ListRows
<1>2. \A j, k \in 1..n : rows[j] = rows[k] => j = k
  BY <1>1 DEF PreOrdered
<1>3. indent \in [Screens -> Nat] /\ parent \in [Screens -> Screens \cup {NoRow}]
  BY DEF PreOrdered
<1>4. i - 1 \in 0..n /\ i \in 0..n /\ \A k \in 1..(i - 1) : k \in 1..i /\ k \in 1..n /\ k # i
  BY <1>1
<1>5. /\ list \in Seq(Screens) /\ Len(list) = i /\ \A k \in 1..i : list[k] = rows[k]
      /\ SubSeq(rows, 1, i - 1) \in Seq(Screens) /\ Len(SubSeq(rows, 1, i - 1)) = i - 1
      /\ \A k \in 1..(i - 1) : SubSeq(rows, 1, i - 1)[k] = rows[k]
  BY <1>4, PrefixRows
<1>6. Append(SubSeq(rows, 1, i - 1), s) = list
  <2> DEFINE short == SubSeq(rows, 1, i - 1)
             long == Append(short, s)
  <2> HIDE DEF short, list
  <2>1. /\ short \in Seq(Screens) /\ Len(short) = i - 1 /\ s \in Screens
        /\ \A k \in 1..(i - 1) : short[k] = rows[k]
    BY <1>1, <1>5 DEF short
  <2>2. /\ long \in Seq(Screens) /\ Len(long) = Len(short) + 1
        /\ \A k \in 1..Len(short) : long[k] = short[k]
        /\ long[Len(short) + 1] = s
    BY <2>1, AppendProperties
  <2>3. Len(long) = i /\ long[i] = s
    BY <1>1, <2>1, <2>2
  <2> HIDE DEF long
  <2>4. ASSUME NEW k \in 1..Len(long) PROVE long[k] = list[k]
    <3>1. k = i \/ k \in 1..(i - 1)
      BY <1>1, <2>3
    <3>2. k \in 1..i
      BY <2>3
    <3> QED BY <1>5, <2>1, <2>2, <2>3, <3>1, <3>2
  <2>5. long = list
    BY <1>5, <2>2, <2>3, <2>4, SeqEqual
  <2> QED BY <2>5 DEF long, short
<1> HIDE DEF list
<1>7. /\ before \in [Screens -> Screens \cup {NoRow}]
      /\ \A k \in 1..(i - 1) : before[rows[k]] = parent[rows[k]]
      /\ before[s] = NoRow
  <2>1. before = [r \in Screens |-> IF \E k \in 1..(i - 1) : r = rows[k] THEN parent[r] ELSE NoRow]
    BY DEF Prefix
  <2>2. ~\E k \in 1..(i - 1) : s = rows[k]
    BY <1>2, <1>4
  <2>3. \A r \in Screens : before[r] \in Screens \cup {NoRow}
    BY <1>3, <2>1
  <2>4. \A k \in 1..(i - 1) : rows[k] \in Screens
    BY <1>1, <1>4
  <2> HIDE DEF before
  <2>5. before \in [Screens -> Screens \cup {NoRow}]
    BY <2>1, <2>3
  <2>6. s \in Screens
    BY <1>1
  <2>7. \A k \in 1..(i - 1) : before[rows[k]] = parent[rows[k]]
    BY <2>1, <2>4
  <2> HIDE DEF s
  <2>8. before[s] = NoRow
    BY <2>1, <2>2, <2>6
  <2> QED BY <2>5, <2>7, <2>8
<1>8. after = [before EXCEPT ![s] = q]
  <2>1. before = [r \in Screens |-> IF \E k \in 1..(i - 1) : r = rows[k] THEN parent[r] ELSE NoRow]
    BY DEF Prefix
  <2>2. after = [r \in Screens |-> IF \E k \in 1..i : r = rows[k] THEN parent[r] ELSE NoRow]
    BY DEF Prefix
  <2>3. \A r \in Screens : (\E k \in 1..i : r = rows[k]) <=> (r = s \/ \E k \in 1..(i - 1) : r = rows[k])
    <3>1. \A k \in 1..i : k = i \/ k \in 1..(i - 1)
      BY <1>1
    <3>2. i \in 1..i
      BY <1>1
    <3> QED BY <1>4, <3>1, <3>2
  <2> HIDE DEF before, after
  <2>4. \A r \in Screens : after[r] = IF r = s THEN q ELSE before[r]
    BY <2>1, <2>2, <2>3
  <2>5. after = [r \in Screens |-> after[r]]
    BY <2>2
  <2>6. [before EXCEPT ![s] = q] = [r \in Screens |-> IF r = s THEN q ELSE before[r]]
    BY <1>7
  <2> QED BY <2>4, <2>5, <2>6
<1> HIDE DEF before, after
<1>9. rooted = before
  BY <1>7
<1>10. Prefix(i) = [rows |-> list, parent |-> after] /\ Prefix(i - 1).rows = SubSeq(rows, 1, i - 1)
  BY DEF Prefix, after, list
<1>11. PreOrdered(list, before, d)
  <2>1. DOMAIN list = 1..i
    BY <1>5, LenProperties
  <2>2. \A j, k \in DOMAIN list : list[j] = list[k] => j = k
    <3>1. \A j \in 1..i : j \in 1..n
      BY <1>1
    <3> QED BY <1>2, <1>5, <2>1, <3>1
  <2>3. d \in [Screens -> Nat] /\ d[s] = 0 /\ \A r \in Screens : r # s => d[r] = indent[r]
    BY <1>1, <1>3
  <2> HIDE DEF d
  <2>4. \A k \in 1..(i - 1) : d[list[k]] = indent[rows[k]] /\ before[list[k]] = parent[rows[k]]
        /\ list[k] = rows[k]
    <3> SUFFICES ASSUME NEW k \in 1..(i - 1)
                 PROVE  d[list[k]] = indent[rows[k]] /\ before[list[k]] = parent[rows[k]]
                        /\ list[k] = rows[k]
      OBVIOUS
    <3>1. k \in 1..i /\ k \in 1..n /\ k # i
      BY <1>4
    <3>2. list[k] = rows[k] /\ rows[k] \in Screens /\ before[rows[k]] = parent[rows[k]]
      BY <1>1, <1>5, <1>7, <3>1
    <3>3. rows[k] # s
      BY <1>2, <3>1
    <3> QED BY <2>3, <3>2, <3>3
  <2>5. ASSUME NEW j \in DOMAIN list
        PROVE  \/ before[list[j]] = NoRow /\ d[list[j]] = 0
               \/ \E m \in 1..(j - 1) :
                     /\ before[list[j]] = list[m]
                     /\ d[list[j]] = d[list[m]] + 1
                     /\ \A k \in (m + 1)..(j - 1) : d[list[k]] > d[list[m]]
    <3>1. j = i \/ j \in 1..(i - 1)
      BY <1>1, <2>1
    <3>2. CASE j = i
      <4>1. list[j] = s
        BY <1>5, <2>1, <3>2
      <4> QED BY <1>7, <2>3, <4>1
    <3>3. CASE j \in 1..(i - 1) /\ parent[rows[j]] = NoRow
      <4>1. indent[rows[j]] = 0
        BY <1>4, <3>3, RootRow
      <4> QED BY <2>4, <3>3, <4>1
    <3>4. CASE j \in 1..(i - 1) /\ parent[rows[j]] # NoRow
      <4>1. PICK m \in 1..(j - 1) :
              /\ m \in 1..n /\ m < j
              /\ parent[rows[j]] = rows[m]
              /\ indent[rows[j]] = indent[rows[m]] + 1
              /\ \A k \in (m + 1)..(j - 1) : indent[rows[k]] > indent[rows[m]]
        BY <1>4, <3>4, ParentRow
      <4>2. m \in 1..(i - 1) /\ \A k \in (m + 1)..(j - 1) : k \in 1..(i - 1)
        BY <1>1, <3>4, <4>1
      <4>3. before[list[j]] = list[m] /\ d[list[j]] = d[list[m]] + 1
        BY <2>4, <3>4, <4>1, <4>2
      <4>4. \A k \in (m + 1)..(j - 1) : d[list[k]] > d[list[m]]
        BY <2>4, <4>1, <4>2
      <4> QED BY <4>3, <4>4
    <3> QED BY <3>1, <3>2, <3>3, <3>4
  <2> QED BY <1>5, <1>7, <2>2, <2>3, <2>5 DEF PreOrdered
<1>12. list[i] = s /\ i \in 1..Len(list)
  BY <1>1, <1>5
<1>13. CASE q = NoRow
  <2>1. q \notin Range(list)
    BY <1>11, <1>13, ListRows
  <2>2. SetScreenParent(list, before, s, q) = [rows |-> list, parent |-> rooted]
    BY <2>1 DEF SetScreenParent
  <2>3. after = rooted
    BY <1>8, <1>13
  <2> QED BY <1>6, <1>10, <2>2, <2>3 DEF before
<1>14. CASE q # NoRow
  <2>1. PICK x \in 1..(i - 1) :
              /\ x \in 1..n /\ x < i
              /\ q = rows[x]
              /\ \A k \in (x + 1)..(i - 1) : indent[rows[k]] > indent[rows[x]]
    BY <1>14, ParentRow
  <2>2. x \in 1..i /\ \A k \in (x + 1)..(i - 1) : k \in 1..(i - 1) /\ k \in 1..i
    BY <1>1, <2>1
  <2>3. list[x] = q
    BY <1>5, <2>1, <2>2
  <2>4. q \in Range(list) /\ RowIndex(list, q) = x
    <3>1. x \in 1..Len(list)
      BY <1>5, <2>2
    <3>2. list[x] \in Range(list) /\ RowIndex(list, list[x]) = x
      BY <1>11, <3>1, ListRows
    <3> QED BY <2>3, <3>2
  <2>5. \A k \in 1..(i - 1) : d[list[k]] = indent[rows[k]]
    BY <1>1, <1>2, <1>3, <1>4, <1>5
  <2>6. \A k \in (x + 1)..(i - 1) : d[list[k]] > d[list[x]]
    BY <2>1, <2>2, <2>5
  <2> HIDE DEF d
  <2>7. before[list[i]] = NoRow
    BY <1>7, <1>12
  <2>8. i = Len(list)
    BY <1>5
  <2>9. Moved(list, before, list[i], SubtreeEnd(list, before, x)) = list
    BY <1>11, <1>12, <2>6, <2>7, <2>8, StaysLast, ZenonT(90)
  <2>10. SetScreenParent(list, before, s, q)
          = [rows |-> Moved(list, rooted, s, SubtreeEnd(list, rooted, x)), parent |-> [before EXCEPT ![s] = q]]
    BY <2>4 DEF SetScreenParent
  <2>11. SetScreenParent(list, before, s, q) = [rows |-> list, parent |-> after]
    BY <1>8, <1>9, <1>12, <2>9, <2>10
  <2> QED BY <1>6, <1>10, <2>11 DEF before
<1> QED BY <1>13, <1>14

\* Launching the first captured entries makes the first rows again.
LEMMA RelaunchedIs ==
    ASSUME PreOrdered(rows, parent, indent)
    PROVE  Relaunched = Prefix(Len(rows))
<1> DEFINE n == Len(rows)
           entries == CaptureEntries
           tabs == ExpandEntries(entries)
           Launch(tree, i) ==
               SetScreenParent(Append(tree.rows, entries[i].id), tree.parent, entries[i].id,
                               IF tabs[i] = 0 THEN NoRow ELSE entries[tabs[i]].id)
           First == [rows |-> <<>>, parent |-> [s \in Screens |-> NoRow]]
           IsLaunch(f) == f = [i \in 0..n |-> IF i = 0 THEN First ELSE Launch(f[i - 1], i)]
           made == [i \in 0..n |-> Prefix(i)]
           launched == CHOOSE f : IsLaunch(f)
<1>1. Relaunched = launched[n]
  BY DEF Relaunched
<1>2. n \in Nat
  BY ListRows
<1>3. \A i \in 1..n : Launch(Prefix(i - 1), i) = Prefix(i)
  <2> SUFFICES ASSUME NEW i \in 1..n PROVE Launch(Prefix(i - 1), i) = Prefix(i)
    OBVIOUS
  <2>1. entries[i].id = rows[i]
        /\ (IF tabs[i] = 0 THEN NoRow ELSE entries[tabs[i]].id) = parent[rows[i]]
    BY CapturedParent
  <2>2. SetScreenParent(Append(Prefix(i - 1).rows, rows[i]), Prefix(i - 1).parent,
                        rows[i], parent[rows[i]]) = Prefix(i)
    BY LaunchNext
  <2> HIDE DEF entries, tabs
  <2> QED BY <2>1, <2>2
<1>4. Prefix(0) = First
  <2>1. SubSeq(rows, 1, 0) = <<>>
    BY SubSeqEmpty
  <2>2. \A s : ~\E k \in 1..0 : s = rows[k]
    OBVIOUS
  <2> QED BY <2>1, <2>2 DEF Prefix
<1> HIDE DEF Launch, First
<1>5. IsLaunch(made)
  <2>1. ASSUME NEW i \in 0..n PROVE made[i] = IF i = 0 THEN First ELSE Launch(made[i - 1], i)
    <3>1. CASE i = 0
      BY <1>2, <1>4, <3>1
    <3>2. CASE i # 0
      <4>1. i \in 1..n /\ i - 1 \in 0..n
        BY <1>2, <3>2
      <4>2. made[i] = Prefix(i) /\ made[i - 1] = Prefix(i - 1)
        BY <4>1
      <4> QED BY <1>3, <3>2, <4>1, <4>2
    <3> QED BY <3>1, <3>2
  <2>2. made = [i \in 0..n |-> made[i]]
    OBVIOUS
  <2> HIDE DEF made
  <2> QED BY <2>1, <2>2
<1>6. IsLaunch(launched)
  <2> HIDE DEF made, IsLaunch
  <2> QED BY <1>5
<1> HIDE DEF launched
<1>7. \A i \in 0..n : launched[i] = IF i = 0 THEN First ELSE Launch(launched[i - 1], i)
  BY <1>6
<1> DEFINE Bad == {i \in Nat : i \in 0..n /\ launched[i] # Prefix(i)}
<1>8. Bad = {}
  <2> SUFFICES ASSUME Bad # {} PROVE FALSE
    OBVIOUS
  <2>1. PICK i \in Bad : \A k \in Bad : i <= k
    BY LeastNatural
  <2>2. i # 0
    BY <1>4, <1>7, <2>1
  <2>3. i \in 1..n /\ i - 1 \in 0..n /\ i - 1 \in Nat /\ ~(i <= i - 1)
    BY <1>2, <2>1, <2>2
  <2>4. launched[i - 1] = Prefix(i - 1)
    BY <2>1, <2>3
  <2>5. launched[i] = Launch(Prefix(i - 1), i)
    BY <1>7, <2>1, <2>2, <2>4
  <2> QED BY <1>3, <2>1, <2>3, <2>5
<1>9. n \in 0..n
  BY <1>2
<1> QED BY <1>1, <1>2, <1>8, <1>9

\* Capturing the live tree as startup entries and launching them again gives
\* the same rows under the same parents, in every tree the sidebar can be in.
THEOREM SidebarCaptureRelaunches ==
    ASSUME ~NestedMoves
    PROVE  Spec => []CaptureRelaunches
<1>1. SidebarInv => CaptureRelaunches
  <2> SUFFICES ASSUME SidebarInv PROVE CaptureRelaunches
    OBVIOUS
  <2>1. PreOrdered(rows, parent, indent)
    BY DEF SidebarInv
  <2>2. Relaunched = Prefix(Len(rows))
    BY <2>1, RelaunchedIs
  <2>3. Len(rows) \in Nat /\ rows \in Seq(Screens) /\ Len(rows) \in 0..Len(rows)
    <3>1. Len(rows) \in Nat
      BY <2>1, ListRows
    <3> QED BY <2>1, <3>1 DEF PreOrdered
  <2> DEFINE all == SubSeq(rows, 1, Len(rows))
  <2>4. all \in Seq(Screens) /\ Len(all) = Len(rows) /\ \A k \in 1..Len(rows) : all[k] = rows[k]
    BY <2>1, <2>3, PrefixRows
  <2> HIDE DEF all
  <2>5. all = rows
    BY <2>3, <2>4, SeqEqual
  <2>6. ASSUME NEW r \in Listed PROVE Prefix(Len(rows)).parent[r] = parent[r]
    <3>1. r \in Screens /\ \E k \in 1..Len(rows) : r = rows[k]
      BY <2>1, ListRows DEF Listed
    <3> QED BY <3>1 DEF Prefix
  <2>7. Prefix(Len(rows)).rows = rows
    BY <2>5 DEF Prefix, all
  <2> QED BY <2>2, <2>6, <2>7 DEF CaptureRelaunches
<1> QED BY <1>1, SidebarInvariant, PTL
===============================================================================
