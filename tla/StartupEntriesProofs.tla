------------------------- MODULE StartupEntriesProofs -------------------------
(***************************************************************************)
(* The startup tree editor, for any number of rows and any lists a file    *)
(* can hold, rows with one id among them.                                  *)
(***************************************************************************)
EXTENDS StartupEntries, OrderedSetsProofs, SequenceTheorems

IsRow(r) == r = [id |-> r.id, parent |-> r.parent, separator |-> r.separator]

IsList(list) == (\E S : list \in Seq(S)) /\ \A i \in DOMAIN list : IsRow(list[i])

-------------------------------------------------------------------------------
(* Lists and block moves *)

\* The positions of a list are the numbers up to its length.
LEMMA ListShape ==
    ASSUME NEW list, IsList(list)
    PROVE  /\ Len(list) \in Nat /\ DOMAIN list = 1..Len(list)
           /\ DOMAIN list \in SUBSET Nat /\ IsFiniteSet(DOMAIN list) /\ Cardinality(DOMAIN list) = Len(list)
<1>1. PICK S : list \in Seq(S)
  BY DEF IsList
<1>2. Len(list) \in Nat /\ DOMAIN list = 1..Len(list)
  BY <1>1
<1>3. IsFiniteSet(1..Len(list)) /\ Cardinality(1..Len(list)) = Len(list)
  <2>1. 1 \in Int /\ Len(list) \in Int
    BY <1>2
  <2>2. /\ IsFiniteSet(1..Len(list))
        /\ Cardinality(1..Len(list)) = IF 1 > Len(list) THEN 0 ELSE Len(list) - 1 + 1
    BY <2>1, FS_Interval
  <2> QED BY <1>2, <2>2
<1> QED BY <1>2, <1>3

\* What is made row by row is a list.
LEMMA MadeList ==
    ASSUME NEW n \in Nat, NEW list, list = [i \in 1..n |-> list[i]], \A i \in 1..n : IsRow(list[i])
    PROVE  IsList(list) /\ Len(list) = n
<1> DEFINE S == {list[i] : i \in 1..n}
<1>1. \A i \in 1..n : list[i] \in S
  OBVIOUS
<1> HIDE DEF S
<1>2. list \in [1..n -> S]
  BY <1>1
<1>3. list \in Seq(S) /\ Len(list) = n
  BY <1>2
<1> QED BY <1>3 DEF IsList

\* The rows at some positions, in list order.
LEMMA KeepsRows ==
    ASSUME NEW list, IsList(list), NEW P \in SUBSET DOMAIN list
    PROVE  /\ IsList(Keep(list, P))
           /\ IsFiniteSet(P) /\ Cardinality(P) \in Nat /\ Len(Keep(list, P)) = Cardinality(P)
           /\ \A k \in 1..Cardinality(P) : InOrder(P)[k] \in P /\ Keep(list, P)[k] = list[InOrder(P)[k]]
<1>1. P \in SUBSET Nat /\ IsFiniteSet(P)
  BY ListShape, FS_Subset
<1>2. /\ Cardinality(P) \in Nat /\ DOMAIN InOrder(P) = 1..Cardinality(P)
      /\ \A k \in 1..Cardinality(P) : InOrder(P)[k] \in P
  BY <1>1, InOrderLists
<1> DEFINE kept == Keep(list, P)
<1>3. kept = [k \in 1..Cardinality(P) |-> list[InOrder(P)[k]]]
  BY <1>2 DEF Keep, At
<1> HIDE DEF kept
<1>4. \A k \in 1..Cardinality(P) : kept[k] = list[InOrder(P)[k]] /\ IsRow(kept[k])
  BY <1>2, <1>3 DEF IsList
<1>5. IsList(kept) /\ Len(kept) = Cardinality(P)
  BY <1>2, <1>3, <1>4, MadeList
<1> QED BY <1>1, <1>2, <1>4, <1>5 DEF kept

Inserted(rest, block, at) == SubSeq(rest, 1, at) \o block \o SubSeq(rest, at + 1, Len(rest))

\* Rows inserted into a list after its first "at" rows.
LEMMA InsertsRows ==
    ASSUME NEW rest, IsList(rest), NEW block, IsList(block), NEW at \in 0..Len(rest)
    PROVE  /\ IsList(Inserted(rest, block, at)) /\ Len(Inserted(rest, block, at)) = Len(rest) + Len(block)
           /\ \A k \in 1..at : Inserted(rest, block, at)[k] = rest[k]
           /\ \A k \in 1..Len(block) : Inserted(rest, block, at)[at + k] = block[k]
           /\ \A k \in (at + 1)..Len(rest) : Inserted(rest, block, at)[k + Len(block)] = rest[k]
<1> DEFINE m == Len(rest)
           b == Len(block)
           front == SubSeq(rest, 1, at)
           back == SubSeq(rest, at + 1, m)
           all == front \o block \o back
           S == {rest[i] : i \in 1..m} \cup {block[i] : i \in 1..b}
<1>1. m \in Nat /\ DOMAIN rest = 1..m /\ b \in Nat /\ DOMAIN block = 1..b /\ at \in Int /\ 0 <= at /\ at <= m
  BY ListShape
<1>2. (\A i \in 1..m : rest[i] \in S) /\ (\A i \in 1..b : block[i] \in S) /\ (\A x \in S : IsRow(x))
  BY <1>1 DEF IsList
<1> HIDE DEF S, m, b
<1>3. /\ front \in Seq(S) /\ Len(front) = at
      /\ \A i \in 1..at : front[i] = rest[i]
  <2>1. \A i \in 1..at : rest[i] \in S
    BY <1>1, <1>2
  <2>2. /\ front \in Seq(S) /\ Len(front) = IF 1 <= at THEN at - 1 + 1 ELSE 0
        /\ \A i \in 1..(at - 1 + 1) : front[i] = rest[1 + i - 1]
    BY <1>1, <2>1, SubSeqProperties
  <2> QED BY <1>1, <2>2
<1>4. /\ back \in Seq(S) /\ Len(back) = m - at
      /\ \A i \in 1..(m - at) : back[i] = rest[at + i]
  <2>1. \A i \in (at + 1)..m : rest[i] \in S
    BY <1>1, <1>2
  <2>2. at + 1 \in Int /\ m \in Int
    BY <1>1
  <2>3. /\ back \in Seq(S) /\ Len(back) = IF at + 1 <= m THEN m - (at + 1) + 1 ELSE 0
        /\ \A i \in 1..(m - (at + 1) + 1) : back[i] = rest[(at + 1) + i - 1]
    BY <2>1, <2>2, SubSeqProperties
  <2> QED BY <1>1, <2>3
<1>5. block \in Seq(S)
  <2>1. PICK T : block \in Seq(T)
    BY DEF IsList
  <2> QED BY <1>1, <1>2, <2>1 DEF b
<1> HIDE DEF front, back
<1>6. /\ front \o block \in Seq(S) /\ Len(front \o block) = at + b
      /\ \A i \in 1..at : (front \o block)[i] = rest[i]
      /\ \A i \in 1..b : (front \o block)[at + i] = block[i]
  BY <1>1, <1>3, <1>5 DEF b
<1> DEFINE start == front \o block
<1> HIDE DEF start
<1>7. /\ start \o back \in Seq(S) /\ Len(start \o back) = m + b
      /\ \A i \in 1..(at + b) : (start \o back)[i] = start[i]
      /\ \A i \in 1..(m - at) : (start \o back)[at + b + i] = rest[at + i]
  <2>1. start \in Seq(S) /\ Len(start) = at + b
    BY <1>6 DEF start
  <2>2. /\ start \o back \in Seq(S) /\ Len(start \o back) = Len(start) + Len(back)
        /\ \A i \in 1..(Len(start) + Len(back)) :
              (start \o back)[i] = IF i <= Len(start) THEN start[i] ELSE back[i - Len(start)]
    BY <1>4, <2>1, ConcatProperties
  <2>3. Len(start) + Len(back) = m + b
    BY <1>1, <1>4, <2>1
  <2>4. \A i \in 1..(m + b) : (start \o back)[i] = IF i <= at + b THEN start[i] ELSE back[i - (at + b)]
    BY <2>1, <2>2, <2>3
  <2>5. ASSUME NEW i \in 1..(m - at) PROVE (start \o back)[at + b + i] = rest[at + i]
    <3>1. at + b + i \in 1..(m + b) /\ ~(at + b + i <= at + b) /\ (at + b + i) - (at + b) = i
      BY <1>1
    <3> QED BY <1>4, <2>4, <3>1
  <2>6. ASSUME NEW i \in 1..(at + b) PROVE (start \o back)[i] = start[i]
    <3>1. i \in 1..(m + b) /\ i <= at + b
      BY <1>1
    <3> QED BY <2>4, <3>1
  <2> QED BY <2>2, <2>3, <2>5, <2>6
<1>8. \A k \in 1..at : all[k] = rest[k]
  BY <1>1, <1>6, <1>7 DEF start
<1>9. \A k \in 1..b : all[at + k] = block[k]
  BY <1>1, <1>6, <1>7 DEF start
<1>10. ASSUME NEW k \in (at + 1)..m PROVE all[k + b] = rest[k]
  <2>1. k - at \in 1..(m - at) /\ at + b + (k - at) = k + b /\ at + (k - at) = k
    BY <1>1
  <2> QED BY <1>7, <2>1 DEF start
<1>11. IsList(all) /\ Len(all) = m + b
  <2>1. all \in Seq(S) /\ Len(all) = m + b
    BY <1>7 DEF start
  <2>2. \A i \in DOMAIN all : all[i] \in S
    BY <2>1
  <2> QED BY <1>2, <2>1, <2>2 DEF IsList
<1> HIDE DEF all
<1>12. Inserted(rest, block, at) = all
  BY DEF Inserted, all, front, back, m
<1> QED BY <1>8, <1>9, <1>10, <1>11, <1>12 DEF m, b

Lifted(move) == {move.block[k] : k \in DOMAIN move.block}

\* A move that the code can carry out: it lifts rows of the list and inserts
\* them within what is left.
Left(list, move) == DOMAIN list \ Lifted(move)

IsMove(list, move) ==
    /\ move.block \in Seq(DOMAIN list)
    /\ move.insertAt \in 0..Cardinality(Left(list, move))

\* Where the rows of a list end up after a block move.
LEMMA MovesRows ==
    ASSUME NEW list, IsList(list), NEW move, IsMove(list, move)
    PROVE  /\ IsList(ApplyBlockMove(list, move))
           /\ Len(ApplyBlockMove(list, move)) = Cardinality(Left(list, move)) + Len(move.block)
           /\ Len(move.block) \in Nat /\ Cardinality(Left(list, move)) \in Nat
           /\ \A k \in 1..move.insertAt : ApplyBlockMove(list, move)[k] = list[InOrder(Left(list, move))[k]]
           /\ \A k \in 1..Len(move.block) : ApplyBlockMove(list, move)[move.insertAt + k] = list[move.block[k]]
           /\ \A k \in (move.insertAt + 1)..Cardinality(Left(list, move)) :
                ApplyBlockMove(list, move)[k + Len(move.block)] = list[InOrder(Left(list, move))[k]]
<1> DEFINE left == Left(list, move)
           rest == Keep(list, left)
           block == At(list, move.block)
           at == move.insertAt
           b == Len(move.block)
<1>1. /\ IsList(rest) /\ Len(rest) = Cardinality(left) /\ Cardinality(left) \in Nat
      /\ \A k \in 1..Cardinality(left) : rest[k] = list[InOrder(left)[k]]
  BY KeepsRows DEF Left
<1>2. b \in Nat /\ DOMAIN move.block = 1..b /\ \A k \in 1..b : move.block[k] \in DOMAIN list
  BY DEF IsMove
<1>3. block = [k \in 1..b |-> list[move.block[k]]]
  BY <1>2 DEF At
<1> HIDE DEF block
<1>4. \A k \in 1..b : block[k] = list[move.block[k]] /\ IsRow(block[k])
  BY <1>2, <1>3 DEF IsList
<1>5. IsList(block) /\ Len(block) = b
  BY <1>2, <1>3, <1>4, MadeList
<1>6. at \in 0..Cardinality(left)
  BY DEF IsMove
<1>7. ApplyBlockMove(list, move) = Inserted(rest, block, at)
  BY DEF ApplyBlockMove, Lifted, Left, Inserted, block
<1> DEFINE moved == Inserted(rest, block, at)
<1> HIDE DEF rest, left, at, b
<1>8. /\ IsList(moved) /\ Len(moved) = Len(rest) + Len(block)
      /\ \A k \in 1..at : moved[k] = rest[k]
      /\ \A k \in 1..Len(block) : moved[at + k] = block[k]
      /\ \A k \in (at + 1)..Len(rest) : moved[k + Len(block)] = rest[k]
  <2>1. at \in 0..Len(rest)
    BY <1>1, <1>6
  <2> QED BY <1>1, <1>5, <2>1, InsertsRows, ZenonT(90)
<1> HIDE DEF moved
<1>9. \A k \in 1..at : moved[k] = list[InOrder(left)[k]]
  BY <1>1, <1>6, <1>8
<1>10. ASSUME NEW k \in 1..b PROVE moved[at + k] = list[move.block[k]]
  <2>1. moved[at + k] = block[k]
    BY <1>5, <1>8
  <2> QED BY <1>4, <2>1
<1>11. ASSUME NEW k \in (at + 1)..Cardinality(left) PROVE moved[k + b] = list[InOrder(left)[k]]
  <2>1. k \in (at + 1)..Len(rest) /\ k \in 1..Cardinality(left)
    BY <1>1, <1>6
  <2>2. moved[k + Len(block)] = rest[k]
    BY <1>8, <2>1
  <2> QED BY <1>1, <1>5, <2>1, <2>2
<1>12. ApplyBlockMove(list, move) = moved
  BY <1>7 DEF moved
<1>13. IsList(moved) /\ Len(moved) = Cardinality(left) + b
  BY <1>1, <1>5, <1>8
<1> QED BY <1>1, <1>2, <1>9, <1>10, <1>11, <1>12, <1>13 DEF left, at, b

\* Without one position, the others are in order: those before it, then those
\* after it.
LEMMA AllButOne ==
    ASSUME NEW n \in Nat, NEW s \in 1..n
    PROVE  LET left == (1..n) \ {s}
           IN  /\ IsFiniteSet(left) /\ Cardinality(left) = n - 1
               /\ \A k \in 1..(n - 1) : InOrder(left)[k] = IF k < s THEN k ELSE k + 1
<1> DEFINE left == (1..n) \ {s}
<1>1. ASSUME NEW a \in Int, NEW c \in Int PROVE IsFiniteSet(a..c) /\ Cardinality(a..c) = IF a > c THEN 0 ELSE c - a + 1
  BY FS_Interval
<1>2. IsFiniteSet(left) /\ Cardinality(left) = n - 1
  <2>1. n \in Int /\ 1 \in Int /\ ~(1 > n) /\ n - 1 + 1 = n
    OBVIOUS
  <2>2. IsFiniteSet(1..n) /\ Cardinality(1..n) = n
    BY <1>1, <2>1
  <2> QED BY <2>2, FS_RemoveElement
<1>3. ASSUME NEW x \in left PROVE Position(left, x) = IF x < s THEN x - 1 ELSE x - 2
  <2>1. CASE x < s
    <3>1. {y \in left : y < x} = 1..(x - 1)
      BY <2>1
    <3>2. x - 1 \in Int /\ x - 1 >= 0 /\ 1 \in Int
      OBVIOUS
    <3>3. Cardinality(1..(x - 1)) = IF 1 > x - 1 THEN 0 ELSE (x - 1) - 1 + 1
      BY <1>1, <3>2
    <3>4. Cardinality(1..(x - 1)) = x - 1
      BY <3>2, <3>3
    <3> QED BY <2>1, <3>1, <3>4 DEF Position
  <2>2. CASE ~(x < s)
    <3>1. {y \in left : y < x} = (1..(x - 1)) \ {s} /\ s \in 1..(x - 1) /\ x - 1 \in Int /\ x - 1 >= 1
      BY <2>2
    <3>2. IsFiniteSet(1..(x - 1)) /\ Cardinality(1..(x - 1)) = x - 1
      <4>1. IsFiniteSet(1..(x - 1)) /\ Cardinality(1..(x - 1)) = IF 1 > x - 1 THEN 0 ELSE (x - 1) - 1 + 1
        BY <1>1, <3>1
      <4> QED BY <3>1, <4>1
    <3>3. Cardinality((1..(x - 1)) \ {s}) = Cardinality(1..(x - 1)) - 1
      BY <3>1, <3>2, FS_RemoveElement
    <3>4. Position(left, x) = (x - 1) - 1
      BY <3>1, <3>2, <3>3 DEF Position
    <3> QED BY <2>2, <3>4
  <2> QED BY <2>1, <2>2
<1>4. ASSUME NEW k \in 1..(n - 1) PROVE InOrder(left)[k] = IF k < s THEN k ELSE k + 1
  <2> DEFINE x == IF k < s THEN k ELSE k + 1
  <2>1. x \in left
    OBVIOUS
  <2>2. Position(left, x) + 1 = k
    BY <1>3, <2>1
  <2>3. left \in SUBSET Nat
    OBVIOUS
  <2> HIDE DEF x
  <2>4. InOrder(left)[Position(left, x) + 1] = x
    BY <1>2, <2>1, <2>3, InOrderLists
  <2> QED BY <2>2, <2>4 DEF x
<1> QED BY <1>2, <1>4

\* The drop of a row on its own place changes nothing.
LEMMA DropInPlace ==
    ASSUME NEW list, IsList(list), NEW s \in DOMAIN list
    PROVE  ApplyBlockMove(list, [block |-> <<s>>, insertAt |-> s - 1]) = list
<1> DEFINE n == Len(list)
           left == (1..n) \ {s}
           move == [block |-> <<s>>, insertAt |-> s - 1]
           moved == ApplyBlockMove(list, move)
<1>1. n \in Nat /\ DOMAIN list = 1..n /\ s \in 1..n
  BY ListShape
<1> HIDE DEF n
<1>2. /\ IsFiniteSet(left) /\ Cardinality(left) = n - 1
      /\ \A k \in 1..(n - 1) : InOrder(left)[k] = IF k < s THEN k ELSE k + 1
  BY <1>1, AllButOne
<1>3. Lifted(move) = {s} /\ move.block \in Seq({s}) /\ Len(move.block) = 1 /\ move.block[1] = s /\ move.insertAt = s - 1
  BY DEF Lifted
<1>4. IsMove(list, move)
  <2>1. Left(list, move) = left /\ s - 1 \in 0..(n - 1)
    BY <1>1, <1>3 DEF Left
  <2>2. move.block \in Seq(DOMAIN list)
    BY <1>1, <1>3
  <2> QED BY <1>2, <1>3, <2>1, <2>2 DEF IsMove
<1> HIDE DEF move
<1>5. /\ IsList(moved) /\ Len(moved) = n
      /\ \A k \in 1..(s - 1) : moved[k] = list[InOrder(left)[k]]
      /\ moved[s] = list[s]
      /\ \A k \in s..(n - 1) : moved[k + 1] = list[InOrder(left)[k]]
  <2>1. Left(list, move) = left
    BY <1>1, <1>3 DEF Left
  <2> HIDE DEF left, moved
  <2>2. /\ IsList(moved) /\ Len(moved) = Cardinality(left) + Len(move.block)
        /\ \A k \in 1..move.insertAt : moved[k] = list[InOrder(left)[k]]
        /\ \A k \in 1..Len(move.block) : moved[move.insertAt + k] = list[move.block[k]]
        /\ \A k \in (move.insertAt + 1)..Cardinality(left) : moved[k + Len(move.block)] = list[InOrder(left)[k]]
    BY <1>4, <2>1, MovesRows DEF moved
  <2>3. moved[move.insertAt + 1] = list[s]
    BY <1>3, <2>2
  <2>4. move.insertAt + 1 = s /\ Cardinality(left) + 1 = n
    BY <1>1, <1>2, <1>3
  <2> QED BY <1>2, <1>3, <2>2, <2>3, <2>4
<1> HIDE DEF moved, left
<1>6. ASSUME NEW k \in 1..n PROVE moved[k] = list[k]
  <2>1. CASE k < s
    BY <1>1, <1>2, <1>5, <2>1
  <2>2. CASE k = s
    BY <1>1, <1>3, <1>5, <2>2
  <2>3. CASE s < k
    <3>1. k - 1 \in s..(n - 1) /\ k - 1 \in 1..(n - 1) /\ ~(k - 1 < s) /\ (k - 1) + 1 = k
      BY <1>1, <2>3
    <3> QED BY <1>2, <1>5, <3>1
  <2> QED BY <1>1, <2>1, <2>2, <2>3
<1>7. DOMAIN moved = 1..n
  BY <1>5, ListShape
<1>8. (\E S : moved \in Seq(S)) /\ \E S : list \in Seq(S)
  BY <1>5 DEF IsList
<1> QED BY <1>1, <1>6, <1>7, <1>8 DEF moved, move

-------------------------------------------------------------------------------
(* The launch order *)

\* The last of some positions.
LEMMA LastFound ==
    ASSUME NEW n \in Nat, NEW P \in SUBSET (1..n), P # {}
    PROVE  Last(P) \in P /\ \A j \in P : j <= Last(P)
<1>1. P \in SUBSET Nat /\ \A x \in P : x <= n
  OBVIOUS
<1>2. PICK m \in P : \A y \in P : y <= m
  BY <1>1, GreatestNatural
<1> QED BY <1>2 DEF Last

\* The parent of row i, given the parents of the rows above it.
Named(list, i) == {j \in 1..(i - 1) : list[j].id = list[i].parent}

Resolved(list, i, parent) ==
    IF list[i].parent = NoId \/ Named(list, i) = {} THEN -1
    ELSE IF Named(list, i) \cap Sessions(list) # {} THEN SpawnIndex(list, Last(Named(list, i) \cap Sessions(list)))
    ELSE parent[Last(Named(list, i))]

Resolves(f, list, n) == f = [i \in 1..n |-> Resolved(list, i, f)]

\* Parents resolved for n rows extend to the next row.
LEMMA ResolvesNext ==
    ASSUME NEW list, NEW n \in Nat, NEW g, Resolves(g, list, n)
    PROVE  \E h : Resolves(h, list, n + 1)
<1> DEFINE h == [i \in 1..(n + 1) |-> IF i = n + 1 THEN Resolved(list, n + 1, g) ELSE g[i]]
<1>1. ASSUME NEW i \in 1..(n + 1) PROVE h[i] = Resolved(list, i, h)
  <2>1. h[i] = Resolved(list, i, g)
    <3>1. CASE i = n + 1
      BY <3>1
    <3>2. CASE i # n + 1
      <4>1. i \in 1..n
        BY <3>2
      <4>2. h[i] = g[i]
        BY <3>2
      <4> HIDE DEF h
      <4> QED BY <4>1, <4>2 DEF Resolves
    <3> QED BY <3>1, <3>2
  <2>2. ASSUME Named(list, i) # {} PROVE h[Last(Named(list, i))] = g[Last(Named(list, i))]
    <3>1. i - 1 \in Nat /\ Named(list, i) \in SUBSET (1..(i - 1))
      BY DEF Named
    <3>2. Last(Named(list, i)) \in Named(list, i)
      BY <2>2, <3>1, LastFound
    <3>3. Last(Named(list, i)) \in 1..(n + 1) /\ Last(Named(list, i)) # n + 1
      BY <3>1, <3>2
    <3> QED BY <3>3
  <2> HIDE DEF h
  <2> QED BY <2>1, <2>2 DEF Resolved
<1>2. h = [i \in 1..(n + 1) |-> h[i]]
  OBVIOUS
<1> HIDE DEF h
<1>3. Resolves(h, list, n + 1)
  BY <1>1, <1>2 DEF Resolves
<1> QED BY <1>3

\* The recursion over the list is well defined.
LEMMA ResolveDefined ==
    ASSUME NEW list, NEW n \in Nat, DOMAIN list = 1..n
    PROVE  Resolves(ResolveParents(list), list, n)
<1> DEFINE T == {k \in Nat : ~\E g : Resolves(g, list, k)}
<1>1. T = {}
  <2> SUFFICES ASSUME T # {} PROVE FALSE
    OBVIOUS
  <2>1. PICK k \in T : \A y \in T : k <= y
    BY LeastNatural
  <2>2. CASE k = 0
    <3> DEFINE g == [i \in 1..0 |-> -1]
    <3>1. Resolves(g, list, 0)
      BY DEF Resolves
    <3> QED BY <2>1, <2>2, <3>1
  <2>3. CASE k # 0
    <3>1. k - 1 \in Nat /\ ~(k <= k - 1) /\ (k - 1) + 1 = k
      BY <2>1, <2>3
    <3>2. PICK g : Resolves(g, list, k - 1)
      BY <2>1, <3>1
    <3>3. \E h : Resolves(h, list, (k - 1) + 1)
      BY <3>1, <3>2, ResolvesNext
    <3> QED BY <2>1, <3>1, <3>3
  <2> QED BY <2>2, <2>3
<1>2. \E g : g = [i \in DOMAIN list |-> Resolved(list, i, g)]
  BY <1>1 DEF Resolves
<1> DEFINE f == CHOOSE g : g = [i \in DOMAIN list |-> Resolved(list, i, g)]
<1>3. f = [i \in DOMAIN list |-> Resolved(list, i, f)]
  BY <1>2
<1>4. ResolveParents(list) = f
  BY DEF ResolveParents, Resolved, Named
<1> HIDE DEF f
<1> QED BY <1>3, <1>4 DEF Resolves

\* The sessions of a list.
LEMMA SessionSet ==
    ASSUME NEW list, IsList(list)
    PROVE  Sessions(list) \in SUBSET DOMAIN list /\ Sessions(list) \in SUBSET Nat /\ IsFiniteSet(Sessions(list))
BY ListShape, FS_Subset DEF Sessions

\* A row's parent is the root or a session that is started before every
\* session from that row on.
LEMMA ParentsResolve ==
    ASSUME NEW list, IsList(list), NEW i \in DOMAIN list
    PROVE  ResolveParents(list)[i] \in Int /\ ResolveParents(list)[i] < SpawnIndex(list, i)
<1> DEFINE n == Len(list)
           f == ResolveParents(list)
           T == {k \in 1..n : ~(f[k] \in Int /\ f[k] < SpawnIndex(list, k))}
<1>1. n \in Nat /\ DOMAIN list = 1..n
  BY ListShape
<1>2. \A k \in 1..n : f[k] = Resolved(list, k, f)
  <2>1. Resolves(f, list, n)
    BY <1>1, ResolveDefined
  <2> HIDE DEF f
  <2> QED BY <2>1 DEF Resolves
<1>3. /\ \A x \in Nat : SpawnIndex(list, x) \in Nat
      /\ \A x \in Sessions(list), y \in Nat : x < y => SpawnIndex(list, x) < SpawnIndex(list, y)
      /\ \A x, y \in Nat : x <= y => SpawnIndex(list, x) <= SpawnIndex(list, y)
  <2>1. \A x : IsFiniteSet({y \in Sessions(list) : y < x})
    BY SessionSet, FS_Subset
  <2>2. \A x : Position(Sessions(list), x) \in Nat
    BY <2>1, FS_CardinalityType DEF Position
  <2> QED BY <2>2, SessionSet, PositionGrows DEF SpawnIndex
<1> HIDE DEF f, n
<1>4. T = {}
  <2> SUFFICES ASSUME T # {} PROVE FALSE
    OBVIOUS
  <2>1. T \in SUBSET Nat
    BY <1>1
  <2>2. PICK k \in T : \A y \in T : k <= y
    BY <2>1, LeastNatural
  <2>3. k \in 1..n /\ k \in Nat /\ k - 1 \in Nat
    BY <1>1
  <2>4. SpawnIndex(list, k) \in Nat
    BY <1>3, <2>3
  <2>5. CASE f[k] = -1
    BY <2>2, <2>4, <2>5
  <2>6. CASE Named(list, k) \cap Sessions(list) # {} /\ f[k] = SpawnIndex(list, Last(Named(list, k) \cap Sessions(list)))
    <3> DEFINE P == Named(list, k) \cap Sessions(list)
    <3>1. P \in SUBSET (1..(k - 1))
      BY DEF Named
    <3>2. Last(P) \in P
      BY <2>3, <2>6, <3>1, LastFound
    <3>3. Last(P) \in Sessions(list) /\ Last(P) < k /\ Last(P) \in Nat
      BY <2>3, <3>1, <3>2
    <3> HIDE DEF P
    <3>4. SpawnIndex(list, Last(P)) \in Nat /\ SpawnIndex(list, Last(P)) < SpawnIndex(list, k)
      BY <1>3, <2>3, <3>3
    <3> QED BY <2>2, <2>6, <3>4 DEF P
  <2>7. CASE Named(list, k) # {} /\ f[k] = f[Last(Named(list, k))]
    <3> DEFINE j == Last(Named(list, k))
    <3>1. Named(list, k) \in SUBSET (1..(k - 1))
      BY DEF Named
    <3>2. j \in Named(list, k)
      BY <2>3, <2>7, <3>1, LastFound
    <3> HIDE DEF j
    <3>3. j \in 1..n /\ j \in Nat /\ j < k
      BY <1>1, <2>3, <3>1, <3>2
    <3>4. f[j] \in Int /\ f[j] < SpawnIndex(list, j)
      BY <2>2, <2>3, <3>3
    <3>5. SpawnIndex(list, j) \in Nat /\ SpawnIndex(list, j) <= SpawnIndex(list, k)
      BY <1>3, <2>3, <3>3
    <3>6. f[k] = f[j]
      BY <2>7 DEF j
    <3> QED BY <2>2, <2>4, <3>4, <3>5, <3>6
  <2>8. f[k] = Resolved(list, k, f)
    BY <1>2, <2>3
  <2> QED BY <2>5, <2>6, <2>7, <2>8 DEF Resolved
<1> QED BY <1>1, <1>4 DEF f

\* What LoadStartupTree makes of any list can be launched in list order.
LEMMA AnyListLaunches ==
    ASSUME NEW list, IsList(list)
    PROVE  LET tree == LoadStartupTree(list)
           IN  /\ \A k \in DOMAIN tree.sessions : tree.sessions[k].parent < k - 1
               /\ \A k \in DOMAIN tree.separators :
                     LET separator == tree.separators[k]
                     IN  separator.after # -1 => tree.sessions[separator.after + 1].parent = separator.parent
<1> DEFINE tree == LoadStartupTree(list)
           parent == ResolveParents(list)
           S == Sessions(list)
           D == DOMAIN list \ S
           scope(i) == {j \in S : j < i /\ parent[j] = parent[i]}
<1>1. S \in SUBSET DOMAIN list /\ S \in SUBSET Nat /\ IsFiniteSet(S)
  BY SessionSet
<1>2. /\ DOMAIN InOrder(S) = 1..Cardinality(S) /\ Cardinality(S) \in Nat
      /\ \A k \in 1..Cardinality(S) : InOrder(S)[k] \in S /\ SpawnIndex(list, InOrder(S)[k]) = k - 1
      /\ \A x \in S : SpawnIndex(list, x) + 1 \in 1..Cardinality(S) /\ InOrder(S)[SpawnIndex(list, x) + 1] = x
  BY <1>1, InOrderLists DEF SpawnIndex
<1>3. tree.sessions = [k \in DOMAIN InOrder(S) |-> [id |-> list[InOrder(S)[k]].id, parent |-> parent[InOrder(S)[k]]]]
  BY DEF LoadStartupTree
<1>4. tree.separators =
        IF InOrder(S) = <<>> THEN <<>>
        ELSE [k \in DOMAIN InOrder(D) |->
                [id |-> list[InOrder(D)[k]].id, parent |-> parent[InOrder(D)[k]],
                 after |-> IF scope(InOrder(D)[k]) = {} THEN -1 ELSE SpawnIndex(list, Last(scope(InOrder(D)[k])))]]
  BY DEF LoadStartupTree
<1> HIDE DEF tree, parent, S, D
<1>5. ASSUME NEW k \in DOMAIN tree.sessions PROVE tree.sessions[k].parent < k - 1
  <2>1. k \in 1..Cardinality(S) /\ tree.sessions[k].parent = parent[InOrder(S)[k]]
    BY <1>2, <1>3
  <2>2. InOrder(S)[k] \in DOMAIN list /\ SpawnIndex(list, InOrder(S)[k]) = k - 1
    BY <1>1, <1>2, <2>1
  <2>3. parent[InOrder(S)[k]] < SpawnIndex(list, InOrder(S)[k])
    BY <2>2, ParentsResolve DEF parent
  <2> QED BY <2>1, <2>2, <2>3
<1>6. ASSUME NEW k \in DOMAIN tree.separators, tree.separators[k].after # -1
      PROVE  tree.sessions[tree.separators[k].after + 1].parent = tree.separators[k].parent
  <2> DEFINE i == InOrder(D)[k]
             j == Last(scope(i))
  <2>1. /\ tree.separators[k].parent = parent[i]
        /\ tree.separators[k].after = IF scope(i) = {} THEN -1 ELSE SpawnIndex(list, j)
    <3>1. InOrder(S) # <<>>
      BY <1>4, <1>6
    <3> HIDE DEF scope
    <3>2. k \in DOMAIN InOrder(D)
      BY <1>4, <3>1
    <3> QED BY <1>4, <3>1, <3>2
  <2>2. scope(i) # {} /\ tree.separators[k].after = SpawnIndex(list, j)
    BY <1>6, <2>1
  <2>3. Len(list) \in Nat /\ scope(i) \in SUBSET (1..Len(list))
    BY <1>1, ListShape
  <2>4. j \in scope(i)
    BY <2>2, <2>3, LastFound
  <2>5. j \in S /\ parent[j] = parent[i]
    BY <2>4
  <2> HIDE DEF j, i
  <2>6. SpawnIndex(list, j) + 1 \in DOMAIN InOrder(S) /\ InOrder(S)[SpawnIndex(list, j) + 1] = j
    BY <1>2, <2>5
  <2>7. tree.sessions[SpawnIndex(list, j) + 1].parent = parent[j]
    BY <1>3, <2>6
  <2> QED BY <2>1, <2>2, <2>5, <2>7
<1> QED BY <1>5, <1>6 DEF tree

-------------------------------------------------------------------------------
(* Families of rows *)

\* Is row i in the family of row "root", given which rows above it are?
Inside(list, root, i, f) ==
    \/ i = root
    \/ /\ i > root /\ list[i].parent # NoId
       /\ \E j \in root..(i - 1) : f[j] /\ list[j].id = list[i].parent

Insides(f, list, root, n) == f = [i \in 1..n |-> Inside(list, root, i, f)]

\* The forward pass over n rows extends to the next row.
LEMMA InsidesNext ==
    ASSUME NEW list, NEW root \in Nat \ {0}, NEW n \in Nat, NEW g, Insides(g, list, root, n)
    PROVE  \E h : Insides(h, list, root, n + 1)
<1> DEFINE h == [i \in 1..(n + 1) |-> IF i = n + 1 THEN Inside(list, root, n + 1, g) ELSE g[i]]
<1>1. ASSUME NEW i \in 1..(n + 1) PROVE h[i] = Inside(list, root, i, h)
  <2>1. h[i] = Inside(list, root, i, g)
    <3>1. CASE i = n + 1
      BY <3>1
    <3>2. CASE i # n + 1
      <4>1. i \in 1..n
        BY <3>2
      <4>2. h[i] = g[i]
        BY <3>2
      <4> HIDE DEF h
      <4> QED BY <4>1, <4>2 DEF Insides
    <3> QED BY <3>1, <3>2
  <2>2. \A j \in root..(i - 1) : h[j] = g[j]
    <3>1. \A j \in root..(i - 1) : j \in 1..(n + 1) /\ j # n + 1
      OBVIOUS
    <3> QED BY <3>1
  <2> HIDE DEF h
  <2>3. Inside(list, root, i, g) = Inside(list, root, i, h)
    BY <2>2 DEF Inside
  <2> QED BY <2>1, <2>3
<1>2. h = [i \in 1..(n + 1) |-> h[i]]
  OBVIOUS
<1> HIDE DEF h
<1>3. Insides(h, list, root, n + 1)
  BY <1>1, <1>2 DEF Insides
<1> QED BY <1>3

\* The forward pass is well defined.
LEMMA InsideDefined ==
    ASSUME NEW list, NEW n \in Nat, DOMAIN list = 1..n, NEW root \in 1..n
    PROVE  \E f : Insides(f, list, root, n) /\ SubtreeMask(list, root) = {i \in 1..n : f[i]}
<1> DEFINE T == {k \in Nat : ~\E g : Insides(g, list, root, k)}
<1>1. T = {}
  <2> SUFFICES ASSUME T # {} PROVE FALSE
    OBVIOUS
  <2>1. PICK k \in T : \A y \in T : k <= y
    BY LeastNatural
  <2>2. CASE k = 0
    <3> DEFINE g == [i \in 1..0 |-> TRUE]
    <3>1. Insides(g, list, root, 0)
      BY DEF Insides
    <3> QED BY <2>1, <2>2, <3>1
  <2>3. CASE k # 0
    <3>1. k - 1 \in Nat /\ ~(k <= k - 1) /\ (k - 1) + 1 = k
      BY <2>1, <2>3
    <3>2. PICK g : Insides(g, list, root, k - 1)
      BY <2>1, <3>1
    <3>3. \E h : Insides(h, list, root, (k - 1) + 1)
      BY <3>1, <3>2, InsidesNext
    <3> QED BY <2>1, <3>1, <3>3
  <2> QED BY <2>2, <2>3
<1>2. \E g : g = [i \in DOMAIN list |-> Inside(list, root, i, g)]
  BY <1>1 DEF Insides
<1> DEFINE f == CHOOSE g : g = [i \in DOMAIN list |-> Inside(list, root, i, g)]
<1>3. f = [i \in DOMAIN list |-> Inside(list, root, i, f)]
  BY <1>2
<1>4. SubtreeMask(list, root) = {i \in DOMAIN list : f[i]}
  BY DEF SubtreeMask, Inside
<1> HIDE DEF f
<1> QED BY <1>3, <1>4 DEF Insides

\* The family of a row: the row, and the rows below it whose parent is in it.
LEMMA SubtreeRows ==
    ASSUME NEW list, IsList(list), NEW root \in DOMAIN list
    PROVE  /\ SubtreeMask(list, root) \in SUBSET DOMAIN list
           /\ root \in SubtreeMask(list, root)
           /\ \A i \in SubtreeMask(list, root) : root <= i
           /\ \A i \in DOMAIN list :
                i \in SubtreeMask(list, root) <=>
                  \/ i = root
                  \/ /\ i > root /\ list[i].parent # NoId
                     /\ \E j \in SubtreeMask(list, root) : j < i /\ list[j].id = list[i].parent
<1> DEFINE n == Len(list)
           M == SubtreeMask(list, root)
<1>1. n \in Nat /\ DOMAIN list = 1..n /\ root \in 1..n
  BY ListShape
<1>2. PICK f : Insides(f, list, root, n) /\ M = {i \in 1..n : f[i]}
  BY <1>1, InsideDefined
<1>3. \A i \in 1..n : f[i] = Inside(list, root, i, f)
  BY <1>2 DEF Insides
<1> HIDE DEF M, n
<1>4. ASSUME NEW i \in 1..n PROVE i \in M <=> Inside(list, root, i, f)
  BY <1>2, <1>3
<1>5. root \in M
  BY <1>1, <1>4 DEF Inside
<1>6. \A i \in M : i \in 1..n /\ root <= i
  BY <1>1, <1>2, <1>4 DEF Inside
<1>7. ASSUME NEW i \in 1..n
      PROVE  (\E j \in root..(i - 1) : f[j] /\ list[j].id = list[i].parent)
               <=> \E j \in M : j < i /\ list[j].id = list[i].parent
  <2>1. ASSUME NEW j \in root..(i - 1), f[j] PROVE j \in M /\ j < i
    BY <1>1, <1>2, <2>1
  <2>2. ASSUME NEW j \in M, j < i PROVE j \in root..(i - 1) /\ f[j]
    BY <1>1, <1>2, <1>6, <2>2
  <2> QED BY <2>1, <2>2
<1>8. \A i \in 1..n : i \in M <=> \/ i = root
                                  \/ /\ i > root /\ list[i].parent # NoId
                                     /\ \E j \in M : j < i /\ list[j].id = list[i].parent
  BY <1>4, <1>7 DEF Inside
<1> QED BY <1>1, <1>5, <1>6, <1>8 DEF M

\* One round of NormalizeAfterDrag's closure by id.
WithChildren(list, ids) ==
    LET children == {i \in DOMAIN list : list[i].parent # NoId /\ list[i].parent \in ids}
    IN  ids \cup {list[i].id : i \in children}

Grows(f, list, head, n) ==
    f = [k \in 0..n |-> IF k = 0 THEN {list[head].id} ELSE WithChildren(list, f[k - 1])]

\* The closure extends by a round.
LEMMA GrowsNext ==
    ASSUME NEW list, NEW head, NEW n \in Nat, NEW g, Grows(g, list, head, n)
    PROVE  \E h : Grows(h, list, head, n + 1)
<1> DEFINE h == [k \in 0..(n + 1) |-> IF k = n + 1 THEN WithChildren(list, g[n]) ELSE g[k]]
<1>1. ASSUME NEW k \in 0..(n + 1)
      PROVE  h[k] = IF k = 0 THEN {list[head].id} ELSE WithChildren(list, h[k - 1])
  <2>1. CASE k = n + 1
    <3>1. k # 0 /\ k - 1 = n /\ n \in 0..(n + 1) /\ n # n + 1
      BY <2>1
    <3>2. h[k] = WithChildren(list, g[n]) /\ h[n] = g[n]
      BY <2>1, <3>1
    <3> HIDE DEF h
    <3> QED BY <3>1, <3>2
  <2>2. CASE k # n + 1
    <3>1. k \in 0..n
      BY <2>2
    <3>2. k # 0 => k - 1 \in 0..(n + 1) /\ k - 1 # n + 1
      OBVIOUS
    <3>3. h[k] = g[k] /\ (k # 0 => h[k - 1] = g[k - 1])
      BY <2>2, <3>1, <3>2
    <3> HIDE DEF h
    <3>4. g[k] = IF k = 0 THEN {list[head].id} ELSE WithChildren(list, g[k - 1])
      BY <3>1 DEF Grows
    <3> QED BY <3>3, <3>4
  <2> QED BY <2>1, <2>2
<1>2. h = [k \in 0..(n + 1) |-> h[k]]
  OBVIOUS
<1> HIDE DEF h
<1>3. Grows(h, list, head, n + 1)
  BY <1>1, <1>2 DEF Grows
<1> QED BY <1>3

\* The closure is well defined.
LEMMA GrowsDefined ==
    ASSUME NEW list, NEW head, Len(list) \in Nat
    PROVE  \E f : Grows(f, list, head, Len(list)) /\ SubtreeIds(list, head) = f[Len(list)]
<1> DEFINE T == {k \in Nat : ~\E g : Grows(g, list, head, k)}
<1>1. T = {}
  <2> SUFFICES ASSUME T # {} PROVE FALSE
    OBVIOUS
  <2>1. PICK k \in T : \A y \in T : k <= y
    BY LeastNatural
  <2>2. CASE k = 0
    <3> DEFINE g == [i \in 0..0 |-> {list[head].id}]
    <3>1. Grows(g, list, head, 0)
      BY DEF Grows
    <3> QED BY <2>1, <2>2, <3>1
  <2>3. CASE k # 0
    <3>1. k - 1 \in Nat /\ ~(k <= k - 1) /\ (k - 1) + 1 = k
      BY <2>1, <2>3
    <3>2. PICK g : Grows(g, list, head, k - 1)
      BY <2>1, <3>1
    <3>3. \E h : Grows(h, list, head, (k - 1) + 1)
      BY <3>1, <3>2, GrowsNext
    <3> QED BY <2>1, <3>1, <3>3
  <2> QED BY <2>2, <2>3
<1>2. \E g : g = [k \in 0..Len(list) |-> IF k = 0 THEN {list[head].id} ELSE WithChildren(list, g[k - 1])]
  BY <1>1 DEF Grows
<1> DEFINE f == CHOOSE g : g = [k \in 0..Len(list) |-> IF k = 0 THEN {list[head].id} ELSE WithChildren(list, g[k - 1])]
<1>3. f = [k \in 0..Len(list) |-> IF k = 0 THEN {list[head].id} ELSE WithChildren(list, f[k - 1])]
  BY <1>2
<1>4. SubtreeIds(list, head) = f[Len(list)]
  BY DEF SubtreeIds, WithChildren
<1> HIDE DEF f
<1> QED BY <1>3, <1>4 DEF Grows

\* The dragged row is in its own family.
LEMMA HeadInFamily ==
    ASSUME NEW list, NEW head, Len(list) \in Nat
    PROVE  list[head].id \in SubtreeIds(list, head)
<1> DEFINE n == Len(list)
<1>1. PICK f : Grows(f, list, head, n) /\ SubtreeIds(list, head) = f[n]
  BY GrowsDefined
<1> HIDE DEF n
<1>2. \A k \in 0..n : f[k] = IF k = 0 THEN {list[head].id} ELSE WithChildren(list, f[k - 1])
  BY <1>1 DEF Grows
<1> DEFINE T == {k \in 0..n : list[head].id \notin f[k]}
<1>3. n \in Nat
  BY DEF n
<1>4. T = {}
  <2> SUFFICES ASSUME T # {} PROVE FALSE
    OBVIOUS
  <2>1. T \in SUBSET Nat
    BY <1>3
  <2>2. PICK k \in T : \A y \in T : k <= y
    BY <2>1, LeastNatural
  <2>3. k # 0
    BY <1>2, <2>2
  <2>4. k - 1 \in 0..n /\ ~(k <= k - 1)
    BY <1>3, <2>3
  <2>5. list[head].id \in f[k - 1]
    BY <2>2, <2>4
  <2> QED BY <1>2, <2>2, <2>3, <2>5 DEF WithChildren
<1> QED BY <1>1, <1>3, <1>4

-------------------------------------------------------------------------------
(* Depths *)

\* The depth of row i, given the depths of the rows above it.
DepthOf(list, i, depth) ==
    IF list[i].parent = NoId \/ Named(list, i) = {} THEN 0 ELSE depth[Last(Named(list, i))] + 1

Deepens(f, list, n) == f = [i \in 1..n |-> DepthOf(list, i, f)]

\* The depths of n rows extend to the next row.
LEMMA DeepensNext ==
    ASSUME NEW list, NEW n \in Nat, NEW g, Deepens(g, list, n)
    PROVE  \E h : Deepens(h, list, n + 1)
<1> DEFINE h == [i \in 1..(n + 1) |-> IF i = n + 1 THEN DepthOf(list, n + 1, g) ELSE g[i]]
<1>1. ASSUME NEW i \in 1..(n + 1) PROVE h[i] = DepthOf(list, i, h)
  <2>1. h[i] = DepthOf(list, i, g)
    <3>1. CASE i = n + 1
      BY <3>1
    <3>2. CASE i # n + 1
      <4>1. i \in 1..n
        BY <3>2
      <4>2. h[i] = g[i]
        BY <3>2
      <4> HIDE DEF h
      <4> QED BY <4>1, <4>2 DEF Deepens
    <3> QED BY <3>1, <3>2
  <2>2. ASSUME Named(list, i) # {} PROVE h[Last(Named(list, i))] = g[Last(Named(list, i))]
    <3>1. i - 1 \in Nat /\ Named(list, i) \in SUBSET (1..(i - 1))
      BY DEF Named
    <3>2. Last(Named(list, i)) \in Named(list, i)
      BY <2>2, <3>1, LastFound
    <3>3. Last(Named(list, i)) \in 1..(n + 1) /\ Last(Named(list, i)) # n + 1
      BY <3>1, <3>2
    <3> QED BY <3>3
  <2> HIDE DEF h
  <2> QED BY <2>1, <2>2 DEF DepthOf
<1>2. h = [i \in 1..(n + 1) |-> h[i]]
  OBVIOUS
<1> HIDE DEF h
<1>3. Deepens(h, list, n + 1)
  BY <1>1, <1>2 DEF Deepens
<1> QED BY <1>3

\* The recursion over the list is well defined.
LEMMA DepthsDefined ==
    ASSUME NEW list, NEW n \in Nat, DOMAIN list = 1..n
    PROVE  Deepens(Depths(list), list, n)
<1> DEFINE T == {k \in Nat : ~\E g : Deepens(g, list, k)}
<1>1. T = {}
  <2> SUFFICES ASSUME T # {} PROVE FALSE
    OBVIOUS
  <2>1. PICK k \in T : \A y \in T : k <= y
    BY LeastNatural
  <2>2. CASE k = 0
    <3> DEFINE g == [i \in 1..0 |-> 0]
    <3>1. Deepens(g, list, 0)
      BY DEF Deepens
    <3> QED BY <2>1, <2>2, <3>1
  <2>3. CASE k # 0
    <3>1. k - 1 \in Nat /\ ~(k <= k - 1) /\ (k - 1) + 1 = k
      BY <2>1, <2>3
    <3>2. PICK g : Deepens(g, list, k - 1)
      BY <2>1, <3>1
    <3>3. \E h : Deepens(h, list, (k - 1) + 1)
      BY <3>1, <3>2, DeepensNext
    <3> QED BY <2>1, <3>1, <3>3
  <2> QED BY <2>2, <2>3
<1>2. \E g : g = [i \in DOMAIN list |-> DepthOf(list, i, g)]
  BY <1>1 DEF Deepens
<1> DEFINE f == CHOOSE g : g = [i \in DOMAIN list |-> DepthOf(list, i, g)]
<1>3. f = [i \in DOMAIN list |-> DepthOf(list, i, f)]
  BY <1>2
<1>4. Depths(list) = f
  BY DEF Depths, DepthOf, Named
<1> HIDE DEF f
<1> QED BY <1>3, <1>4 DEF Deepens

\* Depths are natural numbers: a root's is 0, another row's one more than that of
\* the nearest row above that its parent names.
LEMMA DepthRows ==
    ASSUME NEW list, IsList(list)
    PROVE  \A i \in DOMAIN list : Depths(list)[i] \in Nat /\ Depths(list)[i] = DepthOf(list, i, Depths(list))
<1> DEFINE n == Len(list)
           f == Depths(list)
           T == {k \in Nat : k \in 1..n /\ f[k] \notin Nat}
<1>1. n \in Nat /\ DOMAIN list = 1..n
  BY ListShape
<1>2. \A k \in 1..n : f[k] = DepthOf(list, k, f)
  <2>1. Deepens(f, list, n)
    BY <1>1, DepthsDefined
  <2> HIDE DEF f
  <2> QED BY <2>1 DEF Deepens
<1> HIDE DEF f, n
<1>3. T = {}
  <2> SUFFICES ASSUME T # {} PROVE FALSE
    OBVIOUS
  <2>1. PICK k \in T : \A y \in T : k <= y
    BY LeastNatural
  <2>2. k \in 1..n /\ k \in Nat /\ k - 1 \in Nat /\ f[k] = DepthOf(list, k, f)
    BY <1>1, <1>2
  <2>3. f[k] # 0
    BY <2>1
  <2>4. Named(list, k) # {} /\ f[k] = f[Last(Named(list, k))] + 1
    BY <2>2, <2>3 DEF DepthOf
  <2>5. Last(Named(list, k)) \in 1..(k - 1)
    <3>1. Named(list, k) \in SUBSET (1..(k - 1))
      BY DEF Named
    <3>2. Last(Named(list, k)) \in Named(list, k)
      BY <2>2, <2>4, <3>1, LastFound
    <3> QED BY <3>1, <3>2
  <2>6. f[Last(Named(list, k))] \in Nat
    BY <1>1, <2>1, <2>2, <2>5
  <2> QED BY <2>1, <2>4, <2>6
<1> QED BY <1>1, <1>2, <1>3 DEF f, n

-------------------------------------------------------------------------------
(* The editor's operations on a list *)

Reparented(list, i, v) == [list EXCEPT ![i].parent = v]

\* A row gets another parent.
LEMMA ReparentsRow ==
    ASSUME NEW list, IsList(list), NEW i \in DOMAIN list, NEW v
    PROVE  /\ IsList(Reparented(list, i, v)) /\ Len(Reparented(list, i, v)) = Len(list)
           /\ DOMAIN Reparented(list, i, v) = DOMAIN list
           /\ \A k \in DOMAIN list :
                /\ Reparented(list, i, v)[k].id = list[k].id
                /\ Reparented(list, i, v)[k].separator = list[k].separator
                /\ Reparented(list, i, v)[k].parent = IF k = i THEN v ELSE list[k].parent
<1> DEFINE n == Len(list)
           after == Reparented(list, i, v)
<1>1. n \in Nat /\ DOMAIN list = 1..n
  BY ListShape
<1>2. ASSUME NEW k \in 1..n
      PROVE  after[k] = [id |-> list[k].id, parent |-> IF k = i THEN v ELSE list[k].parent, separator |-> list[k].separator]
  <2>1. IsRow(list[k])
    BY <1>1 DEF IsList
  <2>2. CASE k = i
    <3>1. after[k] = [list[k] EXCEPT !.parent = v]
      BY <1>1, <2>2 DEF Reparented
    <3> QED BY <2>1, <2>2, <3>1 DEF IsRow
  <2>3. CASE k # i
    <3>1. after[k] = list[k]
      BY <1>1, <2>3 DEF Reparented
    <3> QED BY <2>1, <2>3, <3>1 DEF IsRow
  <2> QED BY <2>2, <2>3
<1>3. after = [k \in 1..n |-> after[k]]
  BY <1>1 DEF Reparented
<1> HIDE DEF after
<1>4. \A k \in 1..n : IsRow(after[k])
  <2> TAKE k \in 1..n
  <2> DEFINE v2 == IF k = i THEN v ELSE list[k].parent
  <2> HIDE DEF v2
  <2>1. after[k] = [id |-> list[k].id, parent |-> v2, separator |-> list[k].separator]
    BY <1>2 DEF v2
  <2> QED BY <2>1 DEF IsRow
<1>5. IsList(after) /\ Len(after) = n
  BY <1>1, <1>3, <1>4, MadeList
<1>6. DOMAIN after = 1..n
  BY <1>5, ListShape
<1> QED BY <1>1, <1>2, <1>5, <1>6 DEF after

\* A list with one more row at its end.
LEMMA AppendsRow ==
    ASSUME NEW list, IsList(list), NEW r, IsRow(r)
    PROVE  /\ IsList(Append(list, r)) /\ Len(Append(list, r)) = Len(list) + 1
           /\ \A k \in 1..Len(list) : Append(list, r)[k] = list[k]
           /\ Append(list, r)[Len(list) + 1] = r
<1> DEFINE n == Len(list)
<1>1. n \in Nat /\ DOMAIN list = 1..n
  BY ListShape
<1>2. PICK S : list \in Seq(S)
  BY DEF IsList
<1>3. list \in Seq(S \cup {r})
  BY <1>2
<1> DEFINE after == Append(list, r)
<1>4. after \in Seq(S \cup {r}) /\ Len(after) = n + 1 /\ (\A k \in 1..n : after[k] = list[k]) /\ after[n + 1] = r
  BY <1>1, <1>3
<1> HIDE DEF after
<1>5. ASSUME NEW k \in DOMAIN after PROVE IsRow(after[k])
  <2>1. k \in 1..n \/ k = n + 1
    BY <1>1, <1>4, <1>5
  <2> QED BY <1>1, <1>4, <2>1 DEF IsList
<1> QED BY <1>4, <1>5 DEF IsList, after

\* Where Duplicate inserts.
LEMMA SubtreeEnds ==
    ASSUME NEW list, IsList(list), NEW i \in DOMAIN list
    PROVE  SubtreeEnd(list, i) \in i..Len(list)
<1>1. Len(list) \in Nat /\ DOMAIN list = 1..Len(list)
  BY ListShape
<1>2. SubtreeMask(list, i) \in SUBSET (1..Len(list)) /\ i \in SubtreeMask(list, i)
  BY <1>1, SubtreeRows
<1>3. SubtreeEnd(list, i) \in SubtreeMask(list, i) /\ i <= SubtreeEnd(list, i)
  BY <1>1, <1>2, LastFound DEF SubtreeEnd
<1> QED BY <1>1, <1>2, <1>3

\* Moving a row past its sibling is a move.
LEMMA SiblingMove ==
    ASSUME NEW list, IsList(list), NEW i \in DOMAIN list, NEW sibling, NEW up \in BOOLEAN
    PROVE  LET move == MoveAmongSiblings(list, i, sibling, up)
           IN  /\ IsMove(list, move) /\ Len(move.block) \in Nat \ {0}
               /\ Lifted(move) = SubtreeMask(list, i) /\ move.block = InOrder(SubtreeMask(list, i))
<1> DEFINE move == MoveAmongSiblings(list, i, sibling, up)
           M == SubtreeMask(list, i)
           before == {k \in DOMAIN list : IF up THEN k < sibling ELSE \E j \in SubtreeMask(list, sibling) \ M : k =< j}
<1>1. M \in SUBSET DOMAIN list /\ i \in M
  BY SubtreeRows
<1>2. DOMAIN list \in SUBSET Nat /\ IsFiniteSet(DOMAIN list)
  BY ListShape
<1>3. move.block = InOrder(M) /\ move.insertAt = Cardinality(before \ M)
  BY DEF MoveAmongSiblings
<1> HIDE DEF move, M, before
<1>4. IsFiniteSet(M) /\ M \in SUBSET Nat
  BY <1>1, <1>2, FS_Subset
<1>5. /\ InOrder(M) \in Seq(M) /\ Len(InOrder(M)) = Cardinality(M) /\ Cardinality(M) \in Nat
      /\ \A x \in M : Position(M, x) + 1 \in 1..Cardinality(M) /\ InOrder(M)[Position(M, x) + 1] = x
  BY <1>4, InOrderLists
<1>6. Lifted(move) = M
  <2>1. DOMAIN InOrder(M) = 1..Cardinality(M) /\ \A k \in 1..Cardinality(M) : InOrder(M)[k] \in M
    BY <1>5
  <2>2. \A x \in M : \E k \in 1..Cardinality(M) : x = InOrder(M)[k]
    BY <1>5
  <2> QED BY <1>3, <2>1, <2>2 DEF Lifted
<1>7. Cardinality(M) # 0
  <2>1. Position(M, i) + 1 \in 1..Cardinality(M)
    BY <1>1, <1>5
  <2> QED BY <1>5, <2>1
<1>8. move.insertAt \in 0..Cardinality(DOMAIN list \ M)
  <2>1. IsFiniteSet(DOMAIN list \ M) /\ before \ M \in SUBSET (DOMAIN list \ M)
    BY <1>2, FS_Subset DEF before
  <2>2. Cardinality(before \ M) <= Cardinality(DOMAIN list \ M) /\ IsFiniteSet(before \ M)
    BY <2>1, FS_Subset
  <2>3. Cardinality(before \ M) \in Nat /\ Cardinality(DOMAIN list \ M) \in Nat
    BY <2>1, <2>2, FS_CardinalityType
  <2> QED BY <1>3, <2>2, <2>3
<1>9. move.block \in Seq(DOMAIN list)
  BY <1>1, <1>3, <1>5
<1> QED BY <1>3, <1>5, <1>6, <1>7, <1>8, <1>9 DEF IsMove, Left, move, M

\* The rows that NormalizeAfterDrag finds to be of the head's family.
FamilyRows(list, head) == {i \in DOMAIN list : list[i].id \in SubtreeIds(list, head)}

\* The repair of a drop is a move of the family, the head first.
LEMMA DragMove ==
    ASSUME NEW list, IsList(list), NEW head \in DOMAIN list, NEW oldDepth
    PROVE  LET move == NormalizeAfterDrag(list, head, oldDepth).move
               family == FamilyRows(list, head)
           IN  /\ IsMove(list, move) /\ Len(move.block) \in Nat \ {0}
               /\ head \in family /\ Lifted(move) = family
               /\ move.block = <<head>> \o InOrder(family \ {head})
<1> DEFINE move == NormalizeAfterDrag(list, head, oldDepth).move
           family == FamilyRows(list, head)
           others == family \ {head}
           outside == DOMAIN list \ family
           before == {i \in outside : i < head}
<1>1. DOMAIN list \in SUBSET Nat /\ IsFiniteSet(DOMAIN list) /\ Len(list) \in Nat
  BY ListShape
<1>2. family \in SUBSET DOMAIN list /\ head \in family
  BY <1>1, HeadInFamily DEF FamilyRows
<1>3. move.block = <<head>> \o InOrder(others) /\ move.insertAt = Cardinality(before)
  BY DEF NormalizeAfterDrag, FamilyRows
<1> HIDE DEF move, family
<1>4. IsFiniteSet(others) /\ others \in SUBSET Nat
  BY <1>1, <1>2, FS_Subset
<1>5. /\ InOrder(others) \in Seq(others) /\ Len(InOrder(others)) = Cardinality(others) /\ Cardinality(others) \in Nat
      /\ \A x \in others : Position(others, x) + 1 \in 1..Cardinality(others) /\ InOrder(others)[Position(others, x) + 1] = x
  BY <1>4, InOrderLists
<1> DEFINE tail == InOrder(others)
<1> HIDE DEF tail, others
<1>6. tail \in Seq(DOMAIN list) /\ Len(tail) = Cardinality(others)
  BY <1>2, <1>5 DEF tail, others
<1>7. /\ <<head>> \o tail \in Seq(DOMAIN list) /\ Len(<<head>> \o tail) = 1 + Len(tail)
      /\ (<<head>> \o tail)[1] = head
      /\ \A k \in 1..Len(tail) : (<<head>> \o tail)[1 + k] = tail[k]
  BY <1>5, <1>6
<1>8. Lifted(move) = family
  <2>1. DOMAIN move.block = 1..(1 + Len(tail)) /\ Len(tail) \in Nat
    BY <1>3, <1>5, <1>6, <1>7 DEF tail
  <2>2. ASSUME NEW k \in 1..(1 + Len(tail)) PROVE move.block[k] \in family
    <3>1. CASE k = 1
      BY <1>2, <1>3, <1>7, <3>1 DEF tail
    <3>2. CASE k # 1
      <4>1. k - 1 \in 1..Len(tail) /\ 1 + (k - 1) = k
        BY <2>1, <3>2
      <4>2. move.block[k] = tail[k - 1]
        BY <1>3, <1>7, <4>1 DEF tail
      <4>3. tail[k - 1] \in others
        BY <1>5, <4>1 DEF tail
      <4> QED BY <4>2, <4>3 DEF others
    <3> QED BY <3>1, <3>2
  <2>3. ASSUME NEW x \in family PROVE \E k \in 1..(1 + Len(tail)) : x = move.block[k]
    <3>1. CASE x = head
      BY <1>3, <1>7, <2>1, <3>1 DEF tail
    <3>2. CASE x # head
      <4>1. x \in others
        BY <3>2 DEF others
      <4>2. PICK k \in 1..Len(tail) : tail[k] = x
        BY <1>5, <1>6, <4>1 DEF tail
      <4>3. 1 + k \in 1..(1 + Len(tail)) /\ move.block[1 + k] = x
        BY <1>3, <1>7, <2>1, <4>2 DEF tail
      <4> QED BY <4>3
    <3> QED BY <3>1, <3>2
  <2> QED BY <2>1, <2>2, <2>3 DEF Lifted
<1>9. move.insertAt \in 0..Cardinality(DOMAIN list \ family)
  <2>1. IsFiniteSet(outside) /\ before \in SUBSET outside
    BY <1>1, FS_Subset
  <2>2. Cardinality(before) <= Cardinality(outside) /\ IsFiniteSet(before)
    BY <2>1, FS_Subset
  <2>3. Cardinality(before) \in Nat /\ Cardinality(outside) \in Nat
    BY <2>1, <2>2, FS_CardinalityType
  <2> QED BY <1>3, <2>2, <2>3
<1>10. Len(move.block) \in Nat \ {0} /\ move.block \in Seq(DOMAIN list)
  BY <1>3, <1>5, <1>6, <1>7 DEF tail
<1> QED BY <1>2, <1>3, <1>8, <1>9, <1>10 DEF IsMove, Left, move, family, others

-------------------------------------------------------------------------------
(* The invariant: what the settings hold while a row is dragged *)

ListInv == IsList(entries) /\ IsList(committed) /\ selected \in 0..Len(entries)

\* Outside a drag the page and the settings agree.  During one, commits are
\* suspended, and the page shows the committed list but for the dragged row.
DragInv ==
    /\ Idle => committed = entries /\ suspendCommit = FALSE
    /\ ~Idle => /\ drag = [at |-> drag.at, start |-> drag.start, oldDepth |-> drag.oldDepth,
                           wasSuspended |-> FALSE, dropped |-> drag.dropped]
                /\ suspendCommit = TRUE /\ drag.dropped \in BOOLEAN /\ drag.oldDepth \in Nat
                /\ drag.start \in DOMAIN committed /\ drag.at \in DOMAIN committed
                /\ IF drag.dropped
                   THEN entries = ApplyBlockMove(committed, [block |-> <<drag.start>>, insertAt |-> drag.at - 1])
                   ELSE entries = committed /\ drag.at = drag.start

EditorInv == ListInv /\ DragInv

\* A structural operation leaves a list behind, committed, with one of its rows
\* or none selected.
Replaced ==
    /\ Idle /\ committed' = entries' /\ UNCHANGED <<suspendCommit, drag>>
    /\ IsList(entries') /\ selected' \in 0..Len(entries')

\* A row added at the end.
LEMMA AddsList ==
    ASSUME ListInv, NEW id \in Fresh, NEW separator \in BOOLEAN, AddEntry(id, separator)
    PROVE  Replaced
<1>1. Idle /\ Replace(Append(entries, Row(id, NoId, separator)), Len(entries) + 1)
  BY DEF AddEntry
<1>2. IsRow(Row(id, NoId, separator))
  BY DEF IsRow, Row
<1> DEFINE list == Append(entries, Row(id, NoId, separator))
<1>3. IsList(list) /\ Len(list) = Len(entries) + 1 /\ Len(entries) \in Nat
  BY <1>2, AppendsRow, ListShape DEF ListInv
<1> HIDE DEF list
<1>4. entries' = list /\ committed' = list /\ selected' = Len(entries) + 1 /\ UNCHANGED <<suspendCommit, drag>>
  BY <1>1 DEF Replace, list
<1> QED BY <1>1, <1>3, <1>4 DEF Replaced

\* The children of the deleted row, promoted, and the row taken out.
Promoted(list, i) ==
    [k \in DOMAIN list |-> IF list[k].parent = list[i].id
                           THEN [list[k] EXCEPT !.parent = list[i].parent] ELSE list[k]]

\* Only the parents of its children change.
LEMMA PromotesRows ==
    ASSUME NEW list, IsList(list), NEW i \in DOMAIN list
    PROVE  /\ IsList(Promoted(list, i)) /\ Len(Promoted(list, i)) = Len(list)
           /\ \A k \in DOMAIN list :
                /\ Promoted(list, i)[k].id = list[k].id /\ Promoted(list, i)[k].separator = list[k].separator
                /\ Promoted(list, i)[k].parent = IF list[k].parent = list[i].id THEN list[i].parent ELSE list[k].parent
<1> DEFINE n == Len(list)
           after == Promoted(list, i)
<1>1. n \in Nat /\ DOMAIN list = 1..n
  BY ListShape
<1>2. ASSUME NEW k \in 1..n
      PROVE  IsRow(after[k]) /\ after[k].id = list[k].id /\ after[k].separator = list[k].separator
              /\ after[k].parent = IF list[k].parent = list[i].id THEN list[i].parent ELSE list[k].parent
  <2>1. IsRow(list[k])
    BY <1>1 DEF IsList
  <2>2. CASE list[k].parent = list[i].id
    <3>1. after[k] = [list[k] EXCEPT !.parent = list[i].parent]
      BY <1>1, <2>2 DEF Promoted
    <3>2. after[k] = [id |-> list[k].id, parent |-> list[i].parent, separator |-> list[k].separator]
      BY <2>1, <3>1 DEF IsRow
    <3> QED BY <2>2, <3>2 DEF IsRow
  <2>3. CASE list[k].parent # list[i].id
    <3>1. after[k] = list[k]
      BY <1>1, <2>3 DEF Promoted
    <3> QED BY <2>1, <2>3, <3>1
  <2> QED BY <2>2, <2>3
<1>3. after = [k \in 1..n |-> after[k]]
  BY <1>1 DEF Promoted
<1> HIDE DEF after
<1>4. IsList(after) /\ Len(after) = n
  BY <1>1, <1>2, <1>3, MadeList
<1> QED BY <1>1, <1>2, <1>4 DEF after

\* A delete leaves one row less, and selects one of the others or none.
LEMMA DeletesList ==
    ASSUME ListInv, DeleteEntry
    PROVE  Replaced
<1> DEFINE promoted == Promoted(entries, selected)
           rest == Keep(promoted, DOMAIN entries \ {selected})
           choice == SelectionAfterDelete(rest, selected, entries[selected].parent)
<1>1. Idle /\ selected # 0 /\ Replace(rest, choice)
  BY DEF DeleteEntry, HasSelection, Promoted
<1>2. Len(entries) \in Nat /\ DOMAIN entries = 1..Len(entries) /\ selected \in DOMAIN entries
  BY <1>1, ListShape DEF ListInv
<1>3. IsList(promoted) /\ Len(promoted) = Len(entries)
  BY <1>2, PromotesRows DEF ListInv
<1>4. DOMAIN promoted = DOMAIN entries
  BY <1>2, <1>3, ListShape
<1> HIDE DEF promoted
<1>5. IsList(rest) /\ Len(rest) = Cardinality(DOMAIN entries \ {selected})
  BY <1>3, <1>4, KeepsRows
<1>6. Cardinality(DOMAIN entries \ {selected}) = Len(entries) - 1
  BY <1>2, AllButOne
<1> HIDE DEF rest
<1>7. choice \in 0..Len(rest)
  <2> DEFINE siblings == {i \in selected..Len(rest) : rest[i].parent = entries[selected].parent}
  <2>1. choice = IF siblings # {} THEN First(siblings) ELSE selected - 1
    BY DEF SelectionAfterDelete
  <2>2. siblings \in SUBSET Nat /\ \A i \in siblings : i \in 0..Len(rest)
    BY <1>2, <1>5, <1>6
  <2> HIDE DEF siblings
  <2>3. CASE siblings # {}
    <3>1. PICK m \in siblings : \A j \in siblings : m <= j
      BY <2>2, <2>3, LeastNatural
    <3>2. First(siblings) \in siblings
      BY <3>1 DEF First
    <3> QED BY <2>1, <2>2, <2>3, <3>2
  <2>4. CASE siblings = {}
    BY <1>2, <1>5, <1>6, <2>1, <2>4
  <2> QED BY <2>3, <2>4
<1> HIDE DEF choice
<1>8. entries' = rest /\ committed' = rest /\ selected' = choice /\ UNCHANGED <<suspendCommit, drag>>
  BY <1>1 DEF Replace
<1> QED BY <1>1, <1>5, <1>7, <1>8 DEF Replaced

\* A duplicate puts the copy below the row's family, and selects it.
LEMMA DuplicatesList ==
    ASSUME ListInv, NEW id \in Fresh, DuplicateEntry(id)
    PROVE  /\ Replaced /\ selected \in DOMAIN entries
           /\ entries' = Inserted(entries, <<[id |-> id, parent |-> entries[selected].parent,
                                              separator |-> entries[selected].separator]>>,
                                  SubtreeEnd(entries, selected))
<1> DEFINE end == SubtreeEnd(entries, selected)
           at == DuplicateInsertIndex(entries, selected)
           copy == [entries[selected] EXCEPT !.id = id]
           list == SubSeq(entries, 1, at - 1) \o <<copy>> \o SubSeq(entries, at, Len(entries))
<1>1. Idle /\ selected # 0 /\ Replace(list, at)
  BY DEF DuplicateEntry, HasSelection
<1>2. Len(entries) \in Nat /\ DOMAIN entries = 1..Len(entries) /\ selected \in DOMAIN entries
  BY <1>1, ListShape DEF ListInv
<1>3. end \in selected..Len(entries)
  BY <1>2, SubtreeEnds DEF ListInv
<1>4. at = end + 1 /\ at - 1 = end /\ end \in 0..Len(entries)
  BY <1>2, <1>3 DEF DuplicateInsertIndex
<1>5. copy = [id |-> id, parent |-> entries[selected].parent, separator |-> entries[selected].separator]
  <2>1. IsRow(entries[selected])
    BY <1>2 DEF ListInv, IsList
  <2> QED BY <2>1 DEF IsRow
<1> HIDE DEF copy, end, at
<1>6. list = Inserted(entries, <<copy>>, end)
  BY <1>4 DEF Inserted
<1>7. IsRow(copy)
  BY <1>5 DEF IsRow
<1>8. IsList(<<copy>>) /\ Len(<<copy>>) = 1
  <2>1. <<copy>> \in Seq({copy}) /\ \A i \in DOMAIN <<copy>> : <<copy>>[i] = copy
    OBVIOUS
  <2> QED BY <1>7, <2>1 DEF IsList
<1>9. IsList(list) /\ Len(list) = Len(entries) + 1
  <2> HIDE DEF list
  <2>1. /\ IsList(Inserted(entries, <<copy>>, end))
        /\ Len(Inserted(entries, <<copy>>, end)) = Len(entries) + Len(<<copy>>)
    BY <1>4, <1>8, InsertsRows DEF ListInv
  <2> QED BY <1>6, <1>8, <2>1
<1> HIDE DEF list
<1>10. entries' = list /\ committed' = list /\ selected' = at /\ UNCHANGED <<suspendCommit, drag>>
  BY <1>1 DEF Replace
<1>11. selected' \in 0..Len(entries')
  BY <1>2, <1>4, <1>9, <1>10
<1> QED BY <1>1, <1>2, <1>5, <1>6, <1>9, <1>10, <1>11 DEF Replaced, end

\* Indent and outdent give the selected row another parent.
LEMMA ReparentsList ==
    ASSUME ListInv, IndentEntry \/ OutdentEntry
    PROVE  /\ Replaced /\ selected \in DOMAIN entries
           /\ \E v : entries' = Reparented(entries, selected, v)
<1>1. PICK v : Idle /\ selected # 0 /\ Replace(Reparented(entries, selected, v), selected)
  <2>1. CASE IndentEntry
    BY <2>1 DEF IndentEntry, HasSelection, Reparented
  <2>2. CASE OutdentEntry
    BY <2>2 DEF OutdentEntry, HasSelection, Reparented
  <2> QED BY <2>1, <2>2
<1>2. Len(entries) \in Nat /\ DOMAIN entries = 1..Len(entries) /\ selected \in DOMAIN entries
  BY <1>1, ListShape DEF ListInv
<1> DEFINE list == Reparented(entries, selected, v)
<1>3. IsList(list) /\ Len(list) = Len(entries)
  BY <1>2, ReparentsRow DEF ListInv
<1>4. entries' = list /\ committed' = list /\ selected' = selected /\ UNCHANGED <<suspendCommit, drag>>
  BY <1>1 DEF Replace
<1> HIDE DEF list
<1>5. selected' \in 0..Len(entries')
  BY <1>3, <1>4 DEF ListInv
<1> QED BY <1>1, <1>2, <1>3, <1>4, <1>5 DEF Replaced, list

\* A move up or down leaves a list, with the head of the family selected.
LEMMA MovesList ==
    ASSUME ListInv, NEW up \in BOOLEAN, MoveEntry(up)
    PROVE  Replaced /\ selected \in DOMAIN entries
<1>1. PICK sibling : LET move == MoveAmongSiblings(entries, selected, sibling, up)
                     IN  Idle /\ selected # 0 /\ Replace(ApplyBlockMove(entries, move), move.insertAt + 1)
  BY DEF MoveEntry, HasSelection
<1>2. Len(entries) \in Nat /\ DOMAIN entries = 1..Len(entries) /\ selected \in DOMAIN entries
  BY <1>1, ListShape DEF ListInv
<1> DEFINE move == MoveAmongSiblings(entries, selected, sibling, up)
           list == ApplyBlockMove(entries, move)
<1>3. IsMove(entries, move) /\ Len(move.block) \in Nat \ {0}
  BY <1>2, SiblingMove DEF ListInv
<1> HIDE DEF move
<1>4. IsList(list) /\ Len(list) = Cardinality(Left(entries, move)) + Len(move.block) /\ Cardinality(Left(entries, move)) \in Nat
  BY <1>3, MovesRows DEF ListInv
<1> HIDE DEF list
<1>5. entries' = list /\ committed' = list /\ selected' = move.insertAt + 1 /\ UNCHANGED <<suspendCommit, drag>>
  BY <1>1 DEF Replace, list, move
<1>6. move.insertAt \in 0..Cardinality(Left(entries, move))
  BY <1>3 DEF IsMove
<1>7. selected' \in 0..Len(entries')
  BY <1>3, <1>4, <1>5, <1>6
<1> QED BY <1>1, <1>2, <1>4, <1>5, <1>7 DEF Replaced

\* A list imported, captured or reloaded.
LEMMA ReplacesList ==
    ASSUME NEW list \in Lists, ReplaceFrom(list)
    PROVE  Replaced
<1>1. Idle /\ list # <<>> /\ entries' = list /\ committed' = list /\ selected' = 1 /\ UNCHANGED <<suspendCommit, drag>>
  BY DEF ReplaceFrom, Replace
<1>2. list \in Seq(Rows)
  BY ListsAssumption
<1>3. IsList(list)
  <2>1. \A i \in DOMAIN list : list[i] \in Rows
    BY <1>2
  <2> QED BY <1>2, <2>1 DEF IsList, IsRow, Rows
<1>4. 1 \in 0..Len(list)
  BY <1>1, <1>2
<1> QED BY <1>1, <1>3, <1>4 DEF Replaced

\* The list as the list control leaves it.
LEMMA DroppedList ==
    ASSUME NEW list, IsList(list), NEW s \in DOMAIN list, NEW position \in DOMAIN list
    PROVE  LET moved == ApplyBlockMove(list, [block |-> <<s>>, insertAt |-> position - 1])
           IN  IsList(moved) /\ Len(moved) = Len(list) /\ DOMAIN moved = DOMAIN list
<1> DEFINE n == Len(list)
           move == [block |-> <<s>>, insertAt |-> position - 1]
<1>1. n \in Nat /\ DOMAIN list = 1..n /\ s \in 1..n /\ position \in 1..n
  BY ListShape
<1>2. Lifted(move) = {s} /\ move.block \in Seq({s}) /\ Len(move.block) = 1 /\ move.insertAt = position - 1
  BY DEF Lifted
<1> HIDE DEF move, n
<1>3. Left(list, move) = (1..n) \ {s} /\ Cardinality(Left(list, move)) = n - 1
  <2>1. Left(list, move) = (1..n) \ {s}
    BY <1>1, <1>2 DEF Left
  <2>2. Cardinality((1..n) \ {s}) = n - 1
    BY <1>1, AllButOne
  <2> QED BY <2>1, <2>2
<1>4. IsMove(list, move)
  <2>1. move.block \in Seq(DOMAIN list)
    BY <1>1, <1>2
  <2> QED BY <1>1, <1>2, <1>3, <2>1 DEF IsMove
<1>5. /\ IsList(ApplyBlockMove(list, move))
      /\ Len(ApplyBlockMove(list, move)) = Cardinality(Left(list, move)) + Len(move.block)
  BY <1>4, MovesRows
<1>6. Len(ApplyBlockMove(list, move)) = n
  BY <1>1, <1>2, <1>3, <1>5
<1>7. DOMAIN ApplyBlockMove(list, move) = 1..n
  BY <1>5, <1>6, ListShape
<1> QED BY <1>1, <1>5, <1>6, <1>7 DEF move, n

\* A drag begins with the page and the settings in agreement, and suspends commits.
LEMMA BeginDragKeeps ==
    ASSUME EditorInv, NEW index \in DOMAIN entries, BeginDrag(index)
    PROVE  EditorInv'
<1>1. /\ drag' = [at |-> index, start |-> index, oldDepth |-> Depths(entries)[index],
                  wasSuspended |-> suspendCommit, dropped |-> FALSE]
      /\ Idle /\ suspendCommit' = TRUE /\ UNCHANGED <<entries, committed, selected>>
  BY DEF BeginDrag
<1>2. committed = entries /\ suspendCommit = FALSE
  BY <1>1 DEF EditorInv, DragInv
<1>3. index # 0
  BY ListShape DEF EditorInv, ListInv
<1>4. ~(drag' = NoDrag)
  BY <1>1, <1>3 DEF NoDrag
<1>5. ListInv'
  BY <1>1 DEF EditorInv, ListInv
<1>6. Depths(entries)[index] \in Nat
  BY DepthRows DEF EditorInv, ListInv
<1>7. DragInv'
  BY <1>1, <1>2, <1>4, <1>6 DEF DragInv, Idle
<1> QED BY <1>5, <1>7 DEF EditorInv

\* The drag once its row has been dropped.
LEMMA DropRecord ==
    ASSUME EditorInv, NEW position \in DOMAIN entries, Drop(position)
    PROVE  /\ drag' = [at |-> position, start |-> drag.start, oldDepth |-> drag.oldDepth,
                       wasSuspended |-> FALSE, dropped |-> TRUE]
           /\ drag'.dropped = TRUE
<1> DEFINE s == drag.start
<1>1. ~Idle /\ drag' = [drag EXCEPT !.at = position, !.dropped = TRUE]
  BY DEF Drop
<1>2. drag = [at |-> drag.at, start |-> s, oldDepth |-> drag.oldDepth, wasSuspended |-> FALSE, dropped |-> drag.dropped]
  BY <1>1 DEF EditorInv, DragInv
<1>3. PICK a, o, d : drag = [at |-> a, start |-> s, oldDepth |-> o, wasSuspended |-> FALSE, dropped |-> d]
  BY <1>2
<1> HIDE DEF s
<1>4. drag' = [x \in DOMAIN drag |-> IF x = "at" THEN position ELSE IF x = "dropped" THEN TRUE ELSE drag[x]]
  BY <1>1, <1>3
<1>5. /\ drag'.at = position /\ drag'.dropped = TRUE /\ drag'.start = s /\ drag'.oldDepth = o
      /\ drag'.wasSuspended = FALSE /\ DOMAIN drag' = DOMAIN drag /\ drag.oldDepth = o
  BY <1>3, <1>4
<1>6. drag' = [at |-> position, start |-> s, oldDepth |-> drag.oldDepth, wasSuspended |-> FALSE, dropped |-> TRUE]
  BY <1>3, <1>4, <1>5
<1> QED BY <1>5, <1>6 DEF s

\* The list control moves the dragged row alone; the selection follows its row.
LEMMA DropKeeps ==
    ASSUME EditorInv, NEW position \in DOMAIN entries, Drop(position)
    PROVE  EditorInv'
<1> DEFINE s == drag.start
           n == Len(committed)
           move == [block |-> <<s>>, insertAt |-> position - 1]
<1>1. /\ ~Idle /\ ~drag.dropped /\ entries' = ApplyBlockMove(entries, move)
      /\ drag' = [drag EXCEPT !.at = position, !.dropped = TRUE]
      /\ selected' = Shifted(selected, s, position) /\ UNCHANGED <<committed, suspendCommit>>
  BY DEF Drop
<1>2. /\ drag = [at |-> drag.at, start |-> s, oldDepth |-> drag.oldDepth, wasSuspended |-> FALSE, dropped |-> drag.dropped]
      /\ suspendCommit = TRUE /\ s \in DOMAIN committed /\ entries = committed /\ drag.oldDepth \in Nat
  BY <1>1 DEF EditorInv, DragInv
<1>3. drag' = [at |-> position, start |-> s, oldDepth |-> drag.oldDepth, wasSuspended |-> FALSE, dropped |-> TRUE]
  BY DropRecord
<1>4. n \in Nat /\ DOMAIN committed = 1..n /\ s \in 1..n /\ position \in 1..n
  BY <1>2, ListShape DEF EditorInv, ListInv
<1>5. ~(drag' = NoDrag)
  BY <1>3, <1>4 DEF NoDrag
<1>6. DragInv'
  BY <1>1, <1>2, <1>3, <1>5 DEF DragInv, Idle
<1>7. IsList(ApplyBlockMove(committed, move)) /\ Len(ApplyBlockMove(committed, move)) = n
  BY <1>2, <1>4, DroppedList DEF EditorInv, ListInv
<1> HIDE DEF move, n
<1>8. selected' \in 0..n
  <2>1. selected \in 0..n
    BY <1>2 DEF EditorInv, ListInv, n
  <2> QED BY <1>1, <1>4, <2>1 DEF Shifted
<1>9. ListInv'
  <2>1. IsList(entries') /\ Len(entries') = n
    BY <1>1, <1>2, <1>7
  <2>2. IsList(committed')
    BY <1>1 DEF EditorInv, ListInv
  <2> QED BY <1>8, <2>1, <2>2 DEF ListInv
<1> QED BY <1>6, <1>9 DEF EditorInv

\* The repaired list is a list, and the head is one of its rows.
LEMMA NormalizedList ==
    ASSUME ListInv, drag.at \in DOMAIN entries
    PROVE  IsList(Normalized) /\ Fixup.move.insertAt + 1 \in 0..Len(Normalized)
<1> DEFINE list == Reparented(entries, drag.at, Fixup.headParent)
           move == Fixup.move
<1>1. IsList(list) /\ DOMAIN list = DOMAIN entries
  BY ReparentsRow DEF ListInv
<1>2. IsMove(entries, move) /\ Len(move.block) \in Nat \ {0}
  BY DragMove DEF ListInv, Fixup
<1>3. Normalized = ApplyBlockMove(list, move)
  BY DEF Normalized, Reparented
<1> HIDE DEF list, move
<1>4. IsMove(list, move) /\ Left(list, move) = Left(entries, move)
  BY <1>1, <1>2 DEF IsMove, Left
<1>5. /\ IsList(ApplyBlockMove(list, move)) /\ Cardinality(Left(list, move)) \in Nat
      /\ Len(ApplyBlockMove(list, move)) = Cardinality(Left(list, move)) + Len(move.block)
  BY <1>1, <1>4, MovesRows
<1>6. move.insertAt \in 0..Cardinality(Left(list, move))
  BY <1>4 DEF IsMove
<1>7. move.insertAt + 1 \in 0..Len(ApplyBlockMove(list, move))
  BY <1>2, <1>5, <1>6
<1> QED BY <1>3, <1>5, <1>7 DEF move

\* A drag leaves the page and the settings in agreement, whatever way it ends:
\* in place, repaired and committed, or undone.
LEMMA DragCompletedKeeps ==
    ASSUME EditorInv, DragCompleted
    PROVE  EditorInv'
<1>1. ~Idle /\ suspendCommit' = drag.wasSuspended /\ drag' = NoDrag
  BY DEF DragCompleted
<1>2. /\ drag.wasSuspended = FALSE /\ drag.dropped \in BOOLEAN
      /\ drag.start \in DOMAIN committed /\ drag.at \in DOMAIN committed
      /\ IF drag.dropped
         THEN entries = ApplyBlockMove(committed, [block |-> <<drag.start>>, insertAt |-> drag.at - 1])
         ELSE entries = committed /\ drag.at = drag.start
  BY <1>1 DEF EditorInv, DragInv
<1>3. IsList(entries) /\ IsList(committed) /\ selected \in 0..Len(entries)
  BY DEF EditorInv, ListInv
<1>4. SUFFICES committed' = entries' /\ IsList(entries') /\ selected' \in 0..Len(entries')
  BY <1>1, <1>2 DEF EditorInv, ListInv, DragInv, Idle
<1>5. CASE drag.at = drag.start
  <2>1. UNCHANGED <<entries, committed, selected>>
    BY <1>5 DEF DragCompleted
  <2>2. entries = committed
    BY <1>2, <1>3, <1>5, DropInPlace
  <2> QED BY <1>3, <2>1, <2>2
<1>6. CASE drag.at # drag.start /\ ~IsWellFormed(Normalized)
  <2>1. entries' = committed /\ selected' = FirstRow(committed) /\ committed' = committed
    BY <1>6 DEF DragCompleted
  <2>2. FirstRow(committed) \in 0..Len(committed)
    <3>1. Len(committed) \in Nat /\ \E S : committed \in Seq(S)
      BY <1>3, ListShape DEF IsList
    <3> QED BY <3>1 DEF FirstRow
  <2> QED BY <1>3, <2>1, <2>2
<1>7. CASE drag.at # drag.start /\ IsWellFormed(Normalized)
  <2>1. entries' = Normalized /\ committed' = Normalized /\ selected' = Fixup.move.insertAt + 1
    BY <1>7 DEF DragCompleted
  <2>2. drag.at \in DOMAIN entries
    <3>1. Len(committed) \in Nat /\ DOMAIN committed = 1..Len(committed)
      BY <1>3, ListShape
    <3>2. CASE ~drag.dropped
      BY <1>2, <3>2
    <3>3. CASE drag.dropped
      BY <1>2, <1>3, <3>3, DroppedList
    <3> QED BY <3>2, <3>3
  <2> QED BY <1>3, <2>1, <2>2, NormalizedList DEF ListInv
<1> QED BY <1>5, <1>6, <1>7

\* A structural operation keeps the invariant: it starts and ends outside a drag.
LEMMA ReplacedKeeps ==
    ASSUME EditorInv, Replaced
    PROVE  EditorInv'
<1>1. Idle /\ committed' = entries' /\ suspendCommit' = suspendCommit /\ drag' = drag
  BY DEF Replaced
<1>2. suspendCommit = FALSE /\ drag = NoDrag
  BY <1>1 DEF EditorInv, DragInv, Idle
<1>3. ListInv'
  BY <1>1 DEF Replaced, ListInv
<1>4. DragInv'
  BY <1>1, <1>2 DEF DragInv, Idle
<1> QED BY <1>3, <1>4 DEF EditorInv

\* Every step keeps the invariant, one case for each handler of the page.
LEMMA EditorStep ==
    ASSUME EditorInv, [Next]_vars
    PROVE  EditorInv'
<1>1. ListInv
  BY DEF EditorInv
<1>2. ASSUME NEW index \in DOMAIN entries \cup {0}, SelectedEntry(index) PROVE EditorInv'
  <2>1. Idle /\ selected' = index /\ UNCHANGED <<entries, committed, suspendCommit, drag>>
    BY <1>2 DEF SelectedEntry
  <2>2. index \in 0..Len(entries)
    BY <1>1, <1>2, ListShape DEF ListInv
  <2>3. ListInv'
    BY <1>1, <2>1, <2>2 DEF ListInv
  <2>4. DragInv'
    BY <2>1 DEF EditorInv, DragInv, Idle
  <2> QED BY <2>3, <2>4 DEF EditorInv
<1>3. ASSUME NEW id \in Fresh, NEW separator \in BOOLEAN, AddEntry(id, separator) PROVE EditorInv'
  BY <1>1, <1>3, AddsList, ReplacedKeeps
<1>4. ASSUME NEW id \in Fresh, DuplicateEntry(id) PROVE EditorInv'
  BY <1>1, <1>4, DuplicatesList, ReplacedKeeps
<1>5. CASE DeleteEntry
  BY <1>1, <1>5, DeletesList, ReplacedKeeps
<1>6. CASE IndentEntry \/ OutdentEntry
  BY <1>1, <1>6, ReparentsList, ReplacedKeeps
<1>7. ASSUME NEW up \in BOOLEAN, MoveEntry(up) PROVE EditorInv'
  BY <1>1, <1>7, MovesList, ReplacedKeeps
<1>8. ASSUME NEW list \in Lists, ReplaceFrom(list) PROVE EditorInv'
  BY <1>8, ReplacesList, ReplacedKeeps
<1>9. CASE EditField
  <2>1. committed' = IF suspendCommit THEN committed ELSE entries
    BY <1>9 DEF EditField
  <2>2. UNCHANGED <<entries, selected, suspendCommit, drag>>
    BY <1>9 DEF EditField
  <2>3. committed' = committed
    <3>1. CASE Idle
      BY <2>1, <3>1 DEF EditorInv, DragInv
    <3>2. CASE ~Idle
      BY <2>1, <3>2 DEF EditorInv, DragInv
    <3> QED BY <3>1, <3>2
  <2>4. ListInv'
    BY <1>1, <2>2, <2>3 DEF ListInv
  <2>5. DragInv'
    BY <2>2, <2>3 DEF EditorInv, DragInv, Idle
  <2> QED BY <2>4, <2>5 DEF EditorInv
<1>10. ASSUME NEW index \in DOMAIN entries, BeginDrag(index) PROVE EditorInv'
  BY <1>10, BeginDragKeeps
<1>11. ASSUME NEW position \in DOMAIN entries, Drop(position) PROVE EditorInv'
  BY <1>11, DropKeeps
<1>12. CASE DragCompleted
  BY <1>12, DragCompletedKeeps
<1>13. CASE UNCHANGED vars
  BY <1>13 DEF vars, EditorInv, ListInv, DragInv, Idle
<1> QED BY <1>2, <1>3, <1>4, <1>5, <1>6, <1>7, <1>8, <1>9, <1>10, <1>11, <1>12, <1>13 DEF Next

\* The page opens on what the settings hold.
LEMMA EditorStart ==
    ASSUME Init
    PROVE  EditorInv
<1>1. committed \in Seq(Rows) /\ entries = committed /\ selected = FirstRow(entries)
  BY ListsAssumption DEF Init
<1>2. suspendCommit = FALSE /\ drag = NoDrag
  BY DEF Init
<1>3. IsList(entries)
  <2>1. \A i \in DOMAIN entries : entries[i] \in Rows
    BY <1>1
  <2> QED BY <1>1, <2>1 DEF IsList, IsRow, Rows
<1>4. selected \in 0..Len(entries)
  BY <1>1 DEF FirstRow
<1> QED BY <1>1, <1>2, <1>3, <1>4 DEF EditorInv, ListInv, DragInv, Idle

\* The invariant of the editor.
LEMMA EditorInvariant == Spec => []EditorInv
<1>1. Init => EditorInv
  BY EditorStart
<1>2. EditorInv /\ [Next]_vars => EditorInv'
  BY EditorStep
<1> QED BY <1>1, <1>2, PTL DEF Spec

\* Whatever the handlers did before, and however a drag ended (in place, repaired
\* and committed, or undone), outside a drag the settings hold the rows on the page
\* and commits are not suspended.
THEOREM PageIsCommitted == Spec => []NothingUncommitted
<1>1. EditorInv => NothingUncommitted
  BY DEF EditorInv, DragInv, NothingUncommitted
<1> QED BY <1>1, EditorInvariant, PTL

(* What EditsReachSettings says of a step. *)
Reaches == dirty' /\ Idle' => dirty /\ drag.at = drag.start /\ UNCHANGED <<entries, committed>>

\* A drag whose row has a place is under way.
LEMMA StillDragged ==
    ASSUME NEW index \in Nat \ {0}, drag'.at = index
    PROVE  ~Idle'
<1>1. NoDrag.at = 0
  BY DEF NoDrag
<1> QED BY <1>1 DEF Idle

\* No step outside a drag leaves an edit behind, and no drag that moved a row does.
LEMMA EditsStep ==
    ASSUME EditorInv, [Next]_vars
    PROVE  Reaches
<1>1. Idle => suspendCommit = FALSE /\ drag.at = drag.start
  BY DEF EditorInv, DragInv, Idle, NoDrag
<1>2. DOMAIN entries \subseteq Nat \ {0}
  BY ListShape DEF EditorInv, ListInv
<1>3. ASSUME NEW list, NEW selection, Replace(list, selection) PROVE Reaches
  BY <1>3 DEF Replace, Reaches
<1>4. ASSUME NEW index, SelectedEntry(index) PROVE Reaches
  BY <1>1, <1>4 DEF SelectedEntry, Reaches
<1>5. ASSUME NEW id, NEW separator, AddEntry(id, separator) PROVE Reaches
  BY <1>3, <1>5 DEF AddEntry
<1>6. ASSUME NEW id, DuplicateEntry(id) PROVE Reaches
  BY <1>3, <1>6 DEF DuplicateEntry
<1>7. CASE DeleteEntry
  BY <1>3, <1>7 DEF DeleteEntry
<1>8. CASE IndentEntry \/ OutdentEntry
  BY <1>3, <1>8 DEF IndentEntry, OutdentEntry
<1>9. ASSUME NEW up, MoveEntry(up) PROVE Reaches
  BY <1>3, <1>9 DEF MoveEntry
<1>10. ASSUME NEW list, ReplaceFrom(list) PROVE Reaches
  BY <1>3, <1>10 DEF ReplaceFrom
<1>11. CASE EditField
  <2>1. dirty' = suspendCommit /\ Idle' = Idle
    BY <1>11 DEF EditField, Idle
  <2> QED BY <1>1, <2>1 DEF Reaches
<1>12. ASSUME NEW index \in DOMAIN entries, BeginDrag(index) PROVE Reaches
  <2>1. drag'.at = index
    BY <1>12 DEF BeginDrag
  <2> QED BY <1>2, <1>12, <2>1, StillDragged DEF Reaches
<1>13. ASSUME NEW position \in DOMAIN entries, Drop(position) PROVE Reaches
  <2>1. ~Idle /\ drag' = [drag EXCEPT !.at = position, !.dropped = TRUE]
    BY <1>13 DEF Drop
  <2>2. drag = [at |-> drag.at, start |-> drag.start, oldDepth |-> drag.oldDepth,
                wasSuspended |-> FALSE, dropped |-> drag.dropped]
    BY <2>1 DEF EditorInv, DragInv
  <2>3. drag'.at = position
    BY <2>1, <2>2
  <2> QED BY <1>2, <1>13, <2>3, StillDragged DEF Reaches
<1>14. CASE DragCompleted
  <2>1. CASE drag.at = drag.start
    BY <1>14, <2>1 DEF DragCompleted, Reaches
  <2>2. CASE drag.at # drag.start
    BY <1>14, <2>2 DEF DragCompleted, Reaches
  <2> QED BY <2>1, <2>2
<1>15. CASE UNCHANGED vars
  BY <1>1, <1>15 DEF vars, Reaches, Idle
<1> QED BY <1>4, <1>5, <1>6, <1>7, <1>8, <1>9, <1>10, <1>11, <1>12, <1>13, <1>14, <1>15 DEF Next

\* An edit of a row is in the settings at once, or with the drag it raced; only a drag
\* that moved no row leaves it behind, until the next commit (_hookEntry,
\* NormalizeAfterDrag).
THEOREM EditsAreCommitted == Spec => EditsReachSettings
<1>1. EditorInv /\ [Next]_vars => [Reaches]_vars
  BY EditsStep
<1>2. EditsReachSettings <=> [][Reaches]_vars
  BY PTL DEF EditsReachSettings, Reaches
<1> QED BY <1>1, <1>2, EditorInvariant, PTL DEF Spec

\* What is committed can be launched in list order, for a tree of any size and
\* also for the lists of hand-edited files, with ids used twice, parents that
\* come later or do not exist, and separators as parents.
THEOREM AnyTreeLaunches == Spec => []LaunchedInOrder
<1>1. EditorInv => LaunchedInOrder
  BY AnyListLaunches DEF EditorInv, ListInv, LaunchedInOrder
<1> QED BY <1>1, EditorInvariant, PTL


-------------------------------------------------------------------------------
(* No operation of the editor breaks the tree *)

\* Where the parent of row k must be: above it, and a session.
HasParent(list, k) ==
    list[k].parent # NoId =>
        \E j \in DOMAIN list : j < k /\ list[j].id = list[k].parent /\ ~list[j].separator

\* With ids of their own, rows form a tree when each has its parent above it.
LEMMA TreeRows ==
    ASSUME NEW list, IsList(list), DistinctIds(list)
    PROVE  IsTree(list) <=> \A k \in DOMAIN list : HasParent(list, k)
<1> DEFINE n == Len(list)
<1>1. n \in Nat /\ DOMAIN list = 1..n
  BY ListShape
<1> HIDE DEF n
<1>2. ASSUME IsTree(list), NEW k \in DOMAIN list, list[k].parent # NoId
      PROVE  \E j \in DOMAIN list : j < k /\ list[j].id = list[k].parent /\ ~list[j].separator
  <2>1. PICK j \in 1..(k - 1) : list[j].id = list[k].parent /\ ~list[j].separator
    BY <1>2 DEF IsTree, IsWellFormed
  <2>2. j \in DOMAIN list /\ j < k
    BY <1>1, <1>2
  <2> QED BY <2>1, <2>2
<1>3. ASSUME \A k \in DOMAIN list : HasParent(list, k), NEW i \in DOMAIN list, list[i].parent # NoId
      PROVE  \E j \in 1..(i - 1) :
                /\ list[j].id = list[i].parent /\ ~list[j].separator
                /\ \A k \in 1..(j - 1) : list[k].id # list[i].parent
  <2>1. PICK j \in DOMAIN list : j < i /\ list[j].id = list[i].parent /\ ~list[j].separator
    BY <1>3 DEF HasParent
  <2>2. j \in 1..(i - 1)
    BY <1>1, <1>3, <2>1
  <2>3. \A k \in 1..(j - 1) : k \in DOMAIN list /\ k # j
    BY <1>1, <2>1
  <2>4. \A k \in 1..(j - 1) : list[k].id # list[i].parent
    BY <2>1, <2>3 DEF DistinctIds
  <2> QED BY <2>1, <2>2, <2>4
<1>4. ASSUME \A k \in DOMAIN list : HasParent(list, k) PROVE IsTree(list)
  BY <1>3, <1>4 DEF IsTree, IsWellFormed
<1> QED BY <1>2, <1>4 DEF HasParent

\* In a tree a row that names a parent is below it.
LEMMA ParentAbove ==
    ASSUME NEW list, IsList(list), IsTree(list), NEW i \in DOMAIN list, NEW p \in DOMAIN list,
           list[p].id = list[i].parent
    PROVE  p < i /\ ~list[p].separator /\ list[i].parent # NoId
<1>1. DistinctIds(list)
  BY DEF IsTree
<1>2. list[i].parent # NoId
  BY <1>1 DEF DistinctIds
<1>3. HasParent(list, i)
  BY <1>1, TreeRows
<1>4. PICK j \in DOMAIN list : j < i /\ list[j].id = list[i].parent /\ ~list[j].separator
  BY <1>2, <1>3 DEF HasParent
<1>5. j = p
  BY <1>1, <1>4 DEF DistinctIds
<1> QED BY <1>2, <1>4, <1>5

\* A new root at the end.
LEMMA AddKeepsTree ==
    ASSUME ListInv, IsTree(entries), NEW id \in Fresh, NEW separator \in BOOLEAN, AddEntry(id, separator)
    PROVE  IsTree(entries')
<1> DEFINE row == Row(id, NoId, separator)
           n == Len(entries)
<1>1. entries' = Append(entries, row)
  BY DEF AddEntry, Replace
<1>2. IsRow(row) /\ row.id = id /\ row.parent = NoId
  BY DEF IsRow, Row
<1> HIDE DEF row
<1>3. /\ IsList(entries') /\ Len(entries') = n + 1 /\ entries'[n + 1] = row
      /\ \A k \in 1..n : entries'[k] = entries[k]
  BY <1>1, <1>2, AppendsRow DEF ListInv
<1>4. n \in Nat /\ DOMAIN entries = 1..n
  BY ListShape DEF ListInv
<1>5. DOMAIN entries' = 1..(n + 1)
  BY <1>3, ListShape
<1> HIDE DEF n
<1>6. id # NoId /\ \A k \in 1..n : entries[k].id # id
  BY <1>4, IdsAssumption DEF Fresh, Listed
<1>7. DistinctIds(entries')
  BY <1>2, <1>3, <1>4, <1>5, <1>6 DEF IsTree, DistinctIds
<1>8. ASSUME NEW k \in DOMAIN entries' PROVE HasParent(entries', k)
  <2>1. CASE k = n + 1
    BY <1>2, <1>3, <2>1 DEF HasParent
  <2>2. CASE k # n + 1
    <3>1. k \in DOMAIN entries /\ k \in 1..n
      BY <1>4, <1>5, <2>2
    <3>2. HasParent(entries, k)
      BY <3>1, TreeRows DEF ListInv, IsTree
    <3>3. \A j \in DOMAIN entries : j \in DOMAIN entries' /\ entries'[j] = entries[j]
      BY <1>3, <1>4, <1>5
    <3> QED BY <3>1, <3>2, <3>3 DEF HasParent
  <2> QED BY <2>1, <2>2
<1> QED BY <1>3, <1>7, <1>8, TreeRows


\* A row gets another parent: none, or a session above it.
LEMMA ReparentKeepsTree ==
    ASSUME NEW list, IsList(list), IsTree(list), NEW i \in DOMAIN list, NEW v,
           v # NoId => \E j \in DOMAIN list : j < i /\ list[j].id = v /\ ~list[j].separator
    PROVE  IsTree(Reparented(list, i, v))
<1> DEFINE after == Reparented(list, i, v)
<1>1. /\ IsList(after) /\ DOMAIN after = DOMAIN list
      /\ \A k \in DOMAIN list : /\ after[k].id = list[k].id /\ after[k].separator = list[k].separator
                                /\ after[k].parent = IF k = i THEN v ELSE list[k].parent
  BY ReparentsRow
<1> HIDE DEF after
<1>2. DistinctIds(after)
  BY <1>1 DEF IsTree, DistinctIds
<1>3. ASSUME NEW k \in DOMAIN after PROVE HasParent(after, k)
  <2>1. HasParent(list, k)
    BY <1>1, TreeRows DEF IsTree
  <2> QED BY <1>1, <2>1 DEF HasParent
<1>4. IsTree(after)
  BY <1>1, <1>2, <1>3, TreeRows
<1> QED BY <1>4 DEF after

\* Indent nests the row under a session above it, outdent under its parent's
\* parent.
LEMMA ReparentsKeepTree ==
    ASSUME ListInv, IsTree(entries), IndentEntry \/ OutdentEntry
    PROVE  IsTree(entries')
<1>1. Len(entries) \in Nat /\ DOMAIN entries = 1..Len(entries) /\ selected \in DOMAIN entries
  BY ReparentsList, ListShape DEF ListInv
<1>2. CASE IndentEntry
  <2>1. PICK p \in IndentParent(entries, selected) : entries' = Reparented(entries, selected, entries[p].id)
    BY <1>2 DEF IndentEntry, Replace, Reparented
  <2>2. p \in 1..(selected - 1) /\ ~entries[p].separator
    BY <2>1 DEF IndentParent
  <2>3. p \in DOMAIN entries /\ p < selected
    BY <1>1, <2>2
  <2> QED BY <1>1, <2>1, <2>2, <2>3, ReparentKeepsTree DEF ListInv
<1>3. CASE OutdentEntry
  <2> DEFINE parents == {j \in DOMAIN entries : entries[j].id = entries[selected].parent}
             v == OutdentParent(entries, selected)
  <2>1. entries' = Reparented(entries, selected, v) /\ entries[selected].parent # NoId
    BY <1>3 DEF OutdentEntry, Replace, Reparented
  <2>2. HasParent(entries, selected)
    BY <1>1, TreeRows DEF ListInv, IsTree
  <2>3. PICK p \in DOMAIN entries : p < selected /\ entries[p].id = entries[selected].parent
    BY <2>1, <2>2 DEF HasParent
  <2>4. parents = {p}
    BY <2>3 DEF IsTree, DistinctIds
  <2>5. First(parents) = p
    BY <1>1, <2>3, <2>4 DEF First
  <2>6. v = entries[p].parent
    BY <2>4, <2>5 DEF OutdentParent
  <2> HIDE DEF v, parents
  <2>7. HasParent(entries, p)
    BY TreeRows DEF ListInv, IsTree
  <2>8. v # NoId => \E j \in DOMAIN entries : j < selected /\ entries[j].id = v /\ ~entries[j].separator
    BY <1>1, <2>3, <2>6, <2>7 DEF HasParent
  <2> QED BY <1>1, <2>1, <2>8, ReparentKeepsTree DEF ListInv
<1> QED BY <1>2, <1>3

\* The copy goes below its original's family, so below the parent of both.
LEMMA DuplicateKeepsTree ==
    ASSUME ListInv, IsTree(entries), NEW id \in Fresh, DuplicateEntry(id)
    PROVE  IsTree(entries')
<1> DEFINE n == Len(entries)
           copy == [id |-> id, parent |-> entries[selected].parent, separator |-> entries[selected].separator]
           end == SubtreeEnd(entries, selected)
<1>1. selected \in DOMAIN entries /\ entries' = Inserted(entries, <<copy>>, end)
  BY DuplicatesList
<1>2. n \in Nat /\ DOMAIN entries = 1..n
  BY ListShape DEF ListInv
<1>3. end \in selected..n
  BY <1>1, SubtreeEnds DEF ListInv
<1>4. copy.id = id /\ copy.parent = entries[selected].parent /\ IsRow(copy)
  BY DEF IsRow
<1> HIDE DEF copy, end, n
<1>5. IsList(<<copy>>) /\ Len(<<copy>>) = 1 /\ <<copy>>[1] = copy
  <2>1. <<copy>> \in Seq({copy}) /\ \A i \in DOMAIN <<copy>> : <<copy>>[i] = copy
    OBVIOUS
  <2> QED BY <1>4, <2>1 DEF IsList
<1>6. end \in 0..Len(entries) /\ selected \in 1..end /\ end \in 1..n
  BY <1>1, <1>2, <1>3 DEF n
<1>7. /\ IsList(entries') /\ Len(entries') = n + 1
      /\ \A k \in 1..end : entries'[k] = entries[k]
      /\ entries'[end + 1] = copy
      /\ \A k \in (end + 1)..n : entries'[k + 1] = entries[k]
  <2> DEFINE after == Inserted(entries, <<copy>>, end)
  <2>1. /\ IsList(after) /\ Len(after) = Len(entries) + Len(<<copy>>)
        /\ \A k \in 1..end : after[k] = entries[k]
        /\ \A k \in 1..Len(<<copy>>) : after[end + k] = <<copy>>[k]
        /\ \A k \in (end + 1)..Len(entries) : after[k + Len(<<copy>>)] = entries[k]
    BY <1>5, <1>6, InsertsRows DEF ListInv
  <2> HIDE DEF after
  <2>2. after[end + 1] = copy
    BY <1>5, <2>1
  <2> QED BY <1>1, <1>5, <2>1, <2>2 DEF n, after
<1>8. DOMAIN entries' = 1..(n + 1)
  BY <1>7, ListShape
<1>9. id # NoId /\ \A k \in 1..n : entries[k].id # id
  BY <1>2, IdsAssumption DEF Fresh, Listed
\* Where each row of the new list was before.
<1> DEFINE old(k) == IF k <= end THEN k ELSE k - 1
<1>10. \A k \in 1..(n + 1) : k # end + 1 => old(k) \in 1..n /\ entries'[k] = entries[old(k)]
  <2> SUFFICES ASSUME NEW k \in 1..(n + 1), k # end + 1
               PROVE  old(k) \in 1..n /\ entries'[k] = entries[old(k)]
    OBVIOUS
  <2>1. CASE k <= end
    BY <1>2, <1>6, <1>7, <2>1
  <2>2. CASE ~(k <= end)
    <3>1. k - 1 \in (end + 1)..n /\ (k - 1) + 1 = k
      BY <1>2, <1>6, <2>2
    <3>2. entries'[(k - 1) + 1] = entries[k - 1]
      BY <1>7, <3>1
    <3> QED BY <1>2, <1>6, <2>2, <3>1, <3>2
  <2> QED BY <2>1, <2>2
<1>11. \A j, k \in 1..(n + 1) : j # end + 1 /\ k # end + 1 /\ old(j) = old(k) => j = k
  BY <1>2, <1>6
<1>12. ASSUME NEW j \in 1..n
       PROVE  \E q \in 1..(n + 1) : q # end + 1 /\ old(q) = j /\ q = IF j <= end THEN j ELSE j + 1
  BY <1>2, <1>6
<1> HIDE DEF old
<1>13. DistinctIds(entries')
  <2>1. \A k \in 1..(n + 1) : entries'[k].id # NoId
    BY <1>2, <1>4, <1>7, <1>9, <1>10 DEF IsTree, DistinctIds
  <2>2. \A j, k \in 1..(n + 1) : entries'[j].id = entries'[k].id => j = k
    BY <1>2, <1>4, <1>7, <1>9, <1>10, <1>11 DEF IsTree, DistinctIds
  <2> QED BY <1>8, <2>1, <2>2 DEF DistinctIds
<1>14. ASSUME NEW k \in 1..(n + 1), NEW i \in 1..n, entries'[k].parent = entries[i].parent,
              (k = IF i <= end THEN i ELSE i + 1) \/ (i = selected /\ k = end + 1)
       PROVE  HasParent(entries', k)
  <2>1. HasParent(entries, i)
    BY <1>2, TreeRows DEF ListInv, IsTree
  <2>2. SUFFICES ASSUME entries[i].parent # NoId
                 PROVE  \E q \in DOMAIN entries' : q < k /\ entries'[q].id = entries'[k].parent /\ ~entries'[q].separator
    BY <1>14 DEF HasParent
  <2>3. PICK p \in DOMAIN entries : p < i /\ entries[p].id = entries[i].parent /\ ~entries[p].separator
    BY <2>1, <2>2 DEF HasParent
  <2>4. PICK q \in 1..(n + 1) : q # end + 1 /\ old(q) = p /\ q = IF p <= end THEN p ELSE p + 1
    BY <1>2, <1>12, <2>3
  <2>5. q < k
    BY <1>2, <1>6, <1>14, <2>3, <2>4
  <2>6. entries'[q] = entries[p]
    BY <1>10, <2>4
  <2> QED BY <1>8, <1>14, <2>3, <2>4, <2>5, <2>6
<1>15. ASSUME NEW k \in DOMAIN entries' PROVE HasParent(entries', k)
  <2>1. CASE k = end + 1
    BY <1>2, <1>1, <1>4, <1>6, <1>7, <1>8, <1>14, <2>1
  <2>2. CASE k # end + 1
    <3>1. old(k) \in 1..n /\ entries'[k] = entries[old(k)] /\ k \in 1..(n + 1)
      BY <1>8, <1>10, <2>2
    <3>2. k = IF old(k) <= end THEN old(k) ELSE old(k) + 1
      BY <1>2, <1>6, <2>2, <3>1 DEF old
    <3> QED BY <1>14, <3>1, <3>2
  <2> QED BY <2>1, <2>2
<1> QED BY <1>7, <1>13, <1>15, TreeRows


\* The children of a deleted row go to its parent, which is above it.
LEMMA DeleteKeepsTree ==
    ASSUME ListInv, IsTree(entries), DeleteEntry
    PROVE  IsTree(entries')
<1> DEFINE n == Len(entries)
           s == selected
           promoted == Promoted(entries, s)
           left == (1..n) \ {s}
           old(k) == IF k < s THEN k ELSE k + 1
           new(j) == IF j < s THEN j ELSE j - 1
<1>1. selected # 0 /\ entries' = Keep(promoted, DOMAIN entries \ {selected})
  BY DEF DeleteEntry, HasSelection, Promoted, Replace
<1>2. n \in Nat /\ DOMAIN entries = 1..n /\ s \in 1..n
  BY <1>1, ListShape DEF ListInv
<1>3. /\ IsList(promoted) /\ Len(promoted) = n
      /\ \A k \in DOMAIN entries :
            /\ promoted[k].id = entries[k].id /\ promoted[k].separator = entries[k].separator
            /\ promoted[k].parent = IF entries[k].parent = entries[s].id THEN entries[s].parent ELSE entries[k].parent
  BY <1>2, PromotesRows DEF ListInv
<1> HIDE DEF promoted, s, n
<1>4. DOMAIN promoted = 1..n
  BY <1>3, ListShape
<1>5. Cardinality(left) = n - 1 /\ \A k \in 1..(n - 1) : InOrder(left)[k] = old(k)
  BY <1>2, AllButOne
<1>6. entries' = Keep(promoted, left) /\ left \in SUBSET DOMAIN promoted
  BY <1>1, <1>2, <1>4 DEF s
<1> HIDE DEF left
<1>7. /\ IsList(entries') /\ Len(entries') = n - 1
      /\ \A k \in 1..(n - 1) : entries'[k] = promoted[old(k)]
  <2>1. /\ IsList(entries') /\ Len(entries') = Cardinality(left)
        /\ \A k \in 1..Cardinality(left) : entries'[k] = promoted[InOrder(left)[k]]
    BY <1>3, <1>6, KeepsRows
  <2> QED BY <1>5, <2>1
<1>8. DOMAIN entries' = 1..(n - 1)
  BY <1>7, ListShape
<1>9. \A k \in 1..(n - 1) : old(k) \in 1..n /\ old(k) # s /\ new(old(k)) = k
  BY <1>2
<1>10. \A j \in 1..n : j # s => new(j) \in 1..(n - 1) /\ old(new(j)) = j
  BY <1>2
<1>11. \A j \in 1..n, k \in 1..(n - 1) : j # s /\ j < old(k) => new(j) < k
  BY <1>2
<1>12. \A k \in 1..(n - 1) : s < old(k) => \A j \in 1..n : j < s => j < k /\ new(j) = j
  BY <1>2
<1> HIDE DEF old, new
<1>13. \A k \in 1..(n - 1) :
          /\ entries'[k].id = entries[old(k)].id /\ entries'[k].separator = entries[old(k)].separator
          /\ entries'[k].parent = IF entries[old(k)].parent = entries[s].id THEN entries[s].parent
                                  ELSE entries[old(k)].parent
  BY <1>2, <1>3, <1>7, <1>9
<1>14. DistinctIds(entries')
  BY <1>2, <1>8, <1>9, <1>13 DEF IsTree, DistinctIds
\* A row above the row that stands at k now, other than the deleted one, is
\* above it still.
<1>15. ASSUME NEW k \in 1..(n - 1), NEW p \in 1..n, p # s, p < old(k), ~entries[p].separator,
              entries[p].id = entries'[k].parent
       PROVE  HasParent(entries', k)
  <2>1. new(p) \in 1..(n - 1) /\ old(new(p)) = p /\ new(p) < k
    BY <1>10, <1>11, <1>15
  <2>2. entries'[new(p)].id = entries[p].id /\ entries'[new(p)].separator = entries[p].separator
    BY <1>13, <2>1
  <2> QED BY <1>8, <1>15, <2>1, <2>2 DEF HasParent
<1>16. \A i \in 1..n : HasParent(entries, i)
  BY <1>2, TreeRows DEF ListInv, IsTree
<1>17. ASSUME NEW k \in 1..(n - 1) PROVE HasParent(entries', k)
  <2>1. old(k) \in 1..n /\ old(k) # s
    BY <1>9
  <2>2. SUFFICES ASSUME entries'[k].parent # NoId PROVE HasParent(entries', k)
    BY DEF HasParent
  <2>3. CASE entries[old(k)].parent = entries[s].id
    <3>1. s < old(k)
      BY <1>2, <2>1, <2>3, ParentAbove DEF ListInv
    <3>2. entries'[k].parent = entries[s].parent
      BY <1>13, <2>3
    <3>3. PICK p \in DOMAIN entries : p < s /\ entries[p].id = entries[s].parent /\ ~entries[p].separator
      BY <1>2, <1>16, <2>2, <3>2 DEF HasParent
    <3>4. p \in 1..n /\ p # s /\ p < old(k)
      BY <1>2, <2>1, <3>1, <3>3
    <3> QED BY <1>15, <3>2, <3>3, <3>4
  <2>4. CASE entries[old(k)].parent # entries[s].id
    <3>1. entries'[k].parent = entries[old(k)].parent
      BY <1>13, <2>4
    <3>2. PICK p \in DOMAIN entries : p < old(k) /\ entries[p].id = entries[old(k)].parent /\ ~entries[p].separator
      BY <1>2, <1>16, <2>1, <2>2, <3>1 DEF HasParent
    <3>3. p \in 1..n /\ p # s
      BY <1>2, <2>4, <3>2
    <3> QED BY <1>15, <3>1, <3>2, <3>3
  <2> QED BY <2>3, <2>4
<1> QED BY <1>7, <1>8, <1>14, <1>17, TreeRows

-------------------------------------------------------------------------------
(* Block moves *)

\* The position in the list of the row that stands at k after a block move.
Source(list, move, k) ==
    IF k <= move.insertAt THEN InOrder(Left(list, move))[k]
    ELSE IF k <= move.insertAt + Len(move.block) THEN move.block[k - move.insertAt]
    ELSE InOrder(Left(list, move))[k - Len(move.block)]

\* A block move takes every row of the list to one place.
LEMMA MovesEachOnce ==
    ASSUME NEW list, IsList(list), NEW move, IsMove(list, move),
           \A j, k \in 1..Len(move.block) : move.block[j] = move.block[k] => j = k
    PROVE  LET after == ApplyBlockMove(list, move)
           IN  /\ IsList(after)
               /\ \A k \in DOMAIN after : Source(list, move, k) \in DOMAIN list /\ after[k] = list[Source(list, move, k)]
               /\ \A j, k \in DOMAIN after : Source(list, move, j) = Source(list, move, k) => j = k
<1> DEFINE after == ApplyBlockMove(list, move)
           left == Left(list, move)
           order == InOrder(left)
           block == move.block
           at == move.insertAt
           b == Len(block)
           m == Cardinality(left)
           n == m + b
           src(k) == Source(list, move, k)
<1>1. left \in SUBSET Nat /\ left \in SUBSET DOMAIN list /\ IsFiniteSet(left)
  BY ListShape, FS_Subset DEF Left
<1>2. /\ m \in Nat /\ at \in 0..m /\ block \in Seq(DOMAIN list) /\ b \in Nat
      /\ \A k \in 1..b : block[k] \in DOMAIN list /\ block[k] \notin left
  <2>1. block \in Seq(DOMAIN list) /\ at \in 0..m
    BY DEF IsMove
  <2>2. b \in Nat /\ DOMAIN block = 1..b
    BY <2>1
  <2>3. \A k \in 1..b : block[k] \in DOMAIN list
    BY <2>1, <2>2
  <2>4. \A k \in 1..b : block[k] \notin left
    BY <2>2 DEF Left, Lifted
  <2> QED BY <1>1, <2>1, <2>2, <2>3, <2>4, FS_CardinalityType
<1>3. \A k \in 1..m : order[k] \in left /\ Position(left, order[k]) = k - 1
  BY <1>1, InOrderLists
<1>4. /\ IsList(after) /\ Len(after) = n
      /\ \A k \in 1..at : after[k] = list[order[k]]
      /\ \A k \in 1..b : after[at + k] = list[block[k]]
      /\ \A k \in (at + 1)..m : after[k + b] = list[order[k]]
  BY MovesRows
<1>5. DOMAIN after = 1..n
  BY <1>4, ListShape
<1>6. \A k : src(k) = IF k <= at THEN order[k] ELSE IF k <= at + b THEN block[k - at] ELSE order[k - b]
  BY DEF Source
<1>7. \A j, k \in 1..b : block[j] = block[k] => j = k
  OBVIOUS
<1> HIDE DEF after, left, order, block, at, b, m, src
\* The three parts of the new list.
<1>8. ASSUME NEW k \in 1..n
      PROVE  \/ k \in 1..at /\ k \in 1..m /\ src(k) = order[k]
             \/ k - at \in 1..b /\ src(k) = block[k - at] /\ at + (k - at) = k
             \/ k - b \in (at + 1)..m /\ k - b \in 1..m /\ src(k) = order[k - b] /\ (k - b) + b = k
  <2>1. CASE k <= at
    BY <1>2, <1>6, <2>1
  <2>2. CASE ~(k <= at) /\ k <= at + b
    BY <1>2, <1>6, <2>2
  <2>3. CASE ~(k <= at) /\ ~(k <= at + b)
    BY <1>2, <1>6, <2>3
  <2> QED BY <2>1, <2>2, <2>3
<1>9. ASSUME NEW k \in 1..n PROVE src(k) \in DOMAIN list /\ after[k] = list[src(k)]
  <2>1. CASE k \in 1..at /\ k \in 1..m /\ src(k) = order[k]
    BY <1>1, <1>3, <1>4, <2>1
  <2>2. CASE k - at \in 1..b /\ src(k) = block[k - at] /\ at + (k - at) = k
    <3>1. after[at + (k - at)] = list[block[k - at]]
      BY <1>4, <2>2
    <3> QED BY <1>2, <2>2, <3>1
  <2>3. CASE k - b \in (at + 1)..m /\ k - b \in 1..m /\ src(k) = order[k - b] /\ (k - b) + b = k
    <3>1. after[(k - b) + b] = list[order[k - b]]
      BY <1>4, <2>3
    <3> QED BY <1>1, <1>3, <2>3, <3>1
  <2> QED BY <1>8, <2>1, <2>2, <2>3
<1>10. \A j, k \in 1..m : order[j] = order[k] => j = k
  <2> SUFFICES ASSUME NEW j \in 1..m, NEW k \in 1..m, order[j] = order[k] PROVE j = k
    OBVIOUS
  <2>1. Position(left, order[j]) = j - 1 /\ Position(left, order[k]) = k - 1
    BY <1>3
  <2> QED BY <1>2, <2>1
<1>11. ASSUME NEW j \in 1..n, NEW k \in 1..n, src(j) = src(k) PROVE j = k
  <2>1. \A i \in 1..m : order[i] \in left
    BY <1>3
  <2>2. \A i \in 1..b : block[i] \notin left
    BY <1>2
  <2>3. CASE k - at \in 1..b /\ src(k) = block[k - at]
    <3>1. j - at \in 1..b /\ src(j) = block[j - at]
      BY <1>8, <1>11, <2>1, <2>2, <2>3
    <3>2. j - at = k - at
      BY <1>7, <1>11, <2>3, <3>1
    <3> QED BY <1>2, <3>2
  <2>4. CASE ~(k - at \in 1..b /\ src(k) = block[k - at])
    <3>1. ~(j - at \in 1..b /\ src(j) = block[j - at])
      BY <1>8, <1>11, <2>1, <2>2, <2>4
    <3>2. \E x \in 1..m : src(j) = order[x] /\ ((x = j /\ x \in 1..at) \/ (x + b = j /\ x \in (at + 1)..m))
      <4>1. CASE j \in 1..at /\ j \in 1..m /\ src(j) = order[j]
        BY <4>1
      <4>2. CASE j - b \in (at + 1)..m /\ j - b \in 1..m /\ src(j) = order[j - b] /\ (j - b) + b = j
        BY <4>2
      <4> QED BY <1>8, <3>1, <4>1, <4>2
    <3>3. \E y \in 1..m : src(k) = order[y] /\ ((y = k /\ y \in 1..at) \/ (y + b = k /\ y \in (at + 1)..m))
      <4>1. CASE k \in 1..at /\ k \in 1..m /\ src(k) = order[k]
        BY <4>1
      <4>2. CASE k - b \in (at + 1)..m /\ k - b \in 1..m /\ src(k) = order[k - b] /\ (k - b) + b = k
        BY <4>2
      <4> QED BY <1>8, <2>4, <4>1, <4>2
    <3>4. PICK x \in 1..m : src(j) = order[x] /\ ((x = j /\ x \in 1..at) \/ (x + b = j /\ x \in (at + 1)..m))
      BY <3>2
    <3>5. PICK y \in 1..m : src(k) = order[y] /\ ((y = k /\ y \in 1..at) \/ (y + b = k /\ y \in (at + 1)..m))
      BY <3>3
    <3>6. x = y
      BY <1>10, <1>11, <3>4, <3>5
    <3> QED BY <1>2, <3>4, <3>5, <3>6
  <2> QED BY <2>3, <2>4
<1> QED BY <1>4, <1>5, <1>9, <1>11 DEF after, src


\* A block move leaves the rows their ids.
LEMMA MoveKeepsIds ==
    ASSUME NEW list, IsList(list), DistinctIds(list), NEW move, IsMove(list, move),
           \A j, k \in 1..Len(move.block) : move.block[j] = move.block[k] => j = k
    PROVE  DistinctIds(ApplyBlockMove(list, move))
<1> DEFINE after == ApplyBlockMove(list, move)
           src(k) == Source(list, move, k)
<1>1. /\ \A k \in DOMAIN after : src(k) \in DOMAIN list /\ after[k] = list[src(k)]
      /\ \A j, k \in DOMAIN after : src(j) = src(k) => j = k
  BY MovesEachOnce
<1> HIDE DEF after, src
<1>2. DistinctIds(after)
  BY <1>1 DEF DistinctIds
<1> QED BY <1>2 DEF after

\* The positions of a set, listed in order, are listed once.
LEMMA InOrderOnce ==
    ASSUME NEW S \in SUBSET Nat, IsFiniteSet(S)
    PROVE  \A j, k \in 1..Cardinality(S) : InOrder(S)[j] = InOrder(S)[k] => j = k
<1> SUFFICES ASSUME NEW j \in 1..Cardinality(S), NEW k \in 1..Cardinality(S), InOrder(S)[j] = InOrder(S)[k]
             PROVE  j = k
  OBVIOUS
<1>1. Cardinality(S) \in Nat /\ Position(S, InOrder(S)[j]) = j - 1 /\ Position(S, InOrder(S)[k]) = k - 1
  BY InOrderLists
<1> QED BY <1>1

\* What a drag commits is a tree: it is well-formed, or it is not committed, and
\* the drop and its repair leave the rows their ids.
LEMMA DragKeepsTree ==
    ASSUME EditorInv, IsTree(committed), DragCompleted
    PROVE  IsTree(committed')
<1>1. CASE UNCHANGED committed
  BY <1>1
<1>2. CASE ~UNCHANGED committed
  <2>1. ~Idle /\ IsWellFormed(Normalized) /\ committed' = Normalized
    BY <1>2 DEF DragCompleted
  <2>2. /\ drag.dropped \in BOOLEAN /\ drag.start \in DOMAIN committed /\ drag.at \in DOMAIN committed
        /\ IF drag.dropped
           THEN entries = ApplyBlockMove(committed, [block |-> <<drag.start>>, insertAt |-> drag.at - 1])
           ELSE entries = committed
    BY <2>1 DEF EditorInv, DragInv
  <2>3. IsList(entries) /\ IsList(committed) /\ DistinctIds(committed)
    BY DEF EditorInv, ListInv, IsTree
  <2>4. DistinctIds(entries) /\ drag.at \in DOMAIN entries
    <3>1. CASE ~drag.dropped
      BY <2>2, <2>3, <3>1
    <3>2. CASE drag.dropped
      <4> DEFINE n == Len(committed)
                 move == [block |-> <<drag.start>>, insertAt |-> drag.at - 1]
      <4>1. n \in Nat /\ DOMAIN committed = 1..n
        BY <2>3, ListShape
      <4>2. move.block = <<drag.start>> /\ move.insertAt = drag.at - 1 /\ Lifted(move) = {drag.start}
        BY DEF Lifted
      <4>3. Len(move.block) = 1 /\ move.block \in Seq(DOMAIN committed)
        BY <2>2, <4>2
      <4> HIDE DEF move, n
      <4>4. Cardinality(Left(committed, move)) = n - 1
        BY <2>2, <4>1, <4>2, AllButOne DEF Left
      <4>5. IsMove(committed, move)
        BY <2>2, <4>1, <4>2, <4>3, <4>4 DEF IsMove
      <4>6. \A j, k \in 1..Len(move.block) : move.block[j] = move.block[k] => j = k
        BY <4>3
      <4>7. DistinctIds(ApplyBlockMove(committed, move))
        BY <2>3, <4>5, <4>6, MoveKeepsIds
      <4>8. DOMAIN ApplyBlockMove(committed, move) = DOMAIN committed
        BY <2>2, <2>3, DroppedList DEF move
      <4> QED BY <2>2, <3>2, <4>7, <4>8 DEF move
    <3> QED BY <3>1, <3>2
  <2> DEFINE list == Reparented(entries, drag.at, Fixup.headParent)
             move == Fixup.move
             family == FamilyRows(entries, drag.at)
             others == family \ {drag.at}
  <2>5. Normalized = ApplyBlockMove(list, move)
    BY DEF Normalized, Reparented
  <2>6. IsMove(entries, move) /\ move.block = <<drag.at>> \o InOrder(others)
    BY <2>3, <2>4, DragMove DEF Fixup
  <2>7. IsList(list) /\ DOMAIN list = DOMAIN entries /\ \A k \in DOMAIN entries : list[k].id = entries[k].id
    BY <2>3, <2>4, ReparentsRow
  <2> HIDE DEF list, move
  <2>8. DistinctIds(list)
    BY <2>4, <2>7 DEF DistinctIds
  <2>9. IsMove(list, move)
    BY <2>6, <2>7 DEF IsMove, Left
  <2>10. \A j, k \in 1..Len(move.block) : move.block[j] = move.block[k] => j = k
    <3>1. others \in SUBSET Nat /\ IsFiniteSet(others) /\ drag.at \notin others
      <4>1. others \in SUBSET DOMAIN entries
        BY DEF FamilyRows
      <4> QED BY <2>3, <4>1, ListShape, FS_Subset
    <3> DEFINE c == Cardinality(others)
               order == InOrder(others)
    <3>2. c \in Nat /\ order \in Seq(others) /\ Len(order) = c /\ \A k \in 1..c : order[k] \in others
      BY <3>1, InOrderLists
    <3>3. \A j, k \in 1..c : order[j] = order[k] => j = k
      BY <3>1, InOrderOnce
    <3> HIDE DEF c, order, others
    <3>4. Len(move.block) = c + 1 /\ move.block[1] = drag.at /\ \A k \in 2..(c + 1) : move.block[k] = order[k - 1]
      <4>1. <<drag.at>> \in Seq({drag.at}) /\ Len(<<drag.at>>) = 1 /\ <<drag.at>>[1] = drag.at
        OBVIOUS
      <4>2. PICK U : <<drag.at>> \in Seq(U) /\ order \in Seq(U)
        <5>1. {drag.at} \in SUBSET ({drag.at} \cup others) /\ others \in SUBSET ({drag.at} \cup others)
          OBVIOUS
        <5>2. <<drag.at>> \in Seq({drag.at} \cup others) /\ order \in Seq({drag.at} \cup others)
          BY <3>2, <4>1, <5>1
        <5> QED BY <5>2
      <4>3. /\ Len(<<drag.at>> \o order) = Len(<<drag.at>>) + Len(order)
            /\ \A i \in 1..(Len(<<drag.at>>) + Len(order)) :
                 (<<drag.at>> \o order)[i] = IF i <= Len(<<drag.at>>) THEN <<drag.at>>[i] ELSE order[i - Len(<<drag.at>>)]
        BY <4>2, ConcatProperties
      <4>4. move.block = <<drag.at>> \o order
        BY <2>6 DEF order
      <4> HIDE DEF move
      <4> QED BY <3>2, <4>1, <4>3, <4>4
    <3>5. ASSUME NEW k \in 1..(c + 1), k # 1 PROVE k - 1 \in 1..c /\ move.block[k] = order[k - 1] /\ move.block[k] \in others
      BY <3>2, <3>4, <3>5
    <3>6. ASSUME NEW j \in 1..(c + 1), NEW k \in 1..(c + 1), move.block[j] = move.block[k] PROVE j = k
      <4>1. CASE j = 1 \/ k = 1
        BY <3>1, <3>4, <3>5, <3>6, <4>1
      <4>2. CASE j # 1 /\ k # 1
        <5>1. j - 1 = k - 1
          BY <3>3, <3>5, <3>6, <4>2
        <5> QED BY <3>2, <5>1
      <4> QED BY <4>1, <4>2
    <3> QED BY <3>4, <3>6
  <2>11. DistinctIds(Normalized)
    BY <2>5, <2>7, <2>8, <2>9, <2>10, MoveKeepsIds
  <2> QED BY <2>1, <2>11 DEF IsTree
<1> QED BY <1>1, <1>2


\* Where a block move puts a row: the block stays in order, and so do the rows
\* left.
Place(list, M, at, i) ==
    LET left == DOMAIN list \ M
        b == Cardinality(M)
    IN  IF i \in M THEN at + Position(M, i) + 1
        ELSE IF Position(left, i) < at THEN Position(left, i) + 1 ELSE Position(left, i) + 1 + b

\* Every row is found at its place, and comes from there.
LEMMA BlockPlaces ==
    ASSUME NEW list, IsList(list), NEW M \in SUBSET DOMAIN list, NEW at \in 0..Cardinality(DOMAIN list \ M)
    PROVE  LET after == ApplyBlockMove(list, [block |-> InOrder(M), insertAt |-> at])
           IN  /\ IsList(after) /\ (DistinctIds(list) => DistinctIds(after))
               /\ \A i \in DOMAIN list : Place(list, M, at, i) \in DOMAIN after /\ after[Place(list, M, at, i)] = list[i]
               /\ \A k \in DOMAIN after : \E i \in DOMAIN list : k = Place(list, M, at, i)
<1> DEFINE move == [block |-> InOrder(M), insertAt |-> at]
           after == ApplyBlockMove(list, move)
           left == DOMAIN list \ M
           b == Cardinality(M)
           m == Cardinality(left)
           place(i) == Place(list, M, at, i)
<1>1. /\ DOMAIN list \in SUBSET Nat /\ IsFiniteSet(M) /\ IsFiniteSet(left)
      /\ M \in SUBSET Nat /\ left \in SUBSET Nat /\ b \in Nat /\ m \in Nat
  <2>1. DOMAIN list \in SUBSET Nat /\ IsFiniteSet(DOMAIN list)
    BY ListShape
  <2>2. IsFiniteSet(M) /\ IsFiniteSet(left)
    BY <2>1, FS_Subset
  <2> QED BY <2>1, <2>2, FS_CardinalityType
<1>2. /\ InOrder(M) \in Seq(M) /\ Len(InOrder(M)) = b
      /\ \A k \in 1..b : InOrder(M)[k] \in M /\ Position(M, InOrder(M)[k]) = k - 1
      /\ \A x \in M : Position(M, x) + 1 \in 1..b /\ InOrder(M)[Position(M, x) + 1] = x
  BY <1>1, InOrderLists
<1>3. /\ \A k \in 1..m : InOrder(left)[k] \in left /\ Position(left, InOrder(left)[k]) = k - 1
      /\ \A x \in left : Position(left, x) + 1 \in 1..m /\ InOrder(left)[Position(left, x) + 1] = x
  BY <1>1, InOrderLists
<1>4. Lifted(move) = M
  <2>1. move.block = InOrder(M) /\ DOMAIN InOrder(M) = 1..b
    BY <1>2
  <2>2. \A x \in M : \E k \in 1..b : InOrder(M)[k] = x
    BY <1>2
  <2> QED BY <1>2, <2>1, <2>2 DEF Lifted
<1>5. move.block = InOrder(M) /\ move.insertAt = at /\ Left(list, move) = left
  BY <1>4 DEF Left
<1>6. IsMove(list, move)
  <2>1. InOrder(M) \in Seq(DOMAIN list)
    BY <1>2
  <2> QED BY <1>5, <2>1 DEF IsMove
<1>7. \A j, k \in 1..Len(move.block) : move.block[j] = move.block[k] => j = k
  BY <1>1, <1>2, <1>5, InOrderOnce
<1> HIDE DEF move
<1>8. DistinctIds(list) => DistinctIds(after)
  BY <1>6, <1>7, MoveKeepsIds
<1>9. /\ IsList(after) /\ Len(after) = m + b
      /\ \A k \in 1..at : after[k] = list[InOrder(left)[k]]
      /\ \A k \in 1..b : after[at + k] = list[InOrder(M)[k]]
      /\ \A k \in (at + 1)..m : after[k + b] = list[InOrder(left)[k]]
  <2>1. /\ IsList(after) /\ Len(after) = Cardinality(Left(list, move)) + Len(move.block)
        /\ \A k \in 1..move.insertAt : after[k] = list[InOrder(Left(list, move))[k]]
        /\ \A k \in 1..Len(move.block) : after[move.insertAt + k] = list[move.block[k]]
        /\ \A k \in (move.insertAt + 1)..Cardinality(Left(list, move)) :
             after[k + Len(move.block)] = list[InOrder(Left(list, move))[k]]
    BY <1>6, MovesRows
  <2> HIDE DEF after
  <2> QED BY <1>2, <1>5, <2>1, ZenonT(90)
<1>10. DOMAIN after = 1..(m + b)
  BY <1>9, ListShape
<1> HIDE DEF after
<1>11. \A i \in M : place(i) = at + Position(M, i) + 1
  BY DEF Place
<1>12. \A i \in left : place(i) = IF Position(left, i) < at THEN Position(left, i) + 1 ELSE Position(left, i) + 1 + b
  BY DEF Place
<1>13. at \in Nat /\ at <= m
  BY <1>1
<1> HIDE DEF place, left, b, m
<1>14. ASSUME NEW i \in M PROVE place(i) \in DOMAIN after /\ after[place(i)] = list[i]
  <2>1. PICK k \in 1..b : k = Position(M, i) + 1 /\ InOrder(M)[k] = i
    BY <1>2, <1>14
  <2>2. Position(M, i) = k - 1
    BY <1>2, <2>1
  <2>3. place(i) = at + k
    <3>1. place(i) = at + (k - 1) + 1
      BY <1>11, <1>14, <2>2
    <3>2. at + (k - 1) + 1 = at + k
      BY <1>1, <1>13
    <3> QED BY <3>1, <3>2
  <2>4. at + k \in 1..(m + b)
    BY <1>1, <1>13, <2>1
  <2> QED BY <1>9, <1>10, <2>1, <2>3, <2>4
<1>15. ASSUME NEW i \in left PROVE place(i) \in DOMAIN after /\ after[place(i)] = list[i]
  <2>1. PICK k \in 1..m : k = Position(left, i) + 1 /\ InOrder(left)[k] = i
    BY <1>3, <1>15
  <2>2. Position(left, i) = k - 1
    BY <1>3, <2>1
  <2>3. place(i) = IF k - 1 < at THEN k ELSE k + b
    <3>1. place(i) = IF k - 1 < at THEN (k - 1) + 1 ELSE (k - 1) + 1 + b
      BY <1>12, <1>15, <2>2
    <3>2. (k - 1) + 1 = k /\ (k - 1) + 1 + b = k + b
      BY <1>1
    <3> QED BY <3>1, <3>2
  <2>4. CASE k - 1 < at
    <3>1. k \in 1..at /\ k \in 1..(m + b)
      BY <1>1, <1>13, <2>1, <2>4
    <3> QED BY <1>9, <1>10, <2>1, <2>3, <2>4, <3>1
  <2>5. CASE ~(k - 1 < at)
    <3>1. k \in (at + 1)..m /\ k + b \in 1..(m + b)
      BY <1>1, <1>13, <2>1, <2>5
    <3> QED BY <1>9, <1>10, <2>1, <2>3, <2>5, <3>1
  <2> QED BY <2>4, <2>5
<1>16. \A i \in DOMAIN list : place(i) \in DOMAIN after /\ after[place(i)] = list[i]
  <2>1. \A i \in DOMAIN list : i \in M \/ i \in left
    BY DEF left
  <2> QED BY <1>14, <1>15, <2>1
<1>17. ASSUME NEW k \in DOMAIN after PROVE \E i \in DOMAIN list : k = place(i)
  <2>1. k \in 1..(m + b)
    BY <1>10, <1>17
  <2>2. CASE k <= at
    <3>1. k \in 1..m
      BY <1>1, <1>13, <2>1, <2>2
    <3>2. InOrder(left)[k] \in left /\ Position(left, InOrder(left)[k]) = k - 1
      BY <1>3, <3>1
    <3>3. place(InOrder(left)[k]) = k
      <4>1. k - 1 < at /\ (k - 1) + 1 = k
        BY <1>13, <2>2, <3>1
      <4> QED BY <1>12, <3>2, <4>1
    <3> QED BY <3>2, <3>3 DEF left
  <2>3. CASE k > at /\ k <= at + b
    <3>1. k - at \in 1..b
      BY <1>1, <1>13, <2>1, <2>3
    <3>2. InOrder(M)[k - at] \in M /\ Position(M, InOrder(M)[k - at]) = (k - at) - 1
      BY <1>2, <3>1
    <3>3. place(InOrder(M)[k - at]) = k
      BY <1>1, <1>11, <1>13, <2>1, <3>2
    <3> QED BY <3>2, <3>3
  <2>4. CASE k > at + b
    <3>1. k - b \in 1..m
      BY <1>1, <1>13, <2>1, <2>4
    <3>2. InOrder(left)[k - b] \in left /\ Position(left, InOrder(left)[k - b]) = (k - b) - 1
      BY <1>3, <3>1
    <3>3. place(InOrder(left)[k - b]) = k
      <4>1. ~((k - b) - 1 < at) /\ ((k - b) - 1) + 1 + b = k
        BY <1>1, <1>13, <2>1, <2>4
      <4> QED BY <1>12, <3>2, <4>1
    <3> QED BY <3>2, <3>3 DEF left
  <2> QED BY <1>1, <1>13, <2>1, <2>2, <2>3, <2>4
<1> QED BY <1>8, <1>9, <1>16, <1>17 DEF after, move, place


\* A block that holds the children of its rows, put below the parents its rows
\* have elsewhere, leaves a tree.
LEMMA BlockKeepsTree ==
    ASSUME NEW list, IsList(list), IsTree(list), NEW M \in SUBSET DOMAIN list,
           NEW at \in 0..Cardinality(DOMAIN list \ M),
           \A i, p \in DOMAIN list : list[p].id = list[i].parent /\ p \in M => i \in M,
           \A i \in M, p \in DOMAIN list \ M :
              list[p].id = list[i].parent => Position(DOMAIN list \ M, p) < at
    PROVE  IsTree(ApplyBlockMove(list, [block |-> InOrder(M), insertAt |-> at]))
<1> DEFINE after == ApplyBlockMove(list, [block |-> InOrder(M), insertAt |-> at])
           left == DOMAIN list \ M
           b == Cardinality(M)
           place(i) == Place(list, M, at, i)
<1>1. /\ DOMAIN list \in SUBSET Nat /\ IsFiniteSet(M) /\ IsFiniteSet(left)
      /\ M \in SUBSET Nat /\ left \in SUBSET Nat /\ b \in Nat /\ Cardinality(left) \in Nat
  <2>1. DOMAIN list \in SUBSET Nat /\ IsFiniteSet(DOMAIN list)
    BY ListShape
  <2>2. IsFiniteSet(M) /\ IsFiniteSet(left)
    BY <2>1, FS_Subset
  <2> QED BY <2>1, <2>2, FS_CardinalityType
<1>2. DistinctIds(list) /\ \A i \in DOMAIN list : HasParent(list, i)
  BY TreeRows DEF IsTree
<1>3. /\ IsList(after) /\ DistinctIds(after)
      /\ \A i \in DOMAIN list : place(i) \in DOMAIN after /\ after[place(i)] = list[i]
      /\ \A k \in DOMAIN after : \E i \in DOMAIN list : k = place(i)
  BY <1>2, BlockPlaces
<1>4. \A i \in M : place(i) = at + Position(M, i) + 1
  BY DEF Place
<1>5. \A i \in left : place(i) = IF Position(left, i) < at THEN Position(left, i) + 1 ELSE Position(left, i) + 1 + b
  BY DEF Place
<1>6. /\ \A x \in M : Position(M, x) \in Nat
      /\ \A x \in left : Position(left, x) \in Nat
      /\ \A x \in M, y \in M : x < y => Position(M, x) < Position(M, y)
      /\ \A x \in left, y \in left : x < y => Position(left, x) < Position(left, y)
  <2>1. /\ \A x \in M : Position(M, x) \in 0..(Cardinality(M) - 1)
        /\ \A x \in M, y \in Nat : x < y => Position(M, x) < Position(M, y)
    BY <1>1, PositionGrows
  <2>2. /\ \A x \in left : Position(left, x) \in 0..(Cardinality(left) - 1)
        /\ \A x \in left, y \in Nat : x < y => Position(left, x) < Position(left, y)
    BY <1>1, PositionGrows
  <2> HIDE DEF left
  <2>3. /\ \A x \in M : Position(M, x) \in Nat
        /\ \A x \in M, y \in M : x < y => Position(M, x) < Position(M, y)
    BY <1>1, <2>1
  <2>4. /\ \A x \in left : Position(left, x) \in Nat
        /\ \A x \in left, y \in left : x < y => Position(left, x) < Position(left, y)
    BY <1>1, <2>2
  <2> QED BY <2>3, <2>4
<1>7. at \in Nat
  BY <1>1
<1> HIDE DEF after, place
<1>8. ASSUME NEW i \in DOMAIN list, NEW p \in DOMAIN list, p < i, list[p].id = list[i].parent
      PROVE  place(p) < place(i)
  <2>1. CASE i \in M /\ p \in M
    <3>1. Position(M, p) < Position(M, i) /\ Position(M, p) \in Nat /\ Position(M, i) \in Nat
      BY <1>6, <1>8, <2>1
    <3> QED BY <1>4, <1>7, <2>1, <3>1
  <2>2. CASE i \in M /\ p \notin M
    <3>1. p \in left /\ Position(left, p) < at
      BY <1>8, <2>2
    <3>2. Position(M, i) \in Nat /\ Position(left, p) \in Nat
      BY <1>6, <2>2, <3>1
    <3>3. place(p) = Position(left, p) + 1
      BY <1>5, <3>1
    <3>4. place(i) = at + Position(M, i) + 1
      BY <1>4, <2>2
    <3> HIDE DEF left
    <3> QED BY <1>7, <3>1, <3>2, <3>3, <3>4
  <2>3. CASE i \notin M
    <3>1. p \in left /\ i \in left
      BY <1>8, <2>3
    <3>2. Position(left, p) < Position(left, i) /\ Position(left, p) \in Nat /\ Position(left, i) \in Nat
      BY <1>6, <1>8, <3>1
    <3> DEFINE x == Position(left, p)
               y == Position(left, i)
    <3>3. place(p) = IF x < at THEN x + 1 ELSE x + 1 + b
      BY <1>5, <3>1
    <3>4. place(i) = IF y < at THEN y + 1 ELSE y + 1 + b
      BY <1>5, <3>1
    <3> HIDE DEF x, y, b
    <3> QED BY <1>1, <1>7, <3>2, <3>3, <3>4 DEF x, y
  <2> QED BY <2>1, <2>2, <2>3
<1>9. ASSUME NEW k \in DOMAIN after PROVE HasParent(after, k)
  <2>1. PICK i \in DOMAIN list : k = place(i)
    BY <1>3
  <2>2. after[k] = list[i] /\ HasParent(list, i)
    BY <1>2, <1>3, <2>1
  <2>3. SUFFICES ASSUME list[i].parent # NoId PROVE HasParent(after, k)
    BY <2>2 DEF HasParent
  <2>4. PICK p \in DOMAIN list : p < i /\ list[p].id = list[i].parent /\ ~list[p].separator
    BY <2>2, <2>3 DEF HasParent
  <2>5. place(p) < k
    BY <1>8, <2>1, <2>4
  <2>6. place(p) \in DOMAIN after /\ after[place(p)] = list[p]
    BY <1>3
  <2> QED BY <2>2, <2>4, <2>5, <2>6 DEF HasParent
<1>10. IsTree(after)
  BY <1>3, <1>9, TreeRows
<1> QED BY <1>10 DEF after

\* A move past a sibling: the family's parent stays above it.
LEMMA MoveKeepsTree ==
    ASSUME ListInv, IsTree(entries), NEW up \in BOOLEAN, MoveEntry(up)
    PROVE  IsTree(entries')
<1> DEFINE s == selected
           M == SubtreeMask(entries, s)
           left == DOMAIN entries \ M
<1>1. s \in DOMAIN entries
  BY MovesList
<1>2. PICK sibling : /\ sibling \in IF up THEN PrevSibling(entries, s) ELSE NextSibling(entries, s)
                     /\ entries' = ApplyBlockMove(entries, MoveAmongSiblings(entries, s, sibling, up))
  BY DEF MoveEntry, Replace
<1> DEFINE passed == SubtreeMask(entries, sibling) \ M
           before == {i \in DOMAIN entries : IF up THEN i < sibling ELSE \E j \in passed : i =< j}
           at == Cardinality(before \ M)
<1>3. entries' = ApplyBlockMove(entries, [block |-> InOrder(M), insertAt |-> at])
  BY <1>2 DEF MoveAmongSiblings
<1>4. DOMAIN entries \in SUBSET Nat /\ IsFiniteSet(DOMAIN entries) /\ DOMAIN entries = 1..Len(entries) /\ Len(entries) \in Nat
  BY ListShape DEF ListInv
<1>5. /\ M \in SUBSET DOMAIN entries /\ s \in M /\ \A i \in M : s <= i
      /\ \A i \in DOMAIN entries :
            i \in M <=> \/ i = s
                        \/ /\ i > s /\ entries[i].parent # NoId
                           /\ \E j \in M : j < i /\ entries[j].id = entries[i].parent
  BY <1>1, SubtreeRows DEF ListInv
<1> HIDE DEF M, s
<1>6. sibling \in DOMAIN entries /\ sibling # s /\ entries[sibling].parent = entries[s].parent /\ (~up => s < sibling)
  <2>1. CASE up
    <3>1. sibling \in 1..(s - 1) /\ entries[sibling].parent = entries[s].parent
      BY <1>2, <2>1 DEF PrevSibling
    <3> QED BY <1>1, <1>4, <2>1, <3>1
  <2>2. CASE ~up
    <3>1. sibling \in (s + 1)..Len(entries) /\ entries[sibling].parent = entries[s].parent
      BY <1>2, <2>2 DEF NextSibling
    <3> QED BY <1>1, <1>4, <2>2, <3>1
  <2> QED BY <2>1, <2>2
<1>7. before \ M \in SUBSET left /\ IsFiniteSet(left) /\ IsFiniteSet(before \ M)
  <2>1. IsFiniteSet(left) /\ IsFiniteSet(before \ M)
    BY <1>4, FS_Subset
  <2> QED BY <2>1
<1>8. at \in 0..Cardinality(left)
  BY <1>7, FS_Subset, FS_CardinalityType
\* The children of the family's rows are in the family.
<1>9. ASSUME NEW i \in DOMAIN entries, NEW p \in DOMAIN entries, entries[p].id = entries[i].parent, p \in M
      PROVE  i \in M
  <2>1. p < i /\ entries[i].parent # NoId
    BY <1>9, ParentAbove DEF ListInv
  <2>2. i > s
    BY <1>1, <1>4, <1>5, <1>9, <2>1
  <2> QED BY <1>5, <1>9, <2>1, <2>2
\* A parent outside the family is the head's, and the sibling's too.
<1>10. ASSUME NEW i \in M, NEW p \in left, entries[p].id = entries[i].parent
       PROVE  Position(left, p) < at
  <2>1. i = s
    <3>1. SUFFICES ASSUME i # s PROVE FALSE
      OBVIOUS
    <3>2. i \in DOMAIN entries
      BY <1>5
    <3>3. PICK j \in M : entries[j].id = entries[i].parent
      BY <1>5, <1>10, <3>1, <3>2
    <3>4. j = p
      BY <1>5, <1>10, <3>3 DEF IsTree, DistinctIds
    <3> QED BY <3>3, <3>4
  <2>2. p \in DOMAIN entries /\ entries[p].id = entries[sibling].parent /\ entries[p].id = entries[s].parent
    BY <1>6, <1>10, <2>1
  <2>3. p < sibling /\ p < s
    BY <1>1, <1>6, <2>2, ParentAbove DEF ListInv
  <2>4. ~up => sibling \in passed
    <3>1. sibling \notin M
      <4>1. SUFFICES ASSUME sibling \in M PROVE FALSE
        OBVIOUS
      <4>2. PICK j \in M : entries[j].id = entries[sibling].parent
        BY <1>5, <1>6, <4>1
      <4>3. j = p
        BY <1>5, <2>2, <4>2 DEF IsTree, DistinctIds
      <4> QED BY <4>2, <4>3
    <3>2. sibling \in SubtreeMask(entries, sibling)
      BY <1>6, SubtreeRows DEF ListInv
    <3> QED BY <3>1, <3>2
  <2>5. \A x \in DOMAIN entries : x <= p => x \in before
    <3> SUFFICES ASSUME NEW x \in DOMAIN entries, x <= p PROVE x \in before
      OBVIOUS
    <3>1. x < sibling /\ x <= sibling
      BY <1>4, <1>6, <2>2, <2>3
    <3>2. CASE up
      BY <3>1, <3>2
    <3>3. CASE ~up
      BY <2>4, <3>1, <3>3
    <3> QED BY <3>2, <3>3
  <2> DEFINE above == {y \in left : y < p}
  <2>6. above \cup {p} \in SUBSET (before \ M)
    BY <1>4, <2>2, <2>5
  <2>7. IsFiniteSet(above) /\ p \notin above
    BY <1>4, <1>7, <2>2, FS_Subset
  <2>8. Cardinality(above \cup {p}) = Cardinality(above) + 1 /\ Cardinality(above) \in Nat
    BY <2>7, FS_AddElement, FS_CardinalityType
  <2>9. Cardinality(above \cup {p}) <= at
    BY <1>7, <2>6, FS_Subset
  <2>10. at \in Nat /\ Position(left, p) = Cardinality(above)
    BY <1>7, FS_CardinalityType DEF Position
  <2> HIDE DEF above, at
  <2> QED BY <2>8, <2>9, <2>10
<1> HIDE DEF at
<1>11. IsTree(ApplyBlockMove(entries, [block |-> InOrder(M), insertAt |-> at]))
  BY <1>5, <1>8, <1>9, <1>10, BlockKeepsTree DEF ListInv
<1> QED BY <1>3, <1>11


\* No operation of the editor breaks the tree, for any number of rows: what is
\* committed stays a tree unless a list is imported, captured or reloaded as a
\* whole, also when an edit arrives between the drop of a row and its repair.
THEOREM TreeIsKept == Spec => OpsKeepWellFormed
<1> DEFINE Kept == IsTree(committed) => IsTree(committed') \/ \E list \in Lists : ReplaceFrom(list)
<1>1. ASSUME EditorInv, [Next]_vars PROVE [Kept]_vars
  <2> SUFFICES ASSUME IsTree(committed), ~(\E list \in Lists : ReplaceFrom(list)) PROVE IsTree(committed')
    BY DEF Kept
  <2>1. ListInv
    BY <1>1 DEF EditorInv
  <2>2. SUFFICES ASSUME committed' # committed PROVE IsTree(committed')
    OBVIOUS
  <2>3. Idle => IsTree(entries)
    BY <1>1 DEF EditorInv, DragInv
  <2>4. CASE ~Idle
    <3>1. suspendCommit = TRUE
      BY <1>1, <2>4 DEF EditorInv, DragInv
    <3>2. DragCompleted
      BY <1>1, <2>2, <2>4, <3>1 DEF Next, vars, SelectedEntry, AddEntry, DuplicateEntry, DeleteEntry, IndentEntry,
         OutdentEntry, MoveEntry, ReplaceFrom, EditField, BeginDrag, Drop, HasSelection
    <3> QED BY <1>1, <3>2, DragKeepsTree
  <2>5. CASE Idle
    <3>1. IsTree(entries) /\ committed = entries
      BY <1>1, <2>3, <2>5 DEF EditorInv, DragInv
    <3>2. ASSUME NEW id \in Fresh, NEW separator \in BOOLEAN, AddEntry(id, separator) PROVE IsTree(entries')
      BY <2>1, <3>1, <3>2, AddKeepsTree
    <3>3. ASSUME NEW id \in Fresh, DuplicateEntry(id) PROVE IsTree(entries')
      BY <2>1, <3>1, <3>3, DuplicateKeepsTree
    <3>4. ASSUME DeleteEntry PROVE IsTree(entries')
      BY <2>1, <3>1, <3>4, DeleteKeepsTree
    <3>5. ASSUME IndentEntry \/ OutdentEntry PROVE IsTree(entries')
      BY <2>1, <3>1, <3>5, ReparentsKeepTree
    <3>6. ASSUME NEW up \in BOOLEAN, MoveEntry(up) PROVE IsTree(entries')
      BY <2>1, <3>1, <3>6, MoveKeepsTree
    <3>7. \/ DeleteEntry \/ IndentEntry \/ OutdentEntry
          \/ \E up \in BOOLEAN : MoveEntry(up)
          \/ \E id \in Fresh : DuplicateEntry(id)
          \/ \E id \in Fresh, separator \in BOOLEAN : AddEntry(id, separator)
      <4>1. ASSUME NEW index \in DOMAIN entries, BeginDrag(index) PROVE FALSE
        BY <2>2, <4>1 DEF BeginDrag
      <4>2. ASSUME NEW position \in DOMAIN entries, Drop(position) PROVE FALSE
        BY <2>2, <4>2 DEF Drop
      <4>3. ASSUME DragCompleted PROVE FALSE
        BY <2>5, <4>3 DEF DragCompleted
      <4>4. ASSUME EditField PROVE FALSE
        BY <2>2, <3>1, <4>4 DEF EditField
      <4>5. ASSUME NEW index \in DOMAIN entries \cup {0}, SelectedEntry(index) PROVE FALSE
        BY <2>2, <4>5 DEF SelectedEntry
      <4> QED BY <1>1, <2>2, <4>1, <4>2, <4>3, <4>4, <4>5 DEF Next, vars
    <3>8. IsTree(entries')
      BY <3>2, <3>3, <3>4, <3>5, <3>6, <3>7
    <3>9. committed' = entries'
      <4>1. ASSUME DeleteEntry PROVE committed' = entries'
        BY <4>1 DEF DeleteEntry, Replace
      <4>2. ASSUME IndentEntry PROVE committed' = entries'
        BY <4>2 DEF IndentEntry, Replace
      <4>3. ASSUME OutdentEntry PROVE committed' = entries'
        BY <4>3 DEF OutdentEntry, Replace
      <4>4. ASSUME NEW up \in BOOLEAN, MoveEntry(up) PROVE committed' = entries'
        BY <4>4 DEF MoveEntry, Replace
      <4>5. ASSUME NEW id \in Fresh, DuplicateEntry(id) PROVE committed' = entries'
        BY <4>5 DEF DuplicateEntry, Replace
      <4>6. ASSUME NEW id \in Fresh, NEW separator \in BOOLEAN, AddEntry(id, separator) PROVE committed' = entries'
        BY <4>6 DEF AddEntry, Replace
      <4> QED BY <3>7, <4>1, <4>2, <4>3, <4>4, <4>5, <4>6
    <3> QED BY <3>8, <3>9
  <2> QED BY <2>4, <2>5
<1> QED BY <1>1, EditorInvariant, PTL DEF Spec, OpsKeepWellFormed

-------------------------------------------------------------------------------
(* Families that move *)

\* Two finite sets in a one-to-one correspondence have as many members.
LEMMA SameCount ==
    ASSUME NEW S, IsFiniteSet(S), NEW T, NEW f \in [S -> T],
           \A y \in T : \E x \in S : f[x] = y, \A x, y \in S : f[x] = f[y] => x = y
    PROVE  IsFiniteSet(T) /\ Cardinality(T) = Cardinality(S)
<1>1. f \in Bijection(S, T)
  BY DEF Bijection, Injection, Surjection, IsInjective
<1>2. ExistsBijection(S, T)
  BY <1>1 DEF ExistsBijection
<1> QED BY <1>2, FS_Bijection

\* A correspondence that keeps the order takes the k-th member to the k-th.
LEMMA SameRun ==
    ASSUME NEW A \in SUBSET Nat, IsFiniteSet(A), NEW B \in SUBSET Nat, IsFiniteSet(B),
           NEW f \in [A -> B], \A y \in B : \E x \in A : f[x] = y,
           \A x, y \in A : x < y <=> f[x] < f[y]
    PROVE  /\ Cardinality(A) = Cardinality(B)
           /\ \A x \in A : Position(B, f[x]) = Position(A, x)
           /\ \A k \in 1..Cardinality(A) : InOrder(B)[k] = f[InOrder(A)[k]]
<1>1. \A x, y \in A : f[x] = f[y] => x = y
  <2> SUFFICES ASSUME NEW x \in A, NEW y \in A, f[x] = f[y] PROVE x = y
    OBVIOUS
  <2>1. x \in Nat /\ y \in Nat /\ f[x] \in Nat /\ f[y] \in Nat
    OBVIOUS
  <2>2. ~(x < y) /\ ~(y < x)
    BY <2>1
  <2> QED BY <2>1, <2>2
<1>2. Cardinality(A) = Cardinality(B)
  BY <1>1, SameCount
<1>3. ASSUME NEW x \in A PROVE Position(B, f[x]) = Position(A, x)
  <2> DEFINE S == {y \in A : y < x}
             T == {z \in B : z < f[x]}
             g == [y \in S |-> f[y]]
  <2>1. IsFiniteSet(S)
    BY FS_Subset
  <2>2. g \in [S -> T]
    OBVIOUS
  <2>3. \A z \in T : \E y \in S : g[y] = z
    <3> SUFFICES ASSUME NEW z \in T PROVE \E y \in S : g[y] = z
      OBVIOUS
    <3>1. PICK y \in A : f[y] = z
      OBVIOUS
    <3>2. y \in S
      BY <3>1
    <3> QED BY <3>1, <3>2
  <2>4. \A y, z \in S : g[y] = g[z] => y = z
    BY <1>1
  <2> HIDE DEF S, T, g
  <2>5. Cardinality(T) = Cardinality(S)
    BY <2>1, <2>2, <2>3, <2>4, SameCount
  <2> QED BY <2>5 DEF Position, S, T
<1>4. ASSUME NEW k \in 1..Cardinality(A) PROVE InOrder(B)[k] = f[InOrder(A)[k]]
  <2>1. InOrder(A)[k] \in A /\ Position(A, InOrder(A)[k]) = k - 1 /\ Cardinality(A) \in Nat
    BY InOrderLists
  <2> DEFINE x == InOrder(A)[k]
  <2>2. f[x] \in B /\ Position(B, f[x]) = k - 1
    BY <1>3, <2>1
  <2>3. \A y \in B : InOrder(B)[Position(B, y) + 1] = y
    BY InOrderLists
  <2>4. (k - 1) + 1 = k
    BY <2>1
  <2> HIDE DEF x
  <2>5. InOrder(B)[(k - 1) + 1] = f[x]
    BY <2>2, <2>3
  <2> QED BY <2>4, <2>5 DEF x
<1> QED BY <1>2, <1>3, <1>4

\* So it takes the rows kept from one list to those kept from another.
LEMMA SameRows ==
    ASSUME NEW before, IsList(before), NEW after, IsList(after),
           NEW A \in SUBSET DOMAIN before, NEW B \in SUBSET DOMAIN after,
           NEW f \in [A -> B], \A y \in B : \E x \in A : f[x] = y,
           \A x, y \in A : x < y <=> f[x] < f[y],
           \A x \in A : after[f[x]] = before[x]
    PROVE  Keep(after, B) = Keep(before, A)
<1>1. A \in SUBSET Nat /\ IsFiniteSet(A) /\ B \in SUBSET Nat /\ IsFiniteSet(B)
  <2>1. /\ DOMAIN before \in SUBSET Nat /\ IsFiniteSet(DOMAIN before)
        /\ DOMAIN after \in SUBSET Nat /\ IsFiniteSet(DOMAIN after)
    BY ListShape
  <2> QED BY <2>1, FS_Subset
<1> DEFINE n == Cardinality(A)
<1>2. Cardinality(B) = n /\ \A k \in 1..n : InOrder(B)[k] = f[InOrder(A)[k]]
  BY <1>1, SameRun
<1>3. DOMAIN InOrder(A) = 1..n /\ DOMAIN InOrder(B) = 1..n
  BY <1>2 DEF InOrder
<1>4. \A k \in 1..n : InOrder(A)[k] \in A
  BY <1>1, InOrderLists
<1> HIDE DEF n
<1>5. \A k \in 1..n : after[InOrder(B)[k]] = before[InOrder(A)[k]]
  BY <1>2, <1>4
<1>6. Keep(after, B) = [k \in 1..n |-> after[InOrder(B)[k]]]
  BY <1>3 DEF Keep, At
<1>7. Keep(before, A) = [k \in 1..n |-> before[InOrder(A)[k]]]
  BY <1>3 DEF Keep, At
<1> QED BY <1>5, <1>6, <1>7

\* In a tree the family of a row is the rows of its subtree.
LEMMA FamilyIsSubtree ==
    ASSUME NEW list, IsList(list), IsTree(list), NEW s \in DOMAIN list
    PROVE  Family(list, list[s].id) = {list[k].id : k \in SubtreeMask(list, s)}
<1> DEFINE M == SubtreeMask(list, s)
           ids == {list[k].id : k \in M}
           Closed(S) == list[s].id \in S /\ (\A i \in DOMAIN list : list[i].parent \in S => list[i].id \in S)
<1>1. /\ M \in SUBSET DOMAIN list /\ s \in M
      /\ \A i \in M : s <= i
      /\ \A i \in DOMAIN list :
            i \in M <=> \/ i = s
                        \/ /\ i > s /\ list[i].parent # NoId
                           /\ \E j \in M : j < i /\ list[j].id = list[i].parent
  BY SubtreeRows
<1>2. DOMAIN list \in SUBSET Nat
  BY ListShape
<1> HIDE DEF M
<1>3. ids \in SUBSET Listed(list)
  BY <1>1 DEF Listed
<1>4. Closed(ids)
  <2>1. ASSUME NEW i \in DOMAIN list, list[i].parent \in ids PROVE i \in M
    <3>1. PICK p \in M : list[p].id = list[i].parent
      BY <2>1
    <3>2. p < i /\ list[i].parent # NoId
      BY <1>1, <3>1, ParentAbove
    <3>3. i > s
      BY <1>1, <1>2, <3>1, <3>2
    <3> QED BY <1>1, <3>1, <3>2, <3>3
  <2> QED BY <1>1, <2>1
<1>5. ASSUME NEW S \in SUBSET Listed(list), Closed(S), NEW k \in M PROVE list[k].id \in S
  <2> DEFINE Bad == {j \in Nat : j \in M /\ list[j].id \notin S}
  <2> SUFFICES ASSUME Bad # {} PROVE FALSE
    BY <1>1, <1>2
  <2>1. PICK i \in Bad : \A j \in Bad : i <= j
    BY LeastNatural
  <2>2. i # s
    BY <1>5, <2>1
  <2>3. PICK j \in M : j < i /\ list[j].id = list[i].parent
    BY <1>1, <2>1, <2>2
  <2>4. j \in Nat /\ i \in Nat /\ ~(i <= j)
    BY <1>1, <1>2, <2>1, <2>3
  <2>5. list[j].id \in S
    BY <2>1, <2>3, <2>4
  <2> QED BY <1>1, <1>5, <2>1, <2>3, <2>5
<1>6. Family(list, list[s].id) = {x \in Listed(list) : \A S \in SUBSET Listed(list) : Closed(S) => x \in S}
  BY DEF Family
<1> HIDE DEF Closed
<1>7. ASSUME NEW x \in ids PROVE x \in Family(list, list[s].id)
  BY <1>3, <1>5, <1>6, <1>7
<1>8. ASSUME NEW x \in Family(list, list[s].id) PROVE x \in ids
  BY <1>3, <1>4, <1>6, <1>8
<1> QED BY <1>7, <1>8 DEF M

\* Where a block move puts the rows of the block, and the others in their order.
LEMMA PlaceOrder ==
    ASSUME NEW list, IsList(list), NEW M \in SUBSET DOMAIN list, NEW at \in 0..Cardinality(DOMAIN list \ M)
    PROVE  /\ at \in Nat /\ Cardinality(M) \in Nat
           /\ \A x \in DOMAIN list : Place(list, M, at, x) \in Nat
           /\ \A x \in DOMAIN list :
                 x \in M <=> Place(list, M, at, x) \in (at + 1)..(at + Cardinality(M))
           /\ \A x, y \in M : x < y <=> Place(list, M, at, x) < Place(list, M, at, y)
           /\ \A x, y \in DOMAIN list \ M : x < y <=> Place(list, M, at, x) < Place(list, M, at, y)
<1> DEFINE left == DOMAIN list \ M
           b == Cardinality(M)
           m == Cardinality(left)
           place(x) == Place(list, M, at, x)
<1>1. /\ DOMAIN list \in SUBSET Nat /\ IsFiniteSet(M) /\ IsFiniteSet(left)
      /\ M \in SUBSET Nat /\ left \in SUBSET Nat /\ b \in Nat /\ m \in Nat
  <2>1. DOMAIN list \in SUBSET Nat /\ IsFiniteSet(DOMAIN list)
    BY ListShape
  <2>2. IsFiniteSet(M) /\ IsFiniteSet(left)
    BY <2>1, FS_Subset
  <2> QED BY <2>1, <2>2, FS_CardinalityType
<1>2. at \in Nat
  BY <1>1
<1>3. \A x \in M : place(x) = at + Position(M, x) + 1
  BY DEF Place
<1>4. \A x \in left : place(x) = IF Position(left, x) < at THEN Position(left, x) + 1 ELSE Position(left, x) + 1 + b
  BY DEF Place
<1>5. /\ \A x \in M : Position(M, x) \in 0..(b - 1)
      /\ \A x \in M, y \in Nat : x < y => Position(M, x) < Position(M, y)
  BY <1>1, PositionGrows
<1>6. /\ \A x \in left : Position(left, x) \in 0..(m - 1)
      /\ \A x \in left, y \in Nat : x < y => Position(left, x) < Position(left, y)
  BY <1>1, PositionGrows
<1>7. DOMAIN list = M \cup left
  OBVIOUS
<1> HIDE DEF left, b, m, place
<1>8. ASSUME NEW x \in M PROVE place(x) \in Nat /\ place(x) \in (at + 1)..(at + b)
  <2>1. Position(M, x) \in 0..(b - 1) /\ place(x) = at + Position(M, x) + 1
    BY <1>3, <1>5
  <2> QED BY <1>1, <1>2, <2>1
<1>9. ASSUME NEW x \in left PROVE place(x) \in Nat /\ place(x) \notin (at + 1)..(at + b)
  <2>1. /\ Position(left, x) \in 0..(m - 1)
        /\ place(x) = IF Position(left, x) < at THEN Position(left, x) + 1 ELSE Position(left, x) + 1 + b
    BY <1>4, <1>6
  <2> QED BY <1>1, <1>2, <2>1
<1>10. ASSUME NEW x \in M, NEW y \in M, x < y PROVE place(x) < place(y)
  <2>1. /\ Position(M, x) \in 0..(b - 1) /\ place(x) = at + Position(M, x) + 1
        /\ Position(M, y) \in 0..(b - 1) /\ place(y) = at + Position(M, y) + 1
        /\ Position(M, x) < Position(M, y)
    BY <1>1, <1>3, <1>5, <1>10
  <2> QED BY <1>1, <1>2, <2>1
<1>11. ASSUME NEW x \in left, NEW y \in left, x < y PROVE place(x) < place(y)
  <2>1. /\ Position(left, x) \in 0..(m - 1) /\ Position(left, y) \in 0..(m - 1)
        /\ place(x) = IF Position(left, x) < at THEN Position(left, x) + 1 ELSE Position(left, x) + 1 + b
        /\ place(y) = IF Position(left, y) < at THEN Position(left, y) + 1 ELSE Position(left, y) + 1 + b
        /\ Position(left, x) < Position(left, y)
    BY <1>1, <1>4, <1>6, <1>11
  <2> QED BY <1>1, <1>2, <2>1
<1>12. \A x \in DOMAIN list : place(x) \in Nat
  BY <1>7, <1>8, <1>9
<1>13. \A x \in DOMAIN list : x \in M <=> place(x) \in (at + 1)..(at + b)
  BY <1>7, <1>8, <1>9
<1>14. ASSUME NEW x \in M, NEW y \in M PROVE x < y <=> place(x) < place(y)
  <2>1. x \in Nat /\ y \in Nat /\ place(x) \in Nat /\ place(y) \in Nat
    BY <1>1, <1>8
  <2>2. (x < y => place(x) < place(y)) /\ (y < x => place(y) < place(x))
    BY <1>10
  <2>3. x = y => place(x) = place(y)
    BY DEF place
  <2> QED BY <2>1, <2>2, <2>3
<1>15. ASSUME NEW x \in left, NEW y \in left PROVE x < y <=> place(x) < place(y)
  <2>1. x \in Nat /\ y \in Nat /\ place(x) \in Nat /\ place(y) \in Nat
    BY <1>1, <1>9
  <2>2. (x < y => place(x) < place(y)) /\ (y < x => place(y) < place(x))
    BY <1>11
  <2>3. x = y => place(x) = place(y)
    BY DEF place
  <2> QED BY <2>1, <2>2, <2>3
<1> QED BY <1>1, <1>2, <1>12, <1>13, <1>14, <1>15 DEF place, b, left

\* In a list of distinct ids a row is found by its id.
LEMMA FoundById ==
    ASSUME NEW list, DistinctIds(list), NEW i \in DOMAIN list
    PROVE  IndexOf(list, list[i].id) = i
BY DEF IndexOf, DistinctIds

\* A family, whose head is the row at s, lifted as the block M and put down at
\* "at"; only the rows in "reparented" are not as they were.
FamilyLifted(list, M, s, at, after, reparented) ==
    LET lifted == ApplyBlockMove(list, [block |-> InOrder(M), insertAt |-> at])
    IN  /\ IsList(list) /\ DistinctIds(list) /\ M \in SUBSET DOMAIN list /\ s \in M /\ (\A i \in M : s <= i)
        /\ Family(list, list[s].id) = {list[k].id : k \in M}
        /\ at \in 0..Cardinality(DOMAIN list \ M)
        /\ IsList(after) /\ DOMAIN after = DOMAIN lifted /\ reparented \in SUBSET {list[s].id}
        /\ \A k \in DOMAIN lifted : after[k].id = lifted[k].id
        /\ \A k \in DOMAIN lifted : lifted[k].id \notin reparented => after[k] = lifted[k]

\* A family lifted as a block and put down elsewhere has moved, and nothing
\* else has; only its head may be given another parent there.
LEMMA BlockMovesFamily ==
    ASSUME NEW list, NEW M, NEW s, NEW at, NEW after, NEW reparented,
           FamilyLifted(list, M, s, at, after, reparented)
    PROVE  /\ FamilyMoved(list, after, list[s].id, reparented)
           /\ at + 1 \in DOMAIN after /\ after[at + 1].id = list[s].id
           /\ ApplyBlockMove(list, [block |-> InOrder(M), insertAt |-> at])[at + 1] = list[s]
<1> DEFINE id == list[s].id
           lifted == ApplyBlockMove(list, [block |-> InOrder(M), insertAt |-> at])
<1>a. /\ IsList(list) /\ DistinctIds(list) /\ M \in SUBSET DOMAIN list /\ s \in M /\ (\A i \in M : s <= i)
      /\ Family(list, id) = {list[k].id : k \in M}
      /\ at \in 0..Cardinality(DOMAIN list \ M)
      /\ IsList(after) /\ DOMAIN after = DOMAIN lifted /\ reparented \in SUBSET {id}
      /\ \A k \in DOMAIN lifted : after[k].id = lifted[k].id
      /\ \A k \in DOMAIN lifted : lifted[k].id \notin reparented => after[k] = lifted[k]
  BY DEF FamilyLifted
<1>b. id = list[s].id /\ lifted = ApplyBlockMove(list, [block |-> InOrder(M), insertAt |-> at])
  OBVIOUS
<1> HIDE DEF id, lifted
<1> USE <1>a, <1>b
<1> DEFINE left == DOMAIN list \ M
           b == Cardinality(M)
           place(x) == Place(list, M, at, x)
           family == Family(list, id)
           others == Listed(list) \ family
<1>1. /\ DOMAIN list \in SUBSET Nat /\ IsFiniteSet(M) /\ M \in SUBSET Nat
  <2>1. DOMAIN list \in SUBSET Nat /\ IsFiniteSet(DOMAIN list)
    BY ListShape
  <2> QED BY <2>1, FS_Subset
<1>2. /\ at \in Nat /\ b \in Nat
      /\ \A x \in DOMAIN list : place(x) \in Nat
      /\ \A x \in DOMAIN list : x \in M <=> place(x) \in (at + 1)..(at + b)
      /\ \A x, y \in M : x < y <=> place(x) < place(y)
      /\ \A x, y \in left : x < y <=> place(x) < place(y)
  BY PlaceOrder
<1>3. /\ IsList(lifted) /\ DistinctIds(lifted)
      /\ \A x \in DOMAIN list : place(x) \in DOMAIN lifted /\ lifted[place(x)] = list[x]
      /\ \A k \in DOMAIN lifted : \E x \in DOMAIN list : k = place(x)
  BY BlockPlaces
<1>4. \A x \in DOMAIN list : place(x) \in DOMAIN after /\ after[place(x)].id = list[x].id
  BY <1>3
<1>5. \A x \in DOMAIN list : list[x].id \in family <=> x \in M
  BY DEF DistinctIds
<1>6. \A x \in DOMAIN list : list[x].id \notin reparented => after[place(x)] = list[x]
  BY <1>3
<1>7. place(s) = at + 1
  <2>1. \A x \in M : ~(x < s)
    BY <1>1
  <2>2. {y \in M : y < s} = {}
    BY <2>1
  <2>3. Position(M, s) = 0
    BY <2>2, FS_EmptySet DEF Position
  <2> QED BY <1>2, <2>3 DEF Place
<1> HIDE DEF place, family, left, b
<1>8. DistinctIds(after)
  BY <1>3 DEF DistinctIds
\* Rows that all are in the block, or all outside it, keep their order.
<1>9. ASSUME NEW X, reparented \in SUBSET X,
             \/ \A x \in DOMAIN list : list[x].id \notin X => x \in M
             \/ \A x \in DOMAIN list : list[x].id \notin X => x \in left
      PROVE  Without(after, X) = Without(list, X)
  <2> DEFINE A == {x \in DOMAIN list : list[x].id \notin X}
             B == {k \in DOMAIN after : after[k].id \notin X}
             f == [x \in A |-> place(x)]
  <2>1. f \in [A -> B]
    BY <1>4
  <2>2. \A y \in B : \E x \in A : f[x] = y
    <3> SUFFICES ASSUME NEW y \in B PROVE \E x \in A : f[x] = y
      OBVIOUS
    <3>1. PICK x \in DOMAIN list : y = place(x)
      BY <1>3
    <3>2. x \in A
      BY <1>4, <3>1
    <3> QED BY <3>1, <3>2
  <2>3. \A x, y \in A : x < y <=> f[x] < f[y]
    <3>1. CASE \A x \in DOMAIN list : list[x].id \notin X => x \in M
      <4>1. A \in SUBSET M
        BY <3>1
      <4> QED BY <1>2, <4>1
    <3>2. CASE \A x \in DOMAIN list : list[x].id \notin X => x \in left
      <4>1. A \in SUBSET left
        BY <3>2
      <4> QED BY <1>2, <4>1
    <3> QED BY <1>9, <3>1, <3>2
  <2>4. \A x \in A : after[f[x]] = list[x]
    BY <1>6, <1>9
  <2>5. A \in SUBSET DOMAIN list /\ B \in SUBSET DOMAIN after
    OBVIOUS
  <2> HIDE DEF A, B, f
  <2>6. Keep(after, B) = Keep(list, A)
    BY <2>1, <2>2, <2>3, <2>4, <2>5, SameRows
  <2> QED BY <2>6 DEF Without, A, B
<1>10. reparented \in SUBSET family /\ id \in family
  <2>1. id \in family
    BY <1>5
  <2> QED BY <2>1
<1>11. Without(after, family) = Without(list, family)
  <2>1. \A x \in DOMAIN list : list[x].id \notin family => x \in left
    BY <1>5 DEF left
  <2> QED BY <1>9, <1>10, <2>1
<1>12. Without(after, others \cup reparented) = Without(list, others \cup reparented)
  <2>1. \A x \in DOMAIN list : list[x].id \in Listed(list)
    BY DEF Listed
  <2>2. \A x \in DOMAIN list : list[x].id \notin others \cup reparented => x \in M
    BY <1>5, <2>1
  <2> HIDE DEF others
  <2> QED BY <1>9, <2>2
<1>13. at + 1 \in DOMAIN after /\ after[at + 1].id = id /\ lifted[at + 1] = list[s]
  BY <1>3, <1>4, <1>7
<1>14. IndexOf(after, id) = at + 1
  BY <1>8, <1>13, FoundById
<1>15. Cardinality(family) = b
  <2> DEFINE f == [x \in M |-> list[x].id]
  <2>1. f \in [M -> family] /\ \A y \in family : \E x \in M : f[x] = y
    BY DEF family
  <2>2. \A x, y \in M : f[x] = f[y] => x = y
    BY DEF DistinctIds
  <2> HIDE DEF f
  <2> QED BY <1>1, <2>1, <2>2, SameCount DEF b
<1>16. {after[k].id : k \in (at + 1)..(at + b)} = family
  <2>1. ASSUME NEW k \in (at + 1)..(at + b) PROVE after[k].id \in family
    <3>1. CASE k \in DOMAIN after
      <4>1. PICK x \in DOMAIN list : k = place(x)
        BY <1>3, <3>1
      <4>2. x \in M
        BY <1>2, <2>1, <4>1
      <4> QED BY <1>4, <1>5, <4>1, <4>2
    <3>2. k \in DOMAIN after
      <4>1. Len(lifted) = Cardinality(left) + b /\ at <= Cardinality(left) /\ Cardinality(left) \in Nat
        <5> DEFINE move == [block |-> InOrder(M), insertAt |-> at]
        <5>1. InOrder(M) \in Seq(M) /\ Len(InOrder(M)) = b
          BY <1>1, InOrderLists DEF b
        <5>2. DOMAIN InOrder(M) = 1..b /\ (\A j \in 1..b : InOrder(M)[j] \in M)
              /\ \A x \in M : \E j \in 1..b : InOrder(M)[j] = x
          <6>1. \A x \in M : Position(M, x) + 1 \in 1..b /\ InOrder(M)[Position(M, x) + 1] = x
            BY <1>1, InOrderLists DEF b
          <6> QED BY <5>1, <6>1
        <5>3. Lifted(move) = M
          BY <5>2 DEF Lifted
        <5>4. Left(list, move) = left
          BY <5>3 DEF Left, left
        <5>5. IsMove(list, move)
          <6>1. InOrder(M) \in Seq(DOMAIN list)
            BY <5>1
          <6> QED BY <5>4, <6>1 DEF IsMove, left
        <5>6. Len(lifted) = Cardinality(Left(list, move)) + Len(move.block) /\ Cardinality(Left(list, move)) \in Nat
          BY <5>5, MovesRows
        <5>7. Len(move.block) = b
          BY <5>1
        <5> HIDE DEF move
        <5> QED BY <5>4, <5>6, <5>7 DEF left
      <4>2. DOMAIN lifted = 1..Len(lifted)
        BY <1>3, ListShape
      <4> QED BY <1>2, <4>1, <4>2
    <3> QED BY <3>1, <3>2
  <2>2. ASSUME NEW y \in family PROVE \E k \in (at + 1)..(at + b) : y = after[k].id
    <3>1. PICK x \in M : y = list[x].id
      BY DEF family
    <3>2. place(x) \in (at + 1)..(at + b) /\ after[place(x)].id = y
      BY <1>2, <1>4, <3>1
    <3> QED BY <3>2
  <2> QED BY <2>1, <2>2
<1>17. (at + 1) + b - 1 = at + b
  BY <1>2
<1>18. {after[k].id : k \in IndexOf(after, id)..(IndexOf(after, id) + Cardinality(family) - 1)} = family
  BY <1>14, <1>15, <1>16, <1>17
<1>19. FamilyMoved(list, after, id, reparented)
  BY <1>11, <1>12, <1>18 DEF FamilyMoved, family
<1> QED BY <1>13, <1>19


\* A move up or down: the family goes past the nearest sibling, as one run.
LEMMA MoveMovesFamily ==
    ASSUME ListInv, IsTree(entries), NEW up \in BOOLEAN, MoveEntry(up)
    PROVE  /\ FamilyMoved(entries, entries', entries[selected].id, {})
           /\ entries'[selected'] = entries[selected]
           /\ \A i \in IF up THEN PrevSibling(entries, selected) ELSE NextSibling(entries, selected) :
                 selected' < IndexOf(entries', entries[i].id) <=> up
<1> DEFINE s == selected
           M == SubtreeMask(entries, s)
           left == DOMAIN entries \ M
           near == IF up THEN PrevSibling(entries, s) ELSE NextSibling(entries, s)
<1>1. s \in DOMAIN entries /\ IsList(entries) /\ DistinctIds(entries)
  BY MovesList DEF ListInv, IsTree
<1>2. PICK sibling \in near :
         /\ entries' = ApplyBlockMove(entries, MoveAmongSiblings(entries, s, sibling, up))
         /\ selected' = MoveAmongSiblings(entries, s, sibling, up).insertAt + 1
  BY DEF MoveEntry, Replace
<1> DEFINE passed == SubtreeMask(entries, sibling) \ M
           before == {i \in DOMAIN entries : IF up THEN i < sibling ELSE \E j \in passed : i =< j}
           at == Cardinality(before \ M)
<1>3. entries' = ApplyBlockMove(entries, [block |-> InOrder(M), insertAt |-> at]) /\ selected' = at + 1
  BY <1>2 DEF MoveAmongSiblings
<1>4. DOMAIN entries \in SUBSET Nat /\ IsFiniteSet(DOMAIN entries) /\ DOMAIN entries = 1..Len(entries) /\ Len(entries) \in Nat
  BY <1>1, ListShape
<1>5. /\ M \in SUBSET DOMAIN entries /\ s \in M /\ \A i \in M : s <= i
      /\ \A i \in DOMAIN entries :
            i \in M <=> \/ i = s
                        \/ /\ i > s /\ entries[i].parent # NoId
                           /\ \E j \in M : j < i /\ entries[j].id = entries[i].parent
  BY <1>1, SubtreeRows
<1>6. Family(entries, entries[s].id) = {entries[k].id : k \in M}
  BY <1>1, FamilyIsSubtree
<1>7. \A i \in near : i = sibling
  <2>1. CASE up
    BY <1>2, <2>1 DEF PrevSibling
  <2>2. CASE ~up
    BY <1>2, <2>2 DEF NextSibling
  <2> QED BY <2>1, <2>2
<1>8. sibling \in DOMAIN entries /\ sibling # s /\ entries[sibling].parent = entries[s].parent
  <2>1. CASE up
    <3>1. sibling \in 1..(s - 1) /\ entries[sibling].parent = entries[s].parent
      BY <1>2, <2>1 DEF PrevSibling
    <3> QED BY <1>1, <1>4, <2>1, <3>1
  <2>2. CASE ~up
    <3>1. sibling \in (s + 1)..Len(entries) /\ entries[sibling].parent = entries[s].parent
      BY <1>2, <2>2 DEF NextSibling
    <3> QED BY <1>1, <1>4, <2>2, <3>1
  <2> QED BY <2>1, <2>2
<1> HIDE DEF M, s, near
\* The sibling is not of the family: their parent is above the head.
<1>9. sibling \in left
  <2>1. SUFFICES ASSUME sibling \in M PROVE FALSE
    BY <1>8
  <2>2. PICK j \in M : entries[j].id = entries[s].parent
    BY <1>5, <1>8, <2>1
  <2>3. j < s
    BY <1>1, <1>5, <2>2, ParentAbove
  <2> QED BY <1>1, <1>4, <1>5, <2>2, <2>3
<1>10. before \ M \in SUBSET left /\ IsFiniteSet(left) /\ IsFiniteSet(before \ M) /\ IsFiniteSet(M)
  <2>1. IsFiniteSet(left) /\ IsFiniteSet(before \ M) /\ IsFiniteSet(M)
    BY <1>4, <1>5, FS_Subset
  <2> QED BY <2>1
<1>11. at \in 0..Cardinality(left) /\ Cardinality(left) \in Nat /\ Cardinality(M) \in Nat \ {0}
  <2>1. Cardinality(M) \in Nat /\ Cardinality(M) # 0
    BY <1>5, <1>10, FS_CardinalityType, FS_EmptySet
  <2> QED BY <1>10, <2>1, FS_Subset, FS_CardinalityType
<1> DEFINE x == Position(left, sibling)
<1>12. x = Cardinality({y \in left : y < sibling}) /\ x \in Nat
  <2>1. IsFiniteSet({y \in left : y < sibling})
    BY <1>10, FS_Subset
  <2> QED BY <2>1, FS_CardinalityType DEF Position
<1>13. IF up THEN at = x ELSE x + 1 <= at
  <2>1. ASSUME up PROVE at = x
    <3>1. before \ M = {y \in left : y < sibling}
      BY <2>1
    <3> QED BY <1>12, <3>1
  <2>2. ASSUME ~up PROVE x + 1 <= at
    <3> DEFINE above == {y \in left : y < sibling}
    <3>1. sibling \in passed
      BY <1>1, <1>8, <1>9, SubtreeRows
    <3>2. above \cup {sibling} \in SUBSET (before \ M)
      BY <1>4, <1>9, <2>2, <3>1
    <3>3. IsFiniteSet(above) /\ sibling \notin above
      BY <1>4, <1>8, <1>10, FS_Subset
    <3>4. Cardinality(above \cup {sibling}) = Cardinality(above) + 1
      BY <3>3, FS_AddElement
    <3>5. Cardinality(above \cup {sibling}) <= at
      BY <1>10, <3>2, FS_Subset
    <3> QED BY <1>12, <3>4, <3>5
  <2> QED BY <2>1, <2>2
<1> HIDE DEF at, before, passed
<1>14. /\ IsList(entries') /\ DistinctIds(entries')
       /\ Place(entries, M, at, sibling) \in DOMAIN entries'
       /\ entries'[Place(entries, M, at, sibling)] = entries[sibling]
  <2> DEFINE after == ApplyBlockMove(entries, [block |-> InOrder(M), insertAt |-> at])
  <2>1. /\ IsList(after) /\ (DistinctIds(entries) => DistinctIds(after))
        /\ \A i \in DOMAIN entries : Place(entries, M, at, i) \in DOMAIN after /\ after[Place(entries, M, at, i)] = entries[i]
    BY <1>1, <1>5, <1>11, BlockPlaces
  <2>2. entries' = after
    BY <1>3
  <2> HIDE DEF after
  <2> QED BY <1>1, <1>8, <2>1, <2>2
<1>15. /\ FamilyMoved(entries, entries', entries[s].id, {})
       /\ entries'[at + 1] = entries[s]
  <2> DEFINE id == entries[s].id
             after == entries'
             none == {}
             lifted == ApplyBlockMove(entries, [block |-> InOrder(M), insertAt |-> at])
  <2>1. after = lifted /\ IsList(after)
    BY <1>3, <1>14
  <2>2. Family(entries, id) = {entries[k].id : k \in M}
    BY <1>6
  <2>3. none \in SUBSET {id}
    OBVIOUS
  <2>4. id = entries[s].id /\ at \in 0..Cardinality(DOMAIN entries \ M)
    BY <1>11
  <2>5. M \in SUBSET DOMAIN entries /\ s \in M /\ \A i \in M : s <= i
    BY <1>5
  <2>6. IsList(entries) /\ DistinctIds(entries)
    BY <1>1
  <2>7. lifted = ApplyBlockMove(entries, [block |-> InOrder(M), insertAt |-> at])
    OBVIOUS
  <2> HIDE DEF after, id, left, none, lifted
  <2>8. /\ DOMAIN after = DOMAIN lifted
        /\ \A k \in DOMAIN lifted : after[k].id = lifted[k].id
        /\ \A k \in DOMAIN lifted : lifted[k].id \notin none => after[k] = lifted[k]
    BY <2>1
  <2>9. FamilyLifted(entries, M, s, at, after, none)
    BY <2>1, <2>2, <2>3, <2>4, <2>5, <2>6, <2>7, <2>8 DEF FamilyLifted
  <2>10. FamilyMoved(entries, after, entries[s].id, none)
    BY <2>9, BlockMovesFamily
  <2>11. ApplyBlockMove(entries, [block |-> InOrder(M), insertAt |-> at])[at + 1] = entries[s]
    BY <2>9, BlockMovesFamily
  <2> QED BY <2>1, <2>7, <2>10, <2>11 DEF after, id, none
<1>16. Place(entries, M, at, sibling) = IF x < at THEN x + 1 ELSE x + 1 + Cardinality(M)
  BY <1>9 DEF Place
<1>17. IndexOf(entries', entries[sibling].id) = Place(entries, M, at, sibling)
  <2> DEFINE after == entries'
             place == Place(entries, M, at, sibling)
  <2>1. DistinctIds(after) /\ place \in DOMAIN after /\ after[place] = entries[sibling]
    BY <1>14
  <2> HIDE DEF after, place
  <2>2. IndexOf(after, after[place].id) = place
    BY <2>1, FoundById
  <2> QED BY <2>1, <2>2 DEF after, place
<1> HIDE DEF x
<1>18. selected' < IndexOf(entries', entries[sibling].id) <=> up
  <2> DEFINE p == IndexOf(entries', entries[sibling].id)
             b == Cardinality(M)
             c == selected'
  <2>1. p = (IF x < at THEN x + 1 ELSE x + 1 + b) /\ c = at + 1 /\ b \in Nat \ {0} /\ at \in Nat /\ x \in Nat
    BY <1>3, <1>11, <1>12, <1>16, <1>17
  <2> HIDE DEF p, b, c
  <2>2. CASE up
    <3>1. c < p
      BY <1>13, <2>1, <2>2
    <3> QED BY <2>2, <3>1 DEF c, p
  <2>3. CASE ~up
    <3>1. ~(c < p)
      BY <1>13, <2>1, <2>3
    <3> QED BY <2>3, <3>1 DEF c, p
  <2> QED BY <2>2, <2>3
<1>19. \A i \in near : selected' < IndexOf(entries', entries[i].id) <=> up
  BY <1>7, <1>18
<1> QED BY <1>3, <1>15, <1>19 DEF s, near

\* Moving a row up or down takes it past its sibling with its whole family, and
\* no other row changes its place or its parent: for any number of rows,
\* contiguous families or not.
THEOREM MovesTakeFamilies == Spec => MoveTakesFamily
<1> DEFINE Moved == \A up \in BOOLEAN : IsTree(entries) /\ MoveEntry(up) =>
          /\ FamilyMoved(entries, entries', entries[selected].id, {})
          /\ entries'[selected'] = entries[selected]
          /\ \A i \in IF up THEN PrevSibling(entries, selected) ELSE NextSibling(entries, selected) :
                selected' < IndexOf(entries', entries[i].id) <=> up
<1>1. ASSUME EditorInv, [Next]_vars PROVE [Moved]_vars
  <2>1. ListInv
    BY <1>1 DEF EditorInv
  <2>2. Moved
    BY <2>1, MoveMovesFamily
  <2> QED BY <2>2
<1> QED BY <1>1, EditorInvariant, PTL DEF Spec, MoveTakesFamily

-------------------------------------------------------------------------------
(* A drop, repaired *)

\* The list control moved the row at s to "at" and no other row: the row at i is
\* now at g[i].
Dropped(list, s, moved, at, g) ==
    /\ IsList(list) /\ IsTree(list) /\ s \in DOMAIN list /\ at \in DOMAIN list
    /\ IsList(moved) /\ DistinctIds(moved) /\ DOMAIN moved = DOMAIN list
    /\ g \in [DOMAIN list -> DOMAIN list] /\ (\A k \in DOMAIN list : \E i \in DOMAIN list : g[i] = k)
    /\ g[s] = at
    /\ \A i \in DOMAIN list : moved[g[i]] = list[i]
    /\ \A x, y \in DOMAIN list \ {s} : x < y <=> g[x] < g[y]

\* What Drop does to a tree.
LEMMA DropMoves ==
    ASSUME NEW list, IsList(list), IsTree(list), NEW s \in DOMAIN list, NEW at \in DOMAIN list
    PROVE  \E g : Dropped(list, s, ApplyBlockMove(list, [block |-> <<s>>, insertAt |-> at - 1]), at, g)
<1> DEFINE n == Len(list)
           M == {s}
           put == at - 1
           moved == ApplyBlockMove(list, [block |-> <<s>>, insertAt |-> put])
           g == [i \in DOMAIN list |-> Place(list, M, put, i)]
<1>1. n \in Nat /\ DOMAIN list = 1..n /\ s \in 1..n /\ at \in 1..n
  BY ListShape
<1>2. IsFiniteSet(M) /\ Cardinality(M) = 1 /\ M \in SUBSET Nat
  <2>1. IsFiniteSet({s}) /\ Cardinality({s}) = 1
    BY FS_Singleton
  <2> QED BY <1>1, <2>1
<1>3. InOrder(M) = <<s>>
  <2>1. InOrder(M) \in Seq(M) /\ Len(InOrder(M)) = 1 /\ \A k \in 1..1 : InOrder(M)[k] \in M
    BY <1>2, InOrderLists
  <2>2. InOrder(M)[1] = s
    BY <2>1
  <2> HIDE DEF M
  <2> QED BY <2>1, <2>2
<1>4. M \in SUBSET DOMAIN list /\ put \in 0..Cardinality(DOMAIN list \ M)
  <2>1. Cardinality((1..n) \ {s}) = n - 1
    BY <1>1, AllButOne
  <2> QED BY <1>1, <2>1
<1>5. moved = ApplyBlockMove(list, [block |-> InOrder(M), insertAt |-> put])
  BY <1>3
<1>6. DistinctIds(list)
  BY DEF IsTree
<1>7. /\ IsList(moved) /\ DistinctIds(moved)
      /\ \A i \in DOMAIN list : Place(list, M, put, i) \in DOMAIN moved /\ moved[Place(list, M, put, i)] = list[i]
      /\ \A k \in DOMAIN moved : \E i \in DOMAIN list : k = Place(list, M, put, i)
  <2> DEFINE after == ApplyBlockMove(list, [block |-> InOrder(M), insertAt |-> put])
  <2> HIDE DEF M, put
  <2>1. /\ IsList(after) /\ (DistinctIds(list) => DistinctIds(after))
        /\ \A i \in DOMAIN list : Place(list, M, put, i) \in DOMAIN after /\ after[Place(list, M, put, i)] = list[i]
        /\ \A k \in DOMAIN after : \E i \in DOMAIN list : k = Place(list, M, put, i)
    BY <1>4, BlockPlaces
  <2>2. moved = after
    BY <1>5
  <2> HIDE DEF moved, after
  <2> QED BY <1>6, <2>1, <2>2
<1>8. DOMAIN moved = DOMAIN list
  BY DroppedList
<1>9. \A x, y \in DOMAIN list \ M : x < y <=> Place(list, M, put, x) < Place(list, M, put, y)
  <2> HIDE DEF M, put
  <2> QED BY <1>4, PlaceOrder
<1>10. Place(list, M, put, s) = at
  <2>1. {y \in M : y < s} = {}
    BY <1>1
  <2>2. Position(M, s) = 0
    BY <2>1, FS_EmptySet DEF Position
  <2>3. Place(list, M, put, s) = put + 0 + 1
    BY <2>2 DEF Place
  <2> QED BY <1>1, <2>3
<1> HIDE DEF moved, put
<1>11. g \in [DOMAIN list -> DOMAIN list] /\ (\A k \in DOMAIN list : \E i \in DOMAIN list : g[i] = k)
  BY <1>7, <1>8
<1>12. g[s] = at /\ (\A i \in DOMAIN list : moved[g[i]] = list[i]) /\ \A x, y \in DOMAIN list \ {s} : x < y <=> g[x] < g[y]
  BY <1>7, <1>9, <1>10
<1> HIDE DEF g
<1>13. Dropped(list, s, moved, at, g)
  BY <1>7, <1>8, <1>11, <1>12 DEF Dropped
<1> QED BY <1>13 DEF moved, put

\* The closure by id finds the family, wherever the head was dropped: a row is
\* reached within as many rounds as it is below the head in the tree.
LEMMA DropFamily ==
    ASSUME NEW list, NEW s, NEW moved, NEW at, NEW g, Dropped(list, s, moved, at, g)
    PROVE  SubtreeIds(moved, at) = {list[k].id : k \in SubtreeMask(list, s)}
<1> DEFINE n == Len(list)
           M == SubtreeMask(list, s)
           ids == {list[k].id : k \in M}
<1>1. /\ IsList(list) /\ IsTree(list) /\ s \in DOMAIN list
      /\ IsList(moved) /\ DOMAIN moved = DOMAIN list /\ at \in DOMAIN list
      /\ g \in [DOMAIN list -> DOMAIN list] /\ (\A k \in DOMAIN list : \E i \in DOMAIN list : g[i] = k)
      /\ g[s] = at /\ (\A i \in DOMAIN list : moved[g[i]] = list[i])
  BY DEF Dropped
<1>2. n \in Nat /\ DOMAIN list = 1..n /\ Len(moved) = n
  <2>1. n \in Nat /\ DOMAIN list = 1..n /\ Cardinality(DOMAIN list) = n /\ Cardinality(DOMAIN moved) = Len(moved)
    BY <1>1, ListShape
  <2> QED BY <1>1, <2>1
<1>3. /\ M \in SUBSET DOMAIN list /\ s \in M /\ (\A i \in M : s <= i)
      /\ \A i \in DOMAIN list :
            i \in M <=> \/ i = s
                        \/ /\ i > s /\ list[i].parent # NoId
                           /\ \E j \in M : j < i /\ list[j].id = list[i].parent
  BY <1>1, SubtreeRows
<1>4. PICK f : Grows(f, moved, at, n) /\ SubtreeIds(moved, at) = f[n]
  BY <1>2, GrowsDefined
<1> HIDE DEF n, M
<1>5. \A k \in 0..n : f[k] = IF k = 0 THEN {moved[at].id} ELSE WithChildren(moved, f[k - 1])
  BY <1>4 DEF Grows
<1>6. moved[at] = list[s]
  BY <1>1
\* A round adds rows of the family only.
<1>7. \A k \in 0..n : f[k] \in SUBSET ids
  <2> DEFINE T == {k \in Nat : k \in 0..n /\ ~(f[k] \in SUBSET ids)}
  <2> SUFFICES ASSUME T # {} PROVE FALSE
    BY <1>2
  <2>1. PICK k \in T : \A y \in T : k <= y
    BY LeastNatural
  <2>2. k # 0
    BY <1>2, <1>3, <1>5, <1>6, <2>1, SMTT(90)
  <2>3. k - 1 \in 0..n /\ ~(k <= k - 1) /\ k \in 0..n /\ k - 1 \in Nat
    BY <1>2, <2>1, <2>2
  <2>4. f[k - 1] \in SUBSET ids
    BY <2>1, <2>3
  <2>5. f[k] = WithChildren(moved, f[k - 1])
    BY <1>5, <2>2, <2>3
  <2>6. ASSUME NEW i \in DOMAIN moved, moved[i].parent \in ids PROVE moved[i].id \in ids
    <3>1. PICK j \in DOMAIN list : moved[i] = list[j]
      BY <1>1
    <3>2. PICK p \in M : list[p].id = list[j].parent
      BY <2>6, <3>1
    <3>3. p < j /\ list[j].parent # NoId
      BY <1>1, <1>3, <3>2, ParentAbove
    <3>4. j > s
      BY <1>1, <1>2, <1>3, <3>2, <3>3
    <3>5. j \in M
      BY <1>3, <3>2, <3>3, <3>4
    <3> QED BY <3>1, <3>5
  <2> HIDE DEF ids
  <2> QED BY <2>1, <2>4, <2>5, <2>6 DEF WithChildren
<1>8. \A k \in 0..n : list[s].id \in f[k]
  <2> DEFINE T == {k \in Nat : k \in 0..n /\ list[s].id \notin f[k]}
  <2> SUFFICES ASSUME T # {} PROVE FALSE
    BY <1>2
  <2>1. PICK k \in T : \A y \in T : k <= y
    BY LeastNatural
  <2>2. k # 0
    BY <1>2, <1>5, <1>6, <2>1
  <2>3. k - 1 \in 0..n /\ ~(k <= k - 1) /\ k \in 0..n /\ k - 1 \in Nat
    BY <1>2, <2>1, <2>2
  <2>4. list[s].id \in f[k - 1]
    BY <2>1, <2>3
  <2>5. f[k] = WithChildren(moved, f[k - 1])
    BY <1>5, <2>2, <2>3
  <2> QED BY <2>1, <2>4, <2>5 DEF WithChildren
<1>9. \A j \in M : \A k \in 0..n : k >= j - s => list[j].id \in f[k]
  <2> DEFINE T == {j \in Nat : j \in M /\ ~\A k \in 0..n : k >= j - s => list[j].id \in f[k]}
  <2> SUFFICES ASSUME T # {} PROVE FALSE
    BY <1>2, <1>3
  <2>1. PICK j \in T : \A y \in T : j <= y
    BY LeastNatural
  <2>2. PICK k \in 0..n : k >= j - s /\ list[j].id \notin f[k]
    BY <2>1
  <2>3. j # s
    BY <1>8, <2>2
  <2>4. j \in M /\ j \in DOMAIN list /\ j > s /\ list[j].parent # NoId
    BY <1>3, <2>1, <2>3
  <2>5. PICK p \in M : p < j /\ list[p].id = list[j].parent
    BY <1>3, <2>3, <2>4
  <2>6. p \in Nat /\ j \in Nat /\ s \in Nat /\ k \in Nat /\ k # 0 /\ k - 1 \in 0..n /\ k - 1 >= p - s /\ ~(j <= p)
    <3>1. p \in DOMAIN list /\ j \in DOMAIN list /\ s \in DOMAIN list /\ s <= p
      BY <1>1, <1>3, <2>4, <2>5
    <3>3. p \in Nat /\ j \in Nat /\ s \in Nat /\ n \in Nat
      BY <1>2, <3>1
    <3>2. k \in 0..n /\ k >= j - s /\ p < j
      BY <2>2, <2>5
    <3> HIDE DEF T
    <3> QED BY <3>1, <3>2, <3>3
  <2>7. list[j].parent \in f[k - 1]
    BY <2>1, <2>5, <2>6
  <2>8. g[j] \in DOMAIN moved /\ moved[g[j]] = list[j]
    BY <1>1, <2>4
  <2>9. f[k] = WithChildren(moved, f[k - 1])
    BY <1>5, <2>6
  <2> QED BY <2>2, <2>4, <2>7, <2>8, <2>9 DEF WithChildren
<1>10. ids \in SUBSET f[n]
  <2>1. ASSUME NEW j \in M PROVE list[j].id \in f[n]
    <3>1. n \in 0..n /\ n >= j - s
      BY <1>1, <1>2, <1>3
    <3> QED BY <1>9, <3>1
  <2> QED BY <2>1
<1>11. f[n] \in SUBSET ids
  BY <1>2, <1>7
<1> QED BY <1>4, <1>10, <1>11 DEF M


\* The least member comes first, and the others follow in their order.
LEMMA LeastFirst ==
    ASSUME NEW M \in SUBSET Nat, IsFiniteSet(M), NEW s \in M, \A i \in M : s <= i
    PROVE  /\ Cardinality(M \ {s}) \in Nat /\ Cardinality(M) = Cardinality(M \ {s}) + 1
           /\ InOrder(M)[1] = s
           /\ \A k \in 1..Cardinality(M \ {s}) : InOrder(M)[k + 1] = InOrder(M \ {s})[k]
<1> DEFINE tail == M \ {s}
           c == Cardinality(tail)
<1>1. IsFiniteSet(tail) /\ c \in Nat /\ tail \in SUBSET Nat /\ Cardinality(M) \in Nat
  BY FS_Subset, FS_CardinalityType
<1>2. Cardinality(M) = c + 1
  <2>1. c = Cardinality(M) - 1
    BY FS_RemoveElement
  <2> QED BY <1>1, <2>1
<1>3. \A x \in M : InOrder(M)[Position(M, x) + 1] = x
  BY InOrderLists
<1>4. InOrder(M)[1] = s
  <2>1. \A y \in M : ~(y < s)
    OBVIOUS
  <2>2. {y \in M : y < s} = {}
    BY <2>1
  <2>3. Position(M, s) = 0
    BY <2>2, FS_EmptySet DEF Position
  <2>4. InOrder(M)[0 + 1] = s
    BY <1>3, <2>3
  <2> QED BY <2>4
<1>5. ASSUME NEW k \in 1..c PROVE InOrder(M)[k + 1] = InOrder(tail)[k]
  <2> DEFINE x == InOrder(tail)[k]
  <2>1. x \in tail /\ Position(tail, x) = k - 1
    BY <1>1, InOrderLists
  <2> HIDE DEF x
  <2> DEFINE below == {y \in tail : y < x}
  <2>2. {y \in M : y < x} = below \cup {s} /\ s \notin below
    <3>1. s < x
      BY <2>1
    <3> QED BY <3>1
  <2>3. IsFiniteSet(below) /\ Cardinality(below) = k - 1
    BY <1>1, <2>1, FS_Subset DEF Position
  <2>4. Cardinality(below \cup {s}) = Cardinality(below) + 1
    BY <2>2, <2>3, FS_AddElement
  <2>5. Position(M, x) = k
    <3> HIDE DEF below
    <3>1. Position(M, x) = (k - 1) + 1
      BY <2>2, <2>3, <2>4 DEF Position
    <3> QED BY <1>1, <3>1
  <2> QED BY <1>3, <2>1, <2>5 DEF x
<1> QED BY <1>1, <1>2, <1>4, <1>5

\* The family in the dropped list, and the rows around it, are in the order they
\* had.
RunsKept(list, s, moved, at, g) ==
    LET M == SubtreeMask(list, s)
        left == DOMAIN list \ M
        family == FamilyRows(moved, at)
        outside == DOMAIN moved \ family
    IN  /\ at \in family /\ family \in SUBSET DOMAIN list
        /\ Cardinality(outside) = Cardinality(left)
        /\ \A k \in 1..Cardinality(left) : InOrder(outside)[k] = g[InOrder(left)[k]]
        /\ Cardinality(family \ {at}) = Cardinality(M \ {s})
        /\ \A k \in 1..Cardinality(M \ {s}) : InOrder(family \ {at})[k] = g[InOrder(M \ {s})[k]]
        /\ Keep(moved, outside) = Keep(list, left)

\* A drop, and the closure by id, leave these runs as they were.
LEMMA RepairRuns ==
    ASSUME NEW list, NEW s, NEW moved, NEW at, NEW g, Dropped(list, s, moved, at, g)
    PROVE  RunsKept(list, s, moved, at, g)
<1> DEFINE M == SubtreeMask(list, s)
           left == DOMAIN list \ M
           tail == M \ {s}
           family == FamilyRows(moved, at)
           outside == DOMAIN moved \ family
           behind == family \ {at}
<1>1. /\ IsList(list) /\ IsTree(list) /\ s \in DOMAIN list
      /\ IsList(moved) /\ DistinctIds(moved) /\ DOMAIN moved = DOMAIN list /\ at \in DOMAIN list
      /\ g \in [DOMAIN list -> DOMAIN list] /\ (\A k \in DOMAIN list : \E i \in DOMAIN list : g[i] = k)
      /\ g[s] = at /\ (\A i \in DOMAIN list : moved[g[i]] = list[i])
      /\ \A x, y \in DOMAIN list \ {s} : x < y <=> g[x] < g[y]
  BY DEF Dropped
<1>2. DOMAIN list \in SUBSET Nat /\ IsFiniteSet(DOMAIN list) /\ DistinctIds(list)
  BY <1>1, ListShape DEF IsTree
<1>3. M \in SUBSET DOMAIN list /\ s \in M
  BY <1>1, SubtreeRows
<1>4. SubtreeIds(moved, at) = {list[k].id : k \in M}
  BY DropFamily
<1> HIDE DEF M
<1>5. \A i \in DOMAIN list : g[i] \in family <=> i \in M
  <2> SUFFICES ASSUME NEW i \in DOMAIN list PROVE g[i] \in family <=> i \in M
    OBVIOUS
  <2>1. moved[g[i]] = list[i] /\ g[i] \in DOMAIN moved
    BY <1>1
  <2>2. list[i].id \in {list[k].id : k \in M} <=> i \in M
    BY <1>2, <1>3 DEF DistinctIds
  <2> QED BY <1>4, <2>1, <2>2 DEF FamilyRows
<1>6. \A x, y \in DOMAIN list : g[x] = g[y] => x = y
  <2> SUFFICES ASSUME NEW x \in DOMAIN list, NEW y \in DOMAIN list, g[x] = g[y] PROVE x = y
    OBVIOUS
  <2>1. list[x] = list[y]
    BY <1>1
  <2> QED BY <1>2, <2>1 DEF DistinctIds
<1>7. at \in family /\ family \in SUBSET DOMAIN list
  <2>1. at \in family
    BY <1>1, <1>3, <1>5
  <2> QED BY <1>1, <2>1 DEF FamilyRows
<1> HIDE DEF family
<1> DEFINE out == [i \in left |-> g[i]]
           in == [i \in tail |-> g[i]]
<1>8. /\ left \in SUBSET Nat /\ tail \in SUBSET Nat /\ outside \in SUBSET Nat /\ behind \in SUBSET Nat
      /\ IsFiniteSet(left) /\ IsFiniteSet(tail) /\ IsFiniteSet(outside) /\ IsFiniteSet(behind)
  <2>1. IsFiniteSet(left) /\ IsFiniteSet(tail) /\ IsFiniteSet(outside) /\ IsFiniteSet(behind)
    BY <1>1, <1>2, <1>3, <1>7, FS_Subset
  <2> QED BY <1>1, <1>2, <1>3, <1>7, <2>1
<1>9. /\ out \in [left -> outside] /\ (\A y \in outside : \E x \in left : out[x] = y)
      /\ \A x, y \in left : x < y <=> out[x] < out[y]
      /\ \A x \in left : moved[out[x]] = list[x]
  <2>1. out \in [left -> outside]
    BY <1>1, <1>5
  <2>2. ASSUME NEW y \in outside PROVE \E x \in left : out[x] = y
    <3>1. PICK x \in DOMAIN list : g[x] = y
      BY <1>1
    <3>2. x \in left
      BY <1>5, <3>1
    <3> QED BY <3>1, <3>2
  <2>3. left \in SUBSET (DOMAIN list \ {s})
    BY <1>3
  <2> QED BY <1>1, <2>1, <2>2, <2>3
<1>10. /\ in \in [tail -> behind] /\ (\A y \in behind : \E x \in tail : in[x] = y)
       /\ \A x, y \in tail : x < y <=> in[x] < in[y]
  <2>1. in \in [tail -> behind]
    BY <1>1, <1>3, <1>5, <1>6
  <2>2. ASSUME NEW y \in behind PROVE \E x \in tail : in[x] = y
    <3>1. PICK x \in DOMAIN list : g[x] = y
      BY <1>1, <1>7
    <3>2. x \in tail
      BY <1>1, <1>5, <3>1
    <3> QED BY <3>1, <3>2
  <2>3. tail \in SUBSET (DOMAIN list \ {s})
    BY <1>3
  <2> QED BY <1>1, <2>1, <2>2, <2>3
<1>11. \A x : (x \in left => out[x] = g[x]) /\ (x \in tail => in[x] = g[x])
  OBVIOUS
<1>12. left \in SUBSET DOMAIN list /\ outside \in SUBSET DOMAIN moved
  BY <1>1
<1> HIDE DEF out, in, left, tail, outside, behind
<1>13. Cardinality(left) = Cardinality(outside) /\ \A k \in 1..Cardinality(left) : InOrder(outside)[k] = out[InOrder(left)[k]]
  BY <1>8, <1>9, SameRun
<1>14. Cardinality(tail) = Cardinality(behind) /\ \A k \in 1..Cardinality(tail) : InOrder(behind)[k] = in[InOrder(tail)[k]]
  BY <1>8, <1>10, SameRun
<1>15. \A k \in 1..Cardinality(left) : InOrder(left)[k] \in left
  BY <1>8, InOrderLists
<1>16. \A k \in 1..Cardinality(tail) : InOrder(tail)[k] \in tail
  BY <1>8, InOrderLists
<1>17. Keep(moved, outside) = Keep(list, left)
  BY <1>1, <1>9, <1>12, SameRows
<1>18. \A k \in 1..Cardinality(left) : InOrder(outside)[k] = g[InOrder(left)[k]]
  BY <1>11, <1>13, <1>15
<1>19. \A k \in 1..Cardinality(tail) : InOrder(behind)[k] = g[InOrder(tail)[k]]
  BY <1>11, <1>14, <1>16
<1> QED BY <1>7, <1>13, <1>14, <1>17, <1>18, <1>19 DEF RunsKept, M, left, tail, family, outside, behind


\* The repair of a drop, seen from the list before the drag: the family is lifted
\* as one block, and its head gets another parent.
RepairedAsLift(list, s, moved, at, oldDepth) ==
    LET M == SubtreeMask(list, s)
        fix == NormalizeAfterDrag(moved, at, oldDepth)
        put == fix.move.insertAt
        lifted == ApplyBlockMove(list, [block |-> InOrder(M), insertAt |-> put])
    IN  /\ put \in 0..Cardinality(DOMAIN list \ M) /\ put + 1 \in DOMAIN lifted
        /\ ApplyBlockMove(Reparented(moved, at, fix.headParent), fix.move) = Reparented(lifted, put + 1, fix.headParent)

\* Row by row, the repair is that lift.
LEMMA RepairLifts ==
    ASSUME NEW list, NEW s, NEW moved, NEW at, NEW g, Dropped(list, s, moved, at, g), NEW oldDepth
    PROVE  RepairedAsLift(list, s, moved, at, oldDepth)
<1> DEFINE M == SubtreeMask(list, s)
           left == DOMAIN list \ M
           tail == M \ {s}
           family == FamilyRows(moved, at)
           outside == DOMAIN moved \ family
           behind == family \ {at}
           fix == NormalizeAfterDrag(moved, at, oldDepth)
           move == fix.move
           v == fix.headParent
           put == move.insertAt
           lift == [block |-> InOrder(M), insertAt |-> put]
           lifted == ApplyBlockMove(list, lift)
           marked == Reparented(moved, at, v)
           result == ApplyBlockMove(marked, move)
           m == Cardinality(left)
           c == Cardinality(tail)
<1>1. /\ IsList(list) /\ IsTree(list) /\ s \in DOMAIN list
      /\ IsList(moved) /\ DOMAIN moved = DOMAIN list /\ at \in DOMAIN moved
      /\ g \in [DOMAIN list -> DOMAIN list] /\ g[s] = at /\ (\A i \in DOMAIN list : moved[g[i]] = list[i])
  BY DEF Dropped
<1>2. DOMAIN list \in SUBSET Nat /\ IsFiniteSet(DOMAIN list)
  BY <1>1, ListShape
<1>3. M \in SUBSET DOMAIN list /\ s \in M /\ \A i \in M : s <= i
  BY <1>1, SubtreeRows
<1>4. /\ at \in family /\ family \in SUBSET DOMAIN list
      /\ Cardinality(outside) = m
      /\ \A k \in 1..m : InOrder(outside)[k] = g[InOrder(left)[k]]
      /\ Cardinality(behind) = c
      /\ \A k \in 1..c : InOrder(behind)[k] = g[InOrder(tail)[k]]
  <2>1. RunsKept(list, s, moved, at, g)
    BY RepairRuns
  <2> QED BY <2>1 DEF RunsKept
<1>5. /\ IsMove(moved, move) /\ Lifted(move) = family /\ move.block = <<at>> \o InOrder(behind)
  BY <1>1, DragMove
<1> HIDE DEF M, family, fix, move, put
<1>6. /\ left \in SUBSET Nat /\ tail \in SUBSET Nat /\ M \in SUBSET Nat /\ behind \in SUBSET Nat
      /\ IsFiniteSet(left) /\ IsFiniteSet(tail) /\ IsFiniteSet(M) /\ IsFiniteSet(behind)
  <2>1. IsFiniteSet(left) /\ IsFiniteSet(tail) /\ IsFiniteSet(M) /\ IsFiniteSet(behind)
    BY <1>2, <1>3, <1>4, FS_Subset
  <2> QED BY <1>2, <1>3, <1>4, <2>1
<1>7. /\ c \in Nat /\ Cardinality(M) = c + 1 /\ InOrder(M)[1] = s
      /\ \A k \in 1..c : InOrder(M)[k + 1] = InOrder(tail)[k]
  BY <1>3, <1>6, LeastFirst
<1>8. m \in Nat /\ (\A k \in 1..m : InOrder(left)[k] \in left) /\ (\A k \in 1..c : InOrder(tail)[k] \in tail)
  BY <1>6, InOrderLists
<1>9. InOrder(M) \in Seq(M) /\ Len(InOrder(M)) = c + 1 /\ \A x \in M : Position(M, x) + 1 \in 1..(c + 1) /\ InOrder(M)[Position(M, x) + 1] = x
  BY <1>6, <1>7, InOrderLists
<1>10. InOrder(behind) \in Seq(behind) /\ Len(InOrder(behind)) = c /\ \A k \in 1..c : InOrder(behind)[k] \in behind
  BY <1>4, <1>6, InOrderLists
<1>11. /\ Len(move.block) = c + 1 /\ move.block[1] = at /\ \A k \in 1..c : move.block[k + 1] = InOrder(behind)[k]
  <2> DEFINE order == InOrder(behind)
             head == <<at>>
  <2>1. order \in Seq(behind) /\ Len(order) = c
    BY <1>10
  <2>2. head \in Seq({at}) /\ Len(head) = 1 /\ head[1] = at
    OBVIOUS
  <2> HIDE DEF order, behind, c, head
  <2>3. order \in Seq({at} \cup behind) /\ head \in Seq({at} \cup behind)
    BY <2>1, <2>2
  <2>4. /\ Len(head \o order) = Len(head) + Len(order)
        /\ \A i \in 1..(Len(head) + Len(order)) : (head \o order)[i] = IF i <= Len(head) THEN head[i] ELSE order[i - Len(head)]
    BY <2>3, ConcatProperties
  <2>5. move.block = head \o order
    BY <1>5 DEF head, order
  <2>6. Len(move.block) = 1 + c /\ \A i \in 1..(1 + c) : move.block[i] = IF i <= 1 THEN head[i] ELSE order[i - 1]
    BY <2>1, <2>2, <2>4, <2>5
  <2>7. move.block[1] = at
    BY <1>7, <2>2, <2>6
  <2>8. ASSUME NEW k \in 1..c PROVE move.block[k + 1] = order[k]
    <3>1. k + 1 \in 1..(1 + c) /\ ~(k + 1 <= 1) /\ (k + 1) - 1 = k
      BY <1>7
    <3> QED BY <2>6, <3>1
  <2>9. Len(move.block) = c + 1
    BY <1>7, <2>6
  <2> QED BY <2>7, <2>8, <2>9 DEF order
\* The rows of the dropped list, the head under its new parent.
<1>12. /\ IsList(marked) /\ DOMAIN marked = DOMAIN moved
       /\ marked[at] = [moved[at] EXCEPT !.parent = v]
       /\ \A k \in DOMAIN moved : k # at => marked[k] = moved[k]
  <2>1. IsList(marked) /\ DOMAIN marked = DOMAIN moved
    BY <1>1, ReparentsRow
  <2> HIDE DEF v
  <2> QED BY <1>1, <2>1 DEF Reparented
<1> HIDE DEF marked, v
<1>13. IsMove(marked, move) /\ Left(marked, move) = outside /\ put = move.insertAt
  BY <1>5, <1>12 DEF IsMove, Left, put
<1>14. /\ IsList(result) /\ Len(result) = m + (c + 1)
       /\ \A k \in 1..put : result[k] = marked[InOrder(outside)[k]]
       /\ \A k \in 1..(c + 1) : result[put + k] = marked[move.block[k]]
       /\ \A k \in (put + 1)..m : result[k + (c + 1)] = marked[InOrder(outside)[k]]
  <2> DEFINE o == outside
  <2>1. /\ IsList(result) /\ Len(result) = Cardinality(Left(marked, move)) + Len(move.block)
        /\ \A k \in 1..move.insertAt : result[k] = marked[InOrder(Left(marked, move))[k]]
        /\ \A k \in 1..Len(move.block) : result[move.insertAt + k] = marked[move.block[k]]
        /\ \A k \in (move.insertAt + 1)..Cardinality(Left(marked, move)) :
              result[k + Len(move.block)] = marked[InOrder(Left(marked, move))[k]]
    <3>1. IsList(marked) /\ IsMove(marked, move)
      BY <1>12, <1>13
    <3> QED BY <3>1, MovesRows
  <2>2. Left(marked, move) = o /\ put = move.insertAt /\ Cardinality(o) = m /\ Len(move.block) = c + 1
    BY <1>4, <1>11, <1>13
  <2> HIDE DEF o, result, m, c
  <2>3. /\ IsList(result) /\ Len(result) = m + (c + 1)
        /\ \A k \in 1..put : result[k] = marked[InOrder(o)[k]]
        /\ \A k \in 1..(c + 1) : result[put + k] = marked[move.block[k]]
        /\ \A k \in (put + 1)..m : result[k + (c + 1)] = marked[InOrder(o)[k]]
    BY <2>1, <2>2
  <2> QED BY <2>3 DEF o
<1>15. put \in 0..m
  BY <1>4, <1>13 DEF IsMove
<1>16. /\ IsMove(list, lift) /\ Left(list, lift) = left /\ lift.block = InOrder(M) /\ lift.insertAt = put
  <2>1. lift.block = InOrder(M) /\ lift.insertAt = put
    OBVIOUS
  <2>2. DOMAIN InOrder(M) = 1..(c + 1) /\ \A k \in 1..(c + 1) : InOrder(M)[k] \in M
    BY <1>9
  <2>3. Lifted(lift) = M
    BY <1>9, <2>1, <2>2 DEF Lifted
  <2>4. InOrder(M) \in Seq(DOMAIN list)
    BY <1>3, <1>9
  <2> QED BY <1>15, <2>1, <2>3, <2>4 DEF IsMove, Left
<1> HIDE DEF lift
<1>17. /\ IsList(lifted) /\ Len(lifted) = m + (c + 1)
       /\ \A k \in 1..put : lifted[k] = list[InOrder(left)[k]]
       /\ \A k \in 1..(c + 1) : lifted[put + k] = list[InOrder(M)[k]]
       /\ \A k \in (put + 1)..m : lifted[k + (c + 1)] = list[InOrder(left)[k]]
  <2> DEFINE o == left
  <2>1. /\ IsList(lifted) /\ Len(lifted) = Cardinality(Left(list, lift)) + Len(lift.block)
        /\ \A k \in 1..lift.insertAt : lifted[k] = list[InOrder(Left(list, lift))[k]]
        /\ \A k \in 1..Len(lift.block) : lifted[lift.insertAt + k] = list[lift.block[k]]
        /\ \A k \in (lift.insertAt + 1)..Cardinality(Left(list, lift)) :
              lifted[k + Len(lift.block)] = list[InOrder(Left(list, lift))[k]]
    <3>1. IsList(list) /\ IsMove(list, lift)
      BY <1>1, <1>16
    <3> QED BY <3>1, MovesRows
  <2>2. Left(list, lift) = o /\ lift.block = InOrder(M) /\ put = lift.insertAt /\ Cardinality(o) = m /\ Len(lift.block) = c + 1
    BY <1>9, <1>16
  <2> HIDE DEF o, lifted, m, c
  <2>3. /\ IsList(lifted) /\ Len(lifted) = m + (c + 1)
        /\ \A k \in 1..put : lifted[k] = list[InOrder(o)[k]]
        /\ \A k \in 1..(c + 1) : lifted[put + k] = list[InOrder(M)[k]]
        /\ \A k \in (put + 1)..m : lifted[k + (c + 1)] = list[InOrder(o)[k]]
    BY <2>1, <2>2
  <2> QED BY <2>3 DEF o
<1> DEFINE n == m + (c + 1)
           wanted == Reparented(lifted, put + 1, v)
<1>18. DOMAIN lifted = 1..n /\ DOMAIN result = 1..n /\ put + 1 \in 1..n /\ n \in Nat
  <2>1. DOMAIN lifted = 1..Len(lifted) /\ DOMAIN result = 1..Len(result)
    BY <1>14, <1>17, ListShape
  <2> HIDE DEF lifted, result, m, c
  <2> QED BY <1>7, <1>8, <1>14, <1>15, <1>17, <2>1
<1>19. /\ IsList(wanted) /\ DOMAIN wanted = DOMAIN lifted
       /\ wanted[put + 1] = [lifted[put + 1] EXCEPT !.parent = v]
       /\ \A k \in DOMAIN lifted : k # put + 1 => wanted[k] = lifted[k]
  <2>1. IsList(lifted) /\ put + 1 \in DOMAIN lifted
    BY <1>17, <1>18
  <2> HIDE DEF lifted
  <2>2. IsList(wanted) /\ DOMAIN wanted = DOMAIN lifted
    BY <2>1, ReparentsRow
  <2> QED BY <2>1, <2>2 DEF Reparented
\* The rows around the family.
<1>20. ASSUME NEW k \in 1..m PROVE marked[InOrder(outside)[k]] = list[InOrder(left)[k]]
  <2>1. InOrder(outside)[k] = g[InOrder(left)[k]] /\ InOrder(left)[k] \in left
    BY <1>4, <1>8
  <2>2. outside \in SUBSET Nat /\ IsFiniteSet(outside)
    BY <1>1, <1>2, FS_Subset
  <2>3. InOrder(outside)[k] \in outside
    BY <1>4, <2>2, InOrderLists
  <2>4. InOrder(outside)[k] # at /\ InOrder(outside)[k] \in DOMAIN moved
    BY <1>4, <2>3
  <2> QED BY <1>1, <1>12, <2>1, <2>4
\* The rows of the family.
<1>21. ASSUME NEW k \in 1..c PROVE marked[move.block[k + 1]] = list[InOrder(M)[k + 1]]
  <2>1. move.block[k + 1] = InOrder(behind)[k] /\ InOrder(behind)[k] = g[InOrder(tail)[k]] /\ InOrder(behind)[k] \in behind
    BY <1>4, <1>10, <1>11
  <2>2. InOrder(M)[k + 1] = InOrder(tail)[k] /\ InOrder(tail)[k] \in DOMAIN list
    BY <1>3, <1>7, <1>8
  <2>3. InOrder(behind)[k] # at /\ InOrder(behind)[k] \in DOMAIN moved
    BY <1>1, <1>4, <2>1
  <2> QED BY <1>1, <1>12, <2>1, <2>2, <2>3
<1> HIDE DEF lifted, result, wanted, m, c, outside, left, tail, behind
<1>22. ASSUME NEW k \in 1..n PROVE result[k] = wanted[k]
  <2>1. CASE k <= put
    <3>1. k \in 1..put /\ k \in 1..m /\ k # put + 1
      BY <1>8, <1>15, <2>1
    <3> QED BY <1>14, <1>17, <1>18, <1>19, <1>20, <3>1
  <2>2. CASE k = put + 1
    <3>1. 1 \in 1..(c + 1)
      BY <1>7
    <3>2. result[put + 1] = marked[at] /\ lifted[put + 1] = list[s]
      BY <1>7, <1>11, <1>14, <1>17, <3>1
    <3>3. moved[at] = list[s]
      BY <1>1
    <3> QED BY <1>12, <1>19, <2>2, <3>2, <3>3
  <2>3. CASE put + 1 < k /\ k <= put + (c + 1)
    <3> DEFINE j == k - put - 1
    <3>1. j \in 1..c /\ j + 1 \in 1..(c + 1) /\ put + (j + 1) = k /\ k # put + 1
      BY <1>7, <1>15, <2>3
    <3> HIDE DEF j
    <3>2. result[k] = marked[move.block[j + 1]] /\ lifted[k] = list[InOrder(M)[j + 1]]
      BY <1>14, <1>17, <3>1
    <3> QED BY <1>18, <1>19, <1>21, <3>1, <3>2
  <2>4. CASE put + (c + 1) < k
    <3> DEFINE j == k - (c + 1)
    <3>1. j \in (put + 1)..m /\ j \in 1..m /\ j + (c + 1) = k /\ k # put + 1
      BY <1>7, <1>8, <1>15, <2>4
    <3> HIDE DEF j
    <3>2. result[k] = marked[InOrder(outside)[j]] /\ lifted[k] = list[InOrder(left)[j]]
      BY <1>14, <1>17, <3>1
    <3> QED BY <1>18, <1>19, <1>20, <3>1, <3>2
  <2>5. k \in Nat /\ put \in Nat /\ c \in Nat
    BY <1>7, <1>8, <1>15
  <2> QED BY <2>1, <2>2, <2>3, <2>4, <2>5
<1>23. result = wanted
  <2>1. DOMAIN wanted = 1..n /\ DOMAIN result = 1..n
    BY <1>18, <1>19
  <2>2. (\E S : result \in Seq(S)) /\ (\E S : wanted \in Seq(S))
    BY <1>14, <1>19 DEF IsList
  <2>3. \A k \in 1..n : result[k] = wanted[k]
    BY <1>22
  <2>4. PICK S : result \in Seq(S)
    BY <2>2
  <2>5. PICK T : wanted \in Seq(T)
    BY <2>2
  <2>6. result = [k \in 1..n |-> result[k]] /\ wanted = [k \in 1..n |-> wanted[k]]
    BY <2>1, <2>4, <2>5
  <2> HIDE DEF n
  <2> QED BY <2>3, <2>6
<1>24. put + 1 \in DOMAIN lifted
  BY <1>18
<1> QED BY <1>15, <1>23, <1>24 DEF RepairedAsLift, result, wanted, marked, lifted, lift, m, left, M, put, move, v, fix


\* In a tree a row that is not a root has its parent above it, a session.
LEMMA ParentRow ==
    ASSUME NEW list, IsList(list), IsTree(list), NEW i \in DOMAIN list, Depths(list)[i] > 0
    PROVE  LET p == First({j \in DOMAIN list : list[j].id = list[i].parent})
           IN  p \in DOMAIN list /\ p < i /\ ~list[p].separator
<1> DEFINE P == {j \in DOMAIN list : list[j].id = list[i].parent}
<1>1. DOMAIN list \in SUBSET Nat /\ DistinctIds(list)
  BY ListShape DEF IsTree
<1>2. Depths(list)[i] = DepthOf(list, i, Depths(list))
  BY DepthRows
<1>3. list[i].parent # NoId
  BY <1>2 DEF DepthOf
<1>4. HasParent(list, i)
  BY <1>1, TreeRows
<1>5. PICK p \in DOMAIN list : p < i /\ list[p].id = list[i].parent /\ ~list[p].separator
  BY <1>3, <1>4 DEF HasParent
<1>6. P = {p}
  BY <1>1, <1>5 DEF DistinctIds
<1>7. First(P) = p
  <2>1. p \in Nat
    BY <1>1
  <2> QED BY <1>6, <2>1 DEF First
<1> HIDE DEF P
<1> QED BY <1>5, <1>7 DEF P

\* NormalizeAfterDrag climbs from a row to its ancestor above a level.
Climb(list, level, i, f) ==
    IF Depths(list)[i] =< level - 1 THEN i
    ELSE f[First({j \in DOMAIN list : list[j].id = list[i].parent})]

Climbs(f, list, level, n) == f = [i \in 1..n |-> Climb(list, level, i, f)]

\* The climb of n rows extends to the next row.
LEMMA ClimbsNext ==
    ASSUME NEW list, IsList(list), IsTree(list), NEW level \in Nat \ {0}, NEW n \in Nat, n + 1 \in DOMAIN list,
           NEW g, Climbs(g, list, level, n)
    PROVE  \E h : Climbs(h, list, level, n + 1)
<1> DEFINE h == [i \in 1..(n + 1) |-> IF i = n + 1 THEN Climb(list, level, n + 1, g) ELSE g[i]]
           up(i) == First({j \in DOMAIN list : list[j].id = list[i].parent})
<1>1. ASSUME NEW i \in 1..(n + 1) PROVE h[i] = Climb(list, level, i, h)
  <2>1. h[i] = Climb(list, level, i, g)
    <3>1. CASE i = n + 1
      BY <3>1
    <3>2. CASE i # n + 1
      <4>1. i \in 1..n
        BY <3>2
      <4>2. h[i] = g[i]
        BY <3>2
      <4> HIDE DEF h
      <4> QED BY <4>1, <4>2 DEF Climbs
    <3> QED BY <3>1, <3>2
  <2>2. i \in DOMAIN list
    <3>1. DOMAIN list = 1..Len(list) /\ Len(list) \in Nat
      BY ListShape
    <3> QED BY <3>1
  <2>3. ASSUME ~(Depths(list)[i] =< level - 1) PROVE h[up(i)] = g[up(i)]
    <3>1. Depths(list)[i] \in Nat
      BY <2>2, DepthRows
    <3>2. Depths(list)[i] > 0
      BY <2>3, <3>1
    <3>3. up(i) \in DOMAIN list /\ up(i) < i /\ DOMAIN list = 1..Len(list) /\ Len(list) \in Nat
      BY <2>2, <3>2, ParentRow, ListShape
    <3> HIDE DEF up
    <3>4. up(i) \in 1..(n + 1) /\ up(i) # n + 1
      BY <3>3
    <3> QED BY <3>4
  <2> HIDE DEF h
  <2> QED BY <2>1, <2>3 DEF Climb
<1>2. h = [i \in 1..(n + 1) |-> h[i]]
  OBVIOUS
<1> HIDE DEF h
<1>3. Climbs(h, list, level, n + 1)
  BY <1>1, <1>2 DEF Climbs
<1> QED BY <1>3

\* The climb is well defined in a tree.
LEMMA ClimbDefined ==
    ASSUME NEW list, IsList(list), IsTree(list), NEW level \in Nat \ {0}
    PROVE  \E g : g = [i \in DOMAIN list |-> Climb(list, level, i, g)]
<1> DEFINE m == Len(list)
           T == {k \in Nat : k <= m /\ ~\E g : Climbs(g, list, level, k)}
<1>1. m \in Nat /\ DOMAIN list = 1..m
  BY ListShape
<1> HIDE DEF m
<1>2. T = {}
  <2> SUFFICES ASSUME T # {} PROVE FALSE
    OBVIOUS
  <2>1. PICK k \in T : \A y \in T : k <= y
    BY LeastNatural
  <2>2. CASE k = 0
    <3> DEFINE g == [i \in 1..0 |-> 0]
    <3>1. Climbs(g, list, level, 0)
      BY DEF Climbs
    <3> QED BY <2>1, <2>2, <3>1
  <2>3. CASE k # 0
    <3>1. k - 1 \in Nat /\ ~(k <= k - 1) /\ (k - 1) + 1 = k /\ k - 1 <= m /\ (k - 1) + 1 \in DOMAIN list
      BY <1>1, <2>1, <2>3
    <3>2. PICK g : Climbs(g, list, level, k - 1)
      BY <2>1, <3>1
    <3>3. \E h : Climbs(h, list, level, (k - 1) + 1)
      BY <3>1, <3>2, ClimbsNext
    <3> QED BY <2>1, <3>1, <3>3
  <2> QED BY <2>2, <2>3
<1>3. \E g : Climbs(g, list, level, m)
  <2>1. m \notin T /\ m <= m
    BY <1>1, <1>2
  <2> QED BY <1>1, <2>1
<1> QED BY <1>1, <1>3 DEF Climbs

\* From a row that is deep enough the climb ends at a session above it.
LEMMA ClimbEnds ==
    ASSUME NEW list, IsList(list), IsTree(list), NEW level \in Nat \ {0},
           NEW f, f = [i \in DOMAIN list |-> Climb(list, level, i, f)],
           NEW i \in DOMAIN list, Depths(list)[i] > level - 1
    PROVE  f[i] \in DOMAIN list /\ f[i] < i /\ ~list[f[i]].separator
<1> DEFINE Ends(k) == f[k] \in DOMAIN list /\ f[k] < k /\ ~list[f[k]].separator
           T == {k \in Nat : k \in DOMAIN list /\ Depths(list)[k] > level - 1 /\ ~Ends(k)}
           up(k) == First({j \in DOMAIN list : list[j].id = list[k].parent})
<1>1. DOMAIN list \in SUBSET Nat
  BY ListShape
<1>2. SUFFICES ASSUME T # {} PROVE FALSE
  BY <1>1
<1>3. PICK k \in T : \A y \in T : k <= y
  <2>1. T \in SUBSET Nat
    OBVIOUS
  <2> HIDE DEF T
  <2> QED BY <1>2, <2>1, LeastNatural
<1>4. k \in DOMAIN list /\ Depths(list)[k] \in Nat /\ Depths(list)[k] > 0 /\ ~(Depths(list)[k] <= level - 1)
  BY <1>3, DepthRows
<1>5. f[k] = Climb(list, level, k, f)
  BY <1>4
<1>6. f[k] = f[up(k)]
  BY <1>4, <1>5 DEF Climb
<1>7. up(k) \in DOMAIN list /\ up(k) < k /\ ~list[up(k)].separator
  BY <1>4, ParentRow
<1> DEFINE p == up(k)
<1> HIDE DEF up
<1>8. p \in Nat /\ k \in Nat /\ ~(k <= p) /\ Depths(list)[p] \in Nat
  BY <1>1, <1>4, <1>7, DepthRows
<1>9. CASE Depths(list)[p] <= level - 1
  <2>1. f[p] = p
    BY <1>7, <1>9 DEF Climb
  <2> QED BY <1>3, <1>6, <1>7, <2>1
<1>10. CASE ~(Depths(list)[p] <= level - 1)
  <2>1. Depths(list)[p] > level - 1
    BY <1>8, <1>10
  <2>2. Ends(p)
    BY <1>3, <1>7, <1>8, <2>1
  <2>3. f[p] \in Nat
    BY <1>1, <2>2
  <2>4. f[k] < k
    BY <1>6, <1>7, <1>8, <2>2, <2>3
  <2> QED BY <1>3, <1>6, <2>2, <2>4
<1> QED BY <1>9, <1>10


\* Where the head lands among the rows around the family: its depth, and its
\* parent there.
NewLevel(rest, anchor, oldDepth) ==
    LET depth == Depths(rest)
        maxDepth == IF anchor = 0 THEN 0 ELSE depth[anchor] + 1
        below == IF anchor < Len(rest) THEN depth[anchor + 1] ELSE 0
        clamped == LandingDepth(oldDepth, below, maxDepth)
    IN  IF anchor # 0 /\ clamped = maxDepth /\ rest[anchor].separator THEN depth[anchor] ELSE clamped

LandingParent(rest, anchor, oldDepth) ==
    LET level == NewLevel(rest, anchor, oldDepth)
        ancestor == CHOOSE g : g = [i \in DOMAIN rest |-> Climb(rest, level, i, g)]
    IN  IF level > 0 THEN rest[ancestor[anchor]].id ELSE NoId

\* The head is at most one level below the row above it, and not below a separator.
LEMMA LevelFits ==
    ASSUME NEW rest, IsList(rest), NEW anchor \in 0..Len(rest), NEW oldDepth \in Nat
    PROVE  LET level == NewLevel(rest, anchor, oldDepth)
           IN  /\ level \in Nat
               /\ anchor = 0 => level = 0
               /\ anchor # 0 => /\ anchor \in DOMAIN rest /\ level <= Depths(rest)[anchor] + 1
                                /\ level = Depths(rest)[anchor] + 1 => ~rest[anchor].separator
<1> DEFINE depth == Depths(rest)
           maxDepth == IF anchor = 0 THEN 0 ELSE depth[anchor] + 1
           below == IF anchor < Len(rest) THEN depth[anchor + 1] ELSE 0
           clamped == LandingDepth(oldDepth, below, maxDepth)
           level == NewLevel(rest, anchor, oldDepth)
<1>1. Len(rest) \in Nat /\ DOMAIN rest = 1..Len(rest) /\ \A i \in DOMAIN rest : depth[i] \in Nat
  BY ListShape, DepthRows
<1> HIDE DEF depth
<1>2. maxDepth \in Nat /\ below \in Nat
  <2>1. anchor # 0 => anchor \in DOMAIN rest
    BY <1>1
  <2>2. anchor < Len(rest) => anchor + 1 \in DOMAIN rest
    BY <1>1
  <2> QED BY <1>1, <2>1, <2>2
<1>3. level = IF anchor # 0 /\ clamped = maxDepth /\ rest[anchor].separator THEN depth[anchor] ELSE clamped
  BY DEF NewLevel, depth
<1>4. anchor = 0 => maxDepth = 0
  OBVIOUS
<1>5. anchor # 0 => anchor \in DOMAIN rest /\ depth[anchor] \in Nat /\ maxDepth = depth[anchor] + 1
  BY <1>1
<1> HIDE DEF maxDepth, below
<1>6. clamped \in Nat /\ clamped <= maxDepth
  BY <1>2 DEF LandingDepth, Clamp
<1> HIDE DEF clamped, level
<1>7. level \in Nat /\ (anchor = 0 => level = 0)
  BY <1>2, <1>3, <1>4, <1>5, <1>6
<1>8. ASSUME anchor # 0
      PROVE  level <= depth[anchor] + 1 /\ (level = depth[anchor] + 1 => ~rest[anchor].separator)
  <2>1. CASE clamped = maxDepth /\ rest[anchor].separator
    BY <1>3, <1>5, <1>8, <2>1
  <2>2. CASE ~(clamped = maxDepth /\ rest[anchor].separator)
    BY <1>3, <1>5, <1>6, <1>8, <2>2
  <2> QED BY <2>1, <2>2
<1> QED BY <1>5, <1>7, <1>8 DEF level, depth

\* The head's new parent is a session above the landing spot.
LEMMA LandsUnder ==
    ASSUME NEW rest, IsList(rest), IsTree(rest), NEW anchor \in 0..Len(rest), NEW oldDepth \in Nat,
           LandingParent(rest, anchor, oldDepth) # NoId
    PROVE  \E j \in DOMAIN rest : j <= anchor /\ rest[j].id = LandingParent(rest, anchor, oldDepth) /\ ~rest[j].separator
<1> DEFINE level == NewLevel(rest, anchor, oldDepth)
           f == CHOOSE g : g = [i \in DOMAIN rest |-> Climb(rest, level, i, g)]
           d == Depths(rest)[anchor]
<1>1. /\ level \in Nat
      /\ anchor = 0 => level = 0
      /\ anchor # 0 => anchor \in DOMAIN rest /\ level <= d + 1 /\ (level = d + 1 => ~rest[anchor].separator)
  BY LevelFits
<1>2. level > 0 /\ LandingParent(rest, anchor, oldDepth) = rest[f[anchor]].id
  BY DEF LandingParent
<1> HIDE DEF level
<1>3. level \in Nat \ {0} /\ anchor \in DOMAIN rest /\ level <= d + 1 /\ (level = d + 1 => ~rest[anchor].separator)
  BY <1>1, <1>2
<1>4. f = [i \in DOMAIN rest |-> Climb(rest, level, i, f)]
  <2>1. \E g : g = [i \in DOMAIN rest |-> Climb(rest, level, i, g)]
    BY <1>3, ClimbDefined
  <2> QED BY <2>1
<1> HIDE DEF f
<1>5. d \in Nat
  BY <1>3, DepthRows
<1>6. anchor \in Nat
  BY <1>3, ListShape
<1>7. CASE d <= level - 1
  <2>1. f[anchor] = anchor
    BY <1>3, <1>4, <1>7 DEF Climb
  <2>2. level = d + 1
    BY <1>3, <1>5, <1>7
  <2> QED BY <1>2, <1>3, <1>6, <2>1, <2>2
<1>8. CASE ~(d <= level - 1)
  <2>1. Depths(rest)[anchor] > level - 1
    BY <1>3, <1>5, <1>8
  <2>2. f[anchor] \in DOMAIN rest /\ f[anchor] < anchor /\ ~rest[f[anchor]].separator
    BY <1>3, <1>4, <2>1, ClimbEnds
  <2>3. f[anchor] \in Nat
    BY <2>2, ListShape
  <2> QED BY <1>2, <1>6, <2>2, <2>3
<1> QED BY <1>7, <1>8

\* The parent that NormalizeAfterDrag gives the head.
LEMMA RepairParent ==
    ASSUME NEW moved, NEW at, NEW oldDepth
    PROVE  LET fix == NormalizeAfterDrag(moved, at, oldDepth)
           IN  fix.headParent = LandingParent(Keep(moved, DOMAIN moved \ FamilyRows(moved, at)), fix.move.insertAt, oldDepth)
<1> DEFINE rest == Keep(moved, DOMAIN moved \ FamilyRows(moved, at))
           fix == NormalizeAfterDrag(moved, at, oldDepth)
           anchor == Cardinality({i \in DOMAIN moved \ FamilyRows(moved, at) : i < at})
           level == NewLevel(rest, anchor, oldDepth)
           ancestor == CHOOSE g : g = [i \in DOMAIN rest |-> Climb(rest, level, i, g)]
<1>1. fix.move.insertAt = anchor
  BY DEF NormalizeAfterDrag, FamilyRows
<1>2. fix.headParent = IF level > 0 THEN rest[ancestor[anchor]].id ELSE NoId
  BY DEF NormalizeAfterDrag, FamilyRows, NewLevel, Climb
<1> QED BY <1>1, <1>2 DEF LandingParent


\* The children of a family's rows are in the family.
LEMMA FamilyClosed ==
    ASSUME NEW list, IsList(list), IsTree(list), NEW s \in DOMAIN list, NEW i \in DOMAIN list,
           NEW p \in DOMAIN list, list[p].id = list[i].parent
    PROVE  /\ p \in SubtreeMask(list, s) => i \in SubtreeMask(list, s)
           /\ i \in SubtreeMask(list, s) => i = s \/ p \in SubtreeMask(list, s)
<1> DEFINE M == SubtreeMask(list, s)
<1>1. /\ M \in SUBSET DOMAIN list /\ (\A k \in M : s <= k)
      /\ \A k \in DOMAIN list :
            k \in M <=> \/ k = s
                        \/ /\ k > s /\ list[k].parent # NoId
                           /\ \E j \in M : j < k /\ list[j].id = list[k].parent
  BY SubtreeRows
<1>2. DOMAIN list \in SUBSET Nat /\ DistinctIds(list)
  BY ListShape DEF IsTree
<1>3. p < i /\ list[i].parent # NoId
  BY ParentAbove
<1> HIDE DEF M
<1>4. ASSUME p \in M PROVE i \in M
  <2>1. i > s
    BY <1>1, <1>2, <1>3, <1>4
  <2> QED BY <1>1, <1>3, <1>4, <2>1
<1>5. ASSUME i \in M, i # s PROVE p \in M
  <2>1. PICK j \in M : list[j].id = list[i].parent
    BY <1>1, <1>5
  <2>2. j = p
    BY <1>1, <1>2, <2>1 DEF DistinctIds
  <2> QED BY <2>2
<1> QED BY <1>4, <1>5 DEF M

\* The rows around a family are a tree.
LEMMA RestIsTree ==
    ASSUME NEW list, IsList(list), IsTree(list), NEW s \in DOMAIN list
    PROVE  LET rest == Keep(list, DOMAIN list \ SubtreeMask(list, s))
           IN  IsList(rest) /\ IsTree(rest)
<1> DEFINE M == SubtreeMask(list, s)
           left == DOMAIN list \ M
           m == Cardinality(left)
           rest == Keep(list, left)
<1>1. DOMAIN list \in SUBSET Nat /\ IsFiniteSet(DOMAIN list) /\ DistinctIds(list)
  BY ListShape DEF IsTree
<1>2. /\ IsList(rest) /\ Len(rest) = m /\ m \in Nat
      /\ \A k \in 1..m : rest[k] = list[InOrder(left)[k]]
  BY KeepsRows
<1>3. DOMAIN rest = 1..m
  BY <1>2, ListShape
<1>4. left \in SUBSET Nat /\ IsFiniteSet(left)
  BY <1>1, FS_Subset
<1>5. /\ \A k \in 1..m : InOrder(left)[k] \in left /\ Position(left, InOrder(left)[k]) = k - 1
      /\ \A x \in left : Position(left, x) + 1 \in 1..m /\ InOrder(left)[Position(left, x) + 1] = x
  BY <1>4, InOrderLists
<1>6. \A j, k \in 1..m : InOrder(left)[j] = InOrder(left)[k] => j = k
  BY <1>4, InOrderOnce
<1>7. \A x \in left, y \in Nat : x < y => Position(left, x) < Position(left, y)
  BY <1>4, PositionGrows
<1> DEFINE row(k) == InOrder(left)[k]
<1>8. ASSUME NEW i \in left, NEW p \in DOMAIN list, list[p].id = list[i].parent PROVE p \in left
  BY <1>8, FamilyClosed
<1>9. left \in SUBSET DOMAIN list
  OBVIOUS
<1> HIDE DEF rest, left, m
<1>10. DistinctIds(rest)
  <2>1. ASSUME NEW k \in 1..m PROVE rest[k] = list[row(k)] /\ row(k) \in DOMAIN list
    BY <1>2, <1>5, <1>9
  <2>2. \A k \in 1..m : rest[k].id # NoId
    BY <1>1, <2>1 DEF DistinctIds
  <2>3. ASSUME NEW j \in 1..m, NEW k \in 1..m, rest[j].id = rest[k].id PROVE j = k
    <3>1. row(j) = row(k)
      BY <1>1, <2>1, <2>3 DEF DistinctIds
    <3> QED BY <1>6, <3>1
  <2> QED BY <1>3, <2>2, <2>3 DEF DistinctIds
<1>11. ASSUME NEW k \in DOMAIN rest PROVE HasParent(rest, k)
  <2> DEFINE i == row(k)
  <2>1. k \in 1..m /\ i \in left /\ i \in DOMAIN list /\ rest[k] = list[i] /\ Position(left, i) = k - 1
    BY <1>2, <1>3, <1>5, <1>9
  <2> HIDE DEF i
  <2>2. SUFFICES ASSUME rest[k].parent # NoId PROVE HasParent(rest, k)
    BY DEF HasParent
  <2>3. HasParent(list, i)
    BY <1>1, <2>1, TreeRows
  <2>4. PICK p \in DOMAIN list : p < i /\ list[p].id = list[i].parent /\ ~list[p].separator
    BY <2>1, <2>2, <2>3 DEF HasParent
  <2>5. p \in left
    BY <1>8, <2>1, <2>4
  <2> DEFINE j == Position(left, p) + 1
  <2>6. j \in 1..m /\ row(j) = p
    BY <1>5, <2>5
  <2>7. j < k
    <3>1. Position(left, p) < Position(left, i)
      BY <1>1, <1>7, <2>1, <2>4, <2>5
    <3>2. Position(left, p) \in Nat
      <4>1. Position(left, p) + 1 \in 1..m /\ IsFiniteSet({y \in left : y < p})
        BY <1>4, <2>6, FS_Subset
      <4> QED BY <4>1, FS_CardinalityType DEF Position
    <3> QED BY <1>2, <2>1, <3>1, <3>2
  <2> HIDE DEF j
  <2>8. rest[j] = list[p]
    BY <1>2, <2>6
  <2> QED BY <1>3, <2>1, <2>4, <2>6, <2>7, <2>8 DEF HasParent
<1>12. IsTree(rest)
  BY <1>2, <1>10, <1>11, TreeRows
<1> QED BY <1>2, <1>12 DEF rest, left, M


\* A family put down after the first "put" rows around it, its head at the root or
\* under a session among those, leaves a tree.
LEMMA LiftKeepsTree ==
    ASSUME NEW list, IsList(list), IsTree(list), NEW s \in DOMAIN list, NEW v,
           NEW put \in 0..Cardinality(DOMAIN list \ SubtreeMask(list, s)),
           v # NoId => \E q \in DOMAIN list \ SubtreeMask(list, s) :
                          /\ Position(DOMAIN list \ SubtreeMask(list, s), q) < put
                          /\ list[q].id = v /\ ~list[q].separator
    PROVE  LET lifted == ApplyBlockMove(list, [block |-> InOrder(SubtreeMask(list, s)), insertAt |-> put])
           IN  IsTree(Reparented(lifted, put + 1, v))
<1> DEFINE M == SubtreeMask(list, s)
           left == DOMAIN list \ M
           lifted == ApplyBlockMove(list, [block |-> InOrder(M), insertAt |-> put])
           place(i) == Place(list, M, put, i)
           after == Reparented(lifted, put + 1, v)
<1>1. DOMAIN list \in SUBSET Nat /\ IsFiniteSet(DOMAIN list) /\ DistinctIds(list) /\ \A i \in DOMAIN list : HasParent(list, i)
  BY ListShape, TreeRows DEF IsTree
<1>2. M \in SUBSET DOMAIN list /\ s \in M /\ \A i \in M : s <= i
  BY SubtreeRows
<1>3. ASSUME NEW i \in DOMAIN list, NEW p \in DOMAIN list, list[p].id = list[i].parent
      PROVE  (p \in M => i \in M) /\ (i \in M => i = s \/ p \in M)
  BY <1>3, FamilyClosed
<1> HIDE DEF M
<1>4. put \in 0..Cardinality(left)
  BY DEF M
<1>5. ASSUME v # NoId PROVE \E q \in left : Position(left, q) < put /\ list[q].id = v /\ ~list[q].separator
  BY <1>5 DEF M
<1>6. /\ IsList(lifted) /\ DistinctIds(lifted)
      /\ \A x \in DOMAIN list : place(x) \in DOMAIN lifted /\ lifted[place(x)] = list[x]
      /\ \A k \in DOMAIN lifted : \E x \in DOMAIN list : k = place(x)
  BY <1>1, <1>2, <1>4, BlockPlaces
<1>7. /\ put \in Nat
      /\ \A x \in DOMAIN list : place(x) \in Nat
      /\ \A x, y \in M : x < y <=> place(x) < place(y)
      /\ \A x, y \in left : x < y <=> place(x) < place(y)
  BY <1>2, <1>4, PlaceOrder
<1>8. place(s) = put + 1
  <2>1. \A x \in M : ~(x < s)
    BY <1>1, <1>2
  <2>2. {y \in M : y < s} = {}
    BY <2>1
  <2>3. Position(M, s) = 0
    BY <2>2, FS_EmptySet DEF Position
  <2> QED BY <1>2, <1>7, <2>3 DEF Place
<1>9. \A q \in left : Position(left, q) < put => place(q) = Position(left, q) + 1
  BY DEF Place
<1>10. \A x, y \in DOMAIN list : place(x) = place(y) => x = y
  BY <1>1, <1>6 DEF DistinctIds
<1> HIDE DEF place, lifted
<1>11. /\ IsList(after) /\ DOMAIN after = DOMAIN lifted
       /\ \A k \in DOMAIN lifted : /\ after[k].id = lifted[k].id /\ after[k].separator = lifted[k].separator
                                   /\ after[k].parent = IF k = put + 1 THEN v ELSE lifted[k].parent
  <2>1. put + 1 \in DOMAIN lifted
    BY <1>2, <1>6, <1>8
  <2> QED BY <1>6, <2>1, ReparentsRow
<1> HIDE DEF after
<1>12. DistinctIds(after)
  BY <1>6, <1>11 DEF DistinctIds
<1>13. ASSUME NEW k \in DOMAIN after PROVE HasParent(after, k)
  <2>1. SUFFICES ASSUME after[k].parent # NoId
                 PROVE  \E j \in DOMAIN after : j < k /\ after[j].id = after[k].parent /\ ~after[j].separator
    BY DEF HasParent
  <2>2. PICK i \in DOMAIN list : k = place(i)
    BY <1>6, <1>11
  \* The head, under its new parent.
  <2>3. CASE i = s
    <3>1. k = put + 1 /\ after[k].parent = v
      BY <1>8, <1>11, <2>2, <2>3
    <3>2. PICK q \in left : Position(left, q) < put /\ list[q].id = v /\ ~list[q].separator
      BY <1>5, <2>1, <3>1
    <3>3. place(q) \in DOMAIN after /\ after[place(q)].id = v /\ ~after[place(q)].separator
      BY <1>6, <1>11, <3>2
    <3>4. place(q) = Position(left, q) + 1 /\ Position(left, q) \in Nat
      <4>1. IsFiniteSet({y \in left : y < q})
        BY <1>1, FS_Subset
      <4> QED BY <1>9, <3>2, <4>1, FS_CardinalityType DEF Position
    <3>5. place(q) < k
      BY <1>7, <3>1, <3>2, <3>4
    <3> QED BY <3>1, <3>3, <3>5
  \* The other rows keep their parent, which is of the family as they are.
  <2>4. CASE i # s
    <3>1. k # put + 1
      BY <1>2, <1>8, <1>10, <2>2, <2>4
    <3>2. after[k].parent = list[i].parent
      BY <1>6, <1>11, <2>2, <3>1
    <3>3. PICK p \in DOMAIN list : p < i /\ list[p].id = list[i].parent /\ ~list[p].separator
      BY <1>1, <2>1, <3>2 DEF HasParent
    <3>4. (i \in M /\ p \in M) \/ (i \in left /\ p \in left)
      BY <1>3, <2>4, <3>3
    <3>5. place(p) < k
      BY <1>7, <2>2, <3>3, <3>4
    <3>6. place(p) \in DOMAIN after /\ after[place(p)].id = list[p].id /\ ~after[place(p)].separator
      BY <1>6, <1>11, <3>3
    <3> QED BY <3>2, <3>3, <3>5, <3>6
  <2> QED BY <2>3, <2>4
<1>14. IsTree(after)
  BY <1>11, <1>12, <1>13, TreeRows
<1> QED BY <1>14 DEF after, lifted, M

\* The drop is repaired: to a tree, with the head's family moved as one run and
\* the head where the move was.
Repaired(list, s, moved, at, oldDepth) ==
    LET fix == NormalizeAfterDrag(moved, at, oldDepth)
        after == ApplyBlockMove(Reparented(moved, at, fix.headParent), fix.move)
    IN  /\ IsTree(after)
        /\ FamilyMoved(list, after, list[s].id, {list[s].id})
        /\ after[fix.move.insertAt + 1].id = list[s].id

\* A drop in a tree is always repaired.
LEMMA RepairSucceeds ==
    ASSUME NEW list, NEW s, NEW moved, NEW at, NEW g, Dropped(list, s, moved, at, g), NEW oldDepth \in Nat
    PROVE  Repaired(list, s, moved, at, oldDepth)
<1> DEFINE M == SubtreeMask(list, s)
           left == DOMAIN list \ M
           fix == NormalizeAfterDrag(moved, at, oldDepth)
           put == fix.move.insertAt
           v == fix.headParent
           lifted == ApplyBlockMove(list, [block |-> InOrder(M), insertAt |-> put])
           after == Reparented(lifted, put + 1, v)
           rest == Keep(list, left)
<1>1. IsList(list) /\ IsTree(list) /\ s \in DOMAIN list /\ DistinctIds(list)
  BY DEF Dropped, IsTree
<1>2. /\ put \in 0..Cardinality(left) /\ put + 1 \in DOMAIN lifted
      /\ ApplyBlockMove(Reparented(moved, at, v), fix.move) = after
  <2>1. RepairedAsLift(list, s, moved, at, oldDepth)
    BY RepairLifts
  <2> QED BY <2>1 DEF RepairedAsLift
<1>3. v = LandingParent(rest, put, oldDepth)
  <2>1. v = LandingParent(Keep(moved, DOMAIN moved \ FamilyRows(moved, at)), put, oldDepth)
    BY RepairParent
  <2>2. RunsKept(list, s, moved, at, g)
    BY RepairRuns
  <2>3. Keep(moved, DOMAIN moved \ FamilyRows(moved, at)) = rest
    BY <2>2 DEF RunsKept
  <2> HIDE DEF fix, rest
  <2> QED BY <2>1, <2>3
<1>4. DOMAIN list \in SUBSET Nat /\ IsFiniteSet(DOMAIN list)
  BY <1>1, ListShape
<1>5. M \in SUBSET DOMAIN list /\ s \in M /\ (\A i \in M : s <= i) /\ Family(list, list[s].id) = {list[k].id : k \in M}
  <2>1. M \in SUBSET DOMAIN list /\ s \in M /\ \A i \in M : s <= i
    BY <1>1, SubtreeRows
  <2>2. Family(list, list[s].id) = {list[k].id : k \in M}
    BY <1>1, FamilyIsSubtree
  <2> HIDE DEF M
  <2> QED BY <2>1, <2>2
<1>6. IsList(rest) /\ IsTree(rest)
  BY <1>1, RestIsTree
<1>7. /\ Len(rest) = Cardinality(left) /\ Cardinality(left) \in Nat
      /\ \A k \in 1..Cardinality(left) : InOrder(left)[k] \in left /\ rest[k] = list[InOrder(left)[k]]
  BY <1>1, KeepsRows
<1>8. left \in SUBSET Nat /\ IsFiniteSet(left)
  BY <1>4, FS_Subset
<1>9. \A k \in 1..Cardinality(left) : Position(left, InOrder(left)[k]) = k - 1
  BY <1>8, InOrderLists
<1> HIDE DEF fix, put, v
<1>10. v # NoId => \E q \in left : Position(left, q) < put /\ list[q].id = v /\ ~list[q].separator
  <2> SUFFICES ASSUME v # NoId PROVE \E q \in left : Position(left, q) < put /\ list[q].id = v /\ ~list[q].separator
    OBVIOUS
  <2> HIDE DEF rest, left
  <2>1. put \in 0..Len(rest)
    BY <1>2, <1>7
  <2>2. PICK j \in DOMAIN rest : j <= put /\ rest[j].id = v /\ ~rest[j].separator
    BY <1>3, <1>6, <2>1, LandsUnder
  <2>3. j \in 1..Cardinality(left)
    BY <1>6, <1>7, ListShape
  <2>4. Position(left, InOrder(left)[j]) < put
    BY <1>2, <1>7, <1>9, <2>2, <2>3
  <2> QED BY <1>7, <2>2, <2>3, <2>4
<1>11. IsTree(after)
  BY <1>1, <1>2, <1>10, LiftKeepsTree
<1>12. IsList(lifted)
  BY <1>1, <1>2, <1>5, BlockPlaces
<1>13. /\ IsList(after) /\ DOMAIN after = DOMAIN lifted
       /\ \A k \in DOMAIN lifted : after[k].id = lifted[k].id
       /\ \A k \in DOMAIN lifted : k # put + 1 => after[k] = lifted[k]
  <2> HIDE DEF lifted
  <2>1. IsList(after) /\ DOMAIN after = DOMAIN lifted /\ \A k \in DOMAIN lifted : after[k].id = lifted[k].id
    BY <1>2, <1>12, ReparentsRow
  <2> QED BY <1>2, <2>1 DEF Reparented
<1>14. lifted[put + 1] = list[s]
  <2>1. FamilyLifted(list, M, s, put, lifted, {})
    BY <1>1, <1>2, <1>5, <1>12 DEF FamilyLifted
  <2> QED BY <2>1, BlockMovesFamily
<1> DEFINE reparented == {list[s].id}
<1>15. FamilyLifted(list, M, s, put, after, reparented)
  <2>1. /\ DOMAIN after = DOMAIN lifted
        /\ \A k \in DOMAIN lifted : after[k].id = lifted[k].id
        /\ \A k \in DOMAIN lifted : lifted[k].id \notin reparented => after[k] = lifted[k]
    <3> HIDE DEF lifted, after
    <3> QED BY <1>13, <1>14
  <2>2. reparented \in SUBSET {list[s].id}
    OBVIOUS
  <2> HIDE DEF after, reparented
  <2> QED BY <1>1, <1>2, <1>5, <1>13, <2>1, <2>2 DEF FamilyLifted
<1>16. FamilyMoved(list, after, list[s].id, reparented)
  <2> HIDE DEF after, reparented
  <2> QED BY <1>15, BlockMovesFamily
<1>17. after[put + 1].id = list[s].id
  <2> HIDE DEF lifted, after
  <2> QED BY <1>2, <1>13, <1>14
<1> HIDE DEF after
<1> QED BY <1>2, <1>11, <1>16, <1>17 DEF Repaired, fix, put, v


\* The end of a drag moves the dragged family and nothing else.
LEMMA DragMovesFamily ==
    ASSUME EditorInv, DragCompleted, IsTree(committed)
    PROVE  IF drag.at = drag.start THEN UNCHANGED committed
           ELSE LET head == committed[drag.start].id
                IN  FamilyMoved(committed, committed', head, {head}) /\ entries'[selected'].id = head
<1>1. CASE drag.at = drag.start
  BY <1>1 DEF DragCompleted
<1>2. CASE drag.at # drag.start
  <2> DEFINE s == drag.start
             at == drag.at
             old == drag.oldDepth
             fix == NormalizeAfterDrag(entries, at, old)
             after == ApplyBlockMove(Reparented(entries, at, fix.headParent), fix.move)
  <2>1. ~Idle
    BY DEF DragCompleted
  <2>2. /\ s \in DOMAIN committed /\ at \in DOMAIN committed /\ old \in Nat
        /\ entries = ApplyBlockMove(committed, [block |-> <<s>>, insertAt |-> at - 1])
    BY <1>2, <2>1 DEF EditorInv, DragInv
  <2>3. IsList(committed)
    BY DEF EditorInv, ListInv
  <2>4. PICK g : Dropped(committed, s, entries, at, g)
    BY <2>2, <2>3, DropMoves
  <2>5. Normalized = after /\ Fixup = fix
    BY DEF Normalized, Fixup, Reparented
  <2> HIDE DEF s, at, old
  <2>6. /\ IsTree(after)
        /\ FamilyMoved(committed, after, committed[s].id, {committed[s].id})
        /\ after[fix.move.insertAt + 1].id = committed[s].id
    <3>1. Repaired(committed, s, entries, at, old)
      BY <2>2, <2>4, RepairSucceeds
    <3> QED BY <3>1 DEF Repaired
  <2> HIDE DEF after, fix
  <2>7. IsWellFormed(Normalized)
    BY <2>5, <2>6 DEF IsTree
  <2>8. entries' = Normalized /\ committed' = Normalized /\ selected' = Fixup.move.insertAt + 1
    BY <1>2, <2>7 DEF DragCompleted
  <2>9. entries' = after /\ committed' = after /\ selected' = fix.move.insertAt + 1
    BY <2>5, <2>8
  <2> QED BY <1>2, <2>6, <2>9 DEF s
<1> QED BY <1>1, <1>2

\* A drag moves the dragged row's family and nothing else, for any number of rows
\* and wherever the list control dropped the row, among its own children too; in
\* a tree the repair never fails, and the head is selected.
THEOREM DragsTakeFamilies == Spec => DragTakesFamily
<1> DEFINE Moved == ~Idle /\ Idle' /\ IsTree(committed) =>
          IF drag.at = drag.start THEN UNCHANGED committed
          ELSE LET head == committed[drag.start].id
               IN  FamilyMoved(committed, committed', head, {head}) /\ entries'[selected'].id = head
<1>1. ASSUME EditorInv, [Next]_vars PROVE [Moved]_vars
  <2> SUFFICES ASSUME ~Idle, Idle', IsTree(committed), Next PROVE Moved
    BY <1>1
  <2>1. ASSUME NEW position \in DOMAIN entries, Drop(position) PROVE FALSE
    <3>1. drag'.dropped = TRUE
      BY <1>1, <2>1, DropRecord
    <3>2. drag' = NoDrag
      BY DEF Idle
    <3> QED BY <3>1, <3>2 DEF NoDrag
  <2>2. ASSUME EditField PROVE FALSE
    BY <2>2 DEF EditField, Idle
  <2>3. DragCompleted
    BY <2>1, <2>2 DEF Next, SelectedEntry, AddEntry, DuplicateEntry, DeleteEntry, IndentEntry,
       OutdentEntry, MoveEntry, ReplaceFrom, BeginDrag, HasSelection
  <2> QED BY <1>1, <2>3, DragMovesFamily
<1> QED BY <1>1, EditorInvariant, PTL DEF Spec, DragTakesFamily
===============================================================================
