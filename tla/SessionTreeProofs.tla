--------------------------- MODULE SessionTreeProofs ---------------------------
(***************************************************************************)
(* The live tree stays a tree: every row has one place, is found from the  *)
(* root down, and the sessions found are the open tabs.  What a tree is,   *)
(* is said without recursion: everything that is listed is in every set    *)
(* that holds the root and the children of its members.  An operation is   *)
(* described by what it does to the set of children of each row; that the  *)
(* sequences hold these sets, each member once, is shown for each way the  *)
(* code edits a sequence.                                                  *)
(***************************************************************************)
EXTENDS SessionTree, OrderedSetsProofs, SequenceTheorems

Points == Nodes \cup {Root}

Children(tree, p) == {tree[p][i] : i \in DOMAIN tree[p]}

Listed(tree) == UNION {Children(tree, p) : p \in Points}

Once(s) == \A i, j \in DOMAIN s : s[i] = s[j] => i = j

Closed(tree, S) == \A p \in S : Children(tree, p) \subseteq S

(* The least closed set that holds p. *)
Reach(tree, p) == {x \in Points : \A S \in SUBSET Points : p \in S /\ Closed(tree, S) => x \in S}

(* What has children is in every closed set that holds the root. *)
Rooted(tree) ==
    \A S \in SUBSET Points : Root \in S /\ Closed(tree, S) => \A p \in Points : tree[p] = <<>> \/ p \in S

Disjoint(tree) == \A p, q \in Points : p # q => Children(tree, p) \cap Children(tree, q) = {}

Typed(tree) == tree \in [Points -> Seq(Nodes)] /\ \A p \in Points : Once(tree[p])

Forest(tree) == Typed(tree) /\ Disjoint(tree) /\ Rooted(tree)

-------------------------------------------------------------------------------
(* Trees. *)

\* The root and the value for "no row" are not rows.
LEMMA NamesApart == Root \notin Nodes /\ None \notin Nodes /\ Tabs \cap Separators = {}
BY NamesAssumption

\* There are finitely many rows.
LEMMA PointsFinite == IsFiniteSet(Points) /\ IsFiniteSet(Tabs) /\ IsFiniteSet(Nodes)
<1>1. IsFiniteSet(Seqs!ToSet(TabOrder))
  <2> DEFINE f == [i \in 1..Len(TabOrder) |-> TabOrder[i]]
  <2>1. Len(TabOrder) \in Nat /\ DOMAIN TabOrder = 1..Len(TabOrder)
    BY NamesAssumption
  <2>2. IsFiniteSet(1..Len(TabOrder))
    BY <2>1, FS_Interval
  <2>3. f \in Surjection(1..Len(TabOrder), Seqs!ToSet(TabOrder))
    BY <2>1 DEF Surjection, Seqs!ToSet
  <2> QED BY <2>2, <2>3, FS_Surjection
<1>2. IsFiniteSet({SettingsTab}) /\ IsFiniteSet({Root})
  BY FS_Singleton
<1>3. IsFiniteSet(Tabs)
  BY <1>1, <1>2, FS_Union DEF Tabs
<1>4. IsFiniteSet(Nodes)
  BY <1>3, SeparatorsAssumption, FS_Union DEF Nodes
<1>5. IsFiniteSet(Points)
  BY <1>2, <1>4, FS_Union DEF Points
<1> QED BY <1>3, <1>4, <1>5

\* The children are rows.
LEMMA ChildrenAreNodes ==
    ASSUME NEW tree, Typed(tree), NEW p \in Points
    PROVE  Children(tree, p) \subseteq Nodes /\ (Children(tree, p) = {} <=> tree[p] = <<>>)
<1>1. tree[p] \in Seq(Nodes)
  BY DEF Typed
<1>2. Len(tree[p]) \in Nat /\ DOMAIN tree[p] = 1..Len(tree[p])
  BY <1>1
<1>3. Children(tree, p) \subseteq Nodes
  BY <1>1 DEF Children
<1>4. ASSUME Children(tree, p) = {} PROVE tree[p] = <<>>
  <2>1. DOMAIN tree[p] = {}
    BY <1>4 DEF Children
  <2>2. Len(tree[p]) = 0
    BY <1>2, <2>1
  <2> QED BY <1>1, <2>2
<1>5. ASSUME tree[p] = <<>> PROVE Children(tree, p) = {}
  BY <1>5 DEF Children
<1> QED BY <1>3, <1>4, <1>5

\* What is listed is in every closed set that holds the root; so is what has children.
LEMMA ListedIsRooted ==
    ASSUME NEW tree, Forest(tree), NEW S \in SUBSET Points, Root \in S, Closed(tree, S)
    PROVE  Listed(tree) \subseteq S /\ \A p \in Points : Children(tree, p) # {} => p \in S
<1>1. \A p \in Points : Children(tree, p) # {} => p \in S
  BY ChildrenAreNodes DEF Forest, Rooted
<1>2. ASSUME NEW p \in Points PROVE Children(tree, p) \subseteq S
  BY <1>1 DEF Closed
<1> QED BY <1>1, <1>2 DEF Listed

\* What has children is listed itself, or the root.
LEMMA ParentsAreListed ==
    ASSUME NEW tree, Forest(tree), NEW p \in Points, Children(tree, p) # {}
    PROVE  p \in Listed(tree) \cup {Root}
<1> DEFINE S == Listed(tree) \cup {Root}
<1>1. Listed(tree) \subseteq Nodes
  BY ChildrenAreNodes DEF Forest, Listed
<1>2. S \in SUBSET Points /\ Root \in S
  BY <1>1 DEF Points
<1>3. Closed(tree, S)
  BY <1>2 DEF Closed, Listed
<1> HIDE DEF S
<1>4. p \in S
  BY <1>2, <1>3, ListedIsRooted
<1> QED BY <1>4 DEF S

\* The least closed set is one.
LEMMA ReachIsClosed ==
    ASSUME NEW tree, Typed(tree), NEW p \in Points
    PROVE  /\ p \in Reach(tree, p) /\ Reach(tree, p) \subseteq Points
           /\ Closed(tree, Reach(tree, p))
           /\ \A S \in SUBSET Points : p \in S /\ Closed(tree, S) => Reach(tree, p) \subseteq S
<1>1. p \in Reach(tree, p) /\ Reach(tree, p) \subseteq Points
  BY DEF Reach
<1>2. ASSUME NEW x \in Reach(tree, p), NEW y \in Children(tree, x) PROVE y \in Reach(tree, p)
  <2>1. x \in Points
    BY DEF Reach
  <2>2. y \in Points
    BY <2>1, ChildrenAreNodes DEF Points
  <2>3. ASSUME NEW S \in SUBSET Points, p \in S, Closed(tree, S) PROVE y \in S
    <3>1. x \in S
      BY <2>3 DEF Reach
    <3> QED BY <2>3, <3>1 DEF Closed
  <2> QED BY <2>2, <2>3 DEF Reach
<1>3. Closed(tree, Reach(tree, p))
  BY <1>2 DEF Closed
<1> QED BY <1>1, <1>3 DEF Reach

\* No row is below its own child.
LEMMA Acyclic ==
    ASSUME NEW tree, Forest(tree), NEW q \in Points, NEW c \in Children(tree, q)
    PROVE  q \notin Reach(tree, c) /\ Root \notin Reach(tree, c)
<1>1. Typed(tree) /\ c \in Nodes /\ c \in Points
  BY ChildrenAreNodes DEF Forest, Points
<1> DEFINE R == Reach(tree, c)
           Up == {x \in R : x = c \/ \E z \in R : x \in Children(tree, z)}
<1>2. c \in R /\ R \subseteq Points /\ Closed(tree, R)
  BY <1>1, ReachIsClosed
<1>3. R \subseteq Up
  <2>1. Closed(tree, Up)
    BY <1>2 DEF Closed
  <2>2. Up \in SUBSET Points /\ c \in Up
    BY <1>2
  <2> HIDE DEF Up, R
  <2> QED BY <1>1, <2>1, <2>2, ReachIsClosed DEF R
<1>4. \A x \in R : x = c \/ \E z \in R : x \in Children(tree, z)
  BY <1>3
<1>5. Root \notin R
  <2>1. \A z \in R : Root \notin Children(tree, z)
    BY <1>1, <1>2, ChildrenAreNodes, NamesApart
  <2> QED BY <1>1, <1>4, <2>1, NamesApart
<1>6. ASSUME q \in R PROVE FALSE
  <2> DEFINE S == Points \ R
  <2>1. S \in SUBSET Points /\ Root \in S
    BY <1>5 DEF Points
  <2>2. ASSUME NEW x \in S, NEW y \in Children(tree, x), y \in R PROVE FALSE
    <3>1. PICK z \in R : y \in Children(tree, z)
      BY <1>4, <1>6, <2>2
    <3>2. x = z
      BY <1>2, <3>1 DEF Forest, Disjoint
    <3> QED BY <3>2
  <2>3. Closed(tree, S)
    <3>1. \A x \in S : Children(tree, x) \subseteq Points
      BY <1>1, ChildrenAreNodes DEF Points
    <3> QED BY <2>2, <3>1 DEF Closed
  <2> HIDE DEF S
  <2>4. Listed(tree) \subseteq S
    BY <2>1, <2>3, ListedIsRooted
  <2>5. c \in Listed(tree)
    BY DEF Listed
  <2> QED BY <1>2, <2>4, <2>5 DEF S
<1> QED BY <1>5, <1>6

(* What Below is of: a function over all rows with this value everywhere. *)
Collects(tree, f) ==
    f = [q \in DOMAIN tree |-> {q} \cup UNION {f[tree[q][i]] : i \in DOMAIN tree[q]}]

\* A row reaches itself and what its children reach.
LEMMA ReachByChild ==
    ASSUME NEW tree, Typed(tree), NEW q \in Points
    PROVE  Reach(tree, q) = {q} \cup UNION {Reach(tree, c) : c \in Children(tree, q)}
<1> DEFINE U == {q} \cup UNION {Reach(tree, c) : c \in Children(tree, q)}
<1>1. \A c \in Children(tree, q) : c \in Points
  BY ChildrenAreNodes DEF Points
<1>2. q \in Reach(tree, q) /\ Reach(tree, q) \subseteq Points /\ Closed(tree, Reach(tree, q))
  BY ReachIsClosed
<1>3. ASSUME NEW c \in Children(tree, q) PROVE Reach(tree, c) \subseteq Reach(tree, q)
  <2>1. c \in Reach(tree, q)
    BY <1>2 DEF Closed
  <2> QED BY <1>1, <1>2, <2>1, ReachIsClosed
<1>4. \A c \in Children(tree, q) : c \in Reach(tree, c) /\ Closed(tree, Reach(tree, c)) /\ Reach(tree, c) \subseteq Points
  BY <1>1, ReachIsClosed
<1>5. Closed(tree, U)
  BY <1>4 DEF Closed
<1>6. U \in SUBSET Points /\ q \in U
  BY <1>4
<1>7. Reach(tree, q) \subseteq U
  <2> HIDE DEF U
  <2> QED BY <1>5, <1>6, ReachIsClosed
<1>8. U \subseteq Reach(tree, q)
  BY <1>2, <1>3
<1> QED BY <1>7, <1>8

\* The rows Below collects on its walk are the least closed set: as the tree is finite
\* and no row is below itself, the walk has one outcome.
LEMMA BelowIsReach ==
    ASSUME NEW tree, Forest(tree), NEW p \in Points
    PROVE  Below(tree, p) = Reach(tree, p)
<1>1. Typed(tree) /\ DOMAIN tree = Points
  BY DEF Forest, Typed
<1> DEFINE reached == [q \in Points |-> Reach(tree, q)]
<1>2. Collects(tree, reached)
  <2>1. ASSUME NEW q \in Points
        PROVE  reached[q] = {q} \cup UNION {reached[tree[q][i]] : i \in DOMAIN tree[q]}
    <3>1. \A i \in DOMAIN tree[q] : tree[q][i] \in Points
      BY <1>1 DEF Typed, Points
    <3>2. {reached[tree[q][i]] : i \in DOMAIN tree[q]} = {Reach(tree, c) : c \in Children(tree, q)}
      BY <3>1 DEF Children
    <3> QED BY <1>1, <3>2, ReachByChild
  <2> QED BY <1>1, <2>1 DEF Collects
<1> DEFINE below == CHOOSE f : Collects(tree, f)
<1>3. Collects(tree, below)
  BY <1>2
<1>4. Below(tree, p) = below[p]
  BY DEF Below, Collects
<1> HIDE DEF below
<1>5. ASSUME NEW q \in Points
      PROVE  below[q] = {q} \cup UNION {below[c] : c \in Children(tree, q)}
  <2>1. below[q] = {q} \cup UNION {below[tree[q][i]] : i \in DOMAIN tree[q]}
    BY <1>1, <1>3 DEF Collects
  <2>2. {below[tree[q][i]] : i \in DOMAIN tree[q]} = {below[c] : c \in Children(tree, q)}
    BY DEF Children
  <2> QED BY <2>1, <2>2
<1> DEFINE Size(q) == Cardinality(Reach(tree, q))
           Wrong == {q \in Points : below[q] # Reach(tree, q)}
<1>6. ASSUME NEW q \in Points PROVE Size(q) \in Nat /\ IsFiniteSet(Reach(tree, q))
  BY <1>1, ReachIsClosed, PointsFinite, FS_Subset, FS_CardinalityType
<1>7. ASSUME NEW q \in Points, NEW c \in Children(tree, q) PROVE c \in Points /\ Size(c) < Size(q)
  <2>1. c \in Points
    BY <1>1, ChildrenAreNodes DEF Points
  <2>2. Reach(tree, c) \subseteq Reach(tree, q) /\ q \in Reach(tree, q)
    BY <1>1, ReachByChild
  <2>3. q \notin Reach(tree, c)
    BY Acyclic
  <2>4. Size(c) <= Size(q) /\ Size(c) # Size(q)
    BY <1>6, <2>2, <2>3, FS_Subset
  <2> QED BY <1>6, <2>1, <2>4
<1>8. ASSUME Wrong # {} PROVE FALSE
  <2> DEFINE Sizes == {Size(q) : q \in Wrong}
  <2>1. Sizes \in SUBSET Nat /\ Sizes # {}
    BY <1>6, <1>8
  <2>2. PICK least \in Sizes : \A n \in Sizes : least <= n
    BY <2>1, LeastNatural
  <2>3. PICK q \in Wrong : least = Size(q)
    BY <2>2
  <2>4. \A c \in Children(tree, q) : below[c] = Reach(tree, c)
    <3> SUFFICES ASSUME NEW c \in Children(tree, q), c \in Wrong PROVE FALSE
      BY <1>7
    <3>1. Size(c) \in Sizes
      OBVIOUS
    <3>2. Size(c) < Size(q) /\ Size(c) \in Nat /\ Size(q) \in Nat
      BY <1>6, <1>7
    <3>3. Size(q) <= Size(c)
      BY <2>2, <2>3, <3>1
    <3> HIDE DEF Size
    <3> QED BY <3>2, <3>3
  <2>5. {below[c] : c \in Children(tree, q)} = {Reach(tree, c) : c \in Children(tree, q)}
    BY <2>4
  <2>6. below[q] = Reach(tree, q)
    <3>1. Reach(tree, q) = {q} \cup UNION {Reach(tree, c) : c \in Children(tree, q)}
      BY <1>1, ReachByChild
    <3>2. below[q] = {q} \cup UNION {below[c] : c \in Children(tree, q)}
      BY <1>5
    <3> QED BY <2>5, <3>1, <3>2
  <2> QED BY <2>6
<1> QED BY <1>4, <1>8

\* The rows found from the root down are those that are listed.
LEMMA InTreeIsListed ==
    ASSUME NEW tree, Forest(tree)
    PROVE  InTree(tree) = Listed(tree) /\ Listed(tree) \subseteq Nodes
<1>1. Root \in Points /\ Typed(tree)
  BY DEF Points, Forest
<1>2. InTree(tree) = Reach(tree, Root) \ {Root}
  BY <1>1, BelowIsReach DEF InTree
<1>3. Listed(tree) \subseteq Nodes
  BY <1>1, ChildrenAreNodes DEF Listed
<1>4. Root \in Reach(tree, Root) /\ Reach(tree, Root) \subseteq Points /\ Closed(tree, Reach(tree, Root))
  BY <1>1, ReachIsClosed
<1>5. Listed(tree) \subseteq Reach(tree, Root)
  BY <1>4, ListedIsRooted
<1> DEFINE S == Listed(tree) \cup {Root}
<1>6. S \in SUBSET Points /\ Root \in S
  BY <1>3 DEF Points
<1>7. Closed(tree, S)
  BY <1>6 DEF Closed, Listed
<1>8. Reach(tree, Root) \subseteq S
  <2> HIDE DEF S
  <2> QED BY <1>1, <1>6, <1>7, ReachIsClosed
<1> QED BY <1>2, <1>3, <1>5, <1>8, NamesApart

\* A row that is not an ancestor of another one does not reach it.
LEMMA ChainIsAbove ==
    ASSUME NEW tree, Forest(tree), NEW n \in Listed(tree), NEW p \in Points, n \notin Chain(tree, p)
    PROVE  p \notin Reach(tree, n)
<1>1. n \in Points /\ n \in InTree(tree)
  BY InTreeIsListed DEF Points
<1> QED BY <1>1, BelowIsReach DEF Chain

-------------------------------------------------------------------------------
(* What the operations do to the sets of children. *)

\* A change of order within the scopes.
LEMMA PermutedForest ==
    ASSUME NEW tree, Forest(tree), NEW new, Typed(new),
           \A q \in Points : Children(new, q) = Children(tree, q)
    PROVE  Forest(new) /\ Listed(new) = Listed(tree)
<1>1. Disjoint(new)
  BY DEF Forest, Disjoint
<1>2. ASSUME NEW S \in SUBSET Points, Root \in S, Closed(new, S), NEW q \in Points, new[q] # <<>>
      PROVE  q \in S
  <2>1. Closed(tree, S)
    BY <1>2 DEF Closed
  <2>2. Children(tree, q) # {}
    BY <1>2, ChildrenAreNodes
  <2> QED BY <1>2, <2>1, <2>2, ListedIsRooted
<1>3. Rooted(new)
  BY <1>2 DEF Rooted
<1>4. Listed(new) = Listed(tree)
  BY DEF Listed
<1> QED BY <1>1, <1>3, <1>4 DEF Forest

(* A new row n below p. *)
Grown(tree, new, n, p) ==
    \A q \in Points : Children(new, q) = IF q = p THEN Children(tree, q) \cup {n} ELSE Children(tree, q)

\* A new row gets a place.
LEMMA GrownForest ==
    ASSUME NEW tree, Forest(tree), NEW new, Typed(new),
           NEW n \in Nodes, n \notin Listed(tree), NEW p \in Listed(tree) \cup {Root},
           Grown(tree, new, n, p)
    PROVE  Forest(new) /\ Listed(new) = Listed(tree) \cup {n}
<1>1. p \in Points
  BY InTreeIsListed DEF Points
<1>2. \A q \in Points : Children(tree, q) \subseteq Children(new, q) /\ n \notin Children(tree, q)
  BY DEF Grown, Listed
<1>3. Disjoint(new)
  BY <1>2 DEF Forest, Disjoint, Grown
<1>4. ASSUME NEW S \in SUBSET Points, Root \in S, Closed(new, S), NEW q \in Points, new[q] # <<>>
      PROVE  q \in S
  <2>1. Closed(tree, S)
    BY <1>2, <1>4 DEF Closed
  <2>2. Listed(tree) \subseteq S /\ \A x \in Points : Children(tree, x) # {} => x \in S
    BY <1>4, <2>1, ListedIsRooted
  <2>3. Children(new, q) # {}
    BY <1>4, ChildrenAreNodes
  <2>4. CASE q = p
    BY <1>4, <2>2, <2>4
  <2>5. CASE q # p
    BY <2>2, <2>3, <2>5 DEF Grown
  <2> QED BY <2>4, <2>5
<1>5. Rooted(new)
  BY <1>4 DEF Rooted
<1>6. Listed(new) = Listed(tree) \cup {n}
  BY <1>1 DEF Listed, Grown
<1> QED BY <1>3, <1>5, <1>6 DEF Forest

(* The row n, with what is below it, is moved to p. *)
Moved(tree, new, n, p) ==
    \A q \in Points : Children(new, q) = (Children(tree, q) \ {n}) \cup (IF q = p THEN {n} ELSE {})

\* A row that is moved, and not below itself, takes its rows with it.
LEMMA MovedForest ==
    ASSUME NEW tree, Forest(tree), NEW new, Typed(new),
           NEW n \in Listed(tree), NEW p \in Listed(tree) \cup {Root}, p \notin Reach(tree, n),
           Moved(tree, new, n, p)
    PROVE  Forest(new) /\ Listed(new) = Listed(tree)
<1>1. p \in Points /\ n \in Points /\ Typed(tree) /\ Listed(tree) \subseteq Points
  BY InTreeIsListed DEF Points, Forest
<1>2. Disjoint(new)
  BY DEF Forest, Disjoint, Moved
<1>3. Listed(new) = Listed(tree)
  BY <1>1 DEF Listed, Moved
<1> DEFINE D == Reach(tree, n)
<1>4. n \in D /\ D \subseteq Points /\ Closed(tree, D)
  BY <1>1, ReachIsClosed
<1>5. ASSUME NEW S \in SUBSET Points, Root \in S, Closed(new, S), NEW q \in Points, new[q] # <<>>
      PROVE  q \in S
  <2>1. Closed(tree, S \cup D)
    <3>1. ASSUME NEW x \in S PROVE Children(tree, x) \subseteq S \cup D
      <4>1. Children(new, x) \subseteq S
        BY <1>5 DEF Closed
      <4>2. Children(tree, x) \subseteq Children(new, x) \cup {n}
        BY DEF Moved
      <4> QED BY <1>4, <4>1, <4>2
    <3> QED BY <1>4, <3>1 DEF Closed
  <2>2. S \cup D \in SUBSET Points /\ Root \in S \cup D
    BY <1>4, <1>5
  <2>3. Listed(tree) \subseteq S \cup D /\ \A x \in Points : Children(tree, x) # {} => x \in S \cup D
    <3> HIDE DEF D
    <3> QED BY <2>1, <2>2, ListedIsRooted
  <2>4. p \in S
    BY <1>5, <2>3
  <2>5. n \in S
    BY <1>1, <1>5, <2>4 DEF Closed, Moved
  <2>6. Closed(tree, S \cap D)
    <3>1. ASSUME NEW x \in S \cap D PROVE Children(tree, x) \subseteq S \cap D
      <4>1. x # p
        OBVIOUS
      <4>2. Children(new, x) \subseteq S
        BY <1>5 DEF Closed
      <4>3. Children(tree, x) \subseteq Children(new, x) \cup {n}
        BY DEF Moved
      <4>4. Children(tree, x) \subseteq D
        BY <1>4 DEF Closed
      <4> QED BY <2>5, <4>2, <4>3, <4>4
    <3> QED BY <3>1 DEF Closed
  <2>7. D \subseteq S
    <3>1. S \cap D \in SUBSET Points /\ n \in S \cap D
      BY <1>4, <2>5
    <3>2. D \subseteq S \cap D
      BY <1>1, <2>6, <3>1, ReachIsClosed
    <3> QED BY <3>2
  <2>8. Children(new, q) # {}
    BY <1>5, ChildrenAreNodes
  <2>9. CASE q = p
    BY <2>4, <2>9
  <2>10. CASE q # p
    <3>1. Children(tree, q) # {}
      BY <2>8, <2>10 DEF Moved
    <3> QED BY <2>3, <2>7, <3>1
  <2> QED BY <2>9, <2>10
<1>6. Rooted(new)
  BY <1>5 DEF Rooted
<1> QED BY <1>2, <1>3, <1>6 DEF Forest

(* The children of n take its place among those of s. *)
Healed(tree, new, n, s) ==
    \A q \in Points :
        Children(new, q) = IF q = n THEN {}
                           ELSE IF q = s THEN (Children(tree, q) \ {n}) \cup Children(tree, n)
                           ELSE Children(tree, q)

\* A row that is removed leaves its children.
LEMMA HealedForest ==
    ASSUME NEW tree, Forest(tree), NEW new, Typed(new),
           NEW s \in Points, NEW n \in Children(tree, s), Healed(tree, new, n, s)
    PROVE  Forest(new) /\ Listed(new) = Listed(tree) \ {n}
<1>1. n \in Points /\ Typed(tree) /\ n \in Listed(tree) /\ n \in Nodes
  BY InTreeIsListed DEF Points, Forest, Listed
<1>2. n # s /\ n \notin Children(tree, n)
  <2>1. \A c \in Children(tree, n) : n \notin Reach(tree, c)
    BY <1>1, Acyclic
  <2>2. n \in Reach(tree, n)
    BY <1>1, ReachIsClosed
  <2> QED BY <2>1, <2>2
<1>3. \A q \in Points : n \in Children(tree, q) => q = s
  BY DEF Forest, Disjoint
<1>4. Disjoint(new)
  BY <1>1, <1>2 DEF Forest, Disjoint, Healed
<1>5. Listed(new) = Listed(tree) \ {n}
  <2>1. ASSUME NEW q \in Points PROVE Children(new, q) \subseteq Listed(tree) \ {n}
    BY <1>1, <1>2, <1>3, <2>1 DEF Listed, Healed
  <2>2. ASSUME NEW q \in Points, NEW x \in Children(tree, q), x # n PROVE x \in Listed(new)
    <3>1. CASE q = n
      <4>1. x \in Children(new, s)
        BY <1>2, <2>2, <3>1 DEF Healed
      <4> QED BY <4>1 DEF Listed
    <3>2. CASE q # n
      <4>1. x \in Children(new, q)
        BY <2>2, <3>2 DEF Healed
      <4> QED BY <4>1 DEF Listed
    <3> QED BY <3>1, <3>2
  <2> QED BY <2>1, <2>2 DEF Listed
<1>6. ASSUME NEW S \in SUBSET Points, Root \in S, Closed(new, S), NEW q \in Points, new[q] # <<>>
      PROVE  q \in S
  <2>1. q # n /\ Children(new, q) # {}
    <3>1. Children(new, q) # {}
      BY <1>6, ChildrenAreNodes
    <3> QED BY <3>1 DEF Healed
  <2>2. s \in S
    <3> SUFFICES ASSUME s \notin S PROVE FALSE
      OBVIOUS
    <3>1. Closed(tree, S \ {n})
      <4>1. ASSUME NEW x \in S \ {n} PROVE Children(tree, x) \subseteq S \ {n}
        <5>1. x # s /\ x \in Points
          OBVIOUS
        <5>2. Children(tree, x) = Children(new, x)
          BY <5>1 DEF Healed
        <5>3. Children(new, x) \subseteq S
          BY <1>6 DEF Closed
        <5> QED BY <1>3, <5>1, <5>2, <5>3
      <4> QED BY <4>1 DEF Closed
    <3>2. S \ {n} \in SUBSET Points /\ Root \in S \ {n}
      BY <1>1, <1>6, NamesApart
    <3>3. s \in S \ {n}
      BY <3>1, <3>2, ListedIsRooted
    <3> QED BY <3>3
  <2>3. Closed(tree, S \cup {n})
    <3>1. Children(tree, n) \subseteq S
      BY <1>2, <1>6, <2>2 DEF Closed, Healed
    <3>2. ASSUME NEW x \in S, x # n PROVE Children(tree, x) \subseteq S \cup {n}
      BY <1>6, <3>2 DEF Closed, Healed
    <3> QED BY <3>1, <3>2 DEF Closed
  <2>4. S \cup {n} \in SUBSET Points /\ Root \in S \cup {n}
    BY <1>1, <1>6
  <2>5. \A x \in Points : Children(tree, x) # {} => x \in S \cup {n}
    BY <2>3, <2>4, ListedIsRooted
  <2>6. CASE q = s
    BY <2>2, <2>6
  <2>7. CASE q # s
    BY <2>1, <2>5, <2>7 DEF Healed
  <2> QED BY <2>6, <2>7
<1>7. Rooted(new)
  BY <1>6 DEF Rooted
<1> QED BY <1>4, <1>5, <1>7 DEF Forest

-------------------------------------------------------------------------------
(* What the code does to sequences. *)

Elements(s) == {s[i] : i \in DOMAIN s}

(* A sequence of rows, each once, that holds the members of a set. *)
Lists(s, set) == s \in Seq(Nodes) /\ Once(s) /\ Elements(s) = set

\* Two sequences without a common member, one after the other.
LEMMA ListsJoined ==
    ASSUME NEW s, NEW t, NEW A, NEW B, Lists(s, A), Lists(t, B), A \cap B = {}
    PROVE  Lists(s \o t, A \cup B)
<1>1. s \in Seq(Nodes) /\ t \in Seq(Nodes) /\ Once(s) /\ Once(t) /\ Elements(s) = A /\ Elements(t) = B
  BY DEF Lists
<1> DEFINE u == s \o t
<1>2. /\ u \in Seq(Nodes) /\ Len(s) \in Nat /\ Len(t) \in Nat /\ Len(u) = Len(s) + Len(t)
      /\ DOMAIN u = 1..(Len(s) + Len(t)) /\ DOMAIN s = 1..Len(s) /\ DOMAIN t = 1..Len(t)
  BY <1>1
<1>3. \A k \in DOMAIN u : u[k] = IF k <= Len(s) THEN s[k] ELSE t[k - Len(s)]
  BY <1>1, <1>2
<1>4. \A k \in DOMAIN u : IF k <= Len(s) THEN k \in DOMAIN s ELSE k - Len(s) \in DOMAIN t
  BY <1>2
<1>5. \A k \in DOMAIN s : k \in DOMAIN u /\ u[k] = s[k]
  BY <1>1, <1>2
<1>6. \A k \in DOMAIN t : k + Len(s) \in DOMAIN u /\ u[k + Len(s)] = t[k]
  BY <1>1, <1>2
<1>7. \A k \in DOMAIN s : s[k] \in A
  BY <1>1 DEF Elements
<1>8. \A k \in DOMAIN t : t[k] \in B
  BY <1>1 DEF Elements
<1> HIDE DEF u
<1>9. ASSUME NEW k \in DOMAIN u, NEW l \in DOMAIN u, u[k] = u[l] PROVE k = l
  <2>1. k \in Nat /\ l \in Nat
    BY <1>2
  <2>2. CASE k <= Len(s) /\ l <= Len(s)
    BY <1>1, <1>3, <1>4, <1>9, <2>2 DEF Once
  <2>3. CASE ~(k <= Len(s)) /\ ~(l <= Len(s))
    <3>1. k - Len(s) \in DOMAIN t /\ l - Len(s) \in DOMAIN t /\ t[k - Len(s)] = t[l - Len(s)]
      BY <1>3, <1>4, <1>9, <2>3
    <3>2. k - Len(s) = l - Len(s)
      BY <1>1, <3>1 DEF Once
    <3> QED BY <1>2, <2>1, <3>2
  <2>4. CASE k <= Len(s) /\ ~(l <= Len(s))
    BY <1>3, <1>4, <1>7, <1>8, <1>9, <2>4
  <2>5. CASE ~(k <= Len(s)) /\ l <= Len(s)
    BY <1>3, <1>4, <1>7, <1>8, <1>9, <2>5
  <2> QED BY <2>2, <2>3, <2>4, <2>5
<1>10. Once(u)
  BY <1>9 DEF Once
<1>11. Elements(u) \subseteq A \cup B
  BY <1>3, <1>4, <1>7, <1>8 DEF Elements
<1>12. A \subseteq Elements(u)
  BY <1>1, <1>5 DEF Elements
<1>13. B \subseteq Elements(u)
  BY <1>1, <1>6 DEF Elements
<1> QED BY <1>2, <1>10, <1>11, <1>12, <1>13 DEF Lists, u

\* A part of a sequence.
LEMMA ListsPart ==
    ASSUME NEW s \in Seq(Nodes), Once(s), NEW a \in 1..(Len(s) + 1), NEW b \in 0..Len(s)
    PROVE  Lists(SubSeq(s, a, b), {s[k] : k \in a..b})
<1> DEFINE u == SubSeq(s, a, b)
<1>1. Len(s) \in Nat /\ DOMAIN s = 1..Len(s)
  OBVIOUS
<1>2. CASE a <= b
  <2>1. u \in Seq(Nodes) /\ Len(u) = b - a + 1 /\ DOMAIN u = 1..(b - a + 1)
    BY <1>1, <1>2
  <2>2. \A k \in DOMAIN u : a + k - 1 \in a..b /\ a + k - 1 \in DOMAIN s /\ u[k] = s[a + k - 1]
    BY <1>1, <1>2, <2>1
  <2>3. \A k \in a..b : k - a + 1 \in DOMAIN u /\ u[k - a + 1] = s[k]
    BY <1>1, <1>2, <2>1
  <2> HIDE DEF u
  <2>4. ASSUME NEW k \in DOMAIN u, NEW l \in DOMAIN u, u[k] = u[l] PROVE k = l
    <3>1. a + k - 1 = a + l - 1
      BY <2>2, <2>4 DEF Once
    <3>2. k \in Nat /\ l \in Nat /\ a \in Nat
      BY <1>1, <2>1
    <3> QED BY <3>1, <3>2
  <2>5. Elements(u) \subseteq {s[k] : k \in a..b}
    BY <2>2 DEF Elements
  <2>6. {s[k] : k \in a..b} \subseteq Elements(u)
    BY <2>3 DEF Elements
  <2> QED BY <2>1, <2>4, <2>5, <2>6 DEF Lists, Once, u
<1>3. CASE ~(a <= b)
  <2>1. u = <<>>
    BY <1>1, <1>3
  <2>2. a..b = {}
    BY <1>1, <1>3
  <2>3. {s[k] : k \in a..b} = {}
    BY <2>2
  <2>4. <<>> \in Seq(Nodes) /\ Once(<<>>) /\ Elements(<<>>) = {}
    BY DEF Once, Elements
  <2> HIDE DEF u
  <2> QED BY <2>1, <2>3, <2>4 DEF Lists, u
<1> QED BY <1>2, <1>3

\* The positions before and after i hold the other members.
LEMMA ListsSplit ==
    ASSUME NEW s \in Seq(Nodes), Once(s), NEW i \in 1..Len(s)
    PROVE  /\ {s[k] : k \in 1..(i - 1)} \cup {s[k] : k \in (i + 1)..Len(s)} = Elements(s) \ {s[i]}
           /\ {s[k] : k \in 1..(i - 1)} \cap {s[k] : k \in (i + 1)..Len(s)} = {}
<1>1. Len(s) \in Nat /\ DOMAIN s = 1..Len(s) /\ i \in DOMAIN s
  OBVIOUS
<1>2. \A k \in 1..(i - 1) : k \in DOMAIN s /\ k # i
  BY <1>1
<1>3. \A k \in (i + 1)..Len(s) : k \in DOMAIN s /\ k # i
  BY <1>1
<1>4. \A k \in DOMAIN s : k = i \/ k \in 1..(i - 1) \/ k \in (i + 1)..Len(s)
  BY <1>1
<1>5. \A k \in 1..(i - 1), l \in (i + 1)..Len(s) : k # l
  BY <1>1
<1>6. {s[k] : k \in 1..(i - 1)} \cap {s[k] : k \in (i + 1)..Len(s)} = {}
  BY <1>2, <1>3, <1>5 DEF Once
<1>7. {s[k] : k \in 1..(i - 1)} \cup {s[k] : k \in (i + 1)..Len(s)} \subseteq Elements(s) \ {s[i]}
  BY <1>1, <1>2, <1>3 DEF Once, Elements
<1>8. Elements(s) \ {s[i]} \subseteq {s[k] : k \in 1..(i - 1)} \cup {s[k] : k \in (i + 1)..Len(s)}
  BY <1>4 DEF Elements
<1> QED BY <1>6, <1>7, <1>8

\* A member is replaced by a sequence.
LEMMA ListsSpliced ==
    ASSUME NEW s \in Seq(Nodes), Once(s), NEW i \in 1..Len(s), NEW t, NEW B, Lists(t, B),
           B \cap Elements(s) = {}
    PROVE  Lists(SubSeq(s, 1, i - 1) \o t \o SubSeq(s, i + 1, Len(s)), (Elements(s) \ {s[i]}) \cup B)
<1> DEFINE A == {s[k] : k \in 1..(i - 1)}
           C == {s[k] : k \in (i + 1)..Len(s)}
<1>1. Len(s) \in Nat
  OBVIOUS
<1>2. Lists(SubSeq(s, 1, i - 1), A)
  <2>1. 1 \in 1..(Len(s) + 1) /\ i - 1 \in 0..Len(s)
    BY <1>1
  <2> QED BY <2>1, ListsPart
<1>3. Lists(SubSeq(s, i + 1, Len(s)), C)
  <2>1. i + 1 \in 1..(Len(s) + 1) /\ Len(s) \in 0..Len(s)
    BY <1>1
  <2> QED BY <2>1, ListsPart
<1>4. A \cup C = Elements(s) \ {s[i]} /\ A \cap C = {}
  BY ListsSplit
<1> HIDE DEF A, C
<1>5. Lists(SubSeq(s, 1, i - 1) \o t, A \cup B)
  BY <1>2, <1>4, ListsJoined
<1>6. Lists(SubSeq(s, 1, i - 1) \o t \o SubSeq(s, i + 1, Len(s)), A \cup B \cup C)
  BY <1>3, <1>4, <1>5, ListsJoined
<1>7. A \cup B \cup C = (Elements(s) \ {s[i]}) \cup B
  BY <1>4
<1> QED BY <1>6, <1>7

\* A member is taken out.
LEMMA ListsRemoved ==
    ASSUME NEW s \in Seq(Nodes), Once(s), NEW i \in 1..Len(s)
    PROVE  Lists(Seqs!RemoveAt(s, i), Elements(s) \ {s[i]})
<1> DEFINE A == {s[k] : k \in 1..(i - 1)}
           C == {s[k] : k \in (i + 1)..Len(s)}
<1>1. Len(s) \in Nat
  OBVIOUS
<1>2. Lists(SubSeq(s, 1, i - 1), A)
  <2>1. 1 \in 1..(Len(s) + 1) /\ i - 1 \in 0..Len(s)
    BY <1>1
  <2> QED BY <2>1, ListsPart
<1>3. Lists(SubSeq(s, i + 1, Len(s)), C)
  <2>1. i + 1 \in 1..(Len(s) + 1) /\ Len(s) \in 0..Len(s)
    BY <1>1
  <2> QED BY <2>1, ListsPart
<1>4. A \cup C = Elements(s) \ {s[i]} /\ A \cap C = {}
  BY ListsSplit
<1> HIDE DEF A, C
<1>5. Lists(SubSeq(s, 1, i - 1) \o SubSeq(s, i + 1, Len(s)), A \cup C)
  BY <1>2, <1>3, <1>4, ListsJoined
<1> QED BY <1>4, <1>5 DEF Seqs!RemoveAt

\* One row alone.
LEMMA ListsOne ==
    ASSUME NEW e \in Nodes
    PROVE  Lists(<<e>>, {e})
<1>1. <<e>> \in Seq(Nodes) /\ DOMAIN <<e>> = {1} /\ <<e>>[1] = e
  OBVIOUS
<1> QED BY <1>1 DEF Lists, Once, Elements

\* A row is put in at a position.
LEMMA ListsInserted ==
    ASSUME NEW s \in Seq(Nodes), Once(s), NEW e \in Nodes, e \notin Elements(s),
           NEW at \in 1..(Len(s) + 1)
    PROVE  Lists(Seqs!InsertAt(s, at, e), Elements(s) \cup {e})
<1> DEFINE A == {s[k] : k \in 1..(at - 1)}
           C == {s[k] : k \in at..Len(s)}
<1>1. Len(s) \in Nat /\ DOMAIN s = 1..Len(s)
  OBVIOUS
<1>2. Lists(SubSeq(s, 1, at - 1), A)
  <2>1. 1 \in 1..(Len(s) + 1) /\ at - 1 \in 0..Len(s)
    BY <1>1
  <2> QED BY <2>1, ListsPart
<1>3. Lists(SubSeq(s, at, Len(s)), C)
  <2>1. Len(s) \in 0..Len(s)
    BY <1>1
  <2> QED BY <2>1, ListsPart
<1>4. A \cup C = Elements(s) /\ A \cap C = {}
  <2>1. \A k \in 1..(at - 1) : k \in DOMAIN s
    BY <1>1
  <2>2. \A k \in at..Len(s) : k \in DOMAIN s
    BY <1>1
  <2>3. \A k \in DOMAIN s : k \in 1..(at - 1) \/ k \in at..Len(s)
    BY <1>1
  <2>4. \A k \in 1..(at - 1), l \in at..Len(s) : k # l
    BY <1>1
  <2>5. A \cap C = {}
    BY <2>1, <2>2, <2>4 DEF Once
  <2> QED BY <2>1, <2>2, <2>3, <2>5 DEF Elements
<1> HIDE DEF A, C
<1>5. Lists(SubSeq(s, 1, at - 1) \o <<e>>, A \cup {e})
  BY <1>2, <1>4, ListsOne, ListsJoined
<1>6. Lists(SubSeq(s, 1, at - 1) \o <<e>> \o SubSeq(s, at, Len(s)), A \cup {e} \cup C)
  BY <1>3, <1>4, <1>5, ListsJoined
<1>7. A \cup {e} \cup C = Elements(s) \cup {e}
  BY <1>4
<1> QED BY <1>6, <1>7 DEF Seqs!InsertAt

\* A row is put at the end.
LEMMA ListsAppended ==
    ASSUME NEW s \in Seq(Nodes), Once(s), NEW e \in Nodes, e \notin Elements(s)
    PROVE  Lists(Append(s, e), Elements(s) \cup {e})
<1>1. Lists(s, Elements(s)) /\ Lists(<<e>>, {e})
  BY ListsOne DEF Lists
<1>2. Lists(s \o <<e>>, Elements(s) \cup {e})
  BY <1>1, ListsJoined
<1>3. Append(s, e) = s \o <<e>>
  OBVIOUS
<1> QED BY <1>2, <1>3

\* The rows at some positions, in order.
LEMMA ListsKept ==
    ASSUME NEW s \in Seq(Nodes), Once(s), NEW P \in SUBSET DOMAIN s
    PROVE  Lists(Keep(s, P), {s[k] : k \in P})
<1>1. Len(s) \in Nat /\ DOMAIN s = 1..Len(s)
  OBVIOUS
<1>2. IsFiniteSet(P) /\ P \in SUBSET Nat
  <2>1. IsFiniteSet(1..Len(s))
    BY <1>1, FS_Interval
  <2>2. P \subseteq 1..Len(s)
    BY <1>1
  <2> QED BY <2>1, <2>2, FS_Subset
<1> DEFINE o == InOrder(P)
           n == Cardinality(P)
           u == Keep(s, P)
<1>3. n \in Nat /\ Len(o) = n /\ o \in Seq(P)
  BY <1>2, InOrderLists
<1>4. \A k \in 1..n : o[k] \in P /\ Position(P, o[k]) = k - 1
  BY <1>2, InOrderLists
<1>5. \A x \in P : \E k \in 1..n : o[k] = x
  BY <1>2, InOrderLists
<1>6. DOMAIN o = 1..n
  BY <1>3
<1>7. DOMAIN u = 1..n /\ \A k \in 1..n : u[k] = s[o[k]]
  BY <1>6 DEF Keep, At
<1>8. u = [k \in 1..n |-> s[o[k]]]
  BY <1>6 DEF Keep, At
<1> HIDE DEF o, n, u
<1>9. u \in Seq(Nodes)
  <2>1. \A k \in 1..n : s[o[k]] \in Nodes
    BY <1>4
  <2>2. u \in [1..n -> Nodes]
    BY <1>8, <2>1
  <2> QED BY <1>3, <2>2
<1>10. ASSUME NEW k \in DOMAIN u, NEW l \in DOMAIN u, u[k] = u[l] PROVE k = l
  <2>1. o[k] = o[l]
    BY <1>4, <1>7, <1>10 DEF Once
  <2>2. k - 1 = l - 1
    BY <1>4, <1>7, <2>1
  <2> QED BY <1>3, <1>7, <2>2
<1>11. Elements(u) = {s[k] : k \in P}
  <2>1. Elements(u) \subseteq {s[k] : k \in P}
    BY <1>4, <1>7 DEF Elements
  <2>2. {s[k] : k \in P} \subseteq Elements(u)
    BY <1>5, <1>7 DEF Elements
  <2> QED BY <2>1, <2>2
<1> QED BY <1>9, <1>10, <1>11 DEF Lists, Once, u

\* "Bottom" separators go last, and nothing is lost or doubled.
LEMMA ListsSunk ==
    ASSUME NEW s \in Seq(Nodes), Once(s), ~BottomsLast(s)
    PROVE  LET bottoms == {i \in DOMAIN s : s[i] \in Bottoms}
               sunk == Keep(s, DOMAIN s \ bottoms) \o Keep(s, bottoms)
           IN  Lists(sunk, Elements(s)) /\ BottomsLast(sunk)
<1> DEFINE bottoms == {i \in DOMAIN s : s[i] \in Bottoms}
           a == Keep(s, DOMAIN s \ bottoms)
           b == Keep(s, bottoms)
           A == {s[k] : k \in DOMAIN s \ bottoms}
           B == {s[k] : k \in bottoms}
<1>1. Lists(a, A) /\ Lists(b, B)
  BY ListsKept
<1>2. A \cap Bottoms = {} /\ B \subseteq Bottoms
  OBVIOUS
<1>3. A \cup B = Elements(s)
  BY DEF Elements
<1> HIDE DEF a, b, A, B
<1>4. Lists(a \o b, Elements(s))
  BY <1>1, <1>2, <1>3, ListsJoined
<1>5. /\ a \in Seq(Nodes) /\ b \in Seq(Nodes) /\ Len(a) \in Nat /\ Len(b) \in Nat
      /\ DOMAIN a = 1..Len(a) /\ DOMAIN b = 1..Len(b) /\ DOMAIN (a \o b) = 1..(Len(a) + Len(b))
  BY <1>1 DEF Lists
<1>6. \A k \in DOMAIN (a \o b) : IF k <= Len(a) THEN (a \o b)[k] \in A ELSE (a \o b)[k] \in B
  <2>1. \A k \in DOMAIN (a \o b) : (a \o b)[k] = IF k <= Len(a) THEN a[k] ELSE b[k - Len(a)]
    BY <1>5
  <2>2. \A k \in DOMAIN (a \o b) : IF k <= Len(a) THEN k \in DOMAIN a ELSE k - Len(a) \in DOMAIN b
    BY <1>5
  <2>3. (\A k \in DOMAIN a : a[k] \in A) /\ (\A k \in DOMAIN b : b[k] \in B)
    BY <1>1 DEF Lists, Elements
  <2> QED BY <2>1, <2>2, <2>3
<1>7. BottomsLast(a \o b)
  <2> DEFINE u == a \o b
  <2> SUFFICES ASSUME NEW i \in DOMAIN u, NEW j \in DOMAIN u, i < j, u[i] \in Bottoms
               PROVE  u[j] \in Bottoms
    BY DEF BottomsLast
  <2>1. ~(i <= Len(a))
    BY <1>2, <1>6
  <2>2. ~(j <= Len(a))
    BY <1>5, <2>1
  <2> QED BY <1>2, <1>6, <2>2
<1> QED BY <1>4, <1>7 DEF a, b

\* Every scope keeps its rows, the "bottom" separators last.
LEMMA Sinks ==
    ASSUME NEW tree, Typed(tree)
    PROVE  /\ Typed(SinkBottomSeparators(tree))
           /\ \A q \in Points : Children(SinkBottomSeparators(tree), q) = Children(tree, q)
           /\ \A q \in Points : BottomsLast(SinkBottomSeparators(tree)[q])
<1> DEFINE new == SinkBottomSeparators(tree)
<1>1. DOMAIN tree = Points /\ \A q \in Points : tree[q] \in Seq(Nodes) /\ Once(tree[q])
  BY DEF Typed
<1>2. ASSUME NEW q \in Points PROVE Lists(new[q], Children(tree, q)) /\ BottomsLast(new[q])
  <2>1. CASE BottomsLast(tree[q])
    <3>1. new[q] = tree[q]
      BY <1>1, <2>1 DEF SinkBottomSeparators
    <3> QED BY <1>1, <2>1, <3>1 DEF Lists, Elements, Children
  <2>2. CASE ~BottomsLast(tree[q])
    <3> DEFINE bottoms == {i \in DOMAIN tree[q] : tree[q][i] \in Bottoms}
               sunk == Keep(tree[q], DOMAIN tree[q] \ bottoms) \o Keep(tree[q], bottoms)
    <3>1. new[q] = sunk
      BY <1>1, <2>2 DEF SinkBottomSeparators
    <3>2. Lists(sunk, Elements(tree[q])) /\ BottomsLast(sunk)
      BY <1>1, <2>2, ListsSunk
    <3>3. Elements(tree[q]) = Children(tree, q)
      BY DEF Elements, Children
    <3> HIDE DEF sunk
    <3> QED BY <3>1, <3>2, <3>3
  <2> QED BY <2>1, <2>2
<1>3. DOMAIN new = Points /\ new = [q \in Points |-> new[q]]
  BY <1>1 DEF SinkBottomSeparators
<1> HIDE DEF new
<1>4. \A q \in Points : new[q] \in Seq(Nodes) /\ Once(new[q]) /\ Elements(new[q]) = Children(tree, q)
  BY <1>2 DEF Lists
<1>5. new \in [Points -> Seq(Nodes)]
  BY <1>3, <1>4
<1>6. \A q \in Points : Children(new, q) = Children(tree, q)
  BY <1>4 DEF Elements, Children
<1> QED BY <1>2, <1>4, <1>5, <1>6 DEF Typed, new

\* Sinking keeps the tree.
LEMMA SunkForest ==
    ASSUME NEW tree, Forest(tree)
    PROVE  /\ Forest(SinkBottomSeparators(tree))
           /\ Listed(SinkBottomSeparators(tree)) = Listed(tree)
           /\ \A q \in Points : Children(SinkBottomSeparators(tree), q) = Children(tree, q)
           /\ \A q \in Points : BottomsLast(SinkBottomSeparators(tree)[q])
<1>1. Typed(tree)
  BY DEF Forest
<1> QED BY <1>1, Sinks, PermutedForest

\* A listed row has its scope and its place.
LEMMA Located ==
    ASSUME NEW tree, Forest(tree), NEW n \in Listed(tree)
    PROVE  /\ Scope(tree, n) \in Points
           /\ Place(tree, n) \in 1..Len(tree[Scope(tree, n)])
           /\ tree[Scope(tree, n)][Place(tree, n)] = n
           /\ n \in Children(tree, Scope(tree, n))
           /\ \A q \in Points : n \in Children(tree, q) => q = Scope(tree, n)
<1>1. DOMAIN tree = Points /\ \A q \in Points : tree[q] \in Seq(Nodes) /\ Once(tree[q])
  BY DEF Forest, Typed
<1>2. \E q \in Points : \E i \in DOMAIN tree[q] : tree[q][i] = n
  BY DEF Listed, Children
<1> DEFINE s == Scope(tree, n)
           at == {i \in DOMAIN tree[s] : tree[s][i] = n}
<1>3. s \in Points /\ \E i \in DOMAIN tree[s] : tree[s][i] = n
  BY <1>1, <1>2 DEF Scope
<1> HIDE DEF s
<1>4. PICK i \in DOMAIN tree[s] : tree[s][i] = n
  BY <1>3
<1>5. at = {i}
  BY <1>1, <1>3, <1>4 DEF Once
<1>6. First(at) = i
  <2>1. i \in Nat
    BY <1>1, <1>3
  <2> QED BY <1>5, <2>1 DEF First
<1>7. Place(tree, n) = i
  BY <1>6 DEF Place, s
<1>8. n \in Children(tree, s)
  BY <1>4 DEF Children
<1>9. \A q \in Points : n \in Children(tree, q) => q = s
  BY <1>3, <1>8 DEF Forest, Disjoint
<1>10. i \in 1..Len(tree[s])
  BY <1>1, <1>3
<1> QED BY <1>3, <1>4, <1>7, <1>8, <1>9, <1>10 DEF s

(* The children of p, and of p alone, become those in C. *)
Rescoped(tree, new, p, C) == \A q \in Points : Children(new, q) = IF q = p THEN C ELSE Children(tree, q)

\* One scope of a tree gets another sequence.
LEMMA ScopeReplaced ==
    ASSUME NEW tree, Typed(tree), NEW p \in Points, NEW s, NEW C, Lists(s, C),
           NEW new, new = [tree EXCEPT ![p] = s]
    PROVE  Typed(new) /\ Rescoped(tree, new, p, C)
<1>1. tree \in [Points -> Seq(Nodes)] /\ \A q \in Points : Once(tree[q])
  BY DEF Typed
<1>2. s \in Seq(Nodes) /\ Once(s) /\ Elements(s) = C
  BY DEF Lists
<1>3. new \in [Points -> Seq(Nodes)] /\ \A q \in Points : new[q] = IF q = p THEN s ELSE tree[q]
  BY <1>1, <1>2
<1>4. \A q \in Points : Once(new[q])
  BY <1>1, <1>2, <1>3
<1>5. Rescoped(tree, new, p, C)
  BY <1>2, <1>3 DEF Children, Elements, Rescoped
<1> QED BY <1>3, <1>4, <1>5 DEF Typed

\* A row is taken out of its scope.
LEMMA Detaches ==
    ASSUME NEW tree, Forest(tree), NEW n \in Listed(tree)
    PROVE  /\ Typed(Detach(tree, n))
           /\ \A q \in Points : Children(Detach(tree, n), q) = Children(tree, q) \ {n}
<1> DEFINE s == Scope(tree, n)
           out == Seqs!RemoveAt(tree[s], Place(tree, n))
<1>1. /\ s \in Points /\ Place(tree, n) \in 1..Len(tree[s]) /\ tree[s][Place(tree, n)] = n
      /\ \A q \in Points : n \in Children(tree, q) => q = s
  BY Located
<1>2. Typed(tree) /\ tree[s] \in Seq(Nodes) /\ Once(tree[s])
  BY <1>1 DEF Forest, Typed
<1>3. Lists(out, Elements(tree[s]) \ {n})
  BY <1>1, <1>2, ListsRemoved
<1>4. Elements(tree[s]) = Children(tree, s)
  BY DEF Elements, Children
<1>5. Detach(tree, n) = [tree EXCEPT ![s] = out]
  <2>1. tree[s] = tree[Scope(tree, n)]
    OBVIOUS
  <2> QED BY DEF Detach
<1> HIDE DEF s, out
<1>6. Lists(out, Children(tree, s) \ {n})
  BY <1>3, <1>4
<1>7. Typed(Detach(tree, n)) /\ Rescoped(tree, Detach(tree, n), s, Children(tree, s) \ {n})
  BY <1>1, <1>2, <1>5, <1>6, ScopeReplaced
<1> QED BY <1>1, <1>7 DEF Rescoped

\* A row that has no place gets one at the end of a scope.
LEMMA Attaches ==
    ASSUME NEW tree, Typed(tree), NEW p \in Points, NEW n \in Nodes,
           \A q \in Points : n \notin Children(tree, q)
    PROVE  Typed(Attach(tree, p, n)) /\ Grown(tree, Attach(tree, p, n), n, p)
<1>1. tree[p] \in Seq(Nodes) /\ Once(tree[p])
  BY DEF Typed
<1>2. Elements(tree[p]) = Children(tree, p)
  BY DEF Elements, Children
<1>3. Lists(Append(tree[p], n), Children(tree, p) \cup {n})
  BY <1>1, <1>2, ListsAppended
<1>4. Attach(tree, p, n) = [tree EXCEPT ![p] = Append(tree[p], n)]
  BY DEF Attach
<1>5. Typed(Attach(tree, p, n)) /\ Rescoped(tree, Attach(tree, p, n), p, Children(tree, p) \cup {n})
  BY <1>3, <1>4, ScopeReplaced
<1> QED BY <1>5 DEF Grown, Rescoped

(* The tree with a row put in at a place of a scope. *)
Inserted(tree, p, at, n) == [tree EXCEPT ![p] = Seqs!InsertAt(@, at, n)]

\* The same at any place.
LEMMA Inserts ==
    ASSUME NEW tree, Typed(tree), NEW p \in Points, NEW n \in Nodes,
           \A q \in Points : n \notin Children(tree, q), NEW at \in 1..(Len(tree[p]) + 1)
    PROVE  Typed(Inserted(tree, p, at, n)) /\ Grown(tree, Inserted(tree, p, at, n), n, p)
<1>1. tree[p] \in Seq(Nodes) /\ Once(tree[p])
  BY DEF Typed
<1>2. Elements(tree[p]) = Children(tree, p)
  BY DEF Elements, Children
<1>3. Lists(Seqs!InsertAt(tree[p], at, n), Children(tree, p) \cup {n})
  BY <1>1, <1>2, ListsInserted
<1>4. Inserted(tree, p, at, n) = [tree EXCEPT ![p] = Seqs!InsertAt(tree[p], at, n)]
  BY DEF Inserted
<1>5. Typed(Inserted(tree, p, at, n)) /\ Rescoped(tree, Inserted(tree, p, at, n), p, Children(tree, p) \cup {n})
  BY <1>3, <1>4, ScopeReplaced
<1> QED BY <1>5 DEF Grown, Rescoped

\* A new row at the end of a scope.
LEMMA AttachedForest ==
    ASSUME NEW tree, Forest(tree), NEW p \in Listed(tree) \cup {Root}, NEW n \in Nodes, n \notin Listed(tree)
    PROVE  /\ Forest(Attach(tree, p, n)) /\ Listed(Attach(tree, p, n)) = Listed(tree) \cup {n}
           /\ Grown(tree, Attach(tree, p, n), n, p)
<1>1. p \in Points /\ Typed(tree)
  BY InTreeIsListed DEF Points, Forest
<1>2. \A q \in Points : n \notin Children(tree, q)
  BY DEF Listed
<1>3. Typed(Attach(tree, p, n)) /\ Grown(tree, Attach(tree, p, n), n, p)
  BY <1>1, <1>2, Attaches
<1> QED BY <1>3, GrownForest

\* A new row at a place of a scope.
LEMMA InsertedForest ==
    ASSUME NEW tree, Forest(tree), NEW p \in Listed(tree) \cup {Root}, NEW n \in Nodes, n \notin Listed(tree),
           NEW at \in 1..(Len(tree[p]) + 1)
    PROVE  /\ Forest(Inserted(tree, p, at, n)) /\ Listed(Inserted(tree, p, at, n)) = Listed(tree) \cup {n}
           /\ Grown(tree, Inserted(tree, p, at, n), n, p)
<1>1. p \in Points /\ Typed(tree)
  BY InTreeIsListed DEF Points, Forest
<1>2. \A q \in Points : n \notin Children(tree, q)
  BY DEF Listed
<1>3. Typed(Inserted(tree, p, at, n)) /\ Grown(tree, Inserted(tree, p, at, n), n, p)
  BY <1>1, <1>2, Inserts
<1> QED BY <1>3, GrownForest

\* A row that is taken out and attached elsewhere, not below itself.
LEMMA ReattachedForest ==
    ASSUME NEW tree, Forest(tree), NEW n \in Listed(tree), NEW p \in Listed(tree) \cup {Root},
           p \notin Reach(tree, n)
    PROVE  /\ Forest(Attach(Detach(tree, n), p, n)) /\ Listed(Attach(Detach(tree, n), p, n)) = Listed(tree)
           /\ Moved(tree, Attach(Detach(tree, n), p, n), n, p)
<1> DEFINE out == Detach(tree, n)
<1>1. p \in Points /\ n \in Nodes
  BY InTreeIsListed DEF Points
<1>2. Typed(out) /\ \A q \in Points : Children(out, q) = Children(tree, q) \ {n}
  BY Detaches
<1> HIDE DEF out
<1>3. Typed(Attach(out, p, n)) /\ Grown(out, Attach(out, p, n), n, p)
  BY <1>1, <1>2, Attaches
<1>4. Moved(tree, Attach(out, p, n), n, p)
  BY <1>2, <1>3 DEF Grown, Moved
<1> QED BY <1>3, <1>4, MovedForest DEF out

\* The same at a place of a scope.
LEMMA ReinsertedForest ==
    ASSUME NEW tree, Forest(tree), NEW n \in Listed(tree), NEW p \in Listed(tree) \cup {Root},
           p \notin Reach(tree, n), NEW at \in 1..(Len(Detach(tree, n)[p]) + 1)
    PROVE  /\ Forest(Inserted(Detach(tree, n), p, at, n))
           /\ Listed(Inserted(Detach(tree, n), p, at, n)) = Listed(tree)
           /\ Moved(tree, Inserted(Detach(tree, n), p, at, n), n, p)
<1> DEFINE out == Detach(tree, n)
<1>1. p \in Points /\ n \in Nodes
  BY InTreeIsListed DEF Points
<1>2. Typed(out) /\ \A q \in Points : Children(out, q) = Children(tree, q) \ {n}
  BY Detaches
<1>3. at \in 1..(Len(out[p]) + 1)
  OBVIOUS
<1> HIDE DEF out
<1>4. Typed(Inserted(out, p, at, n)) /\ Grown(out, Inserted(out, p, at, n), n, p)
  BY <1>1, <1>2, <1>3, Inserts
<1>5. Moved(tree, Inserted(out, p, at, n), n, p)
  BY <1>2, <1>4 DEF Grown, Moved
<1> QED BY <1>4, <1>5, MovedForest DEF out

\* A row is removed and its children take its place.
LEMMA RemovedForest ==
    ASSUME NEW tree, Forest(tree), NEW n \in Listed(tree)
    PROVE  /\ Forest(RemoveNodeSelfHealing(tree, n))
           /\ Listed(RemoveNodeSelfHealing(tree, n)) = Listed(tree) \ {n}
           /\ Healed(tree, RemoveNodeSelfHealing(tree, n), n, Scope(tree, n))
<1> DEFINE s == Scope(tree, n)
           i == Place(tree, n)
           spliced == SubSeq(tree[s], 1, i - 1) \o tree[n] \o SubSeq(tree[s], i + 1, Len(tree[s]))
           new == RemoveNodeSelfHealing(tree, n)
<1>1. s \in Points /\ i \in 1..Len(tree[s]) /\ tree[s][i] = n /\ n \in Children(tree, s)
  BY Located
<1>2. Typed(tree) /\ n \in Points
  BY InTreeIsListed DEF Forest, Points
<1>3. tree[s] \in Seq(Nodes) /\ Once(tree[s]) /\ tree[n] \in Seq(Nodes) /\ Once(tree[n]) /\ tree \in [Points -> Seq(Nodes)]
  BY <1>1, <1>2 DEF Typed
<1>4. n # s
  <2>1. s \notin Reach(tree, n)
    BY <1>1, Acyclic
  <2>2. n \in Reach(tree, n)
    BY <1>2, ReachIsClosed
  <2> QED BY <2>1, <2>2
<1>5. Elements(tree[s]) = Children(tree, s) /\ Elements(tree[n]) = Children(tree, n)
  BY DEF Elements, Children
<1>6. Lists(tree[n], Children(tree, n)) /\ Children(tree, n) \cap Elements(tree[s]) = {}
  BY <1>1, <1>2, <1>3, <1>4, <1>5 DEF Lists, Forest, Disjoint
<1>7. Lists(spliced, (Elements(tree[s]) \ {n}) \cup Children(tree, n))
  BY <1>1, <1>3, <1>6, ListsSpliced
<1>8. new = [tree EXCEPT ![s] = spliced, ![n] = <<>>]
  BY DEF RemoveNodeSelfHealing
<1> HIDE DEF spliced, new, s, i
<1>9. Lists(spliced, (Children(tree, s) \ {n}) \cup Children(tree, n))
  BY <1>5, <1>7
<1> DEFINE mid == [tree EXCEPT ![s] = spliced]
<1>10. Typed(mid) /\ Rescoped(tree, mid, s, (Children(tree, s) \ {n}) \cup Children(tree, n))
  BY <1>1, <1>2, <1>9, ScopeReplaced
<1>11. new = [mid EXCEPT ![n] = <<>>]
  BY <1>8
<1>12. Lists(<<>>, {})
  BY DEF Lists, Once, Elements
<1> HIDE DEF mid
<1>13. Typed(new) /\ Rescoped(mid, new, n, {})
  BY <1>2, <1>10, <1>11, <1>12, ScopeReplaced
<1>14. Healed(tree, new, n, s)
  BY <1>10, <1>13 DEF Healed, Rescoped
<1>15. Forest(new) /\ Listed(new) = Listed(tree) \ {n}
  BY <1>1, <1>13, <1>14, HealedForest
<1> QED BY <1>14, <1>15 DEF new, s

-------------------------------------------------------------------------------
(* What a launch has to work with. *)

\* The last of some positions.
LEMMA LastFound ==
    ASSUME NEW n \in Nat, NEW P \in SUBSET (1..n), P # {}
    PROVE  Last(P) \in P
<1>1. P \in SUBSET Nat /\ \A x \in P : x <= n
  OBVIOUS
<1>2. PICK m \in P : \A y \in P : y <= m
  BY <1>1, GreatestNatural
<1> QED BY <1>2 DEF Last

(* The parent of row i, given the parents of the rows above it. *)
Named(list, i) == {j \in 1..(i - 1) : list[j].id = list[i].parent}

Resolved(list, i, parent) ==
    IF list[i].parent = NoId \/ Named(list, i) = {} THEN -1
    ELSE IF Named(list, i) \cap Sessions(list) # {} THEN SpawnIndex(list, Last(Named(list, i) \cap Sessions(list)))
    ELSE parent[Last(Named(list, i))]

Resolves(f, list, n) == f = [i \in 1..n |-> Resolved(list, i, f)]

\* Parents resolved for n rows extend to the next row.
LEMMA ResolvesNext ==
    ASSUME NEW list, NEW n \in Nat, NEW g, Resolves(g, list, n)
    PROVE  \E h : Resolves(h, list, n + 1)
<1> DEFINE h == [i \in 1..(n + 1) |-> IF i = n + 1 THEN Resolved(list, n + 1, g) ELSE g[i]]
<1>1. ASSUME NEW i \in 1..(n + 1) PROVE h[i] = Resolved(list, i, h)
  <2>1. h[i] = Resolved(list, i, g)
    <3>1. CASE i = n + 1
      BY <3>1
    <3>2. CASE i # n + 1
      <4>1. i \in 1..n
        BY <3>2
      <4>2. h[i] = g[i]
        BY <3>2
      <4> HIDE DEF h
      <4> QED BY <4>1, <4>2 DEF Resolves
    <3> QED BY <3>1, <3>2
  <2>2. ASSUME Named(list, i) # {} PROVE h[Last(Named(list, i))] = g[Last(Named(list, i))]
    <3>1. i - 1 \in Nat /\ Named(list, i) \in SUBSET (1..(i - 1))
      BY DEF Named
    <3>2. Last(Named(list, i)) \in Named(list, i)
      BY <2>2, <3>1, LastFound
    <3>3. Last(Named(list, i)) \in 1..(n + 1) /\ Last(Named(list, i)) # n + 1
      BY <3>1, <3>2
    <3> QED BY <3>3
  <2> HIDE DEF h
  <2> QED BY <2>1, <2>2 DEF Resolved
<1>2. h = [i \in 1..(n + 1) |-> h[i]]
  OBVIOUS
<1> HIDE DEF h
<1>3. Resolves(h, list, n + 1)
  BY <1>1, <1>2 DEF Resolves
<1> QED BY <1>3

\* The recursion over the list is well defined.
LEMMA ResolveDefined ==
    ASSUME NEW list, NEW n \in Nat, DOMAIN list = 1..n
    PROVE  Resolves(ResolveParents(list), list, n)
<1> DEFINE T == {k \in Nat : ~\E g : Resolves(g, list, k)}
<1>1. T = {}
  <2> SUFFICES ASSUME T # {} PROVE FALSE
    OBVIOUS
  <2>1. PICK k \in T : \A y \in T : k <= y
    BY LeastNatural
  <2>2. CASE k = 0
    <3> DEFINE g == [i \in 1..0 |-> -1]
    <3>1. Resolves(g, list, 0)
      BY DEF Resolves
    <3> QED BY <2>1, <2>2, <3>1
  <2>3. CASE k # 0
    <3>1. k - 1 \in Nat /\ ~(k <= k - 1) /\ (k - 1) + 1 = k
      BY <2>1, <2>3
    <3>2. PICK g : Resolves(g, list, k - 1)
      BY <2>1, <3>1
    <3>3. \E h : Resolves(h, list, (k - 1) + 1)
      BY <3>1, <3>2, ResolvesNext
    <3> QED BY <2>1, <3>1, <3>3
  <2> QED BY <2>2, <2>3
<1>2. \E g : g = [i \in DOMAIN list |-> Resolved(list, i, g)]
  BY <1>1 DEF Resolves
<1> DEFINE f == CHOOSE g : g = [i \in DOMAIN list |-> Resolved(list, i, g)]
<1>3. f = [i \in DOMAIN list |-> Resolved(list, i, f)]
  BY <1>2
<1>4. ResolveParents(list) = f
  BY DEF ResolveParents, Resolved, Named
<1> HIDE DEF f
<1> QED BY <1>3, <1>4 DEF Resolves

(* A spawn index of one of n sessions, or -1. *)
IsIndex(x, n) == x \in Int /\ -1 <= x /\ x < n

\* A row's parent is the root or a session of the list.
LEMMA ParentsResolve ==
    ASSUME NEW list, NEW n \in Nat, DOMAIN list = 1..n, NEW i \in DOMAIN list
    PROVE  IsIndex(ResolveParents(list)[i], Cardinality(Sessions(list)))
<1> DEFINE f == ResolveParents(list)
           size == Cardinality(Sessions(list))
           T == {k \in 1..n : ~IsIndex(f[k], size)}
<1>1. \A k \in 1..n : f[k] = Resolved(list, k, f)
  <2>1. Resolves(f, list, n)
    BY ResolveDefined
  <2> HIDE DEF f
  <2> QED BY <2>1 DEF Resolves
<1>2. Sessions(list) \in SUBSET Nat /\ IsFiniteSet(Sessions(list)) /\ Sessions(list) \subseteq 1..n
  <2>1. IsFiniteSet(1..n)
    BY FS_Interval
  <2>2. Sessions(list) \subseteq 1..n
    BY DEF Sessions
  <2> QED BY <2>1, <2>2, FS_Subset
<1>3. size \in Nat
  BY <1>2, FS_CardinalityType
<1>4. \A x \in Sessions(list) : IsIndex(SpawnIndex(list, x), size)
  BY <1>2, <1>3, PositionGrows DEF SpawnIndex, IsIndex
<1> HIDE DEF f, size
<1>5. T = {}
  <2> SUFFICES ASSUME T # {} PROVE FALSE
    OBVIOUS
  <2>1. T \in SUBSET Nat
    OBVIOUS
  <2>2. PICK k \in T : \A y \in T : k <= y
    BY <2>1, LeastNatural
  <2>3. k \in 1..n /\ k \in Nat /\ k - 1 \in Nat
    OBVIOUS
  <2>4. Named(list, k) \in SUBSET (1..(k - 1))
    BY DEF Named
  <2>5. CASE f[k] = -1
    BY <1>3, <2>2, <2>5 DEF IsIndex
  <2>6. CASE Named(list, k) \cap Sessions(list) # {} /\ f[k] = SpawnIndex(list, Last(Named(list, k) \cap Sessions(list)))
    <3> DEFINE P == Named(list, k) \cap Sessions(list)
    <3>1. P \in SUBSET (1..(k - 1))
      BY <2>4
    <3>2. Last(P) \in P
      BY <2>3, <2>6, <3>1, LastFound
    <3> QED BY <1>4, <2>2, <2>6, <3>2
  <2>7. CASE Named(list, k) # {} /\ f[k] = f[Last(Named(list, k))]
    <3> DEFINE j == Last(Named(list, k))
    <3>1. j \in Named(list, k)
      BY <2>3, <2>4, <2>7, LastFound
    <3> HIDE DEF j
    <3>2. j \in 1..n /\ j < k
      BY <2>3, <2>4, <3>1
    <3>3. IsIndex(f[j], size)
      BY <2>2, <2>3, <3>2
    <3> QED BY <2>2, <2>7, <3>3 DEF j
  <2>8. f[k] = Resolved(list, k, f)
    BY <1>1, <2>3
  <2> QED BY <2>5, <2>6, <2>7, <2>8 DEF Resolved
<1> QED BY <1>5 DEF f, size

(* The sessions and separators of a launch refer to each other by spawn index. *)
Launchable(tree) ==
    /\ Len(tree.sessions) \in Nat /\ DOMAIN tree.sessions = 1..Len(tree.sessions)
    /\ tree.sessions = <<>> \/ Len(tree.sessions) # 0
    /\ Len(tree.separators) \in Nat /\ DOMAIN tree.separators = 1..Len(tree.separators)
    /\ \A k \in DOMAIN tree.sessions : IsIndex(tree.sessions[k].parent, Len(tree.sessions))
    /\ \A k \in DOMAIN tree.separators :
          LET sep == tree.separators[k]
          IN  /\ sep.id \in Separators
              /\ IsIndex(sep.parent, Len(tree.sessions)) /\ IsIndex(sep.after, Len(tree.sessions))
    /\ \A k, l \in DOMAIN tree.separators : tree.separators[k].id = tree.separators[l].id => k = l

\* So they do whatever the startup list.
LEMMA LaunchIsLaunchable ==
    ASSUME NEW c \in Scenarios
    PROVE  /\ Launchable(LoadStartupTree(c.list))
           /\ Len(LoadStartupTree(c.list).sessions) <= c.maxTabs
           /\ LoadStartupTree(c.list).sessions = <<>> => LoadStartupTree(c.list).separators = <<>>
<1> DEFINE list == c.list
           tree == LoadStartupTree(list)
           parent == ResolveParents(list)
           S == Sessions(list)
           D == DOMAIN list \ S
           size == Cardinality(S)
           scope(i) == {j \in S : j < i /\ parent[j] = parent[i]}
           session(k) == [id |-> list[InOrder(S)[k]].id, parent |-> parent[InOrder(S)[k]]]
           after(i) == IF scope(i) = {} THEN -1 ELSE SpawnIndex(list, Last(scope(i)))
           separator(k) == [id |-> list[InOrder(D)[k]].id, parent |-> parent[InOrder(D)[k]],
                            after |-> after(InOrder(D)[k])]
<1>1. /\ list \in Seq([id : STRING, parent : STRING, separator : BOOLEAN])
      /\ \A i \in D : list[i].id \in Separators /\ \A j \in D : list[i].id = list[j].id => i = j
      /\ size <= c.maxTabs
  BY ScenariosAssumption
<1>2. PICK n \in Nat : DOMAIN list = 1..n
  BY <1>1
<1>3. /\ S \in SUBSET Nat /\ IsFiniteSet(S) /\ S \subseteq 1..n
      /\ D \in SUBSET Nat /\ IsFiniteSet(D) /\ D \subseteq 1..n
  <2>1. IsFiniteSet(1..n)
    BY FS_Interval
  <2>2. S \subseteq 1..n /\ D \subseteq 1..n
    BY <1>2 DEF Sessions
  <2> QED BY <2>1, <2>2, FS_Subset
<1>4. /\ DOMAIN InOrder(S) = 1..size /\ size \in Nat
      /\ \A k \in 1..size : InOrder(S)[k] \in S
  BY <1>3, InOrderLists
<1>5. /\ DOMAIN InOrder(D) = 1..Cardinality(D) /\ Cardinality(D) \in Nat
      /\ \A k \in 1..Cardinality(D) : InOrder(D)[k] \in D /\ Position(D, InOrder(D)[k]) = k - 1
  <2> HIDE DEF D
  <2> QED BY <1>3, InOrderLists
<1>6. tree.sessions = [k \in DOMAIN InOrder(S) |-> session(k)]
  BY DEF LoadStartupTree
<1>7. tree.separators = IF InOrder(S) = <<>> THEN <<>> ELSE [k \in DOMAIN InOrder(D) |-> separator(k)]
  BY DEF LoadStartupTree
<1>8. \A i \in 1..n : IsIndex(parent[i], size)
  BY <1>2, ParentsResolve
<1>9. \A i \in 1..n : IsIndex(after(i), size)
  <2> SUFFICES ASSUME NEW i \in 1..n PROVE IsIndex(after(i), size)
    OBVIOUS
  <2>1. CASE scope(i) = {}
    BY <1>4, <2>1 DEF IsIndex
  <2>2. CASE scope(i) # {}
    <3>1. scope(i) \in SUBSET (1..n)
      BY <1>3
    <3>2. Last(scope(i)) \in scope(i)
      BY <2>2, <3>1, LastFound
    <3>3. Last(scope(i)) \in S
      BY <3>2
    <3>4. IsIndex(SpawnIndex(list, Last(scope(i))), size)
      BY <1>3, <1>4, <3>3, PositionGrows DEF SpawnIndex, IsIndex
    <3> QED BY <2>2, <3>4
  <2> QED BY <2>1, <2>2
<1> HIDE DEF S, D, parent, list, tree, size, after
<1>10. tree.sessions = [k \in 1..size |-> session(k)]
  BY <1>4, <1>6
<1>11. /\ Len(tree.sessions) = size /\ DOMAIN tree.sessions = 1..size
       /\ tree.sessions = <<>> \/ Len(tree.sessions) # 0
  <2>1. Len(tree.sessions) = size /\ DOMAIN tree.sessions = 1..size
    BY <1>4, <1>10
  <2>2. tree.sessions \in Seq({session(k) : k \in 1..size})
    BY <1>4, <1>10
  <2> QED BY <2>1, <2>2
<1>12. \A k \in 1..size : IsIndex(tree.sessions[k].parent, size)
  <2>1. \A k \in 1..size : InOrder(S)[k] \in 1..n
    BY <1>3, <1>4
  <2>2. \A k \in 1..size : tree.sessions[k].parent = parent[InOrder(S)[k]]
    BY <1>10
  <2> QED BY <1>8, <2>1, <2>2
<1>13. CASE InOrder(S) = <<>>
  <2>1. tree.separators = <<>>
    BY <1>7, <1>13
  <2>2. Len(tree.separators) = 0 /\ DOMAIN tree.separators = 1..Len(tree.separators) /\ DOMAIN tree.separators = {}
    BY <2>1
  <2> QED BY <1>1, <1>4, <1>11, <1>12, <2>1, <2>2 DEF Launchable, tree, list
<1>14. CASE InOrder(S) # <<>>
  <2> DEFINE m == Cardinality(D)
  <2>1. tree.separators = [k \in 1..m |-> separator(k)]
    BY <1>5, <1>7, <1>14
  <2>2. m \in Nat
    BY <1>5
  <2> HIDE DEF m
  <2>3. Len(tree.separators) = m /\ DOMAIN tree.separators = 1..m
    BY <2>1, <2>2
  <2>4. \A k \in 1..m : InOrder(D)[k] \in D /\ InOrder(D)[k] \in 1..n
    BY <1>3, <1>5 DEF m
  <2>5. ASSUME NEW k \in 1..m
        PROVE  LET sep == tree.separators[k]
               IN  sep.id \in Separators /\ IsIndex(sep.parent, size) /\ IsIndex(sep.after, size)
    BY <1>1, <1>8, <1>9, <2>1, <2>4
  <2>6. ASSUME NEW k \in 1..m, NEW l \in 1..m, tree.separators[k].id = tree.separators[l].id PROVE k = l
    <3>1. list[InOrder(D)[k]].id = list[InOrder(D)[l]].id
      BY <2>1, <2>6
    <3>2. InOrder(D)[k] = InOrder(D)[l]
      BY <1>1, <2>4, <3>1
    <3>3. k - 1 = l - 1
      BY <1>5, <3>2 DEF m
    <3> QED BY <2>2, <3>3
  <2>7. tree.sessions # <<>>
    <3>1. size # 0
      <4> SUFFICES ASSUME size = 0 PROVE FALSE
        OBVIOUS
      <4>1. InOrder(S) \in Seq(S) /\ Len(InOrder(S)) = 0
        BY <1>3, InOrderLists DEF size
      <4> QED BY <1>14, <4>1
    <3> QED BY <1>11, <3>1
  <2>8. Launchable(tree)
    <3>1. \A k, l \in DOMAIN tree.separators : tree.separators[k].id = tree.separators[l].id => k = l
      BY <2>3, <2>6
    <3> QED BY <1>4, <1>11, <1>12, <2>2, <2>3, <2>5, <3>1 DEF Launchable
  <2> QED BY <1>1, <1>11, <2>7, <2>8 DEF tree, list
<1> QED BY <1>13, <1>14

-------------------------------------------------------------------------------
(* The startup bookkeeping. *)

(* Separators are added, and only to scopes of sessions or the root. *)
Adorned(tree, new) ==
    \A q \in Points : /\ Children(new, q) \ Separators = Children(tree, q) \ Separators
                      /\ q \in Separators => Children(new, q) = Children(tree, q)

(* The rows of the startup sessions are rows of sessions. *)
Slots(held, tree, rows) == held \in [1..Len(tree.sessions) -> (rows \ Separators) \cup {None}]

(* The page while its separators are being inserted, k of them so far. *)
Placing(page, tree, kids0, slots0, k) ==
    /\ page = [kids |-> page.kids, slots |-> slots0, inserted |-> page.inserted]
    /\ page.inserted \in Seq(Int \X Int)
    /\ Forest(page.kids) /\ Adorned(kids0, page.kids)
    /\ Listed(page.kids) = Listed(kids0) \cup {tree.separators[j].id : j \in 1..k}

\* The first of some positions.
LEMMA FirstFound ==
    ASSUME NEW P \in SUBSET Nat, P # {}
    PROVE  First(P) \in P
BY LeastNatural DEF First

\* A startup session's row, if it has one.
LEMMA SlotFound ==
    ASSUME NEW page, NEW tree, NEW rows, Len(tree.sessions) \in Nat, Slots(page.slots, tree, rows),
           NEW index, IsIndex(index, Len(tree.sessions))
    PROVE  Slot(page, index) \in (rows \ Separators) \cup {None}
<1>1. CASE index < 0
  BY <1>1 DEF Slot
<1>2. CASE ~(index < 0)
  <2>1. index + 1 \in 1..Len(tree.sessions)
    BY <1>2 DEF IsIndex
  <2> QED BY <1>2, <2>1 DEF Slot, Slots
<1> QED BY <1>1, <1>2

\* The record of such a page after an update.
LEMMA PlacedRecord ==
    ASSUME NEW page, NEW a, NEW b, NEW c, page = [kids |-> a, slots |-> b, inserted |-> c], NEW x, NEW y,
           NEW new, new = [page EXCEPT !.kids = x, !.inserted = y]
    PROVE  new = [kids |-> x, slots |-> b, inserted |-> y]
OBVIOUS

\* One separator is inserted.
LEMMA OnePlaced ==
    ASSUME NEW tree, Launchable(tree), NEW kids0, Forest(kids0), NEW slots0,
           Slots(slots0, tree, Listed(kids0)), Listed(kids0) \cap Separators = {},
           NEW k \in 1..Len(tree.separators), NEW page, Placing(page, tree, kids0, slots0, k - 1)
    PROVE  Placing(PlaceSeparator(page, tree.separators[k]), tree, kids0, slots0, k)
<1> DEFINE sep == tree.separators[k]
           parent == Slot(page, sep.parent)
           scope == IF parent = None THEN Root ELSE parent
           after == {i \in DOMAIN page.kids[scope] : page.kids[scope][i] = Slot(page, sep.after)}
           resolved == sep.after < 0 \/ after # {}
           key == <<IF parent = None THEN -1 ELSE sep.parent, sep.after>>
           same == {j \in DOMAIN page.inserted : page.inserted[j] = key}
           before == Cardinality(same)
           place == before + (IF sep.after < 0 THEN 0 ELSE First(after))
           size == Len(page.kids[scope])
           at == IF resolved /\ place < size THEN place ELSE size
           new == PlaceSeparator(page, sep)
           ins == IF resolved THEN Append(page.inserted, key) ELSE page.inserted
<1>1. /\ page = [kids |-> page.kids, slots |-> slots0, inserted |-> page.inserted]
      /\ page.inserted \in Seq(Int \X Int) /\ Forest(page.kids) /\ Adorned(kids0, page.kids)
      /\ Listed(page.kids) = Listed(kids0) \cup {tree.separators[j].id : j \in 1..(k - 1)}
  BY DEF Placing
<1>2. page.slots = slots0
  BY <1>1
<1>3. /\ k \in DOMAIN tree.separators /\ k \in Nat
      /\ sep.id \in Separators /\ IsIndex(sep.parent, Len(tree.sessions)) /\ IsIndex(sep.after, Len(tree.sessions))
      /\ \A l \in DOMAIN tree.separators : tree.separators[l].id = sep.id => l = k
  <2>1. k \in DOMAIN tree.separators /\ k \in Nat
    BY DEF Launchable
  <2> QED BY <2>1 DEF Launchable
<1>4. parent \in (Listed(kids0) \ Separators) \cup {None}
  BY <1>2, <1>3, SlotFound DEF Launchable
<1>5. scope \in Listed(page.kids) \cup {Root} /\ scope \notin Separators
  <2>1. Root \notin Separators
    BY NamesApart DEF Nodes
  <2> HIDE DEF parent
  <2> QED BY <1>1, <1>4, <2>1
<1>6. new = [kids |-> [page.kids EXCEPT ![scope] = Seqs!InsertAt(@, at + 1, sep.id)],
             slots |-> slots0, inserted |-> ins]
  <2>1. new = [page EXCEPT !.kids[scope] = Seqs!InsertAt(@, at + 1, sep.id),
                           !.inserted = IF resolved THEN Append(@, key) ELSE @]
    BY DEF PlaceSeparator
  <2> DEFINE grown == [page.kids EXCEPT ![scope] = Seqs!InsertAt(@, at + 1, sep.id)]
  <2>2. new = [page EXCEPT !.kids = grown, !.inserted = ins]
    <3> HIDE DEF new, at, key, resolved, scope, sep
    <3> QED BY <2>1 DEF ins
  <2> HIDE DEF new, grown, ins, at, key, resolved, scope, sep
  <2>3. PICK a, c : page = [kids |-> a, slots |-> slots0, inserted |-> c]
    BY <1>1
  <2>4. new = [kids |-> grown, slots |-> slots0, inserted |-> ins]
    BY <2>2, <2>3, PlacedRecord
  <2> QED BY <2>4 DEF grown
<1> HIDE DEF parent, scope
<1>7. page.kids[scope] \in Seq(Nodes) /\ size \in Nat /\ DOMAIN page.kids[scope] = 1..size
  <2>1. scope \in Points /\ page.kids[scope] \in Seq(Nodes)
    BY <1>1, <1>5, InTreeIsListed DEF Points, Forest, Typed
  <2> QED BY <2>1
<1>8. before \in Nat
  <2>1. Len(page.inserted) \in Nat /\ DOMAIN page.inserted = 1..Len(page.inserted)
    BY <1>1
  <2>2. IsFiniteSet(1..Len(page.inserted))
    BY <2>1, FS_Interval
  <2>3. same \subseteq 1..Len(page.inserted)
    BY <2>1
  <2> HIDE DEF same
  <2> QED BY <2>2, <2>3, FS_Subset, FS_CardinalityType
<1>9. resolved => place \in Nat
  <2>1. sep.after \in Int
    BY <1>3 DEF IsIndex
  <2>2. ASSUME after # {} PROVE First(after) \in Nat
    <3>1. after \in SUBSET Nat
      BY <1>7
    <3> HIDE DEF after
    <3> QED BY <2>2, <3>1, FirstFound
  <2> HIDE DEF before, after
  <2> QED BY <1>8, <2>2
<1> HIDE DEF place, resolved, size
<1>10. at \in 0..size
  BY <1>7, <1>9
<1> HIDE DEF at
<1>11. at + 1 \in 1..(Len(page.kids[scope]) + 1)
  BY <1>7, <1>10 DEF size
<1>12. sep.id \in Nodes /\ sep.id \notin Listed(page.kids)
  <2>1. ASSUME NEW j \in 1..(k - 1) PROVE tree.separators[j].id # sep.id
    <3>1. j \in DOMAIN tree.separators /\ j # k
      BY <1>3 DEF Launchable
    <3> QED BY <1>3, <3>1
  <2> HIDE DEF sep
  <2> QED BY <1>1, <1>3, <2>1 DEF Nodes
<1> DEFINE tree1 == Inserted(page.kids, scope, at + 1, sep.id)
<1>13. /\ Forest(tree1) /\ Listed(tree1) = Listed(page.kids) \cup {sep.id}
       /\ Grown(page.kids, tree1, sep.id, scope)
  <2> HIDE DEF sep
  <2> QED BY <1>1, <1>5, <1>11, <1>12, InsertedForest
<1>14. new = [kids |-> tree1, slots |-> slots0, inserted |-> ins]
  BY <1>6 DEF Inserted
<1>15. ins \in Seq(Int \X Int)
  <2>1. key \in Int \X Int
    BY <1>3 DEF IsIndex
  <2> HIDE DEF key
  <2> QED BY <1>1, <2>1
<1> HIDE DEF tree1, new, ins
<1>16. Adorned(kids0, tree1)
  BY <1>1, <1>3, <1>5, <1>13 DEF Adorned, Grown
<1>17. Listed(tree1) = Listed(kids0) \cup {tree.separators[j].id : j \in 1..k}
  <2>1. {tree.separators[j].id : j \in 1..k} = {tree.separators[j].id : j \in 1..(k - 1)} \cup {sep.id}
    <3>1. \A j \in Int : j \in 1..k <=> j \in 1..(k - 1) \/ j = k
      BY <1>3
    <3> QED BY <3>1
  <2> HIDE DEF sep
  <2> QED BY <1>1, <1>13, <2>1
<1>18. new = [kids |-> new.kids, slots |-> slots0, inserted |-> new.inserted] /\ new.kids = tree1 /\ new.inserted = ins
  BY <1>14
<1>19. Placing(new, tree, kids0, slots0, k)
  BY <1>13, <1>15, <1>16, <1>17, <1>18 DEF Placing
<1> QED BY <1>19 DEF new

(* The separators are inserted one after another. *)
Places(f, n, first, seps) ==
    f = [k \in 0..n |-> IF k = 0 THEN first ELSE PlaceSeparator(f[k - 1], seps[k])]

\* The insertions can be carried on.
LEMMA PlacesNext ==
    ASSUME NEW n \in Nat, NEW first, NEW seps, NEW g, Places(g, n, first, seps)
    PROVE  \E h : Places(h, n + 1, first, seps)
<1> DEFINE h == [k \in 0..(n + 1) |-> IF k = n + 1 THEN PlaceSeparator(g[n], seps[n + 1]) ELSE g[k]]
<1>1. \A k \in 0..n : g[k] = IF k = 0 THEN first ELSE PlaceSeparator(g[k - 1], seps[k])
  BY DEF Places
<1>2. ASSUME NEW k \in 0..(n + 1) PROVE h[k] = IF k = 0 THEN first ELSE PlaceSeparator(h[k - 1], seps[k])
  <2>1. CASE k = n + 1
    <3>1. k # 0 /\ k - 1 = n /\ k - 1 \in 0..(n + 1) /\ k - 1 # n + 1
      BY <2>1
    <3>2. h[k - 1] = g[n]
      BY <3>1
    <3> QED BY <2>1, <3>1, <3>2
  <2>2. CASE k # n + 1 /\ k # 0
    <3>1. k \in 0..n /\ k - 1 \in 0..(n + 1) /\ k - 1 # n + 1
      BY <2>2
    <3>2. h[k - 1] = g[k - 1] /\ h[k] = g[k]
      BY <2>2, <3>1
    <3> QED BY <1>1, <2>2, <3>1, <3>2
  <2>3. CASE k = 0
    <3>1. 0 \in 0..n /\ 0 # n + 1
      OBVIOUS
    <3> QED BY <1>1, <2>3, <3>1
  <2> QED BY <2>1, <2>2, <2>3
<1>3. h = [k \in 0..(n + 1) |-> h[k]]
  OBVIOUS
<1> HIDE DEF h
<1>4. Places(h, n + 1, first, seps)
  BY <1>2, <1>3 DEF Places
<1> QED BY <1>4

\* So all of them can be.
LEMMA PlacesDefined ==
    ASSUME NEW n \in Nat, NEW first, NEW seps
    PROVE  \E h : Places(h, n, first, seps)
<1> DEFINE T == {k \in Nat : ~\E g : Places(g, k, first, seps)}
<1> SUFFICES ASSUME T # {} PROVE FALSE
  OBVIOUS
<1>1. PICK k \in T : \A y \in T : k <= y
  BY LeastNatural
<1>2. CASE k = 0
  <2> DEFINE g == [i \in 0..0 |-> first]
  <2>1. Places(g, 0, first, seps)
    <3>1. \A i \in 0..0 : i = 0
      OBVIOUS
    <3> QED BY <3>1 DEF Places
  <2> QED BY <1>1, <1>2, <2>1
<1>3. CASE k # 0
  <2>1. k - 1 \in Nat /\ ~(k <= k - 1) /\ (k - 1) + 1 = k
    BY <1>1, <1>3
  <2>2. PICK g : Places(g, k - 1, first, seps)
    BY <1>1, <2>1
  <2>3. \E h : Places(h, (k - 1) + 1, first, seps)
    BY <2>1, <2>2, PlacesNext
  <2> QED BY <1>1, <2>1, <2>3
<1> QED BY <1>2, <1>3

(* A page of a launch. *)
IsPage(page, tree) ==
    /\ page = [kids |-> page.kids, cursor |-> page.cursor, slots |-> page.slots, realized |-> page.realized]
    /\ Forest(page.kids) /\ page.cursor \in 0..Len(tree.sessions) /\ page.realized \in BOOLEAN
    /\ Slots(page.slots, tree, Listed(page.kids))
    /\ page.realized \/ Listed(page.kids) \cap Separators = {}

(* The page that becomes of it has the same sessions, below the same rows. *)
Realizes(page, tree, new) ==
    /\ IsPage(new, tree)
    /\ new.cursor = page.cursor
    /\ Listed(new.kids) \ Separators = Listed(page.kids) \ Separators
    /\ new.kids = page.kids \/ (Adorned(page.kids, new.kids) /\ Listed(page.kids) \cap Separators = {})
    /\ new.kids = page.kids \/ \A q \in Points : BottomsLast(new.kids[q])

\* The record of a page whose separators have been inserted.
LEMMA RealizedRecord ==
    ASSUME NEW page, NEW a, NEW b, NEW c, NEW d,
           page = [kids |-> a, cursor |-> b, slots |-> c, realized |-> d], NEW x,
           NEW new, new = [page EXCEPT !.realized = TRUE, !.kids = x, !.slots = [i \in DOMAIN @ |-> None]]
    PROVE  /\ new = [kids |-> new.kids, cursor |-> new.cursor, slots |-> new.slots, realized |-> new.realized]
           /\ new.kids = x /\ new.cursor = b /\ new.realized = TRUE
           /\ new.slots = [i \in DOMAIN c |-> None]
OBVIOUS

\* All the separators are inserted.
LEMMA AllPlaced ==
    ASSUME NEW tree, Launchable(tree), NEW page, IsPage(page, tree)
    PROVE  Realizes(page, tree, RealizeStartupSeparators(page, tree))
<1> DEFINE new == RealizeStartupSeparators(page, tree)
           n == Len(tree.separators)
           first == [kids |-> page.kids, slots |-> page.slots, inserted |-> <<>>]
<1>1. CASE page.realized \/ Spawning(page, tree)
  <2>1. new = page
    BY <1>1 DEF RealizeStartupSeparators
  <2> HIDE DEF new
  <2>2. Realizes(page, tree, new)
    BY <2>1 DEF Realizes
  <2> QED BY <2>2 DEF new
<1>2. CASE ~(page.realized \/ Spawning(page, tree))
  <2> DEFINE placed == CHOOSE f : Places(f, n, first, tree.separators)
             x == SinkBottomSeparators(placed[n].kids)
  <2>1. n \in Nat
    BY DEF Launchable
  <2>2. Places(placed, n, first, tree.separators)
    BY <2>1, PlacesDefined
  <2>3. new = [page EXCEPT !.realized = TRUE, !.kids = x, !.slots = [i \in DOMAIN @ |-> None]]
    BY <1>2 DEF RealizeStartupSeparators, Places
  <2>4. Forest(page.kids) /\ Slots(page.slots, tree, Listed(page.kids)) /\ Listed(page.kids) \cap Separators = {}
    BY <1>2 DEF IsPage
  <2> HIDE DEF placed, new, n
  <2> DEFINE T == {k \in 0..n : ~Placing(placed[k], tree, page.kids, page.slots, k)}
  <2>5. \A k \in 0..n : placed[k] = IF k = 0 THEN first ELSE PlaceSeparator(placed[k - 1], tree.separators[k])
    BY <2>2 DEF Places
  <2>6. T = {}
    <3> SUFFICES ASSUME T # {} PROVE FALSE
      OBVIOUS
    <3>1. T \in SUBSET Nat
      BY <2>1
    <3>2. PICK k \in T : \A y \in T : k <= y
      BY <3>1, LeastNatural
    <3>3. CASE k = 0
      <4>1. placed[0] = first
        BY <2>1, <2>5
      <4>2. first.kids = page.kids /\ first.slots = page.slots /\ first.inserted = <<>>
        OBVIOUS
      <4>3. {tree.separators[j].id : j \in 1..0} = {}
        OBVIOUS
      <4>4. Adorned(page.kids, page.kids)
        BY DEF Adorned
      <4>5. <<>> \in Seq(Int \X Int)
        OBVIOUS
      <4>6. first = [kids |-> first.kids, slots |-> page.slots, inserted |-> first.inserted]
        OBVIOUS
      <4> HIDE DEF first
      <4>7. Placing(first, tree, page.kids, page.slots, 0)
        BY <2>4, <4>2, <4>3, <4>4, <4>5, <4>6 DEF Placing
      <4> QED BY <3>2, <3>3, <4>1, <4>7
    <3>4. CASE k # 0
      <4>1. k \in 1..n /\ k - 1 \in 0..n /\ ~(k <= k - 1)
        BY <2>1, <3>4
      <4>2. Placing(placed[k - 1], tree, page.kids, page.slots, k - 1)
        BY <3>2, <4>1
      <4>3. placed[k] = PlaceSeparator(placed[k - 1], tree.separators[k])
        BY <2>5, <3>4
      <4>4. Placing(PlaceSeparator(placed[k - 1], tree.separators[k]), tree, page.kids, page.slots, k)
        BY <2>4, <4>1, <4>2, OnePlaced DEF n
      <4> QED BY <4>3, <4>4
    <3> QED BY <3>3, <3>4
  <2>7. Placing(placed[n], tree, page.kids, page.slots, n)
    <3>1. n \in 0..n
      BY <2>1
    <3> QED BY <2>6, <3>1
  <2> DEFINE full == placed[n].kids
  <2>8. /\ Forest(full) /\ Adorned(page.kids, full)
        /\ Listed(full) = Listed(page.kids) \cup {tree.separators[j].id : j \in 1..n}
    BY <2>7 DEF Placing
  <2>9. \A j \in 1..n : tree.separators[j].id \in Separators
    BY DEF Launchable, n
  <2> HIDE DEF full
  <2>10. x = SinkBottomSeparators(full)
    BY DEF full
  <2>11. /\ Forest(x) /\ Listed(x) = Listed(full) /\ \A q \in Points : Children(x, q) = Children(full, q)
         /\ \A q \in Points : BottomsLast(x[q])
    BY <2>8, <2>10, SunkForest
  <2> HIDE DEF x
  <2>12. Adorned(page.kids, x)
    BY <2>8, <2>11 DEF Adorned
  <2>13. Listed(x) \ Separators = Listed(page.kids) \ Separators
    BY <2>8, <2>9, <2>11
  <2>14. PICK a, b, c, d : page = [kids |-> a, cursor |-> b, slots |-> c, realized |-> d]
    BY DEF IsPage
  <2>15. page.cursor = b /\ page.slots = c
    BY <2>14
  <2>16. /\ new = [kids |-> new.kids, cursor |-> new.cursor, slots |-> new.slots, realized |-> new.realized]
         /\ new.kids = x /\ new.cursor = page.cursor /\ new.realized = TRUE
         /\ new.slots = [i \in DOMAIN page.slots |-> None]
    BY <2>3, <2>14, <2>15, RealizedRecord
  <2>17. Slots(new.slots, tree, Listed(x))
    <3>1. DOMAIN page.slots = 1..Len(tree.sessions)
      BY <2>4 DEF Slots
    <3> QED BY <2>16, <3>1 DEF Slots
  <2>18. IsPage(new, tree)
    <3>1. page.cursor \in 0..Len(tree.sessions)
      BY DEF IsPage
    <3> QED BY <2>11, <2>16, <2>17, <3>1 DEF IsPage
  <2>19. Realizes(page, tree, new)
    BY <2>4, <2>11, <2>12, <2>13, <2>16, <2>18 DEF Realizes
  <2> QED BY <2>19 DEF new
<1> QED BY <1>1, <1>2

\* The record of a page after other updates.
LEMMA PageRecords ==
    ASSUME NEW page, NEW a, NEW b, NEW c, NEW d,
           page = [kids |-> a, cursor |-> b, slots |-> c, realized |-> d], NEW x, NEW y, NEW z,
           NEW new
    PROVE  /\ new = [page EXCEPT !.kids = x, !.cursor = y, !.slots = z]
                 => new = [kids |-> x, cursor |-> y, slots |-> z, realized |-> d]
           /\ new = [page EXCEPT !.kids = x] => new = [kids |-> x, cursor |-> b, slots |-> c, realized |-> d]
           /\ new = [page EXCEPT !.cursor = y] => new = [kids |-> a, cursor |-> y, slots |-> c, realized |-> d]
OBVIOUS

(* The row of a new tab that has been added. *)
Adds(page, tree, tab, new) ==
    /\ IsPage(new, tree) /\ Listed(new.kids) = Listed(page.kids) \cup {tab} /\ Children(new.kids, tab) = {}

\* A new tab gets its row.
LEMMA TabAdded ==
    ASSUME NEW tree, Launchable(tree), NEW page, IsPage(page, tree), NEW tab \in Tabs, tab \notin Listed(page.kids)
    PROVE  Adds(page, tree, tab, AddMissingSessionNodes(page, tree, tab))
<1> DEFINE new == AddMissingSessionNodes(page, tree, tab)
           n == Len(tree.sessions)
           spawned == Slot(page, tree.sessions[page.cursor + 1].parent)
           p == IF Spawning(page, tree) /\ spawned # None THEN spawned ELSE Root
           grown == Attach(page.kids, p, tab)
<1>1. /\ Forest(page.kids) /\ Slots(page.slots, tree, Listed(page.kids)) /\ page.cursor \in 0..n
      /\ page.realized \in BOOLEAN /\ (page.realized \/ Listed(page.kids) \cap Separators = {})
  BY DEF IsPage
<1>2. n \in Nat /\ tab \in Nodes /\ tab \notin Separators /\ tab # Root
  BY NamesApart DEF Launchable, Nodes
<1>3. Spawning(page, tree) => page.cursor + 1 \in 1..n
  BY <1>1, <1>2 DEF Spawning
<1>4. Spawning(page, tree) => spawned \in (Listed(page.kids) \ Separators) \cup {None}
  <2> SUFFICES ASSUME Spawning(page, tree) PROVE spawned \in (Listed(page.kids) \ Separators) \cup {None}
    OBVIOUS
  <2>1. IsIndex(tree.sessions[page.cursor + 1].parent, n)
    BY <1>3 DEF Launchable
  <2> QED BY <1>1, <1>2, <2>1, SlotFound
<1>5. p \in Listed(page.kids) \cup {Root}
  <2> HIDE DEF spawned
  <2> QED BY <1>4
<1>6. PICK a, b, c, d : page = [kids |-> a, cursor |-> b, slots |-> c, realized |-> d]
  BY DEF IsPage
<1>7. page.kids = a /\ page.cursor = b /\ page.slots = c /\ page.realized = d
  BY <1>6
<1> HIDE DEF p
<1>8. /\ Forest(grown) /\ Listed(grown) = Listed(page.kids) \cup {tab}
      /\ Grown(page.kids, grown, tab, p)
  BY <1>1, <1>2, <1>5, AttachedForest
<1>9. Children(grown, tab) = {}
  <2>1. tab \in Points
    BY <1>2 DEF Points
  <2>2. Children(page.kids, tab) = {}
    BY <1>1, <1>2, <2>1, ParentsAreListed
  <2>3. tab # p
    BY <1>2, <1>5
  <2> QED BY <1>8, <2>1, <2>2, <2>3 DEF Grown
<1>10. CASE Spawning(page, tree)
  <2> DEFINE next == page.cursor + 1
             z == [page.slots EXCEPT ![next] = tab]
  <2>1. new = [page EXCEPT !.kids = grown, !.cursor = next, !.slots = z]
    BY <1>10 DEF AddMissingSessionNodes, p
  <2>2. Slots(z, tree, Listed(grown))
    BY <1>1, <1>2, <1>3, <1>8, <1>10 DEF Slots
  <2> HIDE DEF new, grown, z
  <2>3. next \in 0..n
    BY <1>2, <1>3, <1>10
  <2> HIDE DEF next, n
  <2>4. new = [kids |-> grown, cursor |-> next, slots |-> z, realized |-> d]
    BY <1>6, <2>1, PageRecords
  <2>5. /\ new = [kids |-> new.kids, cursor |-> new.cursor, slots |-> new.slots, realized |-> new.realized]
        /\ new.kids = grown /\ new.cursor = next /\ new.slots = z /\ new.realized = page.realized
    BY <1>7, <2>4
  <2>6. page.realized \/ Listed(grown) \cap Separators = {}
    BY <1>1, <1>2, <1>8
  <2>7. Adds(page, tree, tab, new)
    BY <1>1, <1>8, <1>9, <2>2, <2>3, <2>5, <2>6 DEF Adds, IsPage, n
  <2> QED BY <2>7 DEF new
<1>11. CASE ~Spawning(page, tree)
  <2>1. new = [page EXCEPT !.kids = grown]
    BY <1>11 DEF AddMissingSessionNodes, p
  <2>2. Slots(page.slots, tree, Listed(grown))
    BY <1>1, <1>8 DEF Slots
  <2> HIDE DEF new, grown, n
  <2>4. new = [kids |-> grown, cursor |-> b, slots |-> c, realized |-> d]
    BY <1>6, <2>1, PageRecords
  <2>5. /\ new = [kids |-> new.kids, cursor |-> new.cursor, slots |-> new.slots, realized |-> new.realized]
        /\ new.kids = grown /\ new.cursor = page.cursor /\ new.slots = page.slots /\ new.realized = page.realized
    BY <1>7, <2>4
  <2>6. page.realized \/ Listed(grown) \cap Separators = {}
    BY <1>1, <1>2, <1>8
  <2>7. Adds(page, tree, tab, new)
    BY <1>1, <1>8, <1>9, <2>2, <2>5, <2>6 DEF Adds, IsPage, n
  <2> QED BY <2>7 DEF new
<1> QED BY <1>10, <1>11

(* A tab has opened: it has its row, with nothing but separators below. *)
Opens(page, tree, tab, new) ==
    /\ IsPage(new, tree)
    /\ Listed(new.kids) \ Separators = (Listed(page.kids) \ Separators) \cup {tab}
    /\ \A q \in Points : BottomsLast(new.kids[q])
    /\ \A s \in Children(new.kids, tab) : s \in Separators /\ Children(new.kids, s) = {}

\* So it is once the tree has been reconciled.
LEMMA TabReconciled ==
    ASSUME NEW tree, Launchable(tree), NEW page, IsPage(page, tree), NEW tab \in Tabs, tab \notin Listed(page.kids)
    PROVE  Opens(page, tree, tab, Reconciled(page, tree, tab))
<1> DEFINE added == AddMissingSessionNodes(page, tree, tab)
           grown == RealizeStartupSeparators(added, tree)
           x == SinkBottomSeparators(grown.kids)
           new == Reconciled(page, tree, tab)
<1>1. IsPage(added, tree) /\ Listed(added.kids) = Listed(page.kids) \cup {tab} /\ Children(added.kids, tab) = {}
  BY TabAdded DEF Adds
<1> HIDE DEF added
<1>2. Realizes(added, tree, grown)
  BY <1>1, AllPlaced
<1>3. new = [grown EXCEPT !.kids = x]
  BY DEF Reconciled, added
<1> HIDE DEF grown, new
<1>4. tab \notin Separators /\ tab \in Points /\ Root \notin Separators
  BY NamesApart DEF Nodes, Points
<1>5. /\ IsPage(grown, tree) /\ Forest(grown.kids)
      /\ Listed(grown.kids) \ Separators = (Listed(page.kids) \ Separators) \cup {tab}
  BY <1>1, <1>2, <1>4 DEF Realizes, IsPage
<1>6. \A s \in Children(grown.kids, tab) : s \in Separators /\ Children(grown.kids, s) = {}
  <2>1. CASE grown.kids = added.kids
    BY <1>1, <2>1
  <2>2. CASE Adorned(added.kids, grown.kids) /\ Listed(added.kids) \cap Separators = {}
    <3>1. Children(grown.kids, tab) \subseteq Separators
      BY <1>1, <1>4, <2>2 DEF Adorned
    <3>2. Forest(added.kids)
      BY <1>1 DEF IsPage
    <3>3. ASSUME NEW s \in Separators PROVE Children(grown.kids, s) = {}
      <4>1. s \in Points
        BY DEF Points, Nodes
      <4>2. Children(added.kids, s) = {}
        BY <1>4, <2>2, <3>2, <4>1, ParentsAreListed
      <4> QED BY <2>2, <4>1, <4>2 DEF Adorned
    <3> QED BY <3>1, <3>3
  <2> QED BY <1>2, <2>1, <2>2 DEF Realizes
<1>7. /\ Forest(x) /\ Listed(x) = Listed(grown.kids)
      /\ \A q \in Points : Children(x, q) = Children(grown.kids, q)
      /\ \A q \in Points : BottomsLast(x[q])
  BY <1>5, SunkForest
<1> HIDE DEF x
<1>8. PICK a, b, c, d : grown = [kids |-> a, cursor |-> b, slots |-> c, realized |-> d]
  BY <1>5 DEF IsPage
<1>9. grown.kids = a /\ grown.cursor = b /\ grown.slots = c /\ grown.realized = d
  BY <1>8
<1>10. new = [kids |-> x, cursor |-> b, slots |-> c, realized |-> d]
  BY <1>3, <1>8, PageRecords
<1>11. /\ new = [kids |-> new.kids, cursor |-> new.cursor, slots |-> new.slots, realized |-> new.realized]
       /\ new.kids = x /\ new.cursor = grown.cursor /\ new.slots = grown.slots /\ new.realized = grown.realized
  BY <1>9, <1>10
<1>12. IsPage(new, tree)
  BY <1>5, <1>7, <1>11 DEF IsPage
<1>13. ASSUME NEW s \in Children(x, tab) PROVE s \in Separators /\ Children(x, s) = {}
  <2>1. s \in Separators /\ Children(grown.kids, s) = {}
    BY <1>4, <1>6, <1>7
  <2>2. s \in Points
    BY <2>1 DEF Points, Nodes
  <2> QED BY <1>7, <2>1, <2>2
<1>14. Opens(page, tree, tab, new)
  BY <1>5, <1>7, <1>11, <1>12, <1>13 DEF Opens
<1> QED BY <1>14 DEF new

(* The sessions are as they were, and separators may have appeared. *)
Settles(page, tree, new) ==
    /\ IsPage(new, tree)
    /\ Listed(new.kids) \ Separators = Listed(page.kids) \ Separators
    /\ new.kids = page.kids \/ \A q \in Points : BottomsLast(new.kids[q])

\* The end of the startup actions settles the page.
LEMMA SpawnCompleted ==
    ASSUME NEW tree, Launchable(tree), NEW page, IsPage(page, tree)
    PROVE  Settles(page, tree, MarkStartupSpawnComplete(page, tree))
<1> DEFINE n == Len(tree.sessions)
           over == [page EXCEPT !.cursor = n]
           new == MarkStartupSpawnComplete(page, tree)
<1>1. PICK a, b, c, d : page = [kids |-> a, cursor |-> b, slots |-> c, realized |-> d]
  BY DEF IsPage
<1>2. page.kids = a /\ page.cursor = b /\ page.slots = c /\ page.realized = d
  BY <1>1
<1>3. over = [kids |-> a, cursor |-> n, slots |-> c, realized |-> d]
  <2> HIDE DEF over, n
  <2>1. over = [page EXCEPT !.cursor = n]
    BY DEF over
  <2> QED BY <1>1, <2>1, PageRecords
<1>4. new = RealizeStartupSeparators(over, tree)
  BY DEF MarkStartupSpawnComplete
<1>5. n \in Nat /\ n \in 0..n
  BY DEF Launchable
<1> HIDE DEF over, n, new
<1>6. /\ over = [kids |-> over.kids, cursor |-> over.cursor, slots |-> over.slots, realized |-> over.realized]
      /\ over.kids = page.kids /\ over.cursor = n /\ over.slots = page.slots /\ over.realized = page.realized
  BY <1>2, <1>3
<1>7. IsPage(over, tree)
  BY <1>5, <1>6 DEF IsPage, n
<1>8. Realizes(over, tree, new)
  BY <1>4, <1>7, AllPlaced
<1>9. Settles(page, tree, new)
  BY <1>6, <1>8 DEF Realizes, Settles
<1> QED BY <1>9 DEF new

-------------------------------------------------------------------------------
(* Rows that are removed together. *)

\* A finite set in some order.
LEMMA SetInSomeOrder ==
    ASSUME NEW S, IsFiniteSet(S)
    PROVE  /\ Cardinality(S) \in Nat
           /\ \A k \in 1..Cardinality(S) : Seqs!SetToSeq(S)[k] \in S
           /\ \A k, l \in 1..Cardinality(S) : Seqs!SetToSeq(S)[k] = Seqs!SetToSeq(S)[l] => k = l
           /\ \A x \in S : \E k \in 1..Cardinality(S) : Seqs!SetToSeq(S)[k] = x
<1> DEFINE n == Cardinality(S)
           order == Seqs!SetToSeq(S)
<1>1. n \in Nat /\ ExistsBijection(1..n, S)
  BY FS_CardinalityType
<1>2. PICK f : f \in Bijection(1..n, S)
  BY <1>1 DEF ExistsBijection
<1>3. f \in [1..n -> S] /\ \A k, l \in 1..n : f[k] = f[l] => k = l
  BY <1>2 DEF Bijection, Injection, IsInjective
<1>4. order \in [1..n -> S] /\ \A k, l \in 1..n : order[k] = order[l] => k = l
  <2>1. order = CHOOSE g \in [1..n -> S] : \A k, l \in DOMAIN g : g[k] = g[l] => k = l
    BY DEF Seqs!SetToSeq, Seqs!IsInjective, Seqs!Cardinality, Cardinality
  <2>2. order \in [1..n -> S] /\ \A k, l \in DOMAIN order : order[k] = order[l] => k = l
    BY <1>3, <2>1
  <2> HIDE DEF order
  <2> QED BY <2>2
<1> HIDE DEF order
<1>5. order \in Injection(1..n, S)
  BY <1>4 DEF Injection, IsInjective
<1>6. IsFiniteSet(1..n) /\ Cardinality(1..n) = n
  BY <1>1, FS_Interval
<1>7. order \in Surjection(1..n, S)
  BY <1>5, <1>6, FS_Injection
<1>8. \A x \in S : \E k \in 1..n : order[k] = x
  BY <1>7 DEF Surjection
<1> QED BY <1>1, <1>4, <1>8 DEF order

\* Without one of its rows a scope has its "bottom" separators last still.
LEMMA BottomsStayLast ==
    ASSUME NEW s \in Seq(Nodes), NEW i \in 1..Len(s), BottomsLast(s)
    PROVE  BottomsLast(SubSeq(s, 1, i - 1) \o <<>> \o SubSeq(s, i + 1, Len(s)))
<1> DEFINE a == SubSeq(s, 1, i - 1)
           b == SubSeq(s, i + 1, Len(s))
           t == a \o b
           Old(k) == IF k < i THEN k ELSE k + 1
<1>1. Len(s) \in Nat /\ DOMAIN s = 1..Len(s) /\ i \in Int /\ 1 <= i /\ i <= Len(s)
  OBVIOUS
<1>2. a \in Seq(Nodes) /\ Len(a) = i - 1 /\ \A k \in 1..(i - 1) : a[k] = s[k]
  <2>1. \A k \in 1..(i - 1) : s[k] \in Nodes
    BY <1>1
  <2>2. /\ a \in Seq(Nodes) /\ Len(a) = IF 1 <= i - 1 THEN (i - 1) - 1 + 1 ELSE 0
        /\ \A k \in 1..((i - 1) - 1 + 1) : a[k] = s[1 + k - 1]
    BY <1>1, <2>1, SubSeqProperties
  <2> HIDE DEF a
  <2>3. Len(a) = i - 1
    BY <1>1, <2>2
  <2>4. \A k \in 1..(i - 1) : k \in 1..((i - 1) - 1 + 1) /\ 1 + k - 1 = k
    BY <1>1
  <2> QED BY <2>2, <2>3, <2>4
<1>3. b \in Seq(Nodes) /\ Len(b) = Len(s) - i /\ \A k \in 1..(Len(s) - i) : b[k] = s[i + k]
  <2>1. \A k \in (i + 1)..Len(s) : s[k] \in Nodes
    BY <1>1
  <2>2. /\ b \in Seq(Nodes) /\ Len(b) = IF i + 1 <= Len(s) THEN Len(s) - (i + 1) + 1 ELSE 0
        /\ \A k \in 1..(Len(s) - (i + 1) + 1) : b[k] = s[(i + 1) + k - 1]
    BY <1>1, <2>1, SubSeqProperties
  <2> HIDE DEF b
  <2>3. Len(b) = Len(s) - i
    <3>1. Len(b) = IF i + 1 <= Len(s) THEN Len(s) - (i + 1) + 1 ELSE 0
      BY <2>2
    <3> DEFINE m == Len(s)
    <3>2. m \in Nat /\ i <= m /\ Len(b) = IF i + 1 <= m THEN m - (i + 1) + 1 ELSE 0
      BY <1>1, <3>1
    <3> HIDE DEF m
    <3>3. Len(b) = m - i
      BY <1>1, <3>2
    <3> QED BY <3>3 DEF m
  <2>4. \A k \in 1..(Len(s) - i) : k \in 1..(Len(s) - (i + 1) + 1) /\ (i + 1) + k - 1 = i + k
    BY <1>1
  <2> QED BY <2>2, <2>3, <2>4
<1>4. a \o <<>> \o b = t
  BY <1>2, <1>3, ConcatEmptySeq
<1> HIDE DEF a, b
<1>5. DOMAIN t = 1..(Len(s) - 1) /\ \A k \in 1..(Len(s) - 1) : t[k] = IF k <= i - 1 THEN a[k] ELSE b[k - (i - 1)]
  <2>1. t \in Seq(Nodes) /\ Len(t) = Len(a) + Len(b)
        /\ \A k \in 1..(Len(a) + Len(b)) : t[k] = IF k <= Len(a) THEN a[k] ELSE b[k - Len(a)]
    BY <1>2, <1>3, ConcatProperties
  <2>2. Len(a) + Len(b) = Len(s) - 1
    BY <1>1, <1>2, <1>3
  <2>3. DOMAIN t = 1..Len(t)
    BY <2>1
  <2> HIDE DEF t
  <2> QED BY <1>2, <2>1, <2>2, <2>3
<1> HIDE DEF t
<1>6. ASSUME NEW k \in DOMAIN t PROVE Old(k) \in DOMAIN s /\ t[k] = s[Old(k)]
  <2>1. k \in 1..(Len(s) - 1) /\ k \in Int /\ 1 <= k /\ k <= Len(s) - 1
    BY <1>1, <1>5
  <2>2. CASE k < i
    <3>1. k \in 1..(i - 1) /\ k <= i - 1 /\ k \in DOMAIN s
      BY <1>1, <2>1, <2>2
    <3> QED BY <1>2, <1>5, <2>1, <2>2, <3>1
  <2>3. CASE ~(k < i)
    <3>1. ~(k <= i - 1) /\ k + 1 \in DOMAIN s /\ k - (i - 1) \in 1..(Len(s) - i) /\ i + (k - (i - 1)) = k + 1
      BY <1>1, <2>1, <2>3
    <3>2. t[k] = b[k - (i - 1)]
      BY <1>5, <2>1, <3>1
    <3> QED BY <1>3, <2>3, <3>1, <3>2
  <2> QED BY <2>2, <2>3
<1>7. \A k, l \in DOMAIN t : k < l => Old(k) < Old(l)
  <2>1. \A k \in DOMAIN t : k \in Int
    BY <1>5
  <2> QED BY <1>1, <2>1
<1> HIDE DEF Old
<1>8. BottomsLast(t)
  <2> SUFFICES ASSUME NEW k \in DOMAIN t, NEW l \in DOMAIN t, k < l, t[k] \in Bottoms PROVE t[l] \in Bottoms
    BY DEF BottomsLast
  <2>1. Old(k) \in DOMAIN s /\ Old(l) \in DOMAIN s /\ Old(k) < Old(l) /\ s[Old(k)] \in Bottoms
    BY <1>6, <1>7
  <2>2. s[Old(l)] \in Bottoms
    BY <2>1 DEF BottomsLast
  <2> QED BY <1>6, <2>2
<1> QED BY <1>4, <1>8 DEF a, b, t

(* Every scope has its "bottom" separators last, and none of some rows owns any. *)
Ordered(tree, leaves) ==
    (\A q \in Points : BottomsLast(tree[q])) /\ \A n \in leaves : Children(tree, n) = {}

\* That remains when one of those rows is removed.
LEMMA OrderedStays ==
    ASSUME NEW tree, Forest(tree), NEW leaves \in SUBSET Nodes, Ordered(tree, leaves),
           NEW n \in leaves, n \in Listed(tree)
    PROVE  Ordered(RemoveNodeSelfHealing(tree, n), leaves)
<1> DEFINE new == RemoveNodeSelfHealing(tree, n)
           s == Scope(tree, n)
           i == Place(tree, n)
           spliced == SubSeq(tree[s], 1, i - 1) \o tree[n] \o SubSeq(tree[s], i + 1, Len(tree[s]))
<1>1. s \in Points /\ i \in 1..Len(tree[s]) /\ n \in Children(tree, s)
  BY Located
<1>2. Forest(new) /\ Healed(tree, new, n, s)
  BY RemovedForest
<1>3. n \in Points /\ tree[n] = <<>> /\ tree[s] \in Seq(Nodes) /\ DOMAIN tree = Points
  BY <1>1, ChildrenAreNodes DEF Points, Ordered, Forest, Typed
<1>4. BottomsLast(spliced)
  BY <1>1, <1>3, BottomsStayLast DEF Ordered
<1>5. new = [tree EXCEPT ![s] = spliced, ![n] = <<>>]
  BY DEF RemoveNodeSelfHealing
<1> HIDE DEF new, s, i, spliced
<1>6. \A q \in Points : BottomsLast(new[q])
  <2>1. BottomsLast(<<>>)
    BY DEF BottomsLast
  <2>2. \A q \in Points : new[q] = IF q = n THEN <<>> ELSE IF q = s THEN spliced ELSE tree[q]
    BY <1>3, <1>5
  <2> QED BY <1>4, <2>1, <2>2 DEF Ordered
<1>7. ASSUME NEW m \in leaves PROVE Children(new, m) = {}
  <2>1. m \in Points /\ Children(tree, m) = {}
    BY DEF Points, Ordered
  <2>2. m # s
    BY <1>1, <2>1
  <2> QED BY <1>2, <2>1, <2>2 DEF Healed
<1> QED BY <1>6, <1>7 DEF Ordered, new

(* The rows are removed one after another. *)
Removes(f, n, tree, order) ==
    f = [k \in 0..n |-> IF k = 0 THEN tree ELSE RemoveNodeSelfHealing(f[k - 1], order[k])]

\* The removals can be carried on.
LEMMA RemovesNext ==
    ASSUME NEW n \in Nat, NEW tree, NEW order, NEW g, Removes(g, n, tree, order)
    PROVE  \E h : Removes(h, n + 1, tree, order)
<1> DEFINE h == [k \in 0..(n + 1) |-> IF k = n + 1 THEN RemoveNodeSelfHealing(g[n], order[n + 1]) ELSE g[k]]
<1>1. \A k \in 0..n : g[k] = IF k = 0 THEN tree ELSE RemoveNodeSelfHealing(g[k - 1], order[k])
  BY DEF Removes
<1>2. ASSUME NEW k \in 0..(n + 1) PROVE h[k] = IF k = 0 THEN tree ELSE RemoveNodeSelfHealing(h[k - 1], order[k])
  <2>1. CASE k = n + 1
    <3>1. k # 0 /\ k - 1 = n /\ k - 1 \in 0..(n + 1) /\ k - 1 # n + 1
      BY <2>1
    <3>2. h[k - 1] = g[n]
      BY <3>1
    <3> QED BY <2>1, <3>1, <3>2
  <2>2. CASE k # n + 1 /\ k # 0
    <3>1. k \in 0..n /\ k - 1 \in 0..(n + 1) /\ k - 1 # n + 1
      BY <2>2
    <3>2. h[k - 1] = g[k - 1] /\ h[k] = g[k]
      BY <2>2, <3>1
    <3> QED BY <1>1, <2>2, <3>1, <3>2
  <2>3. CASE k = 0
    <3>1. 0 \in 0..n /\ 0 # n + 1
      OBVIOUS
    <3> QED BY <1>1, <2>3, <3>1
  <2> QED BY <2>1, <2>2, <2>3
<1>3. h = [k \in 0..(n + 1) |-> h[k]]
  OBVIOUS
<1> HIDE DEF h
<1>4. Removes(h, n + 1, tree, order)
  BY <1>2, <1>3 DEF Removes
<1> QED BY <1>4

\* So all of them can be.
LEMMA RemovesDefined ==
    ASSUME NEW n \in Nat, NEW tree, NEW order
    PROVE  \E h : Removes(h, n, tree, order)
<1> DEFINE T == {k \in Nat : ~\E g : Removes(g, k, tree, order)}
<1> SUFFICES ASSUME T # {} PROVE FALSE
  OBVIOUS
<1>1. PICK k \in T : \A y \in T : k <= y
  BY LeastNatural
<1>2. CASE k = 0
  <2> DEFINE g == [i \in 0..0 |-> tree]
  <2>1. Removes(g, 0, tree, order)
    <3>1. \A i \in 0..0 : i = 0
      OBVIOUS
    <3> QED BY <3>1 DEF Removes
  <2> QED BY <1>1, <1>2, <2>1
<1>3. CASE k # 0
  <2>1. k - 1 \in Nat /\ ~(k <= k - 1) /\ (k - 1) + 1 = k
    BY <1>1, <1>3
  <2>2. PICK g : Removes(g, k - 1, tree, order)
    BY <1>1, <2>1
  <2>3. \E h : Removes(h, (k - 1) + 1, tree, order)
    BY <2>1, <2>2, RemovesNext
  <2> QED BY <1>1, <2>1, <2>3
<1> QED BY <1>2, <1>3

\* Rows are removed and the others stay in the tree; "bottom" separators stay last if
\* they were and no row that is removed owned any.
LEMMA AllRemoved ==
    ASSUME NEW tree, Forest(tree), NEW nodes, nodes \subseteq Listed(tree)
    PROVE  /\ Forest(RemoveAll(tree, nodes)) /\ Listed(RemoveAll(tree, nodes)) = Listed(tree) \ nodes
           /\ nodes = {} => RemoveAll(tree, nodes) = tree
           /\ Ordered(tree, nodes) => Ordered(RemoveAll(tree, nodes), nodes)
<1> DEFINE n == Cardinality(nodes)
           order == Seqs!SetToSeq(nodes)
           removed == CHOOSE f : Removes(f, n, tree, order)
           new == RemoveAll(tree, nodes)
           Gone(k) == {order[j] : j \in 1..k}
           Good(k) == /\ Forest(removed[k]) /\ Listed(removed[k]) = Listed(tree) \ Gone(k)
                      /\ Ordered(tree, nodes) => Ordered(removed[k], nodes)
           T == {k \in 0..n : ~Good(k)}
<1>1. nodes \subseteq Nodes /\ IsFiniteSet(nodes)
  BY InTreeIsListed, PointsFinite, FS_Subset
<1>2. /\ n \in Nat /\ \A k \in 1..n : order[k] \in nodes
      /\ \A k, l \in 1..n : order[k] = order[l] => k = l
      /\ \A x \in nodes : \E k \in 1..n : order[k] = x
  BY <1>1, SetInSomeOrder
<1>3. Removes(removed, n, tree, order)
  BY <1>2, RemovesDefined
<1>4. new = removed[n]
  BY DEF RemoveAll, Removes
<1> HIDE DEF removed, order, n, new
<1>5. \A k \in 0..n : removed[k] = IF k = 0 THEN tree ELSE RemoveNodeSelfHealing(removed[k - 1], order[k])
  BY <1>3 DEF Removes
<1>6. removed[0] = tree
  BY <1>2, <1>5
<1>7. T = {}
  <2> SUFFICES ASSUME T # {} PROVE FALSE
    OBVIOUS
  <2>1. T \in SUBSET Nat
    BY <1>2
  <2>2. PICK k \in T : \A y \in T : k <= y
    BY <2>1, LeastNatural
  <2>3. CASE k = 0
    <3>1. Gone(0) = {}
      OBVIOUS
    <3> HIDE DEF Gone
    <3> QED BY <1>6, <2>2, <2>3, <3>1
  <2>4. CASE k # 0
    <3>1. k \in 1..n /\ k - 1 \in 0..n /\ ~(k <= k - 1)
      BY <1>2, <2>4
    <3>2. Good(k - 1)
      BY <2>2, <3>1
    <3>3. removed[k] = RemoveNodeSelfHealing(removed[k - 1], order[k])
      BY <1>5, <2>4
    <3>4. order[k] \in nodes /\ order[k] \in Listed(removed[k - 1])
      <4>1. order[k] \notin Gone(k - 1)
        <5> SUFFICES ASSUME NEW j \in 1..(k - 1), order[k] = order[j] PROVE FALSE
          OBVIOUS
        <5>1. j \in 1..n /\ j # k
          BY <1>2, <3>1
        <5> QED BY <1>2, <3>1, <5>1
      <4> HIDE DEF Gone
      <4> QED BY <1>2, <3>1, <3>2, <4>1
    <3>5. Gone(k) = Gone(k - 1) \cup {order[k]}
      <4>1. \A j \in Int : j \in 1..k <=> j \in 1..(k - 1) \/ j = k
        BY <1>2, <3>1
      <4> QED BY <4>1
    <3> HIDE DEF Gone
    <3>6. Forest(removed[k]) /\ Listed(removed[k]) = Listed(removed[k - 1]) \ {order[k]}
      BY <3>2, <3>3, <3>4, RemovedForest
    <3>7. Listed(removed[k]) = Listed(tree) \ Gone(k)
      BY <3>2, <3>5, <3>6
    <3>8. Ordered(tree, nodes) => Ordered(removed[k], nodes)
      BY <1>1, <3>2, <3>3, <3>4, OrderedStays
    <3> QED BY <2>2, <3>6, <3>7, <3>8
  <2> QED BY <2>3, <2>4
<1>8. Good(n)
  <2>1. n \in 0..n
    BY <1>2
  <2> QED BY <1>7, <2>1
<1>9. Gone(n) = nodes
  BY <1>2
<1>10. ASSUME nodes = {} PROVE new = tree
  <2>1. n = 0
    BY <1>10, FS_EmptySet DEF n
  <2> QED BY <1>4, <1>6, <2>1
<1> HIDE DEF Gone
<1> QED BY <1>4, <1>8, <1>9, <1>10 DEF new

-------------------------------------------------------------------------------
(* Drags, and names for new tabs. *)

\* The row is in the scope that lists it.
LEMMA ScopeIs ==
    ASSUME NEW tree, Forest(tree), NEW q \in Points, NEW n \in Children(tree, q)
    PROVE  Scope(tree, n) = q
<1>1. n \in Listed(tree)
  BY DEF Listed
<1> QED BY <1>1, Located

\* A row is moved out of the separator it was dropped onto, and stays in the tree.
LEMMA OutOfSeparatorForest ==
    ASSUME NEW tree, Forest(tree), NEW n \in Listed(tree)
    PROVE  /\ Forest(OutOfSeparator(tree, n)) /\ Listed(OutOfSeparator(tree, n)) = Listed(tree)
           /\ Scope(OutOfSeparator(tree, n), n) \in Separators => Scope(tree, Scope(tree, n)) \in Separators
<1> DEFINE parent == Scope(tree, n)
           above == Scope(tree, parent)
           at == Place(tree, parent) + 1
           new == OutOfSeparator(tree, n)
<1>1. parent \in Points /\ n \in Children(tree, parent) /\ n \in Points
  BY Located, InTreeIsListed DEF Points
<1>2. CASE parent \notin Separators
  <2>1. new = tree
    BY <1>2 DEF OutOfSeparator
  <2> QED BY <1>2, <2>1
<1>3. CASE parent \in Separators
  <2>1. parent # Root
    BY <1>3, NamesApart DEF Nodes
  <2>2. parent \in Listed(tree)
    BY <1>1, <2>1, ParentsAreListed
  <2>3. /\ above \in Points /\ parent \in Children(tree, above)
        /\ Place(tree, parent) \in 1..Len(tree[above])
    BY <2>2, Located
  <2>4. new = Inserted(Detach(tree, n), above, at, n)
    BY <1>3 DEF OutOfSeparator, Inserted
  <2>5. above \in Listed(tree) \cup {Root}
    BY <2>3, ParentsAreListed
  <2>6. Typed(tree)
    BY DEF Forest
  <2>7. Closed(tree, Reach(tree, n)) /\ parent \notin Reach(tree, n)
    <3>1. Closed(tree, Reach(tree, n))
      BY <1>1, <2>6, ReachIsClosed
    <3>2. parent \notin Reach(tree, n)
      BY <1>1, Acyclic
    <3> QED BY <3>1, <3>2
  <2>8. above \notin Reach(tree, n)
    BY <2>3, <2>7 DEF Closed
  <2>9. above # parent
    <3>1. above \notin Reach(tree, parent)
      BY <2>3, Acyclic
    <3>2. parent \in Reach(tree, parent)
      BY <1>1, <2>6, ReachIsClosed
    <3> QED BY <3>1, <3>2
  <2>10. Detach(tree, n)[above] = tree[above]
    <3>1. DOMAIN tree = Points
      BY DEF Forest, Typed
    <3> QED BY <2>3, <2>9, <3>1 DEF Detach
  <2>11. at \in 1..(Len(Detach(tree, n)[above]) + 1)
    <3>1. tree[above] \in Seq(Nodes)
      BY <2>3, <2>6 DEF Typed
    <3>2. Len(tree[above]) \in Nat
      BY <3>1
    <3> QED BY <2>3, <2>10, <3>2
  <2> HIDE DEF at, above, new
  <2>12. Forest(new) /\ Listed(new) = Listed(tree) /\ Moved(tree, new, n, above)
    BY <2>4, <2>5, <2>8, <2>11, ReinsertedForest
  <2>13. Scope(new, n) = above
    <3>1. n \in Children(new, above)
      BY <2>3, <2>12 DEF Moved
    <3> QED BY <2>3, <2>12, <3>1, ScopeIs
  <2> QED BY <2>12, <2>13 DEF above, new
<1> QED BY <1>2, <1>3

\* There is a name for a new tab as long as not all are taken.
LEMMA NextTabFree ==
    ASSUME tabs \subseteq Tabs, Cardinality(tabs \ {SettingsTab}) < Cardinality(Seqs!ToSet(TabOrder))
    PROVE  NextTab \in Tabs /\ NextTab \notin tabs /\ NextTab # SettingsTab
<1> DEFINE U == Seqs!ToSet(TabOrder)
           open == tabs \ {SettingsTab}
           F == {i \in DOMAIN TabOrder : TabOrder[i] \notin tabs}
           Free(i) == TabOrder[i] \notin tabs /\ \A j \in 1..(i - 1) : TabOrder[j] \in tabs
<1>1. IsFiniteSet(open)
  BY PointsFinite, FS_Subset
<1>2. Len(TabOrder) \in Nat /\ DOMAIN TabOrder = 1..Len(TabOrder) /\ SettingsTab \notin U
  BY NamesAssumption
<1>3. \A i \in DOMAIN TabOrder : TabOrder[i] \in U
  BY <1>2 DEF Seqs!ToSet
<1>4. \A x \in U : \E i \in DOMAIN TabOrder : TabOrder[i] = x
  BY <1>2 DEF Seqs!ToSet
<1>5. F # {}
  <2> SUFFICES ASSUME F = {} PROVE FALSE
    OBVIOUS
  <2>1. U \subseteq open
    BY <1>2, <1>4
  <2> HIDE DEF U, open
  <2>2. IsFiniteSet(U) /\ Cardinality(U) <= Cardinality(open)
    BY <1>1, <2>1, FS_Subset
  <2>3. Cardinality(U) \in Nat /\ Cardinality(open) \in Nat
    BY <1>1, <2>2, FS_CardinalityType
  <2> QED BY <2>2, <2>3 DEF U, open
<1>6. F \in SUBSET Nat
  BY <1>2
<1>7. PICK i \in F : \A y \in F : i <= y
  BY <1>5, <1>6, LeastNatural
<1>8. i \in DOMAIN TabOrder /\ Free(i)
  <2>1. ASSUME NEW j \in 1..(i - 1) PROVE TabOrder[j] \in tabs
    <3>1. j \in DOMAIN TabOrder /\ ~(i <= j)
      BY <1>2, <1>7
    <3> QED BY <1>7, <3>1
  <2> QED BY <1>7, <2>1
<1> DEFINE k == CHOOSE j \in DOMAIN TabOrder : Free(j)
<1>9. k \in DOMAIN TabOrder /\ Free(k)
  BY <1>8
<1>10. NextTab = TabOrder[k]
  BY DEF NextTab
<1> HIDE DEF k
<1>11. NextTab \notin tabs /\ NextTab \in U
  BY <1>3, <1>9, <1>10
<1> QED BY <1>2, <1>11 DEF Tabs

\* One more session is open.
LEMMA OneMoreOpen ==
    ASSUME NEW open, open \subseteq Tabs, NEW tab \in Tabs, tab \notin open
    PROVE  /\ Cardinality(open \ {SettingsTab}) \in Nat
           /\ Cardinality((open \cup {tab}) \ {SettingsTab}) <= Cardinality(open \ {SettingsTab}) + 1
           /\ Cardinality((open \cup {tab}) \ {SettingsTab}) \in Nat
           /\ tab = SettingsTab => Cardinality((open \cup {tab}) \ {SettingsTab}) = Cardinality(open \ {SettingsTab})
<1> DEFINE A == open \ {SettingsTab}
           B == (open \cup {tab}) \ {SettingsTab}
<1>1. IsFiniteSet(A) /\ Cardinality(A) \in Nat
  BY PointsFinite, FS_Subset, FS_CardinalityType
<1>2. CASE tab = SettingsTab
  <2>1. B = A
    BY <1>2
  <2> HIDE DEF A, B
  <2>2. Cardinality(B) = Cardinality(A)
    BY <2>1
  <2> QED BY <1>1, <2>2 DEF A, B
<1>3. CASE tab # SettingsTab
  <2>1. B = A \cup {tab} /\ tab \notin A
    BY <1>3
  <2> HIDE DEF A, B
  <2>2. Cardinality(A \cup {tab}) = Cardinality(A) + 1
    BY <1>1, <2>1, FS_AddElement
  <2>3. Cardinality(B) = Cardinality(A) + 1
    BY <2>1, <2>2
  <2> QED BY <1>1, <1>3, <2>3 DEF A, B
<1> QED BY <1>2, <1>3

-------------------------------------------------------------------------------
(* The invariant. *)

LaunchInv ==
    /\ Launchable(start)
    /\ bounds.maxTabs \in 1..Cardinality(Seqs!ToSet(TabOrder)) /\ Len(start.sessions) <= bounds.maxTabs

(* The page is one of this launch, and the sessions in it are the open tabs. *)
PageInv == IsPage(Page, start) /\ tabs = Listed(kids) \ Separators

(* A tab name is left for every startup action to come. *)
RoomInv ==
    /\ loop \in 0..ActionCount
    /\ running => Cardinality(tabs \ {SettingsTab}) + (ActionCount - loop) <= bounds.maxTabs

(* Once the first tab has opened one of them is focused. *)
FocusInv == (running /\ loop > 0) => focused \in tabs

TreeInv == LaunchInv /\ PageInv /\ RoomInv /\ FocusInv

\* What the invariant says of the variables.
LEMMA PageFacts ==
    ASSUME PageInv
    PROVE  /\ Forest(kids) /\ DOMAIN kids = Points /\ cursor \in 0..Len(start.sessions)
           /\ Slots(slots, start, Listed(kids)) /\ realized \in BOOLEAN
           /\ realized \/ Listed(kids) \cap Separators = {}
           /\ tabs \subseteq Tabs /\ tabs \subseteq Listed(kids) /\ InTree(kids) = Listed(kids)
           /\ \A t \in Tabs : t \notin tabs => t \notin Listed(kids)
<1>1. IsPage(Page, start) /\ tabs = Listed(kids) \ Separators
  BY DEF PageInv
<1>2. Page.kids = kids /\ Page.cursor = cursor /\ Page.slots = slots /\ Page.realized = realized
  BY DEF Page
<1>3. /\ Forest(kids) /\ cursor \in 0..Len(start.sessions)
      /\ Slots(slots, start, Listed(kids)) /\ realized \in BOOLEAN
      /\ realized \/ Listed(kids) \cap Separators = {}
  BY <1>1, <1>2 DEF IsPage
<1>4. DOMAIN kids = Points
  BY <1>3 DEF Forest, Typed
<1>5. InTree(kids) = Listed(kids) /\ Listed(kids) \subseteq Nodes
  BY <1>3, InTreeIsListed
<1>6. \A t \in Tabs : t \notin Separators
  BY NamesApart
<1> QED BY <1>1, <1>3, <1>4, <1>5, <1>6 DEF Nodes

\* A page with these parts is one.
LEMMA PageKept ==
    ASSUME Forest(kids), cursor \in 0..Len(start.sessions), Slots(slots, start, Listed(kids)),
           realized \in BOOLEAN, realized \/ Listed(kids) \cap Separators = {}, tabs = Listed(kids) \ Separators
    PROVE  PageInv
<1>1. /\ Page = [kids |-> Page.kids, cursor |-> Page.cursor, slots |-> Page.slots, realized |-> Page.realized]
      /\ Page.kids = kids /\ Page.cursor = cursor /\ Page.slots = slots /\ Page.realized = realized
  BY DEF Page
<1> QED BY <1>1 DEF PageInv, IsPage

\* The same after a step.
LEMMA PageKeptNext ==
    ASSUME Forest(kids'), cursor' \in 0..Len(start'.sessions), Slots(slots', start', Listed(kids')),
           realized' \in BOOLEAN, realized' \/ Listed(kids') \cap Separators = {}, tabs' = Listed(kids') \ Separators
    PROVE  PageInv'
<1> DEFINE page == Page'
<1>1. page = [kids |-> kids', cursor |-> cursor', slots |-> slots', realized |-> realized']
  BY DEF Page
<1> HIDE DEF page
<1>2. /\ page = [kids |-> page.kids, cursor |-> page.cursor, slots |-> page.slots, realized |-> page.realized]
      /\ page.kids = kids' /\ page.cursor = cursor' /\ page.slots = slots' /\ page.realized = realized'
  BY <1>1
<1>3. IsPage(page, start')
  BY <1>2 DEF IsPage
<1> QED BY <1>3 DEF PageInv, page

\* A page that is one becomes the page.
LEMMA PageTaken ==
    ASSUME NEW page, IsPage(page, start), PageBecomes(page), start' = start,
           tabs' = Listed(page.kids) \ Separators
    PROVE  PageInv' /\ kids' = page.kids
<1>1. kids' = page.kids /\ cursor' = page.cursor /\ slots' = page.slots /\ realized' = page.realized
  BY DEF PageBecomes
<1>2. /\ Forest(page.kids) /\ page.cursor \in 0..Len(start.sessions) /\ Slots(page.slots, start, Listed(page.kids))
      /\ page.realized \in BOOLEAN /\ (page.realized \/ Listed(page.kids) \cap Separators = {})
  BY DEF IsPage
<1>3. /\ Forest(kids') /\ cursor' \in 0..Len(start'.sessions) /\ Slots(slots', start', Listed(kids'))
      /\ realized' \in BOOLEAN /\ (realized' \/ Listed(kids') \cap Separators = {}) /\ tabs' = Listed(kids') \ Separators
  BY <1>1, <1>2
<1> QED BY <1>1, <1>3, PageKeptNext

\* The number of startup actions.
LEMMA Actions ==
    ASSUME LaunchInv
    PROVE  ActionCount \in Nat /\ 1 <= ActionCount /\ ActionCount <= bounds.maxTabs /\ bounds.maxTabs \in Nat
<1>1. /\ Len(start.sessions) \in Nat /\ Len(start.sessions) <= bounds.maxTabs
      /\ bounds.maxTabs \in Nat /\ 1 <= bounds.maxTabs
  BY DEF LaunchInv, Launchable
<1>2. CASE start.sessions = <<>>
  BY <1>1, <1>2 DEF ActionCount
<1>3. CASE start.sessions # <<>>
  <2>1. DOMAIN start.sessions = 1..Len(start.sessions)
    BY DEF LaunchInv, Launchable
  <2>2. Len(start.sessions) # 0
    BY <1>3 DEF LaunchInv, Launchable
  <2> QED BY <1>1, <1>3, <2>2 DEF ActionCount
<1> QED BY <1>2, <1>3

-------------------------------------------------------------------------------
(* Steps. *)

\* The launch stays the same.
LEMMA LaunchKept ==
    ASSUME LaunchInv, UNCHANGED launch
    PROVE  LaunchInv' /\ ActionCount' = ActionCount /\ bounds' = bounds /\ start' = start
<1>1. bounds' = bounds /\ start' = start
  BY DEF launch
<1> QED BY <1>1 DEF LaunchInv, ActionCount

\* A tab is opened on a page that has its row.
LEMMA TabOpened ==
    ASSUME TreeInv, NEW tab \in Tabs, tab \notin tabs, NEW became, IsPage(became, start),
           Listed(became.kids) \ Separators = tabs \cup {tab}, TabOpens(tab, became)
    PROVE  /\ LaunchInv' /\ PageInv' /\ ActionCount' = ActionCount /\ bounds' = bounds
           /\ kids' = became.kids /\ tabs' = tabs \cup {tab} /\ focused' = tab
           /\ running' = running /\ dropped' = dropped
<1>1. PageBecomes(became) /\ tabs' = tabs \cup {tab} /\ focused' = tab
  BY DEF TabOpens
<1>2. UNCHANGED launch /\ running' = running /\ dropped' = dropped
  BY DEF TabOpens, dragVars
<1>3. LaunchInv' /\ ActionCount' = ActionCount /\ bounds' = bounds /\ start' = start
  BY <1>2, LaunchKept DEF TreeInv
<1>4. PageInv' /\ kids' = became.kids
  BY <1>1, <1>3, PageTaken
<1> QED BY <1>1, <1>2, <1>3, <1>4

\* No tab is opened; the separators may appear.
LEMMA NoTabOpened ==
    ASSUME TreeInv, NEW became, IsPage(became, start),
           Listed(became.kids) \ Separators = tabs, NoTabOpens(became)
    PROVE  /\ LaunchInv' /\ PageInv' /\ ActionCount' = ActionCount /\ bounds' = bounds
           /\ kids' = became.kids /\ UNCHANGED <<tabs, focused, running, dropped>>
<1>1. PageBecomes(became) /\ tabs' = tabs /\ focused' = focused
  BY DEF NoTabOpens
<1>2. UNCHANGED launch /\ running' = running /\ dropped' = dropped
  BY DEF NoTabOpens, dragVars
<1>3. LaunchInv' /\ ActionCount' = ActionCount /\ bounds' = bounds /\ start' = start
  BY <1>2, LaunchKept DEF TreeInv
<1>4. PageInv' /\ kids' = became.kids
  BY <1>1, <1>3, PageTaken
<1> QED BY <1>1, <1>2, <1>3, <1>4

\* An empty tree.
LEMMA EmptyForest ==
    ASSUME NEW tree, tree = [p \in Points |-> <<>>]
    PROVE  /\ Forest(tree) /\ Listed(tree) = {} /\ InTree(tree) = {}
           /\ \A p \in Points : BottomsLast(tree[p])
<1>1. \A p \in Points : tree[p] = <<>> /\ Children(tree, p) = {}
  BY DEF Children
<1>2. Typed(tree)
  <2>1. <<>> \in Seq(Nodes) /\ Once(<<>>)
    BY DEF Once
  <2> QED BY <2>1 DEF Typed
<1>3. Disjoint(tree) /\ Rooted(tree)
  BY <1>1 DEF Disjoint, Rooted
<1>4. Listed(tree) = {}
  BY <1>1 DEF Listed
<1>5. Forest(tree)
  BY <1>2, <1>3 DEF Forest
<1>6. \A p \in Points : BottomsLast(tree[p])
  <2>1. BottomsLast(<<>>)
    BY DEF BottomsLast
  <2> QED BY <1>1, <2>1
<1>7. InTree(tree) = {}
  BY <1>4, <1>5, InTreeIsListed
<1> QED BY <1>4, <1>5, <1>6, <1>7

\* The window ends.
LEMMA WindowEnded ==
    ASSUME TreeInv, WindowEnds
    PROVE  /\ LaunchInv' /\ PageInv' /\ ActionCount' = ActionCount
           /\ ~running' /\ InTree(kids') = {} /\ dropped' = None
           /\ \A p \in DOMAIN kids' : BottomsLast(kids'[p])
<1>1. LaunchInv' /\ ActionCount' = ActionCount /\ start' = start
  BY LaunchKept DEF TreeInv, WindowEnds
<1>2. DOMAIN kids = Points /\ DOMAIN slots = 1..Len(start.sessions)
  BY PageFacts DEF TreeInv, Slots
<1>3. kids' = [p \in Points |-> <<>>]
  BY <1>2 DEF WindowEnds
<1>4. Forest(kids') /\ Listed(kids') = {} /\ InTree(kids') = {} /\ \A p \in Points : BottomsLast(kids'[p])
  BY <1>3, EmptyForest
<1>5. /\ cursor' = 0 /\ realized' = FALSE /\ tabs' = {} /\ slots' = [i \in 1..Len(start.sessions) |-> None]
      /\ running' = FALSE /\ dropped' = None
  BY <1>2 DEF WindowEnds
<1>6. 0 \in 0..Len(start'.sessions)
  <2>1. Len(start.sessions) \in Nat
    BY DEF TreeInv, LaunchInv, Launchable
  <2> QED BY <1>1, <2>1
<1>7. Slots(slots', start', Listed(kids'))
  BY <1>1, <1>5 DEF Slots
<1>8. PageInv'
  <2>1. cursor' \in 0..Len(start'.sessions) /\ realized' \in BOOLEAN
    BY <1>5, <1>6
  <2>2. realized' \/ Listed(kids') \cap Separators = {}
    BY <1>4
  <2>3. tabs' = Listed(kids') \ Separators
    BY <1>4, <1>5
  <2> QED BY <1>4, <1>7, <2>1, <2>2, <2>3, PageKeptNext
<1>9. DOMAIN kids' = Points
  BY <1>3
<1> QED BY <1>1, <1>4, <1>5, <1>8, <1>9

\* The row of a name that is free is added to the page.
LEMMA FreeTabReconciled ==
    ASSUME TreeInv, NEW tab \in Tabs, tab \notin tabs
    PROVE  Opens(Page, start, tab, Reconciled(Page, start, tab)) /\ Page.kids = kids
<1>1. IsPage(Page, start) /\ Launchable(start) /\ Page.kids = kids /\ tab \notin Listed(kids)
  BY PageFacts DEF TreeInv, LaunchInv, PageInv, Page
<1> QED BY <1>1, TabReconciled

(* The step leaves "bottom" separators last, or the tree as it is. *)
Sunk == (kids' = kids \/ \A p \in Points : BottomsLast(kids'[p])) /\ dropped' = dropped

\* After an action the startup actions may be over.
LEMMA CompletedSettles ==
    ASSUME LaunchInv, NEW page, IsPage(page, start)
    PROVE  Settles(page, start, Completed(page))
<1>1. Settles(page, start, MarkStartupSpawnComplete(page, start))
  BY SpawnCompleted DEF LaunchInv
<1>2. Settles(page, start, page)
  BY DEF Settles
<1> QED BY <1>1, <1>2 DEF Completed

\* The page of a new tab, also at the end of the startup actions.
LEMMA OpenedSettles ==
    ASSUME TreeInv, NEW tab \in Tabs, tab \notin tabs, NEW became,
           \/ became = Reconciled(Page, start, tab)
           \/ Settles(Reconciled(Page, start, tab), start, became)
    PROVE  /\ IsPage(became, start) /\ Listed(became.kids) \ Separators = tabs \cup {tab}
           /\ \A q \in Points : BottomsLast(became.kids[q])
<1> DEFINE first == Reconciled(Page, start, tab)
<1>1. Opens(Page, start, tab, first) /\ Page.kids = kids
  BY FreeTabReconciled
<1> HIDE DEF first
<1>2. /\ IsPage(first, start) /\ Listed(first.kids) \ Separators = tabs \cup {tab}
      /\ \A q \in Points : BottomsLast(first.kids[q])
  BY <1>1 DEF Opens, TreeInv, PageInv
<1>3. CASE became = first
  BY <1>2, <1>3
<1>4. CASE Settles(first, start, became)
  BY <1>2, <1>4 DEF Settles
<1> QED BY <1>3, <1>4 DEF first

\* A tab that opens leaves the invariant if there is room for it.
LEMMA OpenedKept ==
    ASSUME TreeInv, running, NEW tab \in Tabs, tab \notin tabs, NEW became, IsPage(became, start),
           Listed(became.kids) \ Separators = tabs \cup {tab},
           \A q \in Points : BottomsLast(became.kids[q]), TabOpens(tab, became),
           \/ loop < ActionCount /\ loop' = loop + 1
           \/ (Room \/ tab = SettingsTab) /\ loop' = loop
    PROVE  TreeInv' /\ Sunk
<1>1. /\ LaunchInv' /\ PageInv' /\ ActionCount' = ActionCount /\ bounds' = bounds
      /\ kids' = became.kids /\ tabs' = tabs \cup {tab} /\ focused' = tab
      /\ running' = running /\ dropped' = dropped
  BY TabOpened
<1> DEFINE a == Cardinality(tabs \ {SettingsTab})
           b == Cardinality((tabs \cup {tab}) \ {SettingsTab})
<1>2. a \in Nat /\ b \in Nat /\ b <= a + 1 /\ (tab = SettingsTab => b = a)
  BY OneMoreOpen, PageFacts DEF TreeInv
<1>3. ActionCount \in Nat /\ bounds.maxTabs \in Nat
  BY Actions DEF TreeInv
<1>4. loop \in 0..ActionCount /\ a + (ActionCount - loop) <= bounds.maxTabs
  BY DEF TreeInv, RoomInv
<1>5. Room <=> a + (ActionCount - loop) < bounds.maxTabs
  BY DEF Room
<1> HIDE DEF a, b
<1>6. loop' \in 0..ActionCount /\ b + (ActionCount - loop') <= bounds.maxTabs
  <2>1. CASE loop < ActionCount /\ loop' = loop + 1
    BY <1>2, <1>3, <1>4, <2>1
  <2>2. CASE Room /\ loop' = loop
    BY <1>2, <1>3, <1>4, <1>5, <2>2
  <2>3. CASE tab = SettingsTab /\ loop' = loop
    BY <1>2, <1>3, <1>4, <2>3
  <2> QED BY <2>1, <2>2, <2>3
<1>7. RoomInv'
  <2>1. b = Cardinality(tabs' \ {SettingsTab})
    BY <1>1 DEF b
  <2> QED BY <1>1, <1>6, <2>1 DEF RoomInv
<1>8. FocusInv'
  BY <1>1 DEF FocusInv
<1> QED BY <1>1, <1>7, <1>8 DEF TreeInv, Sunk

\* While there is room, there is a name.
LEMMA NameLeft ==
    ASSUME TreeInv, running, loop < ActionCount \/ Room
    PROVE  NextTab \in Tabs /\ NextTab \notin tabs /\ NextTab # SettingsTab
<1> DEFINE a == Cardinality(tabs \ {SettingsTab})
           m == Cardinality(Seqs!ToSet(TabOrder))
<1>1. tabs \subseteq Tabs
  BY PageFacts DEF TreeInv
<1>2. a \in Nat
  BY <1>1, PointsFinite, FS_Subset, FS_CardinalityType
<1>3. ActionCount \in Nat /\ bounds.maxTabs \in Nat /\ loop \in 0..ActionCount
  BY Actions DEF TreeInv, RoomInv
<1>4. bounds.maxTabs \in 1..m
  BY DEF TreeInv, LaunchInv
<1>5. a + (ActionCount - loop) <= bounds.maxTabs
  BY DEF TreeInv, RoomInv
<1>6. Room <=> a + (ActionCount - loop) < bounds.maxTabs
  BY DEF Room
<1>7. m \in Nat
  <2>1. IsFiniteSet(Seqs!ToSet(TabOrder))
    <3>1. Seqs!ToSet(TabOrder) \subseteq Tabs
      BY DEF Tabs
    <3> QED BY <3>1, PointsFinite, FS_Subset
  <2> QED BY <2>1, FS_CardinalityType
<1> HIDE DEF a, m
<1>8. a < m
  BY <1>2, <1>3, <1>4, <1>5, <1>6, <1>7
<1> QED BY <1>1, <1>8, NextTabFree DEF a, m

\* The tabs opened by the startup actions and by the user.
LEMMA OpeningKept ==
    ASSUME TreeInv, StartupTab \/ OpenTab \/ OpenSettings
    PROVE  TreeInv' /\ Sunk
<1>1. LaunchInv
  BY DEF TreeInv
<1>2. CASE StartupTab
  <2>1. running /\ loop < ActionCount /\ loop' = loop + 1
        /\ TabOpens(NextTab, Completed(Reconciled(Page, start, NextTab)))
    BY <1>2 DEF StartupTab, Starting
  <2>2. NextTab \in Tabs /\ NextTab \notin tabs
    BY <2>1, NameLeft
  <2> DEFINE first == Reconciled(Page, start, NextTab)
             became == Completed(first)
  <2>3. Settles(first, start, became)
    <3>1. IsPage(first, start)
      BY <2>2, FreeTabReconciled DEF Opens
    <3> QED BY <1>1, <3>1, CompletedSettles
  <2> HIDE DEF became
  <2>4. /\ IsPage(became, start) /\ Listed(became.kids) \ Separators = tabs \cup {NextTab}
        /\ \A q \in Points : BottomsLast(became.kids[q])
    BY <2>2, <2>3, OpenedSettles
  <2>5. TabOpens(NextTab, became)
    BY <2>1 DEF became
  <2> QED BY <2>1, <2>2, <2>4, <2>5, OpenedKept
<1>3. CASE OpenTab
  <2> DEFINE became == Reconciled(Page, start, NextTab)
  <2>1. running /\ Room /\ loop' = loop /\ TabOpens(NextTab, became)
    BY <1>3 DEF OpenTab, Idle
  <2>2. NextTab \in Tabs /\ NextTab \notin tabs
    BY <2>1, NameLeft
  <2>3. /\ IsPage(became, start) /\ Listed(became.kids) \ Separators = tabs \cup {NextTab}
        /\ \A q \in Points : BottomsLast(became.kids[q])
    BY <2>2, OpenedSettles
  <2> HIDE DEF became
  <2> QED BY <2>1, <2>2, <2>3, OpenedKept
<1>4. CASE OpenSettings
  <2> DEFINE became == Reconciled(Page, start, SettingsTab)
  <2>1. running /\ loop' = loop /\ SettingsTab \notin tabs /\ TabOpens(SettingsTab, became)
    BY <1>4 DEF OpenSettings, Idle
  <2>2. SettingsTab \in Tabs
    BY DEF Tabs
  <2>3. /\ IsPage(became, start) /\ Listed(became.kids) \ Separators = tabs \cup {SettingsTab}
        /\ \A q \in Points : BottomsLast(became.kids[q])
    BY <2>1, <2>2, OpenedSettles
  <2> HIDE DEF became
  <2> QED BY <2>1, <2>2, <2>3, OpenedKept
<1> QED BY <1>2, <1>3, <1>4

\* No tab opens, and the startup actions may be over.
LEMMA NotOpenedKept ==
    ASSUME TreeInv, NEW became, Settles(Page, start, became), NoTabOpens(became),
           \/ loop < ActionCount /\ loop' = loop + 1 /\ loop # 0
           \/ loop' = loop
    PROVE  TreeInv' /\ Sunk
<1>1. Page.kids = kids /\ tabs = Listed(kids) \ Separators
  BY DEF Page, TreeInv, PageInv
<1>2. /\ IsPage(became, start) /\ Listed(became.kids) \ Separators = tabs
      /\ became.kids = kids \/ \A q \in Points : BottomsLast(became.kids[q])
  BY <1>1 DEF Settles
<1>3. /\ LaunchInv' /\ PageInv' /\ ActionCount' = ActionCount /\ bounds' = bounds
      /\ kids' = became.kids /\ tabs' = tabs /\ focused' = focused /\ running' = running /\ dropped' = dropped
  BY <1>2, NoTabOpened
<1>4. ActionCount \in Nat /\ bounds.maxTabs \in Nat /\ loop \in 0..ActionCount
  BY Actions DEF TreeInv, RoomInv
<1> DEFINE a == Cardinality(tabs \ {SettingsTab})
<1>5. a \in Nat
  BY PageFacts, PointsFinite, FS_Subset, FS_CardinalityType DEF TreeInv
<1>6. running => a + (ActionCount - loop) <= bounds.maxTabs
  BY DEF TreeInv, RoomInv
<1> HIDE DEF a
<1>7. loop' \in 0..ActionCount /\ (running => a + (ActionCount - loop') <= bounds.maxTabs)
  BY <1>4, <1>5, <1>6
<1>8. RoomInv'
  <2>1. a = Cardinality(tabs' \ {SettingsTab})
    BY <1>3 DEF a
  <2> QED BY <1>3, <1>7, <2>1 DEF RoomInv
<1>9. FocusInv'
  <2>1. (running /\ loop' > 0) => focused \in tabs
    <3>1. loop' > 0 => loop > 0
      BY <1>4
    <3> QED BY <3>1 DEF TreeInv, FocusInv
  <2> QED BY <1>3, <2>1 DEF FocusInv
<1> QED BY <1>2, <1>3, <1>8, <1>9 DEF TreeInv, Sunk

\* After the window has ended.
LEMMA EndedKept ==
    ASSUME TreeInv, WindowEnds, loop' \in 0..ActionCount
    PROVE  TreeInv'
<1>1. LaunchInv' /\ PageInv' /\ ActionCount' = ActionCount /\ ~running'
  BY WindowEnded
<1>2. RoomInv' /\ FocusInv'
  BY <1>1 DEF RoomInv, FocusInv
<1> QED BY <1>1, <1>2 DEF TreeInv

\* A startup action that opens no tab.
LEMMA StartupNoTabKept ==
    ASSUME TreeInv, StartupNoTab
    PROVE  TreeInv' /\ (WindowEnds \/ Sunk)
<1>1. running /\ loop < ActionCount /\ loop' = loop + 1
  BY DEF StartupNoTab, Starting
<1>2. ActionCount \in Nat /\ loop \in 0..ActionCount
  BY Actions DEF TreeInv, RoomInv
<1>3. CASE loop = 0
  <2>1. WindowEnds
    BY <1>3 DEF StartupNoTab
  <2>2. loop' \in 0..ActionCount
    BY <1>1, <1>2
  <2> QED BY <2>1, <2>2, EndedKept
<1>4. CASE loop # 0
  <2>1. NoTabOpens(Completed(Page))
    BY <1>4 DEF StartupNoTab
  <2>2. Settles(Page, start, Completed(Page))
    BY CompletedSettles DEF TreeInv, PageInv
  <2> QED BY <1>1, <1>4, <2>1, <2>2, NotOpenedKept
<1> QED BY <1>3, <1>4

\* A command line that is executed.
LEMMA ExecuteCommandlineKept ==
    ASSUME TreeInv, ExecuteCommandline
    PROVE  TreeInv' /\ Sunk
<1>1. running /\ loop' = loop
  BY DEF ExecuteCommandline, Idle
<1>2. Launchable(start) /\ IsPage(Page, start)
  BY DEF TreeInv, LaunchInv, PageInv
<1>3. CASE Room /\ TabOpens(NextTab, MarkStartupSpawnComplete(Reconciled(Page, start, NextTab), start))
  <2> DEFINE first == Reconciled(Page, start, NextTab)
             became == MarkStartupSpawnComplete(first, start)
  <2>1. NextTab \in Tabs /\ NextTab \notin tabs
    BY <1>1, <1>3, NameLeft
  <2>2. Settles(first, start, became)
    <3>1. IsPage(first, start)
      BY <2>1, FreeTabReconciled DEF Opens
    <3> QED BY <1>2, <3>1, SpawnCompleted
  <2>3. TabOpens(NextTab, became)
    BY <1>3
  <2> HIDE DEF became
  <2>4. /\ IsPage(became, start) /\ Listed(became.kids) \ Separators = tabs \cup {NextTab}
        /\ \A q \in Points : BottomsLast(became.kids[q])
    BY <2>1, <2>2, OpenedSettles
  <2> QED BY <1>1, <1>3, <2>1, <2>3, <2>4, OpenedKept
<1>4. CASE NoTabOpens(MarkStartupSpawnComplete(Page, start))
  <2>1. Settles(Page, start, MarkStartupSpawnComplete(Page, start))
    BY <1>2, SpawnCompleted
  <2> QED BY <1>1, <1>4, <2>1, NotOpenedKept
<1> QED BY <1>3, <1>4 DEF ExecuteCommandline

\* A new tab whose row is moved below another one.
LEMMA AddChildSessionKept ==
    ASSUME TreeInv, NEW t \in Tabs, AddChildSession(t)
    PROVE  TreeInv' /\ Sunk
<1> DEFINE opened == Reconciled(Page, start, NextTab)
           moved == Attach(Detach(opened.kids, NextTab), t, NextTab)
           sunk == SinkBottomSeparators(moved)
           became == [opened EXCEPT !.kids = sunk]
<1>1. running /\ Room /\ t \in tabs /\ loop' = loop /\ TabOpens(NextTab, became)
  BY DEF AddChildSession, Idle
<1>2. NextTab \in Tabs /\ NextTab \notin tabs
  BY <1>1, NameLeft
<1>3. /\ IsPage(opened, start) /\ Listed(opened.kids) \ Separators = tabs \cup {NextTab}
      /\ \A s \in Children(opened.kids, NextTab) : s \in Separators /\ Children(opened.kids, s) = {}
  BY <1>2, FreeTabReconciled DEF Opens, TreeInv, PageInv
<1> HIDE DEF opened
<1>4. Forest(opened.kids) /\ Typed(opened.kids) /\ NextTab \in Listed(opened.kids) /\ t \in Listed(opened.kids)
  BY <1>1, <1>3 DEF IsPage, Forest
<1>5. t \notin Reach(opened.kids, NextTab)
  <2> DEFINE S == {NextTab} \cup Children(opened.kids, NextTab)
  <2>1. NextTab \in Points
    BY <1>2 DEF Points, Nodes
  <2>2. S \in SUBSET Points /\ NextTab \in S
    BY <1>4, <2>1, ChildrenAreNodes DEF Points
  <2>3. Closed(opened.kids, S)
    BY <1>3 DEF Closed
  <2>4. t \notin S
    BY <1>1, <1>2, <1>3, NamesApart
  <2> HIDE DEF S
  <2> QED BY <1>4, <2>1, <2>2, <2>3, <2>4, ReachIsClosed
<1>6. Forest(moved) /\ Listed(moved) = Listed(opened.kids)
  BY <1>4, <1>5, ReattachedForest
<1> HIDE DEF moved
<1>7. Forest(sunk) /\ Listed(sunk) = Listed(opened.kids) /\ \A q \in Points : BottomsLast(sunk[q])
  BY <1>6, SunkForest
<1> HIDE DEF sunk
<1>8. PICK a, b, c, d : opened = [kids |-> a, cursor |-> b, slots |-> c, realized |-> d]
  BY <1>3 DEF IsPage
<1>9. opened.cursor = b /\ opened.slots = c /\ opened.realized = d
  BY <1>8
<1>10. became = [kids |-> sunk, cursor |-> b, slots |-> c, realized |-> d]
  <2>1. became = [opened EXCEPT !.kids = sunk]
    OBVIOUS
  <2> HIDE DEF became
  <2> QED BY <1>8, <2>1, PageRecords
<1> HIDE DEF became
<1>11. /\ became = [kids |-> became.kids, cursor |-> became.cursor, slots |-> became.slots, realized |-> became.realized]
       /\ became.kids = sunk /\ became.cursor = opened.cursor /\ became.slots = opened.slots
       /\ became.realized = opened.realized
  BY <1>9, <1>10
<1>12. IsPage(became, start)
  BY <1>3, <1>7, <1>11 DEF IsPage
<1>13. /\ Listed(became.kids) \ Separators = tabs \cup {NextTab}
       /\ \A q \in Points : BottomsLast(became.kids[q])
  BY <1>3, <1>7, <1>11
<1> QED BY <1>1, <1>2, <1>12, <1>13, OpenedKept

\* A step that changes only where rows are, or which row is focused.
LEMMA MovedKept ==
    ASSUME TreeInv, UNCHANGED <<launch, loop, cursor, slots, realized, tabs, running>>,
           Forest(kids'), Listed(kids') = Listed(kids), focused' = focused \/ focused' \in tabs
    PROVE  TreeInv'
<1>1. LaunchInv' /\ ActionCount' = ActionCount /\ bounds' = bounds /\ start' = start
  BY LaunchKept DEF TreeInv
<1>2. /\ cursor \in 0..Len(start.sessions) /\ Slots(slots, start, Listed(kids)) /\ realized \in BOOLEAN
      /\ realized \/ Listed(kids) \cap Separators = {}
  BY PageFacts DEF TreeInv
<1>3. tabs' = Listed(kids') \ Separators
  BY DEF TreeInv, PageInv
<1>4. PageInv'
  <2>1. cursor' \in 0..Len(start'.sessions) /\ Slots(slots', start', Listed(kids')) /\ realized' \in BOOLEAN
    BY <1>1, <1>2
  <2>2. realized' \/ Listed(kids') \cap Separators = {}
    BY <1>2
  <2> QED BY <1>3, <2>1, <2>2, PageKeptNext
<1>5. RoomInv'
  BY <1>1 DEF TreeInv, RoomInv
<1>6. FocusInv'
  BY DEF TreeInv, FocusInv
<1> QED BY <1>1, <1>4, <1>5, <1>6 DEF TreeInv

\* The focused row is moved because the duplicate was not opened.
LEMMA AddChildSessionFailsKept ==
    ASSUME TreeInv, ~AncestorMoved, NEW t \in Tabs, AddChildSessionFails(t)
    PROVE  TreeInv' /\ Sunk
<1> DEFINE moved == Attach(Detach(kids, focused), t, focused)
<1>1. /\ running /\ loop > 0 /\ t \in tabs /\ focused \notin Chain(kids, t)
      /\ kids' = SinkBottomSeparators(moved)
  BY DEF AddChildSessionFails, Idle
<1>2. UNCHANGED <<launch, loop, cursor, slots, realized, tabs, focused, dropped, running>>
  BY DEF AddChildSessionFails
<1>3. focused \in tabs
  BY <1>1 DEF TreeInv, FocusInv
<1>4. Forest(kids) /\ focused \in Listed(kids) /\ t \in Listed(kids)
  BY <1>1, <1>3, PageFacts DEF TreeInv
<1>5. t \in Points
  BY DEF Points, Nodes
<1>6. t \notin Reach(kids, focused)
  BY <1>1, <1>4, <1>5, ChainIsAbove
<1>7. Forest(moved) /\ Listed(moved) = Listed(kids)
  BY <1>4, <1>6, ReattachedForest
<1> HIDE DEF moved
<1>8. Forest(kids') /\ Listed(kids') = Listed(kids) /\ \A q \in Points : BottomsLast(kids'[q])
  BY <1>1, <1>7, SunkForest
<1>9. TreeInv'
  BY <1>2, <1>8, MovedKept
<1> QED BY <1>2, <1>8, <1>9 DEF Sunk

\* A tab is closed and the rows below it take its place.
LEMMA CloseTabKept ==
    ASSUME TreeInv, NEW t \in Tabs, NEW seen \in Tabs, NEW next \in Tabs, CloseTab(t, seen, next)
    PROVE  TreeInv' /\ Sunk
<1> DEFINE healed == RemoveNodeSelfHealing(kids, t)
<1>1. /\ t \in tabs /\ next \in tabs \ {t} /\ kids' = SinkBottomSeparators(healed)
      /\ slots' = [i \in DOMAIN slots |-> IF slots[i] = t THEN None ELSE slots[i]]
      /\ tabs' = tabs \ {t} /\ focused' = next
  BY DEF CloseTab
<1>2. UNCHANGED <<launch, loop, cursor, realized, running>> /\ dropped' = dropped
  BY DEF CloseTab, dragVars
<1>3. LaunchInv' /\ ActionCount' = ActionCount /\ bounds' = bounds /\ start' = start
  BY <1>2, LaunchKept DEF TreeInv
<1>4. /\ Forest(kids) /\ cursor \in 0..Len(start.sessions) /\ Slots(slots, start, Listed(kids)) /\ realized \in BOOLEAN
      /\ realized \/ Listed(kids) \cap Separators = {}
      /\ tabs \subseteq Tabs /\ t \in Listed(kids)
  BY <1>1, PageFacts DEF TreeInv
<1>5. Forest(healed) /\ Listed(healed) = Listed(kids) \ {t}
  BY <1>4, RemovedForest
<1> HIDE DEF healed
<1>6. Forest(kids') /\ Listed(kids') = Listed(kids) \ {t} /\ \A q \in Points : BottomsLast(kids'[q])
  BY <1>1, <1>5, SunkForest
<1>7. Slots(slots', start', Listed(kids'))
  <2>1. slots \in [1..Len(start.sessions) -> (Listed(kids) \ Separators) \cup {None}]
    BY <1>4 DEF Slots
  <2>2. DOMAIN slots = 1..Len(start.sessions)
    BY <2>1
  <2>3. \A i \in 1..Len(start.sessions) : (IF slots[i] = t THEN None ELSE slots[i]) \in (Listed(kids') \ Separators) \cup {None}
    BY <1>6, <2>1
  <2>4. slots' \in [1..Len(start.sessions) -> (Listed(kids') \ Separators) \cup {None}]
    BY <1>1, <2>2, <2>3
  <2> QED BY <1>3, <2>4 DEF Slots
<1>8. PageInv'
  <2>1. tabs' = Listed(kids') \ Separators
    BY <1>1, <1>6 DEF TreeInv, PageInv
  <2>2. cursor' \in 0..Len(start'.sessions) /\ realized' \in BOOLEAN
    BY <1>2, <1>3, <1>4
  <2>3. realized' \/ Listed(kids') \cap Separators = {}
    BY <1>2, <1>4, <1>6
  <2> QED BY <1>6, <1>7, <2>1, <2>2, <2>3, PageKeptNext
<1>9. RoomInv'
  <2> DEFINE a == Cardinality(tabs \ {SettingsTab})
             b == Cardinality((tabs \ {t}) \ {SettingsTab})
  <2>1. IsFiniteSet(tabs \ {SettingsTab}) /\ (tabs \ {t}) \ {SettingsTab} \subseteq tabs \ {SettingsTab}
    BY <1>4, PointsFinite, FS_Subset
  <2>2. a \in Nat /\ b \in Nat /\ b <= a
    BY <2>1, FS_Subset, FS_CardinalityType
  <2>3. ActionCount \in Nat /\ bounds.maxTabs \in Nat /\ loop \in 0..ActionCount
    BY Actions DEF TreeInv, RoomInv
  <2>4. running => a + (ActionCount - loop) <= bounds.maxTabs
    BY DEF TreeInv, RoomInv
  <2>5. b = Cardinality(tabs' \ {SettingsTab})
    BY <1>1
  <2> HIDE DEF a, b
  <2>6. running => b + (ActionCount - loop) <= bounds.maxTabs
    BY <2>2, <2>3, <2>4
  <2> QED BY <1>2, <1>3, <2>3, <2>5, <2>6 DEF RoomInv
<1>10. FocusInv'
  BY <1>1 DEF FocusInv
<1> QED BY <1>2, <1>3, <1>6, <1>8, <1>9, <1>10 DEF TreeInv, Sunk

\* A step that leaves the tree alone.
LEMMA SameTreeKept ==
    ASSUME TreeInv, UNCHANGED <<launch, loop, kids, cursor, slots, realized, tabs, running>>,
           focused' = focused \/ focused' \in tabs
    PROVE  TreeInv'
<1>1. Forest(kids') /\ Listed(kids') = Listed(kids)
  BY PageFacts DEF TreeInv
<1> QED BY <1>1, MovedKept

\* The session the badge of a header selects is an open tab.
LEMMA BadgeSelectsTab ==
    ASSUME TreeInv, NEW h, h \in InTree(kids), NEW n \in Tabs, n \in SectionRows(kids, h)
    PROVE  n \in tabs
<1>1. Forest(kids) /\ InTree(kids) = Listed(kids) /\ Typed(kids) /\ tabs = Listed(kids) \ Separators
  BY PageFacts DEF TreeInv, PageInv, Forest
<1> DEFINE siblings == kids[Scope(kids, h)]
<1>2. Scope(kids, h) \in Points /\ Place(kids, h) \in 1..Len(siblings)
  BY <1>1, Located
<1>3. siblings \in Seq(Nodes) /\ Len(siblings) \in Nat /\ DOMAIN siblings = 1..Len(siblings)
  <2>1. siblings \in Seq(Nodes)
    BY <1>1, <1>2 DEF Typed
  <2> QED BY <2>1
<1>4. PICK m \in Section(kids, h) : n \in Below(kids, m)
  BY DEF SectionRows
<1>5. m \in Children(kids, Scope(kids, h))
  <2>1. PICK i \in (Place(kids, h) + 1)..Len(siblings) : m = siblings[i]
    BY <1>4 DEF Section
  <2>2. i \in DOMAIN siblings
    BY <1>2, <1>3, <2>1
  <2> QED BY <2>1, <2>2 DEF Children
<1>6. m \in Listed(kids) /\ m \in Points
  <2>1. m \in Listed(kids)
    BY <1>2, <1>5 DEF Listed
  <2> QED BY <1>1, <2>1, InTreeIsListed DEF Points
<1>7. n \in Reach(kids, m)
  BY <1>1, <1>4, <1>6, BelowIsReach
<1>8. Listed(kids) \in SUBSET Points
  BY <1>1, InTreeIsListed DEF Points
<1>9. Closed(kids, Listed(kids))
  BY <1>8 DEF Closed, Listed
<1>10. n \in Listed(kids)
  BY <1>1, <1>6, <1>7, <1>8, <1>9, ReachIsClosed
<1> QED BY <1>1, <1>10, NamesApart

\* The steps that leave the tree alone.
LEMMA QuietKept ==
    ASSUME TreeInv,
           \/ \E t \in Tabs : SelectTab(t) \/ MoveTab(t)
           \/ \E h \in Separators : SetSectionCollapsed(h) \/ \E n \in Tabs : ActivateSectionBadge(h, n)
           \/ RowStateChanges \/ CaptureLiveSessionEntries
    PROVE  TreeInv' /\ Sunk
<1>1. ASSUME UNCHANGED <<launch, loop, kids, cursor, slots, realized, tabs, running>>, dropped' = dropped,
             focused' = focused \/ focused' \in tabs
      PROVE  TreeInv' /\ Sunk
  <2>1. TreeInv'
    BY <1>1, SameTreeKept
  <2> QED BY <1>1, <2>1 DEF Sunk
<1>2. ASSUME NEW t \in Tabs, SelectTab(t) \/ MoveTab(t) PROVE TreeInv' /\ Sunk
  <2>1. /\ UNCHANGED <<launch, loop, kids, cursor, slots, realized, tabs, running>> /\ dropped' = dropped
        /\ focused' \in tabs
    BY <1>2 DEF SelectTab, MoveTab, Selects, dragVars
  <2> QED BY <1>1, <2>1
<1>3. ASSUME NEW h \in Separators, SetSectionCollapsed(h) PROVE TreeInv' /\ Sunk
  <2>1. /\ UNCHANGED <<launch, loop, kids, cursor, slots, realized, tabs, running>> /\ dropped' = dropped
        /\ focused' = focused
    BY <1>3 DEF SetSectionCollapsed, treeVars, dragVars
  <2> QED BY <1>1, <2>1
<1>4. ASSUME NEW h \in Separators, NEW n \in Tabs, ActivateSectionBadge(h, n) PROVE TreeInv' /\ Sunk
  <2>1. /\ UNCHANGED <<launch, loop, kids, cursor, slots, realized, tabs, running>> /\ dropped' = dropped
        /\ focused' = n /\ h \in InTree(kids) /\ n \in SectionRows(kids, h)
    BY <1>4 DEF ActivateSectionBadge, treeVars, dragVars, Shown
  <2>2. n \in tabs
    BY <2>1, BadgeSelectsTab
  <2> QED BY <1>1, <2>1, <2>2
<1>5. ASSUME RowStateChanges \/ CaptureLiveSessionEntries PROVE TreeInv' /\ Sunk
  <2>1. /\ UNCHANGED <<launch, loop, kids, cursor, slots, realized, tabs, running>> /\ dropped' = dropped
        /\ focused' = focused
    BY <1>5 DEF RowStateChanges, CaptureLiveSessionEntries, treeVars, dragVars
  <2> QED BY <1>1, <2>1
<1> QED BY <1>2, <1>3, <1>4, <1>5

(* What SeparatorsInPlace says of a step. *)
InPlace ==
    (dropped' = None /\ <<kids, dropped>>' # <<kids, dropped>>) =>
          /\ \/ \A p \in DOMAIN kids' : BottomsLast(kids'[p])
             \/ \E s \in (InTree(kids) \ InTree(kids')) \cap Separators :
                   kids[s] # <<>> \/ \E p \in DOMAIN kids : ~BottomsLast(kids[p])
          /\ dropped \in InTree(kids') =>
                \/ Scope(kids', dropped) \notin Separators
                \/ Scope(kids, Scope(kids, dropped)) \in Separators

\* It is so when the tree was sunk and no drag came to its end.
LEMMA SunkInPlace ==
    ASSUME TreeInv', Sunk
    PROVE  InPlace
<1>1. Forest(kids') /\ DOMAIN kids' = Points
  <2>1. PageInv'
    BY DEF TreeInv
  <2>2. Forest(kids')
    <3> DEFINE page == Page'
    <3>1. page = [kids |-> kids', cursor |-> cursor', slots |-> slots', realized |-> realized'] /\ IsPage(page, start')
      BY <2>1 DEF PageInv, Page
    <3> HIDE DEF page
    <3>2. page.kids = kids'
      BY <3>1
    <3> QED BY <3>1, <3>2 DEF IsPage
  <2> QED BY <2>2 DEF Forest, Typed
<1>2. None \notin InTree(kids')
  BY <1>1, InTreeIsListed, NamesApart
<1> SUFFICES ASSUME dropped' = None, <<kids, dropped>>' # <<kids, dropped>>
             PROVE  (\A p \in DOMAIN kids' : BottomsLast(kids'[p])) /\ dropped \notin InTree(kids')
  BY DEF InPlace
<1>3. dropped = None
  BY DEF Sunk
<1>4. kids' # kids
  BY DEF Sunk
<1> QED BY <1>1, <1>2, <1>3, <1>4 DEF Sunk

\* A reload of the settings removes separators.
LEMMA ReloadKept ==
    ASSUME TreeInv, NEW kept, NEW named, ReconcileSeparatorsWithSettings(kept, named)
    PROVE  TreeInv' /\ InPlace
<1> DEFINE gone == (InTree(kids) \cap Separators) \ kept
<1>1. /\ kids' = RemoveAll(kids, gone) /\ dropped' = dropped
      /\ UNCHANGED <<launch, loop, cursor, slots, realized, tabs, focused, running>>
  BY DEF ReconcileSeparatorsWithSettings, dragVars
<1>2. /\ Forest(kids) /\ DOMAIN kids = Points /\ InTree(kids) = Listed(kids)
      /\ cursor \in 0..Len(start.sessions) /\ Slots(slots, start, Listed(kids)) /\ realized \in BOOLEAN
      /\ (realized \/ Listed(kids) \cap Separators = {}) /\ tabs = Listed(kids) \ Separators
  BY PageFacts DEF TreeInv, PageInv
<1>3. gone \subseteq Listed(kids) /\ gone \subseteq Separators
  BY <1>2
<1> HIDE DEF gone
<1>4. /\ Forest(kids') /\ Listed(kids') = Listed(kids) \ gone /\ (gone = {} => kids' = kids)
      /\ Ordered(kids, gone) => Ordered(kids', gone)
  BY <1>1, <1>2, <1>3, AllRemoved
<1>5. LaunchInv' /\ ActionCount' = ActionCount /\ bounds' = bounds /\ start' = start
  BY <1>1, LaunchKept DEF TreeInv
<1>6. Listed(kids') \ Separators = Listed(kids) \ Separators
  BY <1>3, <1>4
<1>7. PageInv'
  <2>1. cursor' \in 0..Len(start'.sessions) /\ realized' \in BOOLEAN /\ Slots(slots', start', Listed(kids'))
    BY <1>1, <1>2, <1>5, <1>6 DEF Slots
  <2>2. realized' \/ Listed(kids') \cap Separators = {}
    BY <1>1, <1>2, <1>4
  <2>3. tabs' = Listed(kids') \ Separators
    BY <1>1, <1>2, <1>6
  <2> QED BY <1>4, <2>1, <2>2, <2>3, PageKeptNext
<1>8. RoomInv' /\ FocusInv'
  BY <1>1, <1>5 DEF TreeInv, RoomInv, FocusInv
<1>9. TreeInv'
  BY <1>5, <1>7, <1>8 DEF TreeInv
<1>10. DOMAIN kids' = Points /\ InTree(kids') = Listed(kids') /\ None \notin InTree(kids')
  BY <1>4, InTreeIsListed, NamesApart DEF Forest, Typed
<1>11. InPlace
  <2>1. dropped' = None => dropped \notin InTree(kids')
    BY <1>1, <1>10
  <2> SUFFICES ASSUME dropped' = None, <<kids, dropped>>' # <<kids, dropped>>,
                      ~\E s \in (InTree(kids) \ InTree(kids')) \cap Separators :
                          kids[s] # <<>> \/ \E p \in DOMAIN kids : ~BottomsLast(kids[p])
               PROVE  \A p \in DOMAIN kids' : BottomsLast(kids'[p])
    BY <2>1 DEF InPlace
  <2>2. gone # {}
    BY <1>1, <1>4
  <2>3. gone = (InTree(kids) \ InTree(kids')) \cap Separators
    BY <1>2, <1>3, <1>4, <1>10
  <2>4. (\A s \in gone : kids[s] = <<>>) /\ \A p \in Points : BottomsLast(kids[p])
    BY <1>2, <2>2, <2>3
  <2>5. Ordered(kids, gone)
    <3>1. \A s \in gone : s \in Points
      BY <1>3 DEF Points, Nodes
    <3>2. \A s \in gone : Children(kids, s) = {}
      BY <1>2, <2>4, <3>1, ChildrenAreNodes DEF Forest
    <3> QED BY <2>4, <3>2 DEF Ordered
  <2>6. \A p \in Points : BottomsLast(kids'[p])
    BY <1>4, <2>5 DEF Ordered
  <2> QED BY <1>10, <2>6
<1> QED BY <1>9, <1>11

\* A row is dropped somewhere.
LEMMA DropKept ==
    ASSUME TreeInv, NEW n \in Shown, NEW p \in Shown \cup {Root}, NEW at, Drop(n, p, at)
    PROVE  TreeInv' /\ InPlace /\ dropped' # None
<1>1. /\ p # Root => n \notin Chain(kids, p)
      /\ at \in 1..(Len(Detach(kids, n)[p]) + 1)
      /\ kids' = Inserted(Detach(kids, n), p, at, n) /\ dropped' = n
      /\ UNCHANGED <<launch, loop, cursor, slots, realized, tabs, focused, running>>
  BY DEF Drop, Inserted
<1>2. Forest(kids) /\ InTree(kids) = Listed(kids) /\ Listed(kids) \subseteq Nodes
  BY PageFacts, InTreeIsListed DEF TreeInv
<1>3. n \in Listed(kids) /\ p \in Listed(kids) \cup {Root} /\ p \in Points
  BY <1>2 DEF Shown, Points
<1>4. p \notin Reach(kids, n)
  <2>1. CASE p = Root
    <3>1. Scope(kids, n) \in Points /\ n \in Children(kids, Scope(kids, n))
      BY <1>2, <1>3, Located
    <3> QED BY <1>2, <2>1, <3>1, Acyclic
  <2>2. CASE p # Root
    BY <1>1, <1>2, <1>3, <2>2, ChainIsAbove
  <2> QED BY <2>1, <2>2
<1>5. Forest(kids') /\ Listed(kids') = Listed(kids)
  BY <1>1, <1>2, <1>3, <1>4, ReinsertedForest
<1>6. TreeInv'
  BY <1>1, <1>5, MovedKept
<1>7. dropped' # None
  BY <1>1, <1>2, <1>3, NamesApart
<1> QED BY <1>6, <1>7 DEF InPlace

\* A drag is completed.
LEMMA DragItemsCompletedKept ==
    ASSUME TreeInv, DragItemsCompleted
    PROVE  TreeInv' /\ InPlace
<1> DEFINE present == dropped \in InTree(kids)
           placed == IF present THEN OutOfSeparator(kids, dropped) ELSE kids
<1>1. kids' = SinkBottomSeparators(placed) /\ UNCHANGED <<launch, loop, cursor, slots, realized, tabs, focused, running>>
  BY DEF DragItemsCompleted
<1>2. Forest(kids) /\ InTree(kids) = Listed(kids)
  BY PageFacts DEF TreeInv
<1>3. /\ Forest(placed) /\ Listed(placed) = Listed(kids)
      /\ present => (Scope(placed, dropped) \in Separators => Scope(kids, Scope(kids, dropped)) \in Separators)
  <2>1. CASE present
    <3>1. dropped \in Listed(kids)
      BY <1>2, <2>1
    <3> QED BY <1>2, <2>1, <3>1, OutOfSeparatorForest
  <2>2. CASE ~present
    BY <1>2, <2>2
  <2> QED BY <2>1, <2>2
<1> HIDE DEF placed
<1>4. /\ Forest(kids') /\ Listed(kids') = Listed(kids)
      /\ \A q \in Points : Children(kids', q) = Children(placed, q)
      /\ \A q \in Points : BottomsLast(kids'[q])
  BY <1>1, <1>3, SunkForest
<1>5. TreeInv'
  BY <1>1, <1>4, MovedKept
<1>6. DOMAIN kids' = Points /\ InTree(kids') = Listed(kids')
  BY <1>4, InTreeIsListed DEF Forest, Typed
<1>7. ASSUME dropped \in InTree(kids')
      PROVE  Scope(kids', dropped) \notin Separators \/ Scope(kids, Scope(kids, dropped)) \in Separators
  <2>1. dropped \in Listed(placed) /\ present
    BY <1>2, <1>3, <1>4, <1>6, <1>7
  <2>2. Scope(placed, dropped) \in Points /\ dropped \in Children(placed, Scope(placed, dropped))
    BY <1>3, <2>1, Located
  <2>3. Scope(kids', dropped) = Scope(placed, dropped)
    BY <1>4, <2>2, ScopeIs
  <2> QED BY <1>3, <2>1, <2>3
<1>8. InPlace
  BY <1>4, <1>6, <1>7 DEF InPlace
<1> QED BY <1>5, <1>8

-------------------------------------------------------------------------------
(* The invariant of the tree. *)

\* A launch starts with an empty tree.
LEMMA TreeInit == Init => TreeInv
<1> SUFFICES ASSUME Init PROVE TreeInv
  OBVIOUS
<1>1. PICK c \in Scenarios :
        /\ bounds = [maxTabs |-> c.maxTabs, maxMoves |-> c.maxMoves, settings |-> c.settings]
        /\ start = LoadStartupTree(c.list)
  BY DEF Init
<1>2. Launchable(start) /\ Len(start.sessions) <= c.maxTabs
  BY <1>1, LaunchIsLaunchable
<1>3. bounds.maxTabs = c.maxTabs
  BY <1>1
<1>4. LaunchInv
  BY <1>2, <1>3, ScenariosAssumption DEF LaunchInv
<1>5. Len(start.sessions) \in Nat /\ DOMAIN start.sessions = 1..Len(start.sessions)
  BY <1>2 DEF Launchable
<1>6. /\ kids = [p \in Points |-> <<>>] /\ cursor = 0 /\ slots = [i \in DOMAIN start.sessions |-> None]
      /\ realized = (start.sessions = <<>>) /\ tabs = {} /\ loop = 0
  BY DEF Init, Points
<1>7. Forest(kids) /\ Listed(kids) = {}
  BY <1>6, EmptyForest
<1>8. PageInv
  <2>1. cursor \in 0..Len(start.sessions) /\ Slots(slots, start, Listed(kids))
    BY <1>5, <1>6 DEF Slots
  <2>2. realized \in BOOLEAN
    BY <1>6
  <2>3. realized \/ Listed(kids) \cap Separators = {}
    BY <1>7
  <2>4. tabs = Listed(kids) \ Separators
    BY <1>6, <1>7
  <2> QED BY <1>7, <2>1, <2>2, <2>3, <2>4, PageKept
<1>9. RoomInv /\ FocusInv
  <2>1. ActionCount \in Nat /\ ActionCount <= bounds.maxTabs /\ bounds.maxTabs \in Nat
    BY <1>4, Actions
  <2>2. Cardinality(tabs \ {SettingsTab}) = 0
    <3>1. tabs \ {SettingsTab} = {}
      BY <1>6
    <3> QED BY <3>1, FS_EmptySet
  <2> QED BY <1>6, <2>1, <2>2 DEF RoomInv, FocusInv
<1> QED BY <1>4, <1>8, <1>9 DEF TreeInv

\* Every step keeps it, and leaves the separators in place.
LEMMA TreeNext ==
    ASSUME ~AncestorMoved, TreeInv, [Next]_vars
    PROVE  TreeInv' /\ (InPlace \/ UNCHANGED vars)
<1>1. ASSUME TreeInv' /\ Sunk PROVE TreeInv' /\ InPlace
  BY <1>1, SunkInPlace
<1>2. ASSUME TreeInv', WindowEnds PROVE InPlace
  <2>1. InTree(kids') = {} /\ \A p \in DOMAIN kids' : BottomsLast(kids'[p])
    BY <1>2, WindowEnded
  <2> QED BY <2>1 DEF InPlace
<1>3. CASE UNCHANGED vars
  <2>1. /\ UNCHANGED <<launch, loop, kids, cursor, slots, realized, tabs, running>>
        /\ focused' = focused
    BY <1>3 DEF vars, treeVars
  <2> QED BY <1>3, <2>1, SameTreeKept
<1>4. CASE StartupTab \/ OpenTab \/ OpenSettings
  BY <1>1, <1>4, OpeningKept
<1>5. CASE StartupNoTab
  <2>1. TreeInv' /\ (WindowEnds \/ Sunk)
    BY <1>5, StartupNoTabKept
  <2> QED BY <1>1, <1>2, <2>1
<1>6. CASE ExecuteCommandline
  BY <1>1, <1>6, ExecuteCommandlineKept
<1>7. ASSUME NEW t \in Tabs, AddChildSession(t) PROVE TreeInv' /\ InPlace
  BY <1>1, <1>7, AddChildSessionKept
<1>8. ASSUME NEW t \in Tabs, AddChildSessionFails(t) PROVE TreeInv' /\ InPlace
  BY <1>1, <1>8, AddChildSessionFailsKept
<1>9. ASSUME NEW t \in Tabs, CloseTabEnds(t) PROVE TreeInv' /\ InPlace
  <2>1. WindowEnds /\ loop' = loop
    BY <1>9 DEF CloseTabEnds
  <2>2. loop' \in 0..ActionCount
    BY <2>1 DEF TreeInv, RoomInv
  <2>3. TreeInv'
    BY <2>1, <2>2, EndedKept
  <2> QED BY <1>2, <2>1, <2>3
<1>10. ASSUME NEW t \in Tabs, NEW seen \in Tabs, NEW next \in Tabs, CloseTab(t, seen, next)
       PROVE  TreeInv' /\ InPlace
  BY <1>1, <1>10, CloseTabKept
<1>11. ASSUME NEW kept, NEW named, ReconcileSeparatorsWithSettings(kept, named) PROVE TreeInv' /\ InPlace
  BY <1>11, ReloadKept
<1>12. ASSUME NEW n \in Shown, NEW p \in Shown \cup {Root}, NEW at, Drop(n, p, at) PROVE TreeInv' /\ InPlace
  BY <1>12, DropKept
<1>13. CASE DragItemsCompleted
  BY <1>13, DragItemsCompletedKept
<1>14. CASE \/ \E t \in Tabs : SelectTab(t) \/ MoveTab(t)
            \/ \E h \in Separators : SetSectionCollapsed(h) \/ \E n \in Tabs : ActivateSectionBadge(h, n)
            \/ RowStateChanges \/ CaptureLiveSessionEntries
  BY <1>1, <1>14, QuietKept
<1> QED BY <1>3, <1>4, <1>5, <1>6, <1>7, <1>8, <1>9, <1>10, <1>11, <1>12, <1>13, <1>14 DEF Next

\* The tree is one that a launch of the startup list can have come to: every row has
\* one place and is found from the root down, the slots hold open sessions, no
\* separator is there before all are, a name is left for every startup action, and
\* an open tab is focused.
THEOREM TreeInvariant ==
    ASSUME ~AncestorMoved
    PROVE  Spec => []TreeInv
<1>1. TreeInv /\ [Next]_vars => TreeInv'
  BY TreeNext
<1> QED BY <1>1, TreeInit, PTL DEF Spec

\* The tree has exactly one row per open tab, whatever was opened, closed, nested
\* or dragged (_OnSessionsCollectionChanged).
THEOREM TreeAlwaysMirrorsTabs ==
    ASSUME ~AncestorMoved
    PROVE  Spec => []TreeMirrorsTabs
<1>1. TreeInv => TreeMirrorsTabs
  <2> SUFFICES ASSUME TreeInv PROVE TreeMirrorsTabs
    OBVIOUS
  <2>1. /\ Forest(kids) /\ DOMAIN kids = Points /\ InTree(kids) = Listed(kids)
        /\ tabs = Listed(kids) \ Separators
    BY PageFacts DEF TreeInv, PageInv
  <2>2. ASSUME NEW p \in Points, NEW q \in Points, NEW i \in DOMAIN kids[p], NEW j \in DOMAIN kids[q],
               kids[p][i] = kids[q][j]
        PROVE  p = q /\ i = j
    <3>1. kids[p][i] \in Children(kids, p) /\ kids[p][i] \in Children(kids, q)
      BY <2>2 DEF Children
    <3>2. p = q
      BY <2>1, <3>1 DEF Forest, Disjoint
    <3> QED BY <2>1, <2>2, <3>2 DEF Forest, Typed, Once
  <2>3. ASSUME NEW p \in Points, kids[p] # <<>> PROVE p \in InTree(kids) \cup {Root}
    <3>1. Children(kids, p) # {}
      BY <2>1, <2>3, ChildrenAreNodes DEF Forest
    <3> QED BY <2>1, <3>1, ParentsAreListed
  <2> QED BY <2>1, <2>2, <2>3 DEF TreeMirrorsTabs
<1> QED BY <1>1, TreeInvariant, PTL

\* Once a step leaves no drag to be completed, "bottom" separators close their
\* scope and the row that was dragged is not nested in a separator, but for a reload
\* of the settings that removes a separator with rows of its own and for a separator
\* within a separator (_SinkBottomSeparators, _OnSessionTreeDragItemsCompleted).
THEOREM SeparatorsStayInPlace ==
    ASSUME ~AncestorMoved
    PROVE  Spec => SeparatorsInPlace
<1>1. TreeInv /\ TreeInv' /\ [Next]_vars => [InPlace]_vars
  BY TreeNext
<1>2. Spec => [][InPlace]_vars
  BY <1>1, TreeInvariant, PTL DEF Spec
<1>3. SeparatorsInPlace <=> [][InPlace]_vars
  BY PTL DEF SeparatorsInPlace, InPlace
<1> QED BY <1>2, <1>3
================================================================================
