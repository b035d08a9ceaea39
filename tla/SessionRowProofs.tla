--------------------------- MODULE SessionRowProofs ---------------------------
(***************************************************************************)
(* What Derive makes of a tab, for any number of panes and records, and,   *)
(* from there, what a row shows and what counts as seen.  The scans of     *)
(* Derive are folds over recursive functions; that these functions exist,  *)
(* and what they return, is proved by induction on the number of           *)
(* candidates, in the form of a least counterexample (LeastNatural).       *)
(***************************************************************************)
EXTENDS SessionRow, OrderedSetsProofs, SequenceTheorems

RowStateSet == {"idle", "running", "working", "done-unseen", "error", "needs-you"}

ProgramStates == {"idle", "working", "blocked", "done", "error"}

\* A record as _RecomputeNodeState hands it to Derive.
IsRecordInput(r) == r.state \in ProgramStates /\ r.revision \in Int /\ r.seen \in BOOLEAN

\* What a scan looks at.
IsCandidate(c) ==
    /\ c.state \in RowStateSet
    /\ c.record = Nothing \/ \E r : c.record = <<r>> /\ r.revision \in Int

-----------------------------------------------------------------------------
(* The order of candidates *)

\* The states of a row from weakest to strongest.
LEMMA RankValues ==
    /\ Rank("idle") = 1 /\ Rank("running") = 2 /\ Rank("working") = 3
    /\ Rank("done-unseen") = 4 /\ Rank("error") = 5 /\ Rank("needs-you") = 6
<1>1. DOMAIN RowStates = 1..6
  BY DEF RowStates
<1>2. /\ RowStates[1] = "idle" /\ RowStates[2] = "running" /\ RowStates[3] = "working"
      /\ RowStates[4] = "done-unseen" /\ RowStates[5] = "error" /\ RowStates[6] = "needs-you"
  BY DEF RowStates
<1>3. \A i \in 1..6 : i = 1 \/ i = 2 \/ i = 3 \/ i = 4 \/ i = 5 \/ i = 6
  OBVIOUS
<1>4. ASSUME NEW state, NEW k \in 1..6, RowStates[k] = state,
             \A i \in 1..6 : RowStates[i] = state => i = k
      PROVE  Rank(state) = k
  BY <1>1, <1>4 DEF Rank
<1>5. \A i, k \in 1..6 : RowStates[i] = RowStates[k] => i = k
  BY <1>2, <1>3
<1> QED BY <1>2, <1>4, <1>5

\* Ranks are numbers, and tell states apart.
LEMMA RankIsOrder ==
    /\ \A s \in RowStateSet : Rank(s) \in 1..6
    /\ \A s, t \in RowStateSet : Rank(s) = Rank(t) => s = t
BY RankValues DEF RowStateSet

\* "Replaces the best so far" is a strict weak order: whoever did not beat the
\* old best is beaten by the one that did, and nobody beats itself.
LEMMA BetterIsOrder ==
    ASSUME NEW b, NEW c, NEW y, IsCandidate(b), IsCandidate(c), IsCandidate(y)
    PROVE  /\ ~Better(c, c)
           /\ Better(c, b) /\ ~Better(y, b) => ~Better(y, c) /\ Better(c, y)
<1>1. Rank(b.state) \in Int /\ Rank(c.state) \in Int /\ Rank(y.state) \in Int
  BY RankIsOrder DEF IsCandidate
<1>2. /\ b.record # Nothing => b.record[1].revision \in Int
      /\ c.record # Nothing => c.record[1].revision \in Int
      /\ y.record # Nothing => y.record[1].revision \in Int
  BY DEF IsCandidate
<1>3. ~Better(c, c)
  BY <1>1, <1>2 DEF Better, Preferred, IsRoot
<1>4. Better(c, b) /\ ~Better(y, b) => ~Better(y, c) /\ Better(c, y)
  BY <1>1, <1>2 DEF Better, Preferred, IsRoot
<1> QED BY <1>3, <1>4

\* So is "replaces the report kept so far", among the reports that may be kept.
LEMMA KeepsOverIsOrder ==
    ASSUME NEW b, NEW c, NEW y, IsCandidate(b), IsCandidate(c), IsCandidate(y),
           MayBeKept(c), MayBeKept(y), b = NoCandidate \/ MayBeKept(b)
    PROVE  /\ ~KeepsOver(c, c)
           /\ KeepsOver(c, b) /\ ~KeepsOver(y, b) => ~KeepsOver(y, c) /\ KeepsOver(c, y)
<1>1. /\ b.record # Nothing => b.record[1].revision \in Int /\ b.record[1].state \in {"done", "error"}
      /\ c.record # Nothing /\ c.record[1].revision \in Int /\ c.record[1].state \in {"done", "error"}
      /\ y.record # Nothing /\ y.record[1].revision \in Int /\ y.record[1].state \in {"done", "error"}
  BY DEF IsCandidate, MayBeKept, NoCandidate
<1>2. ~KeepsOver(c, c)
  BY <1>1 DEF KeepsOver, Preferred, IsRoot
<1>3. KeepsOver(c, b) /\ ~KeepsOver(y, b) => ~KeepsOver(y, c) /\ KeepsOver(c, y)
  BY <1>1 DEF KeepsOver, Preferred, IsRoot
<1> QED BY <1>2, <1>3

-----------------------------------------------------------------------------
(* The scans of Best and Kept *)

\* What one step of a scan makes of the candidate so far: the scan for the
\* report to keep, or that for the best.
Chosen(scan, c, best) ==
    IF scan = "kept" THEN IF MayBeKept(c) /\ KeepsOver(c, best) THEN c ELSE best
               ELSE IF Better(c, best) THEN c ELSE best

Scan(scan, cs) ==
    IF scan = "kept"
    THEN FoldLeft(LAMBDA kept, c : IF MayBeKept(c) /\ KeepsOver(c, kept) THEN c ELSE kept, NoCandidate, cs)
    ELSE FoldLeft(LAMBDA best, c : IF Better(c, best) THEN c ELSE best, NoCandidate, cs)

\* g is the scan of every subset of the first n candidates.
Scans(g, scan, cs, n) ==
    g = [s \in SUBSET (1..n) |->
           IF s = {} THEN NoCandidate ELSE Chosen(scan, cs[Max(s)], g[s \ {Max(s)}])]

\* The maximum of a nonempty set of naturals up to n is its last member.
LEMMA MaxFound ==
    ASSUME NEW n \in Nat, NEW s \in SUBSET (1..n), s # {}
    PROVE  Max(s) \in s /\ (\A x \in s : x <= Max(s)) /\ Max(s) \in 1..n
<1>1. s \in SUBSET Nat /\ \A x \in s : x <= n
  OBVIOUS
<1>2. PICK m \in s : \A y \in s : y <= m
  BY <1>1, GreatestNatural
<1>3. \A y \in s : m >= y
  BY <1>1, <1>2
<1>4. Max(s) \in s /\ \A y \in s : Max(s) >= y
  BY <1>3 DEF Max
<1> QED BY <1>1, <1>4

\* Scans of the first n candidates extend to the first n + 1.
LEMMA ScansExtend ==
    ASSUME NEW scan \in {"best", "kept"}, NEW cs, NEW n \in Nat, NEW g,
           Scans(g, scan, cs, n)
    PROVE  \E h : Scans(h, scan, cs, n + 1)
<1> DEFINE last == n + 1
           h == [s \in SUBSET (1..last) |-> IF last \in s THEN Chosen(scan, cs[last], g[s \ {last}]) ELSE g[s]]
<1>1. ASSUME NEW s \in SUBSET (1..last), last \notin s PROVE s \in SUBSET (1..n)
  <2>1. ASSUME NEW x \in s PROVE x \in 1..n
    <3>1. x \in 1..last /\ x # last
      BY <1>1
    <3> QED BY <3>1
  <2> QED BY <2>1
<1>2. ASSUME NEW s \in SUBSET (1..last)
      PROVE  h[s] = IF s = {} THEN NoCandidate ELSE Chosen(scan, cs[Max(s)], h[s \ {Max(s)}])
  <2>1. CASE last \in s
    <3>1. Max(s) \in s /\ (\A x \in s : x <= Max(s)) /\ Max(s) \in 1..last
      BY <2>1, MaxFound
    <3>2. Max(s) = last
      BY <2>1, <3>1
    <3>3. s \ {last} \in SUBSET (1..last) /\ last \notin s \ {last}
      OBVIOUS
    <3>4. h[s \ {last}] = g[s \ {last}]
      BY <3>3
    <3>5. h[s] = Chosen(scan, cs[last], g[s \ {last}])
      BY <2>1
    <3> QED BY <2>1, <3>2, <3>4, <3>5
  <2>2. CASE last \notin s
    <3>1. s \in SUBSET (1..n) /\ h[s] = g[s]
      BY <1>1, <2>2
    <3>2. g[s] = IF s = {} THEN NoCandidate ELSE Chosen(scan, cs[Max(s)], g[s \ {Max(s)}])
      BY <3>1 DEF Scans
    <3>3. s \ {Max(s)} \in SUBSET (1..last) /\ last \notin s \ {Max(s)}
      BY <2>2
    <3>4. h[s \ {Max(s)}] = g[s \ {Max(s)}]
      BY <3>3
    <3> QED BY <3>1, <3>2, <3>4
  <2> QED BY <2>1, <2>2
<1>3. h = [s \in SUBSET (1..last) |-> h[s]]
  OBVIOUS
<1> HIDE DEF h
<1>4. Scans(h, scan, cs, last)
  BY <1>2, <1>3 DEF Scans
<1> QED BY <1>4

\* The recursive function behind a scan exists.
LEMMA ScanDefined ==
    ASSUME NEW scan \in {"best", "kept"}, NEW cs, NEW n \in Nat, DOMAIN cs = 1..n
    PROVE  \E g : Scans(g, scan, cs, n) /\ Scan(scan, cs) = g[1..n]
<1> DEFINE T == {k \in Nat : ~\E g : Scans(g, scan, cs, k)}
<1>1. T = {}
  <2> SUFFICES ASSUME T # {} PROVE FALSE
    OBVIOUS
  <2>1. PICK k \in T : \A y \in T : k <= y
    BY LeastNatural
  <2>2. CASE k = 0
    <3> DEFINE g == [s \in SUBSET (1..0) |-> NoCandidate]
    <3>1. Scans(g, scan, cs, 0)
      BY DEF Scans
    <3> QED BY <2>1, <2>2, <3>1
  <2>3. CASE k # 0
    <3>1. k - 1 \in Nat /\ ~(k <= k - 1) /\ (k - 1) + 1 = k
      BY <2>1, <2>3
    <3>2. k - 1 \notin T
      BY <2>1, <3>1
    <3>3. PICK g : Scans(g, scan, cs, k - 1)
      BY <3>1, <3>2
    <3>4. \E h : Scans(h, scan, cs, (k - 1) + 1)
      BY <3>1, <3>3, ScansExtend
    <3> QED BY <2>1, <3>1, <3>4
  <2> QED BY <2>2, <2>3
<1>2. PICK h : Scans(h, scan, cs, n)
  BY <1>1
<1> DEFINE g == CHOOSE f : f = [s \in SUBSET (1..n) |->
                                  IF s = {} THEN NoCandidate ELSE Chosen(scan, cs[Max(s)], f[s \ {Max(s)}])]
<1>3. Scans(g, scan, cs, n)
  BY <1>2 DEF Scans
<1>4. Scan(scan, cs) = g[1..n]
  BY DEF Scan, FoldLeft, MapThenFoldSet, Chosen
<1> QED BY <1>3, <1>4

\* One step of a scan.
LEMMA ScanStep ==
    ASSUME NEW scan \in {"best", "kept"}, NEW cs, NEW n \in Nat, NEW g, Scans(g, scan, cs, n), NEW k \in 1..n
    PROVE  g[1..k] = Chosen(scan, cs[k], g[1..(k - 1)])
<1>1. 1..k \in SUBSET (1..n) /\ 1..k # {} /\ (1..k) \ {k} = 1..(k - 1)
  <2>1. \A x \in 1..k : x \in 1..n
    OBVIOUS
  <2>2. k \in 1..k
    OBVIOUS
  <2>3. \A x : x \in (1..k) \ {k} <=> x \in 1..(k - 1)
    OBVIOUS
  <2> QED BY <2>1, <2>2, <2>3
<1>2. Max(1..k) = k
  <2>1. Max(1..k) \in 1..k /\ \A x \in 1..k : x <= Max(1..k)
    BY <1>1, MaxFound
  <2>2. k \in 1..k
    OBVIOUS
  <2> QED BY <2>1, <2>2
<1>3. g[1..k] = IF 1..k = {} THEN NoCandidate ELSE Chosen(scan, cs[Max(1..k)], g[(1..k) \ {Max(1..k)}])
  BY <1>1 DEF Scans
<1> QED BY <1>1, <1>2, <1>3

\* The scan returns one of the candidates, or none was better than nothing,
\* and no candidate goes before what it returns.
LEMMA ScanFindsBest ==
    ASSUME NEW C, \A c \in C : IsCandidate(c), NEW cs \in Seq(C)
    PROVE  /\ \/ Scan("best", cs) = NoCandidate
              \/ \E i \in DOMAIN cs : Scan("best", cs) = cs[i] /\ \A j \in 1..(i - 1) : Better(cs[i], cs[j])
           /\ \A i \in DOMAIN cs : ~Better(cs[i], Scan("best", cs))
<1> DEFINE n == Len(cs)
<1>1. n \in Nat /\ DOMAIN cs = 1..n
  OBVIOUS
<1>2. PICK g : Scans(g, "best", cs, n) /\ Scan("best", cs) = g[1..n]
  BY <1>1, ScanDefined
<1> DEFINE First(i) == \A j \in 1..(i - 1) : Better(cs[i], cs[j])
           Found(k) == /\ g[1..k] = NoCandidate \/ \E i \in 1..k : g[1..k] = cs[i] /\ First(i)
                       /\ \A i \in 1..k : ~Better(cs[i], g[1..k])
           T == {k \in 0..n : ~Found(k)}
<1>3. IsCandidate(NoCandidate)
  BY DEF IsCandidate, NoCandidate, RowStateSet, Nothing
<1>4. Found(0)
  <2>1. 1..0 = {} /\ {} \in SUBSET (1..n)
    OBVIOUS
  <2>2. g[{}] = NoCandidate
    BY <1>2, <2>1 DEF Scans
  <2> QED BY <2>1, <2>2
<1>5. ASSUME NEW k \in 1..n, Found(k - 1) PROVE Found(k)
  <2>0. k - 1 \in 0..n /\ k \in Nat /\ k - 1 \in Nat
    BY <1>1
  <2>3. g[1..k] = Chosen("best", cs[k], g[1..(k - 1)])
    <3> HIDE DEF n
    <3>1. n \in Nat /\ Scans(g, "best", cs, n) /\ k \in 1..n
      BY <1>1, <1>2
    <3> QED BY <3>1, ScanStep
  <2>4. IsCandidate(cs[k]) /\ \A i \in 1..k : IsCandidate(cs[i])
    BY <1>1
  <2>5. IsCandidate(g[1..(k - 1)])
    BY <1>3, <1>5, <2>4, <2>0
  <2>6. \A i \in 1..k : i = k \/ i \in 1..(k - 1)
    BY <1>1
  <2> HIDE DEF n
  <2>7. CASE Better(cs[k], g[1..(k - 1)])
    <3>1. g[1..k] = cs[k]
      BY <2>3, <2>7 DEF Chosen
    <3>2. ASSUME NEW i \in 1..k PROVE ~Better(cs[i], cs[k])
      <4>1. CASE i = k
        BY <2>4, <4>1, BetterIsOrder
      <4>2. CASE i \in 1..(k - 1)
        <5>1. ~Better(cs[i], g[1..(k - 1)])
          BY <1>5, <4>2
        <5> QED BY <2>4, <2>5, <2>7, <5>1, BetterIsOrder
      <4> QED BY <2>6, <4>1, <4>2
    <3>3. k \in 1..k
      BY <2>0
    <3>4. First(k)
      <4> SUFFICES ASSUME NEW j \in 1..(k - 1) PROVE Better(cs[k], cs[j])
        OBVIOUS
      <4>1. j \in 1..k /\ ~Better(cs[j], g[1..(k - 1)])
        BY <1>5, <2>0
      <4> QED BY <2>4, <2>5, <2>7, <4>1, BetterIsOrder
    <3> HIDE DEF First
    <3> QED BY <3>1, <3>2, <3>3, <3>4
  <2>8. CASE ~Better(cs[k], g[1..(k - 1)])
    <3>1. g[1..k] = g[1..(k - 1)]
      BY <2>3, <2>8 DEF Chosen
    <3>2. \A i \in 1..k : ~Better(cs[i], g[1..k])
      BY <1>5, <2>6, <2>8, <3>1
    <3>3. g[1..k] = NoCandidate \/ \E i \in 1..k : g[1..k] = cs[i] /\ First(i)
      <4>1. 1..(k - 1) \subseteq 1..k
        BY <2>0
      <4> QED BY <1>5, <3>1, <4>1
    <3> QED BY <3>2, <3>3
  <2> QED BY <2>7, <2>8
<1>6. T = {}
  <2> SUFFICES ASSUME T # {} PROVE FALSE
    OBVIOUS
  <2>0. T \in SUBSET Nat
    BY <1>1
  <2>1. PICK k \in T : \A y \in T : k <= y
    BY <2>0, LeastNatural
  <2>2. k # 0 /\ k \in 1..n /\ k - 1 \in 0..n /\ ~(k <= k - 1)
    <3>1. k # 0
      BY <1>4, <2>1
    <3> QED BY <1>1, <2>1, <3>1
  <2>3. k - 1 \notin T
    BY <2>1, <2>2
  <2>4. Found(k - 1)
    BY <2>2, <2>3
  <2>5. Found(k)
    BY <1>5, <2>2, <2>4
  <2> QED BY <2>1, <2>5
<1>7. Found(n)
  BY <1>1, <1>6
<1> QED BY <1>1, <1>2, <1>7

\* The scan for the report to keep returns one that may be kept and that no
\* other goes before, or there is none.
LEMMA ScanFindsKept ==
    ASSUME NEW C, \A c \in C : IsCandidate(c), NEW cs \in Seq(C)
    PROVE  /\ \/ Scan("kept", cs) = NoCandidate
              \/ \E i \in DOMAIN cs :
                   /\ Scan("kept", cs) = cs[i] /\ MayBeKept(cs[i])
                   /\ \A j \in 1..(i - 1) : MayBeKept(cs[j]) => KeepsOver(cs[i], cs[j])
           /\ \A i \in DOMAIN cs : MayBeKept(cs[i]) => ~KeepsOver(cs[i], Scan("kept", cs))
<1> DEFINE n == Len(cs)
<1>1. n \in Nat /\ DOMAIN cs = 1..n
  OBVIOUS
<1>2. PICK g : Scans(g, "kept", cs, n) /\ Scan("kept", cs) = g[1..n]
  BY <1>1, ScanDefined
<1> DEFINE First(i) == \A j \in 1..(i - 1) : MayBeKept(cs[j]) => KeepsOver(cs[i], cs[j])
           Found(k) == /\ \/ g[1..k] = NoCandidate
                          \/ \E i \in 1..k : g[1..k] = cs[i] /\ MayBeKept(cs[i]) /\ First(i)
                       /\ \A i \in 1..k : MayBeKept(cs[i]) => ~KeepsOver(cs[i], g[1..k])
           T == {k \in 0..n : ~Found(k)}
<1>3. IsCandidate(NoCandidate)
  BY DEF IsCandidate, NoCandidate, RowStateSet, Nothing
<1>4. Found(0)
  <2>1. 1..0 = {} /\ {} \in SUBSET (1..n)
    OBVIOUS
  <2>2. g[{}] = NoCandidate
    BY <1>2, <2>1 DEF Scans
  <2> QED BY <2>1, <2>2
<1>5. ASSUME NEW k \in 1..n, Found(k - 1) PROVE Found(k)
  <2>0. k - 1 \in 0..n /\ k \in Nat /\ k - 1 \in Nat
    BY <1>1
  <2>1. g[1..k] = Chosen("kept", cs[k], g[1..(k - 1)])
    <3> HIDE DEF n
    <3>1. n \in Nat /\ Scans(g, "kept", cs, n) /\ k \in 1..n
      BY <1>1, <1>2
    <3> QED BY <3>1, ScanStep
  <2>2. \A i \in 1..k : IsCandidate(cs[i])
    BY <1>1
  <2>3. IsCandidate(g[1..(k - 1)]) /\ (g[1..(k - 1)] = NoCandidate \/ MayBeKept(g[1..(k - 1)]))
    <3>1. \A i \in 1..(k - 1) : i \in 1..k
      BY <2>0
    <3> QED BY <1>3, <1>5, <2>2, <3>1
  <2>4. k \in 1..k /\ (\A i \in 1..k : i = k \/ i \in 1..(k - 1)) /\ 1..(k - 1) \subseteq 1..k
    BY <2>0
  <2> HIDE DEF n
  <2>5. CASE MayBeKept(cs[k]) /\ KeepsOver(cs[k], g[1..(k - 1)])
    <3>1. g[1..k] = cs[k]
      BY <2>1, <2>5 DEF Chosen
    <3>2. ASSUME NEW i \in 1..k, MayBeKept(cs[i]) PROVE ~KeepsOver(cs[i], cs[k])
      <4>0. IsCandidate(cs[i]) /\ IsCandidate(cs[k])
        BY <2>2, <2>4
      <4>1. CASE i = k
        BY <2>3, <2>5, <4>0, <4>1, KeepsOverIsOrder
      <4>2. CASE i \in 1..(k - 1)
        <5>1. ~KeepsOver(cs[i], g[1..(k - 1)])
          BY <1>5, <3>2, <4>2
        <5> QED BY <2>3, <2>5, <3>2, <4>0, <5>1, KeepsOverIsOrder
      <4> QED BY <2>4, <4>1, <4>2
    <3>3. First(k)
      <4> SUFFICES ASSUME NEW j \in 1..(k - 1), MayBeKept(cs[j]) PROVE KeepsOver(cs[k], cs[j])
        OBVIOUS
      <4>1. j \in 1..k /\ k \in 1..k /\ ~KeepsOver(cs[j], g[1..(k - 1)])
        BY <1>5, <2>0
      <4> QED BY <2>2, <2>3, <2>5, <4>1, KeepsOverIsOrder
    <3> HIDE DEF First
    <3> QED BY <2>4, <2>5, <3>1, <3>2, <3>3
  <2>6. CASE ~(MayBeKept(cs[k]) /\ KeepsOver(cs[k], g[1..(k - 1)]))
    <3>1. g[1..k] = g[1..(k - 1)]
      BY <2>1, <2>6 DEF Chosen
    <3>2. \A i \in 1..k : MayBeKept(cs[i]) => ~KeepsOver(cs[i], g[1..k])
      BY <1>5, <2>4, <2>6, <3>1
    <3>3. g[1..k] = NoCandidate \/ \E i \in 1..k : g[1..k] = cs[i] /\ MayBeKept(cs[i]) /\ First(i)
      BY <1>5, <2>4, <3>1
    <3> QED BY <3>2, <3>3
  <2> QED BY <2>5, <2>6
<1>6. T = {}
  <2> SUFFICES ASSUME T # {} PROVE FALSE
    OBVIOUS
  <2>0. T \in SUBSET Nat
    BY <1>1
  <2>1. PICK k \in T : \A y \in T : k <= y
    BY <2>0, LeastNatural
  <2>2. k # 0 /\ k \in 1..n /\ k - 1 \in 0..n /\ ~(k <= k - 1)
    <3>1. k # 0
      BY <1>4, <2>1
    <3> QED BY <1>1, <2>1, <3>1
  <2>3. k - 1 \notin T
    BY <2>1, <2>2
  <2>4. Found(k - 1)
    BY <2>2, <2>3
  <2>5. Found(k)
    BY <1>5, <2>2, <2>4
  <2> QED BY <2>1, <2>5
<1>7. Found(n)
  BY <1>1, <1>6
<1> QED BY <1>1, <1>2, <1>7

-----------------------------------------------------------------------------
(* The candidates of all panes *)

\* g joins the first n sequences, one after the other.
Joins(g, seqs, n) == g = [i \in 1..n |-> IF i = 1 THEN seqs[i] ELSE g[i - 1] \o seqs[i]]

\* What joins the first n sequences extends to the first n + 1.
LEMMA JoinsExtend ==
    ASSUME NEW seqs, NEW n \in Nat, NEW g, Joins(g, seqs, n)
    PROVE  \E h : Joins(h, seqs, n + 1)
<1> DEFINE last == n + 1
           h == [i \in 1..last |-> IF i = 1 THEN seqs[i]
                                  ELSE IF i = last THEN g[n] \o seqs[i] ELSE g[i]]
<1>1. ASSUME NEW i \in 1..last PROVE h[i] = IF i = 1 THEN seqs[i] ELSE h[i - 1] \o seqs[i]
  <2>1. CASE i = 1
    BY <2>1
  <2>2. CASE i # 1
    <3>1. i - 1 \in 1..n /\ i - 1 \in 1..last /\ i - 1 # last /\ last # 1
      BY <2>2
    <3>2. h[i - 1] = g[i - 1]
      <4>1. CASE i - 1 = 1
        <5>1. 1 \in 1..n
          BY <3>1, <4>1
        <5>2. g[1] = seqs[1]
          BY <5>1 DEF Joins
        <5> QED BY <3>1, <4>1, <5>2
      <4>2. CASE i - 1 # 1
        BY <3>1, <4>2
      <4> QED BY <4>1, <4>2
    <3>3. CASE i = last
      <4>1. i - 1 = n
        BY <3>3
      <4> QED BY <2>2, <3>2, <3>3, <4>1
    <3>4. CASE i # last
      <4>1. i \in 1..n
        BY <3>4
      <4>2. g[i] = g[i - 1] \o seqs[i]
        BY <2>2, <4>1 DEF Joins
      <4>3. h[i] = g[i]
        BY <2>2, <3>4
      <4> QED BY <2>2, <3>2, <4>2, <4>3
    <3> QED BY <3>3, <3>4
  <2> QED BY <2>1, <2>2
<1>2. h = [i \in 1..last |-> h[i]]
  OBVIOUS
<1> HIDE DEF h
<1>3. Joins(h, seqs, last)
  BY <1>1, <1>2 DEF Joins
<1> QED BY <1>3

\* The recursive function behind FlattenSeq exists.
LEMMA FlattenDefined ==
    ASSUME NEW S, NEW seqs \in Seq(S), Len(seqs) # 0
    PROVE  \E g : Joins(g, seqs, Len(seqs)) /\ FlattenSeq(seqs) = g[Len(seqs)]
<1> DEFINE n == Len(seqs)
           T == {k \in Nat : ~\E g : Joins(g, seqs, k)}
<1>0. n \in Nat
  OBVIOUS
<1>1. T = {}
  <2> SUFFICES ASSUME T # {} PROVE FALSE
    OBVIOUS
  <2>1. PICK k \in T : \A y \in T : k <= y
    BY LeastNatural
  <2>2. CASE k = 0
    <3> DEFINE g == [i \in 1..0 |-> seqs[i]]
    <3>1. Joins(g, seqs, 0)
      BY DEF Joins
    <3> QED BY <2>1, <2>2, <3>1
  <2>3. CASE k # 0
    <3>1. k - 1 \in Nat /\ ~(k <= k - 1) /\ (k - 1) + 1 = k
      BY <2>1, <2>3
    <3>2. k - 1 \notin T
      BY <2>1, <3>1
    <3>3. PICK g : Joins(g, seqs, k - 1)
      BY <3>1, <3>2
    <3>4. \E h : Joins(h, seqs, (k - 1) + 1)
      BY <3>1, <3>3, JoinsExtend
    <3> QED BY <2>1, <3>1, <3>4
  <2> QED BY <2>2, <2>3
<1>2. PICK h : Joins(h, seqs, n)
  BY <1>0, <1>1
<1> DEFINE g == CHOOSE f : f = [i \in 1..n |-> IF i = 1 THEN seqs[i] ELSE f[i - 1] \o seqs[i]]
<1>3. Joins(g, seqs, n)
  BY <1>2 DEF Joins
<1>4. FlattenSeq(seqs) = g[n]
  BY DEF FlattenSeq
<1> QED BY <1>3, <1>4

\* The elements of two sequences, one after the other.
LEMMA ConcatMembers ==
    ASSUME NEW C, NEW s \in Seq(C), NEW t \in Seq(C)
    PROVE  s \o t \in Seq(C) /\ Range(s \o t) = Range(s) \cup Range(t)
<1> DEFINE u == s \o t
<1>1. u \in Seq(C) /\ Len(u) = Len(s) + Len(t) /\ Len(s) \in Nat /\ Len(t) \in Nat
  OBVIOUS
<1>2. DOMAIN s = 1..Len(s) /\ DOMAIN t = 1..Len(t) /\ DOMAIN u = 1..Len(u)
  BY <1>1
<1>3. \A y \in 1..Len(u) : u[y] = IF y <= Len(s) THEN s[y] ELSE t[y - Len(s)]
  OBVIOUS
<1> HIDE DEF u
<1>4. ASSUME NEW x \in DOMAIN s PROVE s[x] \in Range(u)
  <2>1. x \in 1..Len(u) /\ x <= Len(s)
    BY <1>1, <1>2
  <2> QED BY <1>2, <1>3, <2>1 DEF Range
<1>5. ASSUME NEW x \in DOMAIN t PROVE t[x] \in Range(u)
  <2>0. x \in Nat /\ 1 <= x /\ x <= Len(t)
    BY <1>1, <1>2
  <2>1. PICK y \in 1..Len(u) : y = x + Len(s) /\ ~(y <= Len(s)) /\ y - Len(s) = x
    <3>1. x + Len(s) \in 1..Len(u) /\ ~(x + Len(s) <= Len(s)) /\ (x + Len(s)) - Len(s) = x
      BY <1>1, <2>0
    <3> QED BY <3>1
  <2> QED BY <1>2, <1>3, <2>1 DEF Range
<1>6. ASSUME NEW y \in DOMAIN u PROVE u[y] \in Range(s) \cup Range(t)
  <2>1. CASE y <= Len(s)
    <3>1. y \in DOMAIN s
      BY <1>1, <1>2, <2>1
    <3> QED BY <1>2, <1>3, <2>1, <3>1 DEF Range
  <2>2. CASE ~(y <= Len(s))
    <3>1. PICK x \in DOMAIN t : x = y - Len(s)
      BY <1>1, <1>2, <2>2
    <3> QED BY <1>2, <1>3, <2>2, <3>1 DEF Range
  <2> QED BY <2>1, <2>2
<1>7. Range(u) = Range(s) \cup Range(t)
  BY <1>4, <1>5, <1>6 DEF Range
<1> QED BY <1>1, <1>7 DEF u

\* FlattenSeq has the elements of its sequences, and no others.
LEMMA FlattenMembers ==
    ASSUME NEW C, NEW seqs \in Seq(Seq(C))
    PROVE  /\ FlattenSeq(seqs) \in Seq(C)
           /\ Range(FlattenSeq(seqs)) = UNION {Range(seqs[j]) : j \in DOMAIN seqs}
<1> DEFINE n == Len(seqs)
           upTo(k) == UNION {Range(seqs[j]) : j \in 1..k}
<1>0. n \in Nat /\ DOMAIN seqs = 1..n /\ \A j \in 1..n : seqs[j] \in Seq(C)
  OBVIOUS
<1>1. CASE n = 0
  <2>1. seqs = <<>> /\ FlattenSeq(seqs) = <<>>
    BY <1>1 DEF FlattenSeq
  <2>2. <<>> \in Seq(C) /\ DOMAIN <<>> = {} /\ Range(<<>>) = {}
    BY DEF Range
  <2>3. UNION {Range(seqs[j]) : j \in DOMAIN seqs} = {}
    BY <2>1, <2>2
  <2> QED BY <2>1, <2>2, <2>3
<1>2. CASE n # 0
  <2>1. PICK g : Joins(g, seqs, n) /\ FlattenSeq(seqs) = g[n]
    BY <1>2, FlattenDefined
  <2> DEFINE Joined(k) == g[k] \in Seq(C) /\ Range(g[k]) = upTo(k)
             T == {k \in 1..n : ~Joined(k)}
  <2>2. Joined(1)
    <3>1. 1 \in 1..n /\ 1..1 = {1}
      BY <1>0, <1>2
    <3>2. g[1] = seqs[1]
      BY <2>1, <3>1 DEF Joins
    <3>3. upTo(1) = Range(seqs[1])
      BY <3>1
    <3> QED BY <1>0, <3>1, <3>2, <3>3
  <2>3. ASSUME NEW k \in 1..n, k # 1, Joined(k - 1) PROVE Joined(k)
    <3>1. k - 1 \in 1..n /\ seqs[k] \in Seq(C)
      BY <1>0, <2>3
    <3>2. g[k] = g[k - 1] \o seqs[k]
      BY <2>1, <2>3 DEF Joins
    <3>3. 1..k = (1..(k - 1)) \cup {k}
      BY <1>0, <2>3
    <3>4. upTo(k) = upTo(k - 1) \cup Range(seqs[k])
      BY <3>3
    <3>5. g[k] \in Seq(C) /\ Range(g[k]) = Range(g[k - 1]) \cup Range(seqs[k])
      BY <2>3, <3>1, <3>2, ConcatMembers
    <3> HIDE DEF upTo
    <3> QED BY <2>3, <3>4, <3>5
  <2> HIDE DEF Joined
  <2>4. T = {}
    <3> SUFFICES ASSUME T # {} PROVE FALSE
      OBVIOUS
    <3>0. T \in SUBSET Nat
      BY <1>0
    <3>1. PICK k \in T : \A y \in T : k <= y
      BY <3>0, LeastNatural
    <3>2. k # 1
      BY <2>2, <3>1
    <3>3. k - 1 \in 1..n /\ ~(k <= k - 1)
      BY <1>0, <3>1, <3>2
    <3>4. k - 1 \notin T
      BY <3>1, <3>3
    <3>5. Joined(k - 1)
      BY <3>3, <3>4
    <3>6. Joined(k)
      BY <2>3, <3>1, <3>2, <3>5
    <3> QED BY <3>1, <3>6
  <2>5. Joined(n)
    <3>1. n \in 1..n
      BY <1>0, <1>2
    <3> QED BY <2>4, <3>1
  <2>6. g[n] \in Seq(C) /\ Range(g[n]) = upTo(n)
    BY <2>5 DEF Joined
  <2> QED BY <1>0, <2>1, <2>6
<1> QED BY <1>1, <1>2

\* The panes of a tab as _RecomputeNodeState hands them to Derive.
IsPaneInput(p) ==
    /\ p.running \in BOOLEAN
    /\ \E S : p.records \in Seq(S)
    /\ \A i \in DOMAIN p.records : IsRecordInput(p.records[i])

IsTab(panes) == (\E S : panes \in Seq(S)) /\ \A i \in DOMAIN panes : IsPaneInput(panes[i])

\* What a record contributes is a row state, needs-you exactly for a blocked one.
LEMMA FromRecordState ==
    ASSUME NEW r, IsRecordInput(r)
    PROVE  /\ FromRecord(r) \in RowStateSet \ {"running"}
           /\ FromRecord(r) = "needs-you" <=> r.state = "blocked"
           /\ FromRecord(r) = "error" <=> r.state = "error" /\ ~r.seen
           /\ FromRecord(r) = "done-unseen" <=> r.state = "done" /\ ~r.seen
           /\ FromRecord(r) = "working" <=> r.state = "working"
BY DEF FromRecord, IsRecordInput, ProgramStates, RowStateSet

\* Everything the scan of a tab looks at.
AllCandidates(panes) == UNION {Range(Candidates(panes[j])) : j \in DOMAIN panes}

\* The candidates of a pane: one per record or, without records, its shell.
LEMMA CandidatesOfPane ==
    ASSUME NEW p, IsPaneInput(p)
    PROVE  /\ Candidates(p) \in Seq(Range(Candidates(p)))
           /\ \A c \in Range(Candidates(p)) : IsCandidate(c)
           /\ \A i \in DOMAIN p.records :
                [state |-> FromRecord(p.records[i]), pane |-> p.pane, record |-> <<p.records[i]>>]
                  \in Range(Candidates(p))
           /\ \A c \in Range(Candidates(p)) :
                \/ \E i \in DOMAIN p.records :
                     c = [state |-> FromRecord(p.records[i]), pane |-> p.pane, record |-> <<p.records[i]>>]
                \/ /\ p.records = <<>>
                   /\ c = [state |-> IF p.running THEN "running" ELSE "idle",
                           pane |-> p.pane, record |-> Nothing]
<1> DEFINE cs == Candidates(p)
           n == Len(p.records)
           shell == [state |-> IF p.running THEN "running" ELSE "idle", pane |-> p.pane, record |-> Nothing]
           report(i) == [state |-> FromRecord(p.records[i]), pane |-> p.pane, record |-> <<p.records[i]>>]
<1>0. PICK S : p.records \in Seq(S)
  BY DEF IsPaneInput
<1>1. n \in Nat /\ DOMAIN p.records = 1..n
  BY <1>0
<1>2. CASE p.records = <<>>
  <2>1. cs = <<shell>>
    BY <1>2 DEF Candidates
  <2>2. DOMAIN cs = {1} /\ cs[1] = shell
    BY <2>1
  <2>3. Range(cs) = {shell}
    BY <2>2 DEF Range
  <2>4. cs \in Seq(Range(cs))
    BY <2>1, <2>3
  <2>5. IsCandidate(shell)
    BY DEF IsCandidate, RowStateSet
  <2>6. DOMAIN p.records = {}
    BY <1>2
  <2> QED BY <1>2, <2>3, <2>4, <2>5, <2>6
<1>3. CASE p.records # <<>>
  <2>1. cs = [i \in DOMAIN p.records |-> report(i)]
    BY <1>3 DEF Candidates
  <2>2. DOMAIN cs = 1..n /\ \A i \in 1..n : cs[i] = report(i)
    BY <1>1, <2>1
  <2>3. \A i \in 1..n : IsCandidate(report(i))
    <3> SUFFICES ASSUME NEW i \in 1..n PROVE IsCandidate(report(i))
      OBVIOUS
    <3>1. IsRecordInput(p.records[i])
      BY <1>1 DEF IsPaneInput
    <3>2. FromRecord(p.records[i]) \in RowStateSet /\ p.records[i].revision \in Int
      BY <3>1, FromRecordState DEF IsRecordInput
    <3> QED BY <3>2 DEF IsCandidate
  <2>4. Range(cs) = {report(i) : i \in 1..n}
    BY <2>2 DEF Range
  <2>5. cs \in Seq(Range(cs))
    <3> HIDE DEF report
    <3>1. cs = [i \in 1..n |-> report(i)] /\ \A i \in 1..n : report(i) \in Range(cs)
      BY <1>1, <2>1, <2>4
    <3> HIDE DEF cs
    <3> QED BY <1>1, <3>1
  <2> HIDE DEF report
  <2>6. /\ \A c \in Range(cs) : IsCandidate(c)
        /\ \A i \in DOMAIN p.records : report(i) \in Range(cs)
        /\ \A c \in Range(cs) : \E i \in DOMAIN p.records : c = report(i)
    BY <1>1, <2>3, <2>4
  <2> QED BY <2>5, <2>6 DEF report
<1> QED BY <1>2, <1>3

\* The candidates of a tab, in the order of the scans.
CandidateList(panes) == FlattenSeq([i \in DOMAIN panes |-> Candidates(panes[i])])

\* They are the candidates of its panes, one after the other.
LEMMA CandidateLists ==
    ASSUME NEW panes, IsTab(panes)
    PROVE  /\ [i \in DOMAIN panes |-> Candidates(panes[i])] \in Seq(Seq(AllCandidates(panes)))
           /\ CandidateList(panes) \in Seq(AllCandidates(panes))
           /\ Range(CandidateList(panes)) = AllCandidates(panes)
           /\ \A c \in AllCandidates(panes) : IsCandidate(c)
<1> DEFINE C == AllCandidates(panes)
           seqs == [i \in DOMAIN panes |-> Candidates(panes[i])]
<1>0. PICK S : panes \in Seq(S)
  BY DEF IsTab
<1>1. Len(panes) \in Nat /\ DOMAIN panes = 1..Len(panes)
  BY <1>0
<1>2. ASSUME NEW j \in DOMAIN panes
      PROVE  /\ Candidates(panes[j]) \in Seq(C)
             /\ \A c \in Range(Candidates(panes[j])) : IsCandidate(c)
  <2>1. IsPaneInput(panes[j])
    BY DEF IsTab
  <2>2. Candidates(panes[j]) \in Seq(Range(Candidates(panes[j])))
    BY <2>1, CandidatesOfPane
  <2>3. Range(Candidates(panes[j])) \subseteq C
    BY DEF AllCandidates
  <2>4. \A A, B : A \subseteq B => Seq(A) \subseteq Seq(B)
    OBVIOUS
  <2>5. \A c \in Range(Candidates(panes[j])) : IsCandidate(c)
    BY <2>1, CandidatesOfPane
  <2> QED BY <2>2, <2>3, <2>4, <2>5
<1>3. \A c \in C : IsCandidate(c)
  BY <1>2 DEF AllCandidates
<1>4. seqs \in Seq(Seq(C)) /\ DOMAIN seqs = DOMAIN panes
  BY <1>1, <1>2
<1>5. FlattenSeq(seqs) \in Seq(C) /\ Range(FlattenSeq(seqs)) = UNION {Range(seqs[j]) : j \in DOMAIN seqs}
  BY <1>4, FlattenMembers
<1>6. Range(FlattenSeq(seqs)) = C
  BY <1>4, <1>5 DEF AllCandidates
<1> QED BY <1>3, <1>4, <1>5, <1>6 DEF CandidateList

\* The best of a tab is one of its candidates, or there is none to speak of,
\* and no candidate of any pane goes before it; likewise for
\* the report that a resting row keeps.
THEOREM BestOfTab ==
    ASSUME NEW panes, IsTab(panes)
    PROVE  /\ \A c \in AllCandidates(panes) : IsCandidate(c)
           /\ Best(panes) = NoCandidate \/ Best(panes) \in AllCandidates(panes)
           /\ \A c \in AllCandidates(panes) : ~Better(c, Best(panes))
           /\ Kept(panes) = NoCandidate \/ (Kept(panes) \in AllCandidates(panes) /\ MayBeKept(Kept(panes)))
           /\ \A c \in AllCandidates(panes) : MayBeKept(c) => ~KeepsOver(c, Kept(panes))
<1> DEFINE C == AllCandidates(panes)
           cs == CandidateList(panes)
<1>1. cs \in Seq(C) /\ Range(cs) = C /\ \A c \in C : IsCandidate(c)
  BY CandidateLists
<1>2. Best(panes) = Scan("best", cs) /\ Kept(panes) = Scan("kept", cs)
  BY DEF Best, Kept, Scan, CandidateList
<1> HIDE DEF cs, C
<1>3. /\ Scan("best", cs) = NoCandidate \/ \E i \in DOMAIN cs : Scan("best", cs) = cs[i]
      /\ \A i \in DOMAIN cs : ~Better(cs[i], Scan("best", cs))
  BY <1>1, ScanFindsBest
<1>4. /\ Scan("kept", cs) = NoCandidate \/ \E i \in DOMAIN cs : Scan("kept", cs) = cs[i] /\ MayBeKept(cs[i])
      /\ \A i \in DOMAIN cs : MayBeKept(cs[i]) => ~KeepsOver(cs[i], Scan("kept", cs))
  BY <1>1, ScanFindsKept
<1>5. (\A c \in C : \E i \in DOMAIN cs : c = cs[i]) /\ \A i \in DOMAIN cs : cs[i] \in C
  BY <1>1 DEF Range
<1> QED BY <1>1, <1>2, <1>3, <1>4, <1>5 DEF C

\* A record is a candidate of its tab, and a candidate is a record or the
\* shell of a pane without records.
LEMMA CandidatesOfTab ==
    ASSUME NEW panes, IsTab(panes)
    PROVE  /\ \A x \in AllRecords(panes) :
                /\ IsRecordInput(x[2])
                /\ [state |-> FromRecord(x[2]), pane |-> x[1], record |-> <<x[2]>>] \in AllCandidates(panes)
           /\ \A c \in AllCandidates(panes) :
                \/ \E x \in AllRecords(panes) :
                     c = [state |-> FromRecord(x[2]), pane |-> x[1], record |-> <<x[2]>>]
                \/ \E i \in DOMAIN panes :
                     /\ panes[i].records = <<>>
                     /\ c = [state |-> IF panes[i].running THEN "running" ELSE "idle",
                             pane |-> panes[i].pane, record |-> Nothing]
           /\ \A i \in DOMAIN panes :
                (panes[i].records = <<>> /\ panes[i].running) =>
                  \E c \in AllCandidates(panes) : c.state = "running"
<1>1. ASSUME NEW x \in AllRecords(panes)
      PROVE  /\ IsRecordInput(x[2])
             /\ [state |-> FromRecord(x[2]), pane |-> x[1], record |-> <<x[2]>>] \in AllCandidates(panes)
  <2>1. PICK i \in DOMAIN panes : \E r \in Range(panes[i].records) : x = <<panes[i].pane, r>>
    BY DEF AllRecords
  <2>2. PICK j \in DOMAIN panes[i].records : x = <<panes[i].pane, panes[i].records[j]>>
    BY <2>1 DEF Range
  <2>3. IsPaneInput(panes[i])
    BY DEF IsTab
  <2>4. IsRecordInput(panes[i].records[j])
    BY <2>3 DEF IsPaneInput
  <2>5. [state |-> FromRecord(x[2]), pane |-> x[1], record |-> <<x[2]>>] \in Range(Candidates(panes[i]))
    BY <2>2, <2>3, CandidatesOfPane
  <2> QED BY <2>2, <2>4, <2>5 DEF AllCandidates
<1>2. ASSUME NEW c \in AllCandidates(panes)
      PROVE  \/ \E x \in AllRecords(panes) :
                  c = [state |-> FromRecord(x[2]), pane |-> x[1], record |-> <<x[2]>>]
             \/ \E i \in DOMAIN panes :
                  /\ panes[i].records = <<>>
                  /\ c = [state |-> IF panes[i].running THEN "running" ELSE "idle",
                          pane |-> panes[i].pane, record |-> Nothing]
  <2>1. PICK i \in DOMAIN panes : c \in Range(Candidates(panes[i]))
    BY DEF AllCandidates
  <2>2. IsPaneInput(panes[i])
    BY DEF IsTab
  <2>3. CASE \E j \in DOMAIN panes[i].records :
               c = [state |-> FromRecord(panes[i].records[j]), pane |-> panes[i].pane,
                    record |-> <<panes[i].records[j]>>]
    <3>1. PICK j \in DOMAIN panes[i].records :
               c = [state |-> FromRecord(panes[i].records[j]), pane |-> panes[i].pane,
                    record |-> <<panes[i].records[j]>>]
      BY <2>3
    <3> DEFINE x == <<panes[i].pane, panes[i].records[j]>>
    <3>2. x \in AllRecords(panes)
      BY DEF AllRecords, Range
    <3> QED BY <3>1, <3>2
  <2> QED BY <2>1, <2>2, <2>3, CandidatesOfPane
<1>3. ASSUME NEW i \in DOMAIN panes, panes[i].records = <<>>, panes[i].running
      PROVE  \E c \in AllCandidates(panes) : c.state = "running"
  <2> DEFINE c == [state |-> "running", pane |-> panes[i].pane, record |-> Nothing]
  <2>1. Candidates(panes[i]) = <<c>>
    BY <1>3 DEF Candidates
  <2>2. c \in Range(Candidates(panes[i]))
    <3>1. 1 \in DOMAIN <<c>> /\ <<c>>[1] = c
      OBVIOUS
    <3> HIDE DEF c
    <3> QED BY <2>1, <3>1 DEF Range
  <2>3. c \in AllCandidates(panes)
    BY <2>2 DEF AllCandidates
  <2> QED BY <2>3
<1> QED BY <1>1, <1>2, <1>3

\* The best candidate has the strongest state of the tab: it has a state other
\* than idle only from a candidate, and none has a higher one.
LEMMA BestState ==
    ASSUME NEW panes, IsTab(panes)
    PROVE  /\ Best(panes).state \in RowStateSet
           /\ Best(panes).state = Strongest(panes, FALSE)
<1> DEFINE b == Best(panes)
<1>1. b.state \in RowStateSet /\ \A c \in AllCandidates(panes) : c.state \in RowStateSet
  BY BestOfTab DEF NoCandidate, IsCandidate, RowStateSet
<1>2. ASSUME NEW c \in AllCandidates(panes) PROVE Rank(c.state) <= Rank(b.state)
  <2>1. ~(Rank(c.state) > Rank(b.state))
    BY BestOfTab DEF Better
  <2>2. Rank(c.state) \in Int /\ Rank(b.state) \in Int
    BY <1>1, RankIsOrder
  <2> QED BY <2>1, <2>2
<1>3. ASSUME NEW x \in AllRecords(panes)
      PROVE  /\ Rank(FromRecord(x[2])) <= Rank(b.state)
             /\ x[2].state = "blocked" => FromRecord(x[2]) = "needs-you"
             /\ x[2].state = "error" /\ ~x[2].seen => FromRecord(x[2]) = "error"
             /\ x[2].state = "done" /\ ~x[2].seen => FromRecord(x[2]) = "done-unseen"
             /\ x[2].state = "working" => FromRecord(x[2]) = "working"
  <2> DEFINE c == [state |-> FromRecord(x[2]), pane |-> x[1], record |-> <<x[2]>>]
  <2>1. c \in AllCandidates(panes) /\ IsRecordInput(x[2])
    BY CandidatesOfTab
  <2>2. Rank(c.state) <= Rank(b.state) /\ c.state = FromRecord(x[2])
    BY <1>2, <2>1
  <2> QED BY <2>1, <2>2, FromRecordState
<1>4. \/ b.state = "idle"
      \/ \E x \in AllRecords(panes) : b.state = FromRecord(x[2])
      \/ \E i \in DOMAIN panes : panes[i].records = <<>> /\ b.state = IF panes[i].running THEN "running" ELSE "idle"
  <2>1. CASE b = NoCandidate
    BY <2>1 DEF NoCandidate
  <2>2. CASE b \in AllCandidates(panes)
    BY <2>2, CandidatesOfTab
  <2> QED BY <2>1, <2>2, BestOfTab
<1>5. /\ b.state = "needs-you" => Has(panes, "blocked")
      /\ b.state = "error" => HasUnseen(panes, "error")
      /\ b.state = "done-unseen" => HasUnseen(panes, "done")
      /\ b.state = "working" => Has(panes, "working")
  <2> SUFFICES ASSUME b.state \notin {"idle", "running"}
               PROVE  /\ b.state = "needs-you" => Has(panes, "blocked")
                      /\ b.state = "error" => HasUnseen(panes, "error")
                      /\ b.state = "done-unseen" => HasUnseen(panes, "done")
                      /\ b.state = "working" => Has(panes, "working")
    OBVIOUS
  <2>1. PICK x \in AllRecords(panes) : b.state = FromRecord(x[2])
    BY <1>4
  <2>2. IsRecordInput(x[2])
    BY CandidatesOfTab
  <2> QED BY <2>1, <2>2, FromRecordState DEF Has, HasUnseen
<1>6. b.state = "running" => \E i \in DOMAIN panes : panes[i].records = <<>> /\ panes[i].running
  <2> SUFFICES ASSUME b.state = "running"
               PROVE  \E i \in DOMAIN panes : panes[i].records = <<>> /\ panes[i].running
    OBVIOUS
  <2>1. \A x \in AllRecords(panes) : FromRecord(x[2]) # "running"
    BY CandidatesOfTab, FromRecordState
  <2> QED BY <1>4, <2>1
<1>7. /\ Has(panes, "blocked") => Rank(b.state) >= 6
      /\ HasUnseen(panes, "error") => Rank(b.state) >= 5
      /\ HasUnseen(panes, "done") => Rank(b.state) >= 4
      /\ Has(panes, "working") => Rank(b.state) >= 3
      /\ (\E i \in DOMAIN panes : panes[i].records = <<>> /\ panes[i].running) => Rank(b.state) >= 2
  <2>0. Rank(b.state) \in Int
    BY <1>1, RankIsOrder
  <2>1. Has(panes, "blocked") => Rank(b.state) >= 6
    BY <1>3, <2>0, RankValues DEF Has
  <2>2. HasUnseen(panes, "error") => Rank(b.state) >= 5
    BY <1>3, <2>0, RankValues DEF HasUnseen
  <2>3. HasUnseen(panes, "done") => Rank(b.state) >= 4
    BY <1>3, <2>0, RankValues DEF HasUnseen
  <2>4. Has(panes, "working") => Rank(b.state) >= 3
    BY <1>3, <2>0, RankValues DEF Has
  <2>5. (\E i \in DOMAIN panes : panes[i].records = <<>> /\ panes[i].running) => Rank(b.state) >= 2
    BY <1>2, <2>0, RankValues, CandidatesOfTab
  <2> QED BY <2>1, <2>2, <2>3, <2>4, <2>5
<1>8. /\ Rank(b.state) >= 6 => b.state = "needs-you"
      /\ Rank(b.state) >= 5 => b.state \in {"needs-you", "error"}
      /\ Rank(b.state) >= 4 => b.state \in {"needs-you", "error", "done-unseen"}
      /\ Rank(b.state) >= 3 => b.state \in {"needs-you", "error", "done-unseen", "working"}
      /\ Rank(b.state) >= 2 => b.state # "idle"
  BY <1>1, RankValues DEF RowStateSet
<1> HIDE DEF b
<1>9. b.state = Strongest(panes, FALSE)
  BY <1>1, <1>5, <1>6, <1>7, <1>8 DEF Strongest, RowStateSet
<1> QED BY <1>1, <1>9 DEF b

\* A row shows the strongest state of any pane of its tab (AxanSessionState.h,
\* Derive), however many panes and records it has.
THEOREM DeriveShowsStrongest ==
    ASSUME NEW panes, IsTab(panes), NEW rung \in BOOLEAN, NEW keeps \in BOOLEAN
    PROVE  Derive(panes, rung, keeps).state = Strongest(panes, rung)
<1>1. Derive(panes, rung, keeps).state = IF Best(panes).state = "idle" /\ rung THEN "done-unseen" ELSE Best(panes).state
  BY DEF Derive
<1>2. Strongest(panes, rung) = IF Strongest(panes, FALSE) = "idle" /\ rung THEN "done-unseen" ELSE Strongest(panes, FALSE)
  BY DEF Strongest
<1> QED BY <1>1, <1>2, BestState

\* Its message is that of the record in the shown state that goes before all
\* others in that state.
THEOREM DeriveShowsPreferred ==
    ASSUME NEW panes, IsTab(panes), NEW rung \in BOOLEAN, NEW keeps \in BOOLEAN,
           Derive(panes, rung, keeps).message \notin {Nothing, <<"bell">>}
    PROVE  \E x \in AllRecords(panes) :
             /\ Derive(panes, rung, keeps).message = ReportKey(x[1], x[2])
             /\ IsPreferred(panes, x, Derive(panes, rung, keeps).state)
<1> DEFINE b == Best(panes)
           result == Derive(panes, rung, keeps)
<1>1. result.message = IF b.state # "idle" THEN KeyOf(b) ELSE IF rung THEN <<"bell">> ELSE Nothing
  BY DEF Derive
<1>2. result.state = IF b.state = "idle" /\ rung THEN "done-unseen" ELSE b.state
  BY DEF Derive
<1>3. b.state # "idle" /\ result.message = KeyOf(b) /\ result.state = b.state
  BY <1>1, <1>2
<1>4. b.record # Nothing
  BY <1>3 DEF KeyOf
<1>5. b \in AllCandidates(panes)
  BY <1>4, BestOfTab DEF NoCandidate
<1>6. PICK x \in AllRecords(panes) : b = [state |-> FromRecord(x[2]), pane |-> x[1], record |-> <<x[2]>>]
  BY <1>4, <1>5, CandidatesOfTab
<1>7. result.message = ReportKey(x[1], x[2]) /\ FromRecord(x[2]) = result.state
  BY <1>3, <1>4, <1>6 DEF KeyOf
<1>8. ASSUME NEW y \in AllRecords(panes), FromRecord(y[2]) = result.state PROVE ~Preferred(y[2], x[2])
  <2> DEFINE c == [state |-> FromRecord(y[2]), pane |-> y[1], record |-> <<y[2]>>]
  <2>1. c \in AllCandidates(panes)
    BY CandidatesOfTab
  <2>2. ~Better(c, b)
    BY <2>1, BestOfTab
  <2>3. c.state = b.state /\ c.record # Nothing /\ c.record[1] = y[2] /\ b.record[1] = x[2]
    BY <1>3, <1>6, <1>8 DEF Nothing
  <2> QED BY <2>2, <2>3 DEF Better
<1> HIDE DEF result
<1>9. IsPreferred(panes, x, result.state)
  BY <1>7, <1>8 DEF IsPreferred
<1> QED BY <1>7, <1>9 DEF result

\* Which record goes before all others does so within its own terminal.
LEMMA PreferredGoesFirst ==
    ASSUME NEW panes, IsTab(panes), NEW x, NEW state, IsPreferred(panes, x, state)
    PROVE  GoesFirst(panes, x, state)
<1>1. ASSUME NEW y \in AllRecords(panes) PROVE y[2].revision \in Int
  <2>1. PICK i \in DOMAIN panes : y \in {<<panes[i].pane, r>> : r \in Range(panes[i].records)}
    BY DEF AllRecords
  <2>2. PICK r \in Range(panes[i].records) : y = <<panes[i].pane, r>>
    BY <2>1
  <2>3. y[2] = r
    BY <2>2
  <2> QED BY <2>2, <2>3 DEF IsTab, IsPaneInput, IsRecordInput, Range
<1>2. x \in AllRecords(panes) /\ FromRecord(x[2]) = state
  BY DEF IsPreferred
<1>3. ASSUME NEW y \in AllRecords(panes), FromRecord(y[2]) = state
      PROVE  /\ IsRoot(y[2]) => IsRoot(x[2])
             /\ (y[1] = x[1] /\ IsRoot(y[2]) = IsRoot(x[2])) => y[2].revision <= x[2].revision
  BY <1>1, <1>2, <1>3 DEF IsPreferred, Preferred
<1> QED BY <1>2, <1>3 DEF GoesFirst

\* A tab without records whose shells are all at the prompt has nothing to show.
LEMMA NothingToShow ==
    ASSUME NEW panes, IsTab(panes), NEW keeps \in BOOLEAN,
           \A i \in DOMAIN panes : panes[i].records = <<>> /\ ~panes[i].running
    PROVE  Derive(panes, FALSE, keeps) =
             [state |-> "idle", message |-> Nothing, kind |-> "none", slot |-> "none",
              retained |-> Nothing, reportKey |-> Nothing]
<1>1. AllRecords(panes) = {}
  <2>1. Range(<<>>) = {}
    BY DEF Range
  <2> QED BY <2>1 DEF AllRecords
<1>2. Best(panes).state = "idle"
  BY <1>1, BestState DEF Strongest, Has, HasUnseen
<1>3. Kept(panes) = NoCandidate
  <2>1. \A c \in AllCandidates(panes) : c.record = Nothing
    BY <1>1, CandidatesOfTab
  <2> QED BY <2>1, BestOfTab DEF MayBeKept
<1>4. KeyOf(NoCandidate) = Nothing
  BY DEF KeyOf, NoCandidate
<1>5. Slot("idle", \E i \in DOMAIN panes : panes[i].records # <<>>) = "none"
  BY DEF Slot
<1> QED BY <1>2, <1>3, <1>4, <1>5 DEF Derive

-----------------------------------------------------------------------------
(* What seeing the reports of a row changes *)

\* A candidate once its record has been seen.
Seen(r) == [id |-> r.id, state |-> r.state, kind |-> r.kind, revision |-> r.revision, seen |-> TRUE]

AsSeen(c) ==
    IF c.record = Nothing THEN c
    ELSE [state |-> FromRecord(Seen(c.record[1])), pane |-> c.pane, record |-> <<Seen(c.record[1])>>]

\* t lists the candidates of s once they have been seen.
Aligned(s, t) == Len(t) = Len(s) /\ \A j \in 1..Len(s) : t[j] = AsSeen(s[j])

\* One after the other keeps lists aligned.
LEMMA ConcatAligned ==
    ASSUME NEW C, NEW a \in Seq(C), NEW b \in Seq(C), NEW D, NEW c \in Seq(D), NEW d \in Seq(D),
           Aligned(a, c), Aligned(b, d)
    PROVE  Aligned(a \o b, c \o d)
<1> DEFINE s == a \o b
           t == c \o d
<1>1. /\ Len(a) \in Nat /\ Len(b) \in Nat /\ Len(c) = Len(a) /\ Len(d) = Len(b)
      /\ Len(s) = Len(a) + Len(b) /\ Len(t) = Len(a) + Len(b)
  BY SMTT(90) DEF Aligned
<1>2. ASSUME NEW j \in 1..Len(s) PROVE t[j] = AsSeen(s[j])
  <2>1. /\ s[j] = IF j <= Len(a) THEN a[j] ELSE b[j - Len(a)]
        /\ t[j] = IF j <= Len(a) THEN c[j] ELSE d[j - Len(a)]
    BY <1>1
  <2> HIDE DEF s, t
  <2>0. j \in Int /\ 1 <= j /\ j <= Len(a) + Len(b)
    BY <1>1
  <2>2. CASE j <= Len(a)
    <3>1. j \in 1..Len(a)
      BY <1>1, <2>2
    <3> QED BY <2>1, <2>2, <3>1 DEF Aligned
  <2>3. CASE ~(j <= Len(a))
    <3>0. j - Len(a) \in 1..Len(b)
      BY <1>1, <2>0, <2>3
    <3>1. PICK i \in 1..Len(b) : i = j - Len(a)
      BY <3>0
    <3> QED BY <2>1, <2>3, <3>1 DEF Aligned
  <2> QED BY <2>2, <2>3
<1> QED BY <1>1, <1>2 DEF Aligned

\* Hence so are the candidates of all panes.
LEMMA FlattenAligned ==
    ASSUME NEW C, NEW seqs \in Seq(Seq(C)), NEW D, NEW seqt \in Seq(Seq(D)), Len(seqt) = Len(seqs),
           \A i \in 1..Len(seqs) : Aligned(seqs[i], seqt[i])
    PROVE  Aligned(FlattenSeq(seqs), FlattenSeq(seqt))
<1> DEFINE n == Len(seqs)
<1>0. /\ n \in Nat /\ \A j \in 1..n : seqs[j] \in Seq(C) /\ seqt[j] \in Seq(D)
  OBVIOUS
<1>1. CASE n = 0
  <2>1. FlattenSeq(seqs) = <<>> /\ FlattenSeq(seqt) = <<>>
    BY <1>1 DEF FlattenSeq
  <2> QED BY <2>1 DEF Aligned
<1>2. CASE n # 0
  <2>1. PICK g : Joins(g, seqs, n) /\ FlattenSeq(seqs) = g[n]
    BY <1>2, FlattenDefined
  <2>2. PICK h : Joins(h, seqt, n) /\ FlattenSeq(seqt) = h[n]
    BY <1>2, FlattenDefined
  <2> DEFINE Both(k) == g[k] \in Seq(C) /\ h[k] \in Seq(D) /\ Aligned(g[k], h[k])
             T == {k \in 1..n : ~Both(k)}
  <2>3. Both(1)
    <3>1. 1 \in 1..n
      BY <1>0, <1>2
    <3>2. g[1] = seqs[1] /\ h[1] = seqt[1]
      BY <2>1, <2>2, <3>1 DEF Joins
    <3> QED BY <1>0, <3>1, <3>2
  <2>4. ASSUME NEW k \in 1..n, k # 1, Both(k - 1) PROVE Both(k)
    <3>1. seqs[k] \in Seq(C) /\ seqt[k] \in Seq(D) /\ Aligned(seqs[k], seqt[k])
      BY <1>0
    <3>2. g[k] = g[k - 1] \o seqs[k] /\ h[k] = h[k - 1] \o seqt[k]
      BY <2>1, <2>2, <2>4 DEF Joins
    <3>3. Aligned(g[k - 1] \o seqs[k], h[k - 1] \o seqt[k])
      BY <2>4, <3>1, ConcatAligned
    <3>4. g[k - 1] \o seqs[k] \in Seq(C) /\ h[k - 1] \o seqt[k] \in Seq(D)
      BY <2>4, <3>1, ConcatMembers
    <3> QED BY <3>2, <3>3, <3>4
  <2> HIDE DEF Both
  <2>5. T = {}
    <3> SUFFICES ASSUME T # {} PROVE FALSE
      OBVIOUS
    <3>0. T \in SUBSET Nat
      BY <1>0
    <3>1. PICK k \in T : \A y \in T : k <= y
      BY <3>0, LeastNatural
    <3>2. k # 1
      BY <2>3, <3>1
    <3>3. k - 1 \in 1..n /\ ~(k <= k - 1)
      BY <1>0, <3>1, <3>2
    <3>4. k - 1 \notin T
      BY <3>1, <3>3
    <3>5. Both(k - 1)
      BY <3>3, <3>4
    <3>6. Both(k)
      BY <2>4, <3>1, <3>2, <3>5
    <3> QED BY <3>1, <3>6
  <2>6. Both(n)
    <3>1. n \in 1..n
      BY <1>0, <1>2
    <3> QED BY <2>5, <3>1
  <2> QED BY <2>1, <2>2, <2>6 DEF Both
<1> QED BY <1>1, <1>2

\* Seeing a pane turns its candidates into seen ones.
LEMMA SeenPane ==
    ASSUME NEW p, IsPaneInput(p), NEW q,
           q = [pane |-> p.pane, running |-> p.running, records |-> [j \in DOMAIN p.records |-> Seen(p.records[j])]]
    PROVE  IsPaneInput(q) /\ Aligned(Candidates(p), Candidates(q))
<1>0. PICK S : p.records \in Seq(S)
  BY DEF IsPaneInput
<1> DEFINE n == Len(p.records)
<1>1. n \in Nat /\ DOMAIN p.records = 1..n /\ q.records = [j \in 1..n |-> Seen(p.records[j])]
  BY <1>0
<1>2. q.pane = p.pane /\ q.running = p.running
  OBVIOUS
<1> HIDE DEF n
<1>3. \A j \in 1..n : IsRecordInput(Seen(p.records[j]))
  BY <1>1 DEF IsPaneInput, IsRecordInput, Seen
<1>4. q.records \in Seq({Seen(p.records[j]) : j \in 1..n}) /\ DOMAIN q.records = 1..n
  BY <1>1
<1>5. IsPaneInput(q)
  BY <1>1, <1>2, <1>3, <1>4 DEF IsPaneInput
<1>6. CASE n = 0
  <2>1. p.records = <<>> /\ q.records = <<>>
    BY <1>0, <1>1, <1>4, <1>6
  <2> DEFINE shell == [state |-> IF p.running THEN "running" ELSE "idle", pane |-> p.pane, record |-> Nothing]
  <2>2. Candidates(p) = <<shell>> /\ Candidates(q) = <<shell>>
    BY <1>2, <2>1 DEF Candidates
  <2>3. AsSeen(shell) = shell
    BY DEF AsSeen
  <2> HIDE DEF shell
  <2>4. Len(<<shell>>) = 1 /\ \A j \in 1..1 : <<shell>>[j] = shell
    OBVIOUS
  <2>5. Aligned(<<shell>>, <<shell>>)
    BY <2>3, <2>4 DEF Aligned
  <2> QED BY <1>5, <2>2, <2>5
<1>7. CASE n # 0
  <2>0. 1 \in DOMAIN p.records /\ 1 \in DOMAIN q.records
    BY <1>1, <1>4, <1>7
  <2>1. p.records # <<>> /\ q.records # <<>>
    BY <2>0
  <2> DEFINE c(j) == [state |-> FromRecord(p.records[j]), pane |-> p.pane, record |-> <<p.records[j]>>]
             d(j) == [state |-> FromRecord(Seen(p.records[j])), pane |-> p.pane, record |-> <<Seen(p.records[j])>>]
  <2>2. Candidates(p) = [j \in 1..n |-> c(j)]
    BY <1>1, <2>1 DEF Candidates
  <2>3. Candidates(q) = [j \in 1..n |-> d(j)]
    BY <1>1, <1>2, <1>4, <2>1 DEF Candidates
  <2>4. \A j \in 1..n : d(j) = AsSeen(c(j))
    BY DEF AsSeen, Nothing
  <2> HIDE DEF c, d
  <2>5. Len(Candidates(p)) = n /\ Len(Candidates(q)) = n
    BY <1>1, <2>2, <2>3
  <2>6. \A j \in 1..n : Candidates(q)[j] = AsSeen(Candidates(p)[j])
    BY <2>2, <2>3, <2>4
  <2> QED BY <1>5, <2>5, <2>6 DEF Aligned
<1> QED BY <1>6, <1>7

\* Seeing a tab turns its candidates into seen ones, in the same order.
LEMMA SeenTab ==
    ASSUME NEW panes, IsTab(panes)
    PROVE  IsTab(AllSeen(panes)) /\ Aligned(CandidateList(panes), CandidateList(AllSeen(panes)))
<1> DEFINE read == AllSeen(panes)
           n == Len(panes)
           seqs == [i \in DOMAIN panes |-> Candidates(panes[i])]
           seqt == [i \in DOMAIN read |-> Candidates(read[i])]
<1>0. PICK S : panes \in Seq(S)
  BY DEF IsTab
<1>1. n \in Nat /\ DOMAIN panes = 1..n /\ DOMAIN read = 1..n
  BY <1>0 DEF AllSeen
<1>2. ASSUME NEW i \in 1..n
      PROVE  IsPaneInput(read[i]) /\ Aligned(Candidates(panes[i]), Candidates(read[i]))
  <2>1. IsPaneInput(panes[i])
    BY <1>1 DEF IsTab
  <2>2. read[i] = [pane |-> panes[i].pane, running |-> panes[i].running,
                   records |-> [j \in DOMAIN panes[i].records |-> Seen(panes[i].records[j])]]
    BY <1>1 DEF AllSeen, Seen
  <2> QED BY <2>1, <2>2, SeenPane
<1>3. read \in Seq(Range(read))
  <2>1. read = [i \in 1..n |-> read[i]]
    BY <1>1 DEF AllSeen
  <2> HIDE DEF read
  <2>2. \A i \in 1..n : read[i] \in Range(read)
    BY <1>1 DEF Range
  <2> QED BY <1>1, <2>1, <2>2
<1> HIDE DEF read
<1>4. IsTab(read)
  BY <1>1, <1>2, <1>3 DEF IsTab
<1>5. seqs \in Seq(Seq(AllCandidates(panes))) /\ seqt \in Seq(Seq(AllCandidates(read)))
  BY <1>4, CandidateLists
<1>6. Len(seqs) = n /\ Len(seqt) = n
  BY <1>1
<1>7. \A i \in 1..n : Aligned(seqs[i], seqt[i])
  BY <1>1, <1>2
<1> HIDE DEF seqs, seqt, n
<1>8. Aligned(FlattenSeq(seqs), FlattenSeq(seqt))
  BY <1>5, <1>6, <1>7, FlattenAligned
<1> QED BY <1>4, <1>8 DEF CandidateList, seqs, seqt, read

\* The two orders in terms of the records themselves.
LEMMA OrdersOfRecords ==
    ASSUME NEW c, NEW d, NEW r, NEW q, c.record # Nothing, d.record # Nothing,
           c.record[1] = r, d.record[1] = q
    PROVE  /\ Better(c, d) <=> \/ Rank(c.state) > Rank(d.state)
                               \/ Rank(c.state) = Rank(d.state) /\ Preferred(r, q)
           /\ KeepsOver(c, d) <=> \/ r.state = "error" /\ q.state # "error"
                                  \/ r.state = q.state /\ Preferred(r, q)
<1>1. Better(c, d) <=> \/ Rank(c.state) > Rank(d.state)
                       \/ Rank(c.state) = Rank(d.state) /\ Preferred(c.record[1], d.record[1])
  BY DEF Better
<1>2. KeepsOver(c, d) <=> \/ c.record[1].state = "error" /\ d.record[1].state # "error"
                          \/ c.record[1].state = d.record[1].state /\ Preferred(c.record[1], d.record[1])
  BY DEF KeepsOver
<1> QED BY <1>1, <1>2

\* Among unseen done and error reports, the order that picks the state is the
\* order that picks, once they are seen, the report to keep.
LEMMA SameOrder ==
    ASSUME NEW c, NEW d, NEW r, NEW q, c.record = <<r>>, d.record = <<q>>,
           c.state = FromRecord(r), d.state = FromRecord(q),
           ~r.seen, ~q.seen, r.state \in {"done", "error"}, q.state \in {"done", "error"}
    PROVE  Better(c, d) <=> KeepsOver(AsSeen(c), AsSeen(d))
<1>1. /\ c.state = (IF r.state = "error" THEN "error" ELSE "done-unseen")
      /\ d.state = (IF q.state = "error" THEN "error" ELSE "done-unseen")
  BY DEF FromRecord
<1>2. Rank("error") = 5 /\ Rank("done-unseen") = 4
  BY RankValues
<1>3. c.record # Nothing /\ c.record[1] = r /\ d.record # Nothing /\ d.record[1] = q
  BY DEF Nothing
<1>4. Better(c, d) <=> \/ Rank(c.state) > Rank(d.state)
                       \/ Rank(c.state) = Rank(d.state) /\ Preferred(r, q)
  BY <1>3, OrdersOfRecords
<1>5. /\ AsSeen(c).record # Nothing /\ AsSeen(c).record[1] = Seen(r)
      /\ AsSeen(d).record # Nothing /\ AsSeen(d).record[1] = Seen(q)
  BY DEF AsSeen, Nothing
<1>6. Preferred(Seen(r), Seen(q)) <=> Preferred(r, q)
  BY DEF Preferred, IsRoot, Seen
<1>7. Seen(r).state = r.state /\ Seen(q).state = q.state
  BY DEF Seen
<1>8. KeepsOver(AsSeen(c), AsSeen(d)) <=> \/ Seen(r).state = "error" /\ Seen(q).state # "error"
                                          \/ Seen(r).state = Seen(q).state /\ Preferred(Seen(r), Seen(q))
  BY <1>5, OrdersOfRecords
<1>9. /\ Rank(c.state) > Rank(d.state) <=> r.state = "error" /\ q.state # "error"
      /\ Rank(c.state) = Rank(d.state) <=> r.state = q.state
  BY <1>1, <1>2
<1> QED BY <1>4, <1>6, <1>7, <1>8, <1>9

\* When the user sees the reports of a row that then rests, keep mode goes on
\* with the report whose age the row showed, unless one is kept already
\* (AxanSessionState.h: the same tie-breaks as the state pick).
THEOREM DeriveKeepsAge ==
    ASSUME NEW panes, IsTab(panes), NEW rung \in BOOLEAN,
           Derive(panes, rung, TRUE).reportKey # Nothing,
           Derive(AllSeen(panes), rung, TRUE).state \in {"idle", "running"},
           Kept(panes).record = Nothing
    PROVE  Derive(AllSeen(panes), rung, TRUE).reportKey = Derive(panes, rung, TRUE).reportKey
<1> DEFINE read == AllSeen(panes)
           b == Best(panes)
           k == Kept(read)
           cs == CandidateList(panes)
           ds == CandidateList(read)
<1>1. b.state \in {"done-unseen", "error"} /\ Derive(panes, rung, TRUE).reportKey = KeyOf(b)
  <2>1. KeyOf(NoCandidate) = Nothing /\ KeyOf(Kept(panes)) = Nothing
    BY DEF KeyOf, NoCandidate
  <2>2. \/ b.state \in {"done-unseen", "error"} /\ Derive(panes, rung, TRUE).reportKey = KeyOf(b)
        \/ Derive(panes, rung, TRUE).reportKey \in {KeyOf(NoCandidate), KeyOf(Kept(panes))}
    BY DEF Derive
  <2> QED BY <2>1, <2>2
<1>2. Derive(read, rung, TRUE).reportKey = KeyOf(k)
  <2>1. Derive(read, rung, TRUE).state = IF Best(read).state = "idle" /\ rung THEN "done-unseen" ELSE Best(read).state
    BY DEF Derive
  <2>2. Best(read).state \in {"idle", "running"} /\ ~(Best(read).state = "idle" /\ rung)
    BY <2>1
  <2> QED BY <2>2 DEF Derive
<1>3. IsTab(read) /\ Aligned(cs, ds)
  BY SeenTab
<1>4. /\ cs \in Seq(AllCandidates(panes)) /\ Range(cs) = AllCandidates(panes)
      /\ \A c \in AllCandidates(panes) : IsCandidate(c)
      /\ ds \in Seq(AllCandidates(read)) /\ \A c \in AllCandidates(read) : IsCandidate(c)
  BY <1>3, CandidateLists
<1>5. b = Scan("best", cs) /\ k = Scan("kept", ds)
  BY DEF Best, Kept, Scan, CandidateList
<1> HIDE DEF read, b, k, cs, ds
<1>6. Len(cs) \in Nat /\ DOMAIN cs = 1..Len(cs) /\ DOMAIN ds = 1..Len(cs) /\ \A j \in 1..Len(cs) : ds[j] = AsSeen(cs[j])
  BY <1>3, <1>4 DEF Aligned
<1>7. PICK i \in DOMAIN cs : b = cs[i] /\ \A j \in 1..(i - 1) : Better(cs[i], cs[j])
  <2>1. b # NoCandidate
    BY <1>1 DEF NoCandidate
  <2> QED BY <1>4, <1>5, <2>1, ScanFindsBest
<1>8. \A j \in DOMAIN cs : ~Better(cs[j], cs[i])
  BY <1>4, <1>5, <1>7, ScanFindsBest
<1>9. \A j \in DOMAIN cs : cs[j] \in AllCandidates(panes)
  BY <1>4
<1>10. ASSUME NEW j \in DOMAIN cs PROVE ~MayBeKept(cs[j])
  <2>1. MayBeKept(cs[j]) => ~KeepsOver(cs[j], Kept(panes))
    BY <1>9, BestOfTab
  <2> QED BY <2>1 DEF KeepsOver
<1>11. ASSUME NEW j \in DOMAIN cs, cs[j].record # Nothing
       PROVE  \E r : /\ cs[j].record = <<r>> /\ IsRecordInput(r) /\ cs[j].state = FromRecord(r)
                     /\ ds[j].record = <<Seen(r)>> /\ ds[j].pane = cs[j].pane
                     /\ r.state \in {"done", "error"} => ~r.seen
  <2>1. PICK x \in AllRecords(panes) : cs[j] = [state |-> FromRecord(x[2]), pane |-> x[1], record |-> <<x[2]>>]
    BY <1>9, <1>11, CandidatesOfTab
  <2> DEFINE r == x[2]
  <2>2. IsRecordInput(r) /\ cs[j].record = <<r>> /\ cs[j].state = FromRecord(r)
    BY <2>1, CandidatesOfTab
  <2>3. ds[j].record = <<Seen(r)>> /\ ds[j].pane = cs[j].pane
    <3>1. ds[j] = AsSeen(cs[j])
      BY <1>6
    <3>2. cs[j].record # Nothing /\ cs[j].record[1] = r
      BY <2>2 DEF Nothing
    <3> QED BY <3>1, <3>2 DEF AsSeen
  <2>4. r.state \in {"done", "error"} => ~r.seen
    <3>1. cs[j].record # Nothing /\ cs[j].record[1] = r
      BY <2>2 DEF Nothing
    <3>2. ~(cs[j].record[1].seen /\ cs[j].record[1].state \in {"done", "error"})
      BY <1>10, <3>1 DEF MayBeKept
    <3> QED BY <3>1, <3>2
  <2> QED BY <2>2, <2>3, <2>4
<1>12. cs[i].record # Nothing
  <2> SUFFICES ASSUME cs[i].record = Nothing PROVE FALSE
    OBVIOUS
  <2>1. cs[i].state \in {"running", "idle"}
    BY <1>9, CandidatesOfTab DEF Nothing
  <2> QED BY <1>1, <1>7, <2>1
<1>13. PICK r : /\ cs[i].record = <<r>> /\ IsRecordInput(r) /\ cs[i].state = FromRecord(r)
                /\ ds[i].record = <<Seen(r)>> /\ ds[i].pane = cs[i].pane
                /\ r.state \in {"done", "error"} => ~r.seen
  BY <1>11, <1>12
<1>14. r.state \in {"done", "error"} /\ ~r.seen
  BY <1>1, <1>7, <1>13, FromRecordState
<1>15. MayBeKept(ds[i])
  BY <1>13, <1>14 DEF MayBeKept, Seen, Nothing
<1>16. PICK m \in DOMAIN cs : /\ k = ds[m] /\ MayBeKept(ds[m])
                              /\ \A j \in 1..(m - 1) : MayBeKept(ds[j]) => KeepsOver(ds[m], ds[j])
  <2>1. ~KeepsOver(ds[i], k)
    BY <1>4, <1>5, <1>6, <1>7, <1>15, ScanFindsKept
  <2>2. k # NoCandidate
    BY <2>1 DEF KeepsOver, NoCandidate
  <2> QED BY <1>4, <1>5, <1>6, <2>2, ScanFindsKept
<1>17. ~KeepsOver(ds[i], ds[m])
  BY <1>4, <1>5, <1>6, <1>7, <1>15, <1>16, ScanFindsKept
<1>18. cs[m].record # Nothing
  BY <1>6, <1>16 DEF MayBeKept, AsSeen
<1>19. PICK q : /\ cs[m].record = <<q>> /\ IsRecordInput(q) /\ cs[m].state = FromRecord(q)
                /\ ds[m].record = <<Seen(q)>> /\ ds[m].pane = cs[m].pane
                /\ q.state \in {"done", "error"} => ~q.seen
  BY <1>11, <1>16, <1>18
<1>20. q.state \in {"done", "error"} /\ ~q.seen
  BY <1>16, <1>19 DEF MayBeKept, Seen
<1>21. /\ Better(cs[i], cs[m]) <=> KeepsOver(ds[i], ds[m])
       /\ Better(cs[m], cs[i]) <=> KeepsOver(ds[m], ds[i])
  <2>1. ds[i] = AsSeen(cs[i]) /\ ds[m] = AsSeen(cs[m])
    BY <1>6, <1>7, <1>16
  <2>2. Better(cs[i], cs[m]) <=> KeepsOver(AsSeen(cs[i]), AsSeen(cs[m]))
    BY <1>13, <1>14, <1>19, <1>20, SameOrder
  <2>3. Better(cs[m], cs[i]) <=> KeepsOver(AsSeen(cs[m]), AsSeen(cs[i]))
    BY <1>13, <1>14, <1>19, <1>20, SameOrder
  <2> QED BY <2>1, <2>2, <2>3
<1>22. m = i
  <2>1. i \in Int /\ m \in Int /\ i >= 1 /\ m >= 1
    BY <1>6
  <2>2. CASE m < i
    <3>1. m \in 1..(i - 1)
      BY <2>1, <2>2
    <3> QED BY <1>7, <1>17, <1>21, <3>1
  <2>3. CASE i < m
    <3>1. i \in 1..(m - 1)
      BY <2>1, <2>3
    <3> QED BY <1>8, <1>15, <1>16, <1>21, <3>1
  <2> QED BY <2>1, <2>2, <2>3
<1>23. KeyOf(ds[i]) = KeyOf(cs[i])
  BY <1>13 DEF KeyOf, ReportKey, Seen, Nothing
<1> QED BY <1>1, <1>2, <1>7, <1>16, <1>22, <1>23 DEF read

-----------------------------------------------------------------------------
(* The row of a tab *)

ReportKinds == UNION {{r.kind : r \in s.reports} : s \in Scenarios}

Reported == [state : ProgramStates, kind : ReportKinds, revision : 0..MaxRevision]

\* The records of a terminal.
RecordMaps == UNION {[S -> Reported] : S \in {T \in SUBSET Ids : IsFiniteSet(T)}}

Terminals == [records : RecordMaps, revision : 0..MaxRevision, running : BOOLEAN]

PaneInputSet == [pane : Panes, records : RecordMaps, running : BOOLEAN]

-----------------------------------------------------------------------------
(* The inductive invariant *)

\* No record is newer than its terminal's counter.
TermInv ==
    /\ term \in [Panes -> Terminals]
    /\ \A p \in Panes : \A id \in DOMAIN term[p].records :
         term[p].records[id].revision <= term[p].revision
    /\ scenario \in Scenarios

Flags ==
    /\ due \in BOOLEAN /\ activated \in BOOLEAN /\ selected \in BOOLEAN /\ bell \in BOOLEAN
    /\ keep \in BOOLEAN /\ selecting \in BOOLEAN /\ previewing \in BOOLEAN /\ removing \in BOOLEAN

\* The tab has a pane, and the UI thread is at one of them.
TabInv ==
    /\ Flags
    /\ controls \in Seq(Panes) /\ Len(controls) # 0
    /\ joining \in Panes \cup {Nothing}
    /\ pc = "join" => joining \in Panes

PcInv ==
    /\ pc \in {"idle", "ack", "records", "running", "apply", "join", "select", "baseline"}
    /\ pc \in {"ack", "records", "running", "baseline"} => next \in 1..Len(controls)

\* What the user looks at is looked at in full, and the acknowledgement runs
\* only then.
SeenInv ==
    /\ seen \in [Panes -> Nat] /\ looked \in [Panes -> Nat]
    /\ \A p \in Panes : seen[p] <= looked[p] /\ looked[p] <= term[p].revision
    /\ Looking => \A p \in Range(controls) : looked[p] = term[p].revision
    /\ pc = "ack" => Looking

SnapLength == CASE pc = "records" -> next - 1 [] pc = "running" -> next [] OTHER -> Len(controls)

\* A recompute under way has read the panes up to next.  What it has read is
\* current unless another recompute is due, and seen if the user looks.
SnapInv ==
    /\ pc = "ack" => snap = <<>>
    /\ pc \in {"records", "running", "apply"} =>
         /\ snap \in Seq(PaneInputSet) /\ Len(snap) = SnapLength
         /\ \A i \in DOMAIN snap : snap[i].pane = controls[i]
         /\ ~due => \A i \in DOMAIN snap :
                      /\ snap[i].records = term[controls[i]].records
                      /\ (pc = "running" /\ i = next) \/ snap[i].running = term[controls[i]].running
         /\ Looking => \A i \in DOMAIN snap : \A id \in DOMAIN snap[i].records :
                         snap[i].records[id].revision <= seen[snap[i].pane]

AtRest == pc \in {"idle", "select", "baseline"}

\* A row at rest is what Derive makes of the tab, unless a recompute is due,
\* the tab is still to be selected, or a pane has closed in the background.
CurrentInv ==
    (AtRest /\ ~due /\ "closed" \notin unnoticed /\ ~selecting) => row = NewRow(Derive(CurrentInputs, bell, keep))

CalmInv ==
    (AtRest /\ Looking /\ ~bell /\ "selected" \notin unnoticed) => row.state \notin {"error", "done-unseen"}

AlertInv ==
    (AtRest /\ ~due /\ ~selecting) =>
      \A p \in Range(controls) : \A id \in DOMAIN term[p].records :
        (/\ term[p].records[id].revision > seen[p]
         /\ term[p].records[id].state \in {"done", "error"})
          => Rank(row.state) >= Rank("done-unseen")

PreviewInv ==
    /\ baseline \in [Panes -> Nat]
    /\ (pc = "baseline" /\ ~due) =>
         \A i \in 1..(next - 1) : MaxRecordRevision(term[controls[i]].records) <= baseline[controls[i]]
    /\ (pc \in {"idle", "select"} /\ ~due /\ ~selecting /\ previewing) =>
         \A p \in Range(controls) : MaxRecordRevision(term[p].records) <= baseline[p]

RowInv == TermInv /\ TabInv /\ PcInv /\ SeenInv /\ SnapInv
-----------------------------------------------------------------------------
(* The kinds of steps.  From the row's point of view the events differ only *)
(* in whether they start a recompute.                                      *)

\* A recompute starts, perhaps with the acknowledgement.
Starts ==
    /\ UNCHANGED <<term, row, previewing, baseline, scenario>>
    /\ due' => due
    /\ pc' \in {"records", "ack"} /\ next' = 1 /\ snap' = <<>>
    /\ seen' = Pruned(controls')
    /\ pc' = "ack" => Looking'
    /\ \/ Look
       \/ looked' = looked /\ Range(controls') \subseteq Range(controls) /\ (Looking' => Looking)

\* An event after which the row can stay as it is.
Quiet ==
    /\ UiIdle /\ pc' \in {"idle", "select"}
    /\ UNCHANGED <<term, due, bell, keep, seen, row, baseline, selecting, scenario>>
    /\ looked' = looked
    /\ previewing' => previewing
    /\ Looking' => Looking
    /\ Range(controls') \subseteq Range(controls)
    /\ controls' = controls \/ "closed" \in unnoticed'
    /\ unnoticed \subseteq unnoticed'

\* A removal has selected the tab.
SelectedQuietly ==
    /\ pc = "select" /\ pc' = "idle"
    /\ UNCHANGED <<term, due, controls, bell, keep, seen, row, previewing, baseline, selecting, scenario>>
    /\ Look
    /\ "selected" \in unnoticed' /\ unnoticed \subseteq unnoticed'

\* A pane has joined a tab that is not the selected one.
JoinedQuietly ==
    /\ pc = "join" /\ pc' = "idle"
    /\ UNCHANGED <<term, due, seen, row, baseline, scenario>>
    /\ looked' = looked
    /\ ~selected' /\ selecting'

\* A pane that leaves a tab of several leaves a tab of fewer.
LEMMA RemoveFirstShrinks ==
    ASSUME NEW S, NEW s \in Seq(S), NEW e
    PROVE  /\ RemoveFirst(s, e) \in Seq(S)
           /\ Range(RemoveFirst(s, e)) \subseteq Range(s)
           /\ Len(s) > 1 => Len(RemoveFirst(s, e)) # 0
<1> DEFINE I == {i \in 1..Len(s) : s[i] = e}
           m == Min(I)
           t == RemoveFirst(s, e)
           R == Range(s)
           n == Len(s)
<1>0. n \in Nat /\ DOMAIN s = 1..n /\ \A i \in 1..n : s[i] \in R /\ s[i] \in S
  BY DEF Range
<1>1. CASE I = {}
  <2>1. t = s
    BY <1>1 DEF RemoveFirst
  <2> QED BY <1>0, <2>1
<1>2. CASE I # {}
  <2>1. I \in SUBSET Nat
    BY <1>0
  <2>2. \E x \in I : \A y \in I : x <= y
    BY <1>2, <2>1, LeastNatural
  <2>3. m \in I
    BY <2>2 DEF Min
  <2>4. t = SubSeq(s, 1, m - 1) \o SubSeq(s, m + 1, n)
    BY <1>2 DEF RemoveFirst, RemoveAt, SelectInSeq
  <2> HIDE DEF m, R, t, n
  <2>5. m \in 1..n
    BY <2>3 DEF n
  <2>6. SubSeq(s, 1, m - 1) \in Seq(R) /\ Len(SubSeq(s, 1, m - 1)) = m - 1
    <3>1. m - 1 \in Int /\ 1 \in Int /\ \A i \in 1..(m - 1) : s[i] \in R
      BY <1>0, <2>5
    <3>2. /\ SubSeq(s, 1, m - 1) \in Seq(R)
          /\ Len(SubSeq(s, 1, m - 1)) = IF 1 <= m - 1 THEN (m - 1) - 1 + 1 ELSE 0
      BY <3>1, SubSeqProperties
    <3> QED BY <2>5, <3>2
  <2>7. SubSeq(s, m + 1, n) \in Seq(R) /\ Len(SubSeq(s, m + 1, n)) = n - m
    <3>0. \A i \in (m + 1)..n : i \in 1..n
      BY <1>0, <2>5
    <3>1. m + 1 \in Int /\ n \in Int /\ \A i \in (m + 1)..n : s[i] \in R
      BY <1>0, <2>5, <3>0
    <3>2. /\ SubSeq(s, m + 1, n) \in Seq(R)
          /\ Len(SubSeq(s, m + 1, n)) = IF m + 1 <= n THEN n - (m + 1) + 1 ELSE 0
      BY <3>1, SubSeqProperties
    <3> QED BY <1>0, <2>5, <3>2
  <2>8. t \in Seq(R) /\ Len(t) = n - 1
    <3>1. ASSUME NEW a \in Seq(R), NEW b \in Seq(R), Len(a) = m - 1, Len(b) = n - m
          PROVE  a \o b \in Seq(R) /\ Len(a \o b) = n - 1
      <4>1. a \o b \in Seq(R) /\ Len(a \o b) = Len(a) + Len(b)
        OBVIOUS
      <4> QED BY <1>0, <2>5, <3>1, <4>1
    <3> QED BY <2>4, <2>6, <2>7, <3>1
  <2>9. Range(t) \subseteq R
    BY <2>8 DEF Range
  <2>10. R \subseteq S
    BY <1>0 DEF Range, R
  <2>11. t \in Seq(S)
    BY <2>8, <2>10
  <2> QED BY <1>0, <2>8, <2>9, <2>11 DEF R, t, n
<1> QED BY <1>1, <1>2

\* An event that changes neither what the tab consists of nor who looks at it
\* leaves what was looked at as it is.
LEMMA NotLooking ==
    ASSUME SeenInv, Look, ~Looking'
    PROVE  looked' = looked
BY DEF SeenInv, Look, Looking

\* Every event of the dispatcher either starts a recompute or is quiet, but
\* for the one that opens a preview.
LEMMA EventShape ==
    ASSUME TabInv, PcInv, SeenInv, UiEvent
    PROVE  TabInv' /\ (Starts \/ Quiet \/ PreviewChosen)
<1> USE DEF termVars, paneVars, tabVars, bellVars, uiVars, previewVars
<1>1. CASE StateChanged
  BY <1>1 DEF StateChanged, Recompute, UiIdle, Starts, TabInv, Flags, Looking
<1>2. CASE TitleChanges
  BY <1>2 DEF TitleChanges, Recompute, UiIdle, Starts, TabInv, Flags, Looking
<1>3. CASE SettingChanges
  BY <1>3 DEF SettingChanges, Recompute, UiIdle, Starts, TabInv, Flags, Looking
<1>4. ASSUME NEW p \in Panes, PaneJoins(p) PROVE TabInv' /\ Starts
  BY <1>4 DEF PaneJoins, Recompute, UiIdle, Starts, TabInv, Flags, Looking
<1>5. ASSUME NEW p \in Panes, PaneLeaves(p) PROVE TabInv' /\ Starts
  <2>0. controls' = RemoveFirst(controls, p) /\ Len(controls) > 1 /\ controls \in Seq(Panes)
    BY <1>5 DEF PaneLeaves, TabInv
  <2>1. controls' \in Seq(Panes) /\ Range(controls') \subseteq Range(controls) /\ Len(controls') # 0
    BY <2>0, RemoveFirstShrinks
  <2> QED BY <1>5, <2>1 DEF PaneLeaves, ActivePaneChanges, GainFocus, Acknowledge, Recompute, UiIdle,
                            Starts, TabInv, Flags, Looking
<1>6. ASSUME NEW p \in Panes, PaneCloses(p) PROVE TabInv' /\ (Starts \/ Quiet)
  <2>0. controls' = RemoveFirst(controls, p) /\ Len(controls) > 1 /\ controls \in Seq(Panes)
    BY <1>6 DEF PaneCloses, TabInv
  <2>1. controls' \in Seq(Panes) /\ Range(controls') \subseteq Range(controls) /\ Len(controls') # 0
    BY <2>0, RemoveFirstShrinks
  <2>2. CASE selected /\ Acknowledge(activated, controls')
    BY <1>6, <2>1, <2>2 DEF PaneCloses, Acknowledge, Recompute, UiIdle, Starts, TabInv, Flags, Looking
  <2>3. CASE unnoticed' = unnoticed \cup {"closed"} /\ UNCHANGED <<pc, next, snap, seen>>
    BY <1>6, <2>1, <2>3 DEF PaneCloses, UiIdle, Quiet, TabInv, Flags, Looking
  <2> QED BY <1>6, <2>2, <2>3 DEF PaneCloses
<1>7. CASE PaneClosed
  <2>1. CASE ActivePaneChanges(controls)
    <3>1. CASE selected \/ bell
      BY <1>7, <2>1, <3>1 DEF PaneClosed, ActivePaneChanges, GainFocus, Acknowledge, Recompute, UiIdle,
                              Starts, TabInv, Flags, Looking
    <3>2. CASE ~(selected \/ bell)
      <4>1. bell' = bell
        BY <2>1, <3>2 DEF ActivePaneChanges, GainFocus, TabInv, Flags
      <4> QED BY <1>7, <2>1, <3>2, <4>1 DEF PaneClosed, ActivePaneChanges, UiIdle, Quiet, TabInv, Flags, Looking
    <3> QED BY <3>1, <3>2
  <2>2. CASE UNCHANGED <<focus, bellVars, uiVars, seen>>
    BY <1>7, <2>2 DEF PaneClosed, UiIdle, Quiet, TabInv, Flags, Looking
  <2> QED BY <1>7, <2>1, <2>2 DEF PaneClosed
<1>8. CASE WindowActivated
  <2>1. CASE selected
    BY <1>8, <2>1 DEF WindowActivated, Acknowledge, UiIdle, Starts, TabInv, Flags, Looking
  <2>2. CASE ~selected
    <3>1. ~Looking' /\ Look
      BY <1>8, <2>2 DEF WindowActivated, Looking
    <3>2. looked' = looked
      BY <3>1, NotLooking
    <3> QED BY <1>8, <2>2, <3>1, <3>2 DEF WindowActivated, UiIdle, Quiet, TabInv, Flags
  <2> QED BY <2>1, <2>2
<1>9. CASE WindowDeactivated
  BY <1>9 DEF WindowDeactivated, UiIdle, Quiet, TabInv, Flags, Looking
<1>10. CASE TabSelected
  BY <1>10 DEF TabSelected, GainFocus, Acknowledge, Recompute, UiIdle, Starts, TabInv, Flags, Looking
<1>11. CASE TabUnselected
  BY <1>11 DEF TabUnselected, UiIdle, Quiet, TabInv, Flags, Looking
<1>12. CASE PaneFocused
  BY <1>12 DEF PaneFocused, ActivePaneChanges, GainFocus, Acknowledge, Recompute, UiIdle,
               Starts, TabInv, Flags, Looking
<1>13. CASE FocusReturns
  BY <1>13 DEF FocusReturns, GainFocus, Recompute, UiIdle, Starts, Quiet, TabInv, Flags, Looking
<1>14. CASE FocusLeaves
  BY <1>14 DEF FocusLeaves, UiIdle, Quiet, TabInv, Flags, Looking
<1>15. CASE BellRings
  BY <1>15 DEF BellRings, Recompute, UiIdle, Starts, Quiet, TabInv, Flags, Looking
<1>16. CASE BellTimerTicks
  BY <1>16 DEF BellTimerTicks, Recompute, UiIdle, Starts, Quiet, TabInv, Flags, Looking
<1>17. CASE PreviewChosen
  BY <1>17 DEF PreviewChosen, UiIdle, TabInv, Flags
<1>18. CASE PreviewCleared
  BY <1>18 DEF PreviewCleared, UiIdle, Quiet, TabInv, Flags, Looking
<1>19. CASE RemovalFocuses
  <2>1. CASE bell /\ ~bell'
    BY <1>19, <2>1 DEF RemovalFocuses, GainFocus, Recompute, UiIdle, Starts, TabInv, Flags, Looking
  <2>2. CASE ~(bell /\ ~bell')
    <3>1. bell' = bell
      BY <1>19, <2>2 DEF RemovalFocuses, GainFocus, TabInv, Flags
    <3> QED BY <1>19, <2>2, <3>1 DEF RemovalFocuses, UiIdle, Quiet, TabInv, Flags, Looking
  <2> QED BY <2>1, <2>2
<1> QED BY <1>1, <1>2, <1>3, <1>4, <1>5, <1>6, <1>7, <1>8, <1>9, <1>10, <1>11, <1>12, <1>13, <1>14,
           <1>15, <1>16, <1>17, <1>18, <1>19 DEF UiEvent

\* A tab that a removal selects is looked at without its row being told.
LEMMA RemovalShape ==
    ASSUME TabInv, RemovalSelects
    PROVE  TabInv' /\ SelectedQuietly
BY DEF RemovalSelects, SelectedQuietly, TabInv, Flags, termVars, paneVars, tabVars, bellVars, uiVars, previewVars

\* A pane that joins is looked at, or the tab is still to be selected.
LEMMA JoinShape ==
    ASSUME TabInv, PcInv, SeenInv, PaneJoined
    PROVE  TabInv' /\ (Starts \/ JoinedQuietly)
<1> USE DEF termVars, paneVars, tabVars, bellVars, uiVars, previewVars
<1>1. controls' \in Seq(Panes) /\ Len(controls') # 0
  <2>1. joining \in Panes /\ controls \in Seq(Panes) /\ controls' = Append(controls, joining)
    BY DEF PaneJoined, TabInv
  <2>2. Append(controls, joining) \in Seq(Panes) /\ Len(Append(controls, joining)) = Len(controls) + 1 /\ Len(controls) \in Nat
    BY <2>1
  <2> QED BY <2>1, <2>2
<1>2. CASE selected \/ bell
  BY <1>1, <1>2 DEF PaneJoined, ActivePaneChanges, GainFocus, Acknowledge, Recompute, Starts, TabInv, Flags, Looking
<1>3. CASE ~selected /\ ~bell
  <2>1. ~Looking' /\ Look
    BY <1>3 DEF PaneJoined, Looking
  <2>2. looked' = looked
    BY <2>1, NotLooking
  <2> QED BY <1>1, <1>3, <2>2 DEF PaneJoined, ActivePaneChanges, GainFocus, JoinedQuietly, TabInv, Flags
<1> QED BY <1>2, <1>3

-----------------------------------------------------------------------------
(* The terminals *)

\* A change of pane p: of the others nothing changes, its counter does not
\* fall, and if it is in the tab a recompute is due.
PaneChanges(p) ==
    /\ UNCHANGED <<controls, seen, activated, selected, bell, joining, selecting, removing, keep, pc, next, snap, row,
                   previewing, baseline, scenario, unnoticed>>
    /\ due' = (due \/ InTab(p))
    /\ \A q \in Panes : /\ q # p => term'[q] = term[q]
                        /\ term[q].revision <= term'[q].revision
    /\ \/ Look
       \/ looked' = looked /\ \A q \in Panes : term'[q].revision = term[q].revision

\* What the type of a terminal's records says.
LEMMA RecordMapFacts ==
    ASSUME NEW rs \in RecordMaps
    PROVE  /\ DOMAIN rs \in SUBSET Nat /\ DOMAIN rs \subseteq Ids /\ IsFiniteSet(DOMAIN rs)
           /\ rs \in [DOMAIN rs -> Reported]
           /\ \A id \in DOMAIN rs : rs[id].state \in ProgramStates /\ rs[id].revision \in 0..MaxRevision
<1>1. PICK S \in SUBSET Ids : IsFiniteSet(S) /\ rs \in [S -> Reported]
  BY DEF RecordMaps
<1>2. DOMAIN rs = S
  BY <1>1
<1> QED BY <1>1, <1>2, RowIdsAssumption DEF Reported

\* The newest record is a record, and its revision bounds the others'.
LEMMA MaxOfRecords ==
    ASSUME NEW rs \in RecordMaps
    PROVE  /\ MaxRecordRevision(rs) \in Nat
           /\ \A id \in DOMAIN rs : rs[id].revision <= MaxRecordRevision(rs)
           /\ \A n \in Nat : (\A id \in DOMAIN rs : rs[id].revision <= n) => MaxRecordRevision(rs) <= n
<1> DEFINE T == {0} \cup {rs[id].revision : id \in DOMAIN rs}
           m == MaxRecordRevision(rs)
<1>1. T \in SUBSET Nat /\ T # {} /\ \A x \in T : x <= MaxRevision
  BY RecordMapFacts, RowBoundsAssumption
<1>2. PICK x \in T : \A y \in T : y <= x
  BY <1>1, RowBoundsAssumption, GreatestNatural
<1>3. \A y \in T : x >= y
  BY <1>1, <1>2
<1>4. m = CHOOSE y \in T : \A z \in T : y >= z
  BY DEF MaxRecordRevision, Max
<1> HIDE DEF T, m
<1>5. m \in T /\ \A y \in T : m >= y
  BY <1>3, <1>4
<1>6. m \in Nat /\ \A y \in T : y <= m
  BY <1>1, <1>5
<1>7. \A id \in DOMAIN rs : rs[id].revision \in T
  BY DEF T
<1>8. \A n \in Nat : (\A id \in DOMAIN rs : rs[id].revision <= n) => m <= n
  BY <1>5 DEF T
<1> QED BY <1>6, <1>7, <1>8 DEF m

\* What a program, a prompt or a shell does is a change of its pane.
LEMMA PaneShape ==
    ASSUME TermInv, TabInv, SeenInv, PaneStep
    PROVE  TermInv' /\ \E p \in Panes : PaneChanges(p)
<1> USE DEF termVars, paneVars, tabVars, bellVars, uiVars, previewVars
<1>1. ASSUME NEW p \in Panes, NEW id \in Ids, NEW report \in scenario.reports, PaneReports(p, id, report)
      PROVE  TermInv' /\ PaneChanges(p)
  <2> DEFINE t == term[p]
             new == [state |-> report.state, kind |-> report.kind, revision |-> t.revision + 1]
             rs == [x \in DOMAIN t.records \cup {id} |-> IF x = id THEN new ELSE t.records[x]]
  <2>1. t \in Terminals /\ t.records \in RecordMaps /\ t.revision \in 0..MaxRevision /\ t.revision < MaxRevision
    BY <1>1 DEF TermInv, Terminals, PaneReports
  <2>2. new \in Reported
    <3>1. report.state \in ProgramStates
      BY ScenariosAssumption DEF TermInv, ProgramStates
    <3>2. report.kind \in ReportKinds
      BY DEF TermInv, ReportKinds
    <3>3. t.revision + 1 \in 0..MaxRevision
      BY <2>1, RowBoundsAssumption
    <3> QED BY <3>1, <3>2, <3>3 DEF Reported
  <2>3. /\ DOMAIN t.records \cup {id} \in SUBSET Ids /\ IsFiniteSet(DOMAIN t.records \cup {id})
        /\ rs \in [DOMAIN t.records \cup {id} -> Reported]
    <3> HIDE DEF new
    <3>1. t.records \in [DOMAIN t.records -> Reported] /\ DOMAIN t.records \subseteq Ids /\ IsFiniteSet(DOMAIN t.records)
      BY <2>1, RecordMapFacts
    <3>2. IsFiniteSet(DOMAIN t.records \cup {id})
      BY <3>1, FS_AddElement
    <3> HIDE DEF t
    <3> QED BY <2>2, <3>1, <3>2
  <2>4. rs \in RecordMaps
    <3> HIDE DEF rs, t
    <3> QED BY <2>3 DEF RecordMaps
  <2>5. term' = [term EXCEPT ![p] = [@ EXCEPT !.revision = t.revision + 1, !.records = rs]]
    BY <1>1 DEF PaneReports, TermInv, Terminals
  <2>6. ASSUME NEW x \in DOMAIN rs PROVE rs[x].revision <= t.revision + 1
    <3>1. CASE x = id
      BY <2>1, <3>1
    <3>2. CASE x # id
      <4>1. x \in DOMAIN t.records /\ rs[x] = t.records[x]
        BY <3>2
      <4>2. t.records[x].revision <= t.revision /\ t.records[x].revision \in 0..MaxRevision
        BY <2>1, <4>1, RecordMapFacts DEF TermInv
      <4> QED BY <2>1, <4>1, <4>2
    <3> QED BY <3>1, <3>2
  <2> HIDE DEF rs
  <2>7. t.revision + 1 \in 0..MaxRevision
    BY <2>1, RowBoundsAssumption
  <2>8. /\ term' \in [Panes -> Terminals] /\ \A q \in Panes : q # p => term'[q] = term[q]
        /\ term'[p].records = rs /\ term'[p].revision = t.revision + 1
    BY <2>4, <2>5, <2>7 DEF TermInv, Terminals
  <2>9. scenario' = scenario /\ Look
    BY <1>1 DEF PaneReports
  <2>10. TermInv'
    BY <2>6, <2>8, <2>9 DEF TermInv
  <2>11. \A q \in Panes : term[q].revision <= term'[q].revision
    BY <2>1, <2>8 DEF TermInv, Terminals
  <2> QED BY <1>1, <2>8, <2>9, <2>10, <2>11 DEF PaneReports, PaneChanges
<1>2. ASSUME NEW p \in Panes, PaneForgets(p) PROVE TermInv' /\ PaneChanges(p)
  <2> DEFINE t == term[p]
  <2>1. PICK forgotten \in SUBSET DOMAIN t.records :
             term' = [term EXCEPT ![p].records = Restrict(@, DOMAIN @ \ forgotten)]
    BY <1>2 DEF PaneForgets
  <2> DEFINE rs == Restrict(t.records, DOMAIN t.records \ forgotten)
  <2>2. t \in Terminals /\ t.records \in RecordMaps
    BY DEF TermInv, Terminals
  <2>3. /\ t.records \in [DOMAIN t.records -> Reported] /\ DOMAIN t.records \subseteq Ids
        /\ IsFiniteSet(DOMAIN t.records)
    BY <2>2, RecordMapFacts
  <2>4. IsFiniteSet(DOMAIN t.records \ forgotten)
    BY <2>3, FS_Subset
  <2>5. /\ DOMAIN rs = DOMAIN t.records \ forgotten /\ rs \in [DOMAIN t.records \ forgotten -> Reported]
        /\ \A x \in DOMAIN rs : x \in DOMAIN t.records /\ rs[x] = t.records[x]
    BY <2>3 DEF Restrict
  <2> HIDE DEF rs
  <2>6. rs \in RecordMaps
    BY <2>3, <2>4, <2>5 DEF RecordMaps
  <2>7. /\ term' \in [Panes -> Terminals] /\ \A q \in Panes : q # p => term'[q] = term[q]
        /\ term'[p].records = rs /\ \A q \in Panes : term'[q].revision = term[q].revision
    BY <2>1, <2>6 DEF TermInv, Terminals, rs
  <2>8. scenario' = scenario
    BY <1>2 DEF PaneForgets
  <2>9. TermInv'
    BY <2>5, <2>7, <2>8 DEF TermInv
  <2>10. \A q \in Panes : term[q].revision <= term'[q].revision
    BY <2>7 DEF TermInv, Terminals
  <2> QED BY <1>2, <2>7, <2>9, <2>10 DEF PaneForgets, PaneChanges
<1>3. ASSUME NEW p \in Panes, PaneRuns(p) PROVE TermInv' /\ PaneChanges(p)
  <2>1. term' = [term EXCEPT ![p].running = ~@] /\ scenario' = scenario
    BY <1>3 DEF PaneRuns
  <2>2. /\ term' \in [Panes -> Terminals]
        /\ \A q \in Panes : /\ q # p => term'[q] = term[q]
                            /\ term'[q].records = term[q].records /\ term'[q].revision = term[q].revision
    BY <2>1 DEF TermInv, Terminals
  <2>3. TermInv'
    BY <2>1, <2>2 DEF TermInv
  <2>4. \A q \in Panes : term[q].revision <= term'[q].revision
    BY <2>2 DEF TermInv, Terminals
  <2> QED BY <1>3, <2>2, <2>3, <2>4 DEF PaneRuns, PaneChanges
<1>4. scenario.ids \subseteq Ids
  BY ScenariosAssumption DEF TermInv
<1> QED BY <1>1, <1>2, <1>3, <1>4 DEF PaneStep

\* Every step is of one of the kinds.
LEMMA StepShape ==
    ASSUME RowInv, Next
    PROVE  /\ TermInv' /\ TabInv'
           /\ \/ \E p \in Panes : PaneChanges(p)
              \/ Starts \/ Quiet \/ JoinedQuietly \/ SelectedQuietly \/ PreviewChosen
              \/ AcknowledgesPane \/ ReadsRecords \/ ReadsRunning \/ Applies \/ PreviewReadsPane
<1> USE DEF RowInv
<1>1. CASE PaneStep
  <2>1. TermInv' /\ \E p \in Panes : PaneChanges(p)
    BY <1>1, PaneShape
  <2>2. TabInv'
    BY <2>1 DEF TabInv, Flags, PaneChanges
  <2> QED BY <2>1, <2>2
<1>2. CASE PaneJoined
  <2>1. TabInv' /\ (Starts \/ JoinedQuietly)
    BY <1>2, JoinShape
  <2>2. TermInv'
    BY <2>1 DEF TermInv, Starts, JoinedQuietly
  <2> QED BY <2>1, <2>2
<1>3. CASE UiEvent
  <2>1. TabInv' /\ (Starts \/ Quiet \/ PreviewChosen)
    BY <1>3, EventShape
  <2>2. TermInv'
    BY <2>1 DEF TermInv, Starts, Quiet, PreviewChosen, termVars
  <2> QED BY <2>1, <2>2
<1>4. CASE AcknowledgesPane \/ ReadsRecords \/ ReadsRunning \/ Applies \/ PreviewReadsPane
  <2>1. TermInv'
    BY <1>4 DEF TermInv, AcknowledgesPane, ReadsRecords, ReadsRunning, Applies, PreviewReadsPane, termVars
  <2>2. TabInv'
    BY <1>4, ZenonT(90) DEF TabInv, Flags, AcknowledgesPane, ReadsRecords, ReadsRunning, Applies, AfterRecompute, PreviewReadsPane,
                termVars, tabVars, paneVars, bellVars, previewVars
  <2> QED BY <1>4, <2>1, <2>2
<1>5. CASE RemovalSelects
  <2>1. TabInv' /\ SelectedQuietly
    BY <1>5, RemovalShape
  <2>2. TermInv'
    BY <2>1 DEF TermInv, SelectedQuietly
  <2> QED BY <2>1, <2>2
<1> QED BY <1>1, <1>2, <1>3, <1>4, <1>5 DEF Next, UiStep

\* The UI thread stays at a pane of the tab.
LEMMA PcKept ==
    ASSUME RowInv, Next
    PROVE  PcInv'
<1> USE DEF RowInv, PcInv
<1>0. Len(controls) \in Nat \ {0} /\ Len(controls') \in Nat \ {0}
  <2>1. TabInv'
    BY StepShape
  <2> QED BY <2>1 DEF TabInv
<1>1. CASE \E p \in Panes : PaneChanges(p)
  BY <1>1 DEF PaneChanges
<1>2. CASE Starts
  BY <1>0, <1>2 DEF Starts
<1>3. CASE Quiet \/ JoinedQuietly \/ SelectedQuietly
  BY <1>3 DEF Quiet, JoinedQuietly, SelectedQuietly
<1>4. CASE PreviewChosen
  BY <1>0, <1>4 DEF PreviewChosen, tabVars
<1>5. CASE AcknowledgesPane \/ ReadsRunning \/ PreviewReadsPane
  <2>1. next \in 1..Len(controls) /\ controls' = controls
    BY <1>5 DEF AcknowledgesPane, ReadsRunning, PreviewReadsPane, tabVars
  <2>2. next' = IF next = Len(controls) THEN 1 ELSE next + 1
    BY <1>5 DEF AcknowledgesPane, ReadsRunning, PreviewReadsPane
  <2>3. next' \in 1..Len(controls)
    BY <1>0, <2>1, <2>2
  <2> QED BY <1>5, <2>1, <2>3 DEF AcknowledgesPane, ReadsRunning, PreviewReadsPane
<1>6. CASE ReadsRecords
  BY <1>6 DEF ReadsRecords, tabVars
<1>7. CASE Applies
  BY <1>7 DEF Applies, AfterRecompute
<1> QED BY <1>1, <1>2, <1>3, <1>4, <1>5, <1>6, <1>7, StepShape

\* To see a pane up to some revision raises its entry to it.
LEMMA SeeUpToRaises ==
    ASSUME seen \in [Panes -> Nat], NEW p \in Panes, NEW n \in Nat
    PROVE  /\ SeeUpTo(p, n) \in [Panes -> Nat]
           /\ \A q \in Panes : seen[q] <= SeeUpTo(p, n)[q]
           /\ n <= SeeUpTo(p, n)[p] /\ (SeeUpTo(p, n)[p] = seen[p] \/ SeeUpTo(p, n)[p] = n)
           /\ \A q \in Panes : q # p => SeeUpTo(p, n)[q] = seen[q]
BY DEF SeeUpTo

\* The pane that the UI thread is at.
LEMMA AtPane ==
    ASSUME RowInv, pc \in {"ack", "records", "running", "baseline"}
    PROVE  /\ next \in 1..Len(controls) /\ controls[next] \in Panes /\ controls[next] \in Range(controls)
           /\ term[controls[next]] \in Terminals /\ term[controls[next]].records \in RecordMaps
           /\ MaxRecordRevision(term[controls[next]].records) \in Nat
           /\ MaxRecordRevision(term[controls[next]].records) <= term[controls[next]].revision
<1> USE DEF RowInv
<1>1. next \in 1..Len(controls) /\ controls \in Seq(Panes)
  BY DEF PcInv, TabInv
<1>2. PICK p \in Panes : p = controls[next] /\ p \in Range(controls)
  BY <1>1 DEF Range
<1>3. term[p] \in Terminals /\ term[p].records \in RecordMaps /\ term[p].revision \in Nat
  BY DEF TermInv, Terminals
<1>4. MaxRecordRevision(term[p].records) \in Nat /\ MaxRecordRevision(term[p].records) <= term[p].revision
  BY <1>3, MaxOfRecords DEF TermInv
<1> QED BY <1>1, <1>2, <1>3, <1>4

\* A report counts as seen only up to what was looked at.
LEMMA SeenKept ==
    ASSUME RowInv, Next
    PROVE  SeenInv'
<1> USE DEF RowInv
<1>0. \A p \in Panes : /\ seen[p] \in Nat /\ looked[p] \in Nat /\ term[p].revision \in Nat
                       /\ seen[p] <= looked[p] /\ looked[p] <= term[p].revision
  BY DEF SeenInv, TermInv, Terminals
<1>1. CASE \E p \in Panes : PaneChanges(p)
  <2>1. PICK p \in Panes : PaneChanges(p)
    BY <1>1
  <2>2. TermInv'
    BY StepShape
  <2>3. \A q \in Panes : term'[q].revision \in Nat /\ term[q].revision <= term'[q].revision
    BY <2>1, <2>2 DEF TermInv, Terminals, PaneChanges
  <2>4. CASE Look
    <3>1. looked' \in [Panes -> Nat] /\ \A q \in Panes : looked[q] <= looked'[q] /\ looked'[q] <= term'[q].revision
      BY <1>0, <2>3, <2>4 DEF Look
    <3>2. Looking' => \A q \in Range(controls') : q \in Panes /\ looked'[q] = term'[q].revision
      BY <2>1, <2>4 DEF Look, Looking, TabInv, PaneChanges, Range
    <3>3. seen' = seen /\ pc' = pc /\ (Looking' <=> Looking)
      BY <2>1 DEF PaneChanges, Looking
    <3>4. \A q \in Panes : seen[q] <= looked'[q]
      BY <1>0, <3>1
    <3> QED BY <3>1, <3>2, <3>3, <3>4 DEF SeenInv
  <2>5. CASE looked' = looked /\ \A q \in Panes : term'[q].revision = term[q].revision
    <3>1. seen' = seen /\ pc' = pc /\ (Looking' <=> Looking) /\ Range(controls') = Range(controls)
      BY <2>1 DEF PaneChanges, Looking
    <3>2. Range(controls) \subseteq Panes
      BY DEF TabInv, Range
    <3> QED BY <2>5, <3>1, <3>2 DEF SeenInv
  <2> QED BY <2>1, <2>4, <2>5 DEF PaneChanges
<1>2. CASE Starts
  <2>1. seen' \in [Panes -> Nat] /\ \A q \in Panes : seen'[q] <= seen[q]
    BY <1>0, <1>2 DEF Starts, Pruned
  <2>2. term' = term /\ (pc' = "ack" => Looking')
    BY <1>2 DEF Starts
  <2>3. CASE Look
    <3>1. looked' \in [Panes -> Nat] /\ \A q \in Panes : looked[q] <= looked'[q] /\ looked'[q] <= term[q].revision
      BY <1>0, <2>2, <2>3 DEF Look
    <3>2. TabInv'
      BY StepShape
    <3>3. Looking' => \A q \in Range(controls') : looked'[q] = term'[q].revision
      BY <2>3, <3>2 DEF Look, Looking, TabInv, Range
    <3>4. \A q \in Panes : seen'[q] <= looked'[q]
      BY <1>0, <2>1, <3>1
    <3> QED BY <2>1, <2>2, <3>1, <3>3, <3>4 DEF SeenInv
  <2>4. CASE looked' = looked /\ Range(controls') \subseteq Range(controls) /\ (Looking' => Looking)
    <3>1. \A q \in Panes : seen'[q] <= looked[q]
      BY <1>0, <2>1
    <3> QED BY <2>1, <2>2, <2>4, <3>1 DEF SeenInv
  <2> QED BY <1>2, <2>3, <2>4 DEF Starts
<1>3. CASE Quiet
  BY <1>3 DEF Quiet, SeenInv
<1>4. CASE JoinedQuietly
  BY <1>4 DEF JoinedQuietly, SeenInv, Looking
<1>7. CASE SelectedQuietly
  <2>1. UNCHANGED <<term, seen>> /\ Look /\ pc' = "idle"
    BY <1>7 DEF SelectedQuietly
  <2>2. looked' \in [Panes -> Nat] /\ \A q \in Panes : looked[q] <= looked'[q] /\ looked'[q] <= term[q].revision
    BY <1>0, <2>1 DEF Look
  <2>3. TabInv'
    BY StepShape
  <2>4. Looking' => \A q \in Range(controls') : looked'[q] = term'[q].revision
    BY <2>1, <2>3 DEF Look, Looking, TabInv, Range
  <2>5. \A q \in Panes : seen[q] <= looked'[q]
    BY <1>0, <2>2
  <2> QED BY <2>1, <2>2, <2>4, <2>5 DEF SeenInv
<1>5. CASE PreviewChosen \/ ReadsRunning \/ Applies \/ PreviewReadsPane
  <2>1. UNCHANGED <<term, seen, looked, controls, activated, selected>> /\ pc' # "ack"
    BY <1>5 DEF PreviewChosen, ReadsRunning, Applies, AfterRecompute, PreviewReadsPane, termVars, tabVars
  <2> QED BY <2>1 DEF SeenInv, Looking
<1>6. CASE AcknowledgesPane \/ ReadsRecords
  <2> DEFINE p == controls[next]
             m == MaxRecordRevision(term[p].records)
  <2>1. /\ UNCHANGED <<term, looked, controls, activated, selected>>
        /\ seen' = seen \/ (Looking /\ seen' = SeeUpTo(p, m))
        /\ pc' = "ack" => pc = "ack"
    BY <1>6 DEF AcknowledgesPane, ReadsRecords, termVars, tabVars, SeenInv
  <2>2. p \in Panes /\ p \in Range(controls) /\ m \in Nat /\ m <= term[p].revision
    BY <1>6, AtPane DEF AcknowledgesPane, ReadsRecords
  <2>3. CASE seen' = seen
    BY <2>1, <2>3 DEF SeenInv, Looking
  <2>4. CASE Looking /\ seen' = SeeUpTo(p, m)
    <3>1. looked[p] = term[p].revision
      BY <2>2, <2>4 DEF SeenInv
    <3> HIDE DEF p, m
    <3>2. seen' \in [Panes -> Nat] /\ \A q \in Panes : seen'[q] <= looked[q]
      <4>1. seen \in [Panes -> Nat]
        BY DEF SeenInv
      <4>2. /\ seen' \in [Panes -> Nat] /\ (seen'[p] = seen[p] \/ seen'[p] = m)
            /\ \A q \in Panes : q # p => seen'[q] = seen[q]
        BY <2>2, <2>4, <4>1, SeeUpToRaises
      <4>3. seen'[p] <= looked[p]
        BY <1>0, <2>2, <3>1, <4>2
      <4> QED BY <1>0, <4>2, <4>3
    <3> QED BY <2>1, <3>2 DEF SeenInv, Looking
  <2> QED BY <2>1, <2>3, <2>4
<1> QED BY <1>1, <1>2, <1>3, <1>4, <1>5, <1>6, <1>7, StepShape

\* Before it applies, a recompute has read no more panes than there are.
LEMMA SnapWithin ==
    ASSUME RowInv, pc \in {"records", "running", "apply"}
    PROVE  /\ Len(snap) \in 0..Len(controls) /\ DOMAIN snap = 1..Len(snap) /\ DOMAIN controls = 1..Len(controls)
           /\ DOMAIN snap \subseteq DOMAIN controls /\ Len(controls) \in Nat
           /\ \A i \in DOMAIN controls : controls[i] \in Panes /\ controls[i] \in Range(controls)
           /\ \A i \in DOMAIN snap : snap[i] \in PaneInputSet
<1> USE DEF RowInv
<1>1. controls \in Seq(Panes) /\ Len(controls) \in Nat /\ DOMAIN controls = 1..Len(controls) /\ Len(controls) # 0
  BY DEF TabInv
<1>2. snap \in Seq(PaneInputSet) /\ Len(snap) = SnapLength
  BY DEF SnapInv
<1>3. pc # "apply" => next \in 1..Len(controls)
  BY DEF PcInv
<1>4. SnapLength \in 0..Len(controls)
  BY <1>1, <1>3 DEF SnapLength
<1>5. DOMAIN snap = 1..Len(snap) /\ \A i \in DOMAIN snap : snap[i] \in PaneInputSet
  BY <1>2
<1>6. \A i \in DOMAIN controls : controls[i] \in Panes /\ controls[i] \in Range(controls)
  BY <1>1 DEF Range
<1>7. DOMAIN snap \subseteq DOMAIN controls
  BY <1>1, <1>2, <1>4, <1>5
<1> QED BY <1>1, <1>2, <1>4, <1>5, <1>6, <1>7

\* What a recompute has read stays current, or another one becomes due.
LEMMA SnapKept ==
    ASSUME RowInv, Next
    PROVE  SnapInv'
<1> USE DEF RowInv
<1> DEFINE Reading == pc \in {"records", "running", "apply"}
<1>1. CASE \E p \in Panes : PaneChanges(p)
  <2>1. PICK p \in Panes : PaneChanges(p)
    BY <1>1
  <2>2. /\ UNCHANGED <<pc, snap, next, controls, seen>> /\ (Looking' <=> Looking) /\ SnapLength' = SnapLength
        /\ ~due' => ~due /\ p \notin Range(controls)
    BY <2>1 DEF PaneChanges, Looking, SnapLength, InTab
  <2>3. (Reading /\ ~due') => \A i \in DOMAIN snap : term'[controls[i]] = term[controls[i]]
    <3> SUFFICES ASSUME Reading, ~due', NEW i \in DOMAIN snap PROVE term'[controls[i]] = term[controls[i]]
      OBVIOUS
    <3>1. controls[i] \in Panes /\ controls[i] \in Range(controls)
      BY SnapWithin
    <3> QED BY <2>1, <2>2, <3>1 DEF PaneChanges
  <2> QED BY <2>2, <2>3 DEF SnapInv
<1>2. CASE Starts
  <2>1. snap' = <<>> /\ next' = 1 /\ pc' \in {"records", "ack"}
    BY <1>2 DEF Starts
  <2>2. snap' \in Seq(PaneInputSet) /\ Len(snap') = 0 /\ DOMAIN snap' = {}
    BY <2>1
  <2>3. pc' = "records" => SnapLength' = 0
    BY <2>1 DEF SnapLength
  <2> QED BY <2>1, <2>2, <2>3 DEF SnapInv
<1>3. CASE Quiet \/ JoinedQuietly \/ SelectedQuietly \/ PreviewChosen \/ Applies \/ PreviewReadsPane
  <2>1. pc' \in {"idle", "join", "select", "baseline"}
    BY <1>3 DEF Quiet, JoinedQuietly, SelectedQuietly, PreviewChosen, Applies, AfterRecompute, PreviewReadsPane
  <2> QED BY <2>1 DEF SnapInv
<1>4. CASE AcknowledgesPane
  <2>1. snap' = <<>> /\ pc' \in {"ack", "records"} /\ (pc' = "records" => next' = 1)
    BY <1>4 DEF AcknowledgesPane, SnapInv
  <2>2. snap' \in Seq(PaneInputSet) /\ Len(snap') = 0 /\ DOMAIN snap' = {}
    BY <2>1
  <2>3. pc' = "records" => SnapLength' = 0
    BY <2>1 DEF SnapLength
  <2> QED BY <2>1, <2>2, <2>3 DEF SnapInv
<1>5. CASE ReadsRecords
  <2> DEFINE p == controls[next]
             new == [pane |-> p, records |-> term[p].records, running |-> FALSE]
             m == MaxRecordRevision(term[p].records)
  <2>1. /\ pc = "records" /\ pc' = "running" /\ snap' = Append(snap, new) /\ next' = next
        /\ UNCHANGED <<term, due, controls, activated, selected>>
        /\ seen' = IF Looking THEN SeeUpTo(p, m) ELSE seen
    BY <1>5 DEF ReadsRecords, termVars, tabVars
  <2>2. next \in 1..Len(controls) /\ p \in Panes /\ term[p].records \in RecordMaps /\ m \in Nat
    BY <2>1, AtPane
  <2>3. new \in PaneInputSet
    BY <2>2 DEF PaneInputSet
  <2>4. snap \in Seq(PaneInputSet) /\ Len(snap) = next - 1 /\ next \in Nat
    BY <2>1, <2>2, SnapWithin DEF SnapInv, SnapLength
  <2>5. /\ snap' \in Seq(PaneInputSet) /\ Len(snap') = next /\ DOMAIN snap' = 1..next /\ snap'[next] = new
        /\ \A i \in DOMAIN snap' : i # next => i \in DOMAIN snap /\ snap'[i] = snap[i]
    <3> HIDE DEF new
    <3>1. snap' \in Seq(PaneInputSet) /\ Len(snap') = Len(snap) + 1 /\ snap'[Len(snap) + 1] = new
      BY <2>1, <2>3, <2>4
    <3>2. Len(snap) + 1 = next
      BY <2>4
    <3>3. DOMAIN snap' = 1..next /\ DOMAIN snap = 1..(next - 1)
      BY <2>4, <3>1, <3>2
    <3>4. ASSUME NEW i \in DOMAIN snap', i # next PROVE i \in DOMAIN snap /\ snap'[i] = snap[i]
      <4>1. i \in 1..Len(snap) /\ i \in DOMAIN snap
        BY <2>4, <3>3, <3>4
      <4> QED BY <2>1, <2>3, <2>4, <4>1
    <3> QED BY <3>1, <3>2, <3>3, <3>4
  <2>6. SnapLength' = next /\ (Looking' <=> Looking)
    BY <2>1 DEF SnapLength, Looking
  <2>7. seen \in [Panes -> Nat]
    BY DEF SeenInv
  <2>8. \A q \in Panes : seen'[q] \in Nat /\ seen[q] <= seen'[q]
    BY <2>1, <2>2, <2>7, SeeUpToRaises, ZenonT(90)
  <2>9. Looking => m <= seen'[p]
    BY <2>1, <2>2, <2>7, SeeUpToRaises
  <2>10. ASSUME Looking, NEW i \in DOMAIN snap', NEW id \in DOMAIN snap'[i].records
         PROVE  snap'[i].records[id].revision <= seen'[snap'[i].pane]
    <3>1. CASE i = next
      <4>1. /\ snap'[i].records = term[p].records /\ snap'[i].pane = p /\ id \in DOMAIN term[p].records
            /\ term[p].records[id].revision <= m /\ term[p].records[id].revision \in 0..MaxRevision
        <5>1. snap'[i].records = term[p].records /\ snap'[i].pane = p
          BY <2>5, <3>1
        <5> QED BY <2>2, <2>10, <5>1, MaxOfRecords, RecordMapFacts
      <4> HIDE DEF m, p
      <4>2. m <= seen'[p] /\ seen'[p] \in Nat /\ term[p].records[id].revision \in Nat
        BY <2>2, <2>8, <2>9, <2>10, <4>1, RowBoundsAssumption
      <4> QED BY <2>2, <4>1, <4>2
    <3>2. CASE i # next
      <4>1. i \in DOMAIN snap /\ snap'[i] = snap[i]
        BY <2>5, <3>2
      <4>2. snap[i].records[id].revision <= seen[snap[i].pane]
        BY <2>1, <2>10, <4>1 DEF SnapInv
      <4>3. snap[i].pane \in Panes /\ snap[i].records[id].revision \in 0..MaxRevision
        <5>1. snap[i] \in PaneInputSet
          BY <2>4, <4>1
        <5>2. snap[i].records \in RecordMaps /\ id \in DOMAIN snap[i].records
          BY <2>10, <4>1, <5>1 DEF PaneInputSet
        <5> QED BY <5>1, <5>2, RecordMapFacts DEF PaneInputSet
      <4>4. seen[snap[i].pane] \in Nat /\ seen'[snap[i].pane] \in Nat /\ seen[snap[i].pane] <= seen'[snap[i].pane]
        BY <2>7, <2>8, <4>3
      <4> QED BY <4>1, <4>2, <4>3, <4>4, RowBoundsAssumption
    <3> QED BY <3>1, <3>2
  <2>11. ASSUME NEW i \in DOMAIN snap'
         PROVE  /\ snap'[i].pane = controls[i]
                /\ ~due => /\ snap'[i].records = term[controls[i]].records
                           /\ i = next \/ snap'[i].running = term[controls[i]].running
    <3>1. CASE i = next
      BY <2>5, <3>1
    <3>2. CASE i # next
      <4>1. i \in DOMAIN snap /\ snap'[i] = snap[i]
        BY <2>5, <3>2
      <4> QED BY <2>1, <4>1 DEF SnapInv
    <3> QED BY <3>1, <3>2
  <2> HIDE DEF p, m, new
  <2> QED BY <2>1, <2>5, <2>6, <2>10, <2>11 DEF SnapInv
<1>6. CASE ReadsRunning
  <2> DEFINE run == term[controls[next]].running
  <2>1. /\ pc = "running" /\ snap' = [snap EXCEPT ![next].running = run]
        /\ next' = (IF next = Len(controls) THEN 1 ELSE next + 1)
        /\ pc' = (IF next = Len(controls) THEN "apply" ELSE "records")
        /\ UNCHANGED <<term, due, controls, activated, selected, seen>>
    BY <1>6 DEF ReadsRunning, termVars, tabVars
  <2>2. next \in 1..Len(controls) /\ run \in BOOLEAN
    BY <2>1, AtPane DEF Terminals
  <2>3. snap \in Seq(PaneInputSet) /\ Len(snap) = next /\ DOMAIN snap = 1..next /\ next \in Nat
    <3>1. snap \in Seq(PaneInputSet) /\ Len(snap) = next
      BY <2>1 DEF SnapInv, SnapLength
    <3>2. next \in Nat
      BY <2>2, <2>1, SnapWithin
    <3> QED BY <3>1, <3>2
  <2>4. next \in DOMAIN snap /\ snap[next] \in PaneInputSet
    BY <2>2, <2>3
  <2>5. /\ snap' \in Seq(PaneInputSet) /\ Len(snap') = next /\ DOMAIN snap' = DOMAIN snap
        /\ \A i \in DOMAIN snap : /\ snap'[i].pane = snap[i].pane /\ snap'[i].records = snap[i].records
                                  /\ snap'[i].running = IF i = next THEN run ELSE snap[i].running
    <3> HIDE DEF run
    <3>1. \A i \in DOMAIN snap : snap[i] \in PaneInputSet
      BY <2>3
    <3>2. [snap[next] EXCEPT !.running = run] \in PaneInputSet
      BY <2>2, <2>4 DEF PaneInputSet
    <3>3. snap' = [snap EXCEPT ![next] = [snap[next] EXCEPT !.running = run]]
      BY <2>1
    <3>4. snap' \in Seq(PaneInputSet) /\ Len(snap') = next /\ DOMAIN snap' = DOMAIN snap
      BY <2>3, <2>4, <3>2, <3>3
    <3>5. ASSUME NEW i \in DOMAIN snap
          PROVE  /\ snap'[i].pane = snap[i].pane /\ snap'[i].records = snap[i].records
                 /\ snap'[i].running = IF i = next THEN run ELSE snap[i].running
      BY <2>4, <3>1, <3>3 DEF PaneInputSet
    <3> QED BY <3>4, <3>5
  <2>6. SnapLength' = next /\ (Looking' <=> Looking) /\ pc' \in {"records", "apply"}
    <3>1. Len(controls) \in Nat
      BY <2>1, SnapWithin
    <3>2. CASE next = Len(controls)
      BY <2>1, <3>2 DEF SnapLength, Looking
    <3>3. CASE next # Len(controls)
      <4>1. pc' = "records" /\ next' = next + 1 /\ next' - 1 = next
        BY <2>1, <2>3, <3>3
      <4> QED BY <2>1, <4>1 DEF SnapLength, Looking
    <3> QED BY <3>2, <3>3
  <2>7. ASSUME ~due, NEW i \in DOMAIN snap
        PROVE  snap'[i].records = term[controls[i]].records /\ snap'[i].running = term[controls[i]].running
    BY <2>1, <2>5, <2>7 DEF SnapInv
  <2>8. \A i \in DOMAIN snap : snap'[i].pane = controls[i]
    BY <2>1, <2>5 DEF SnapInv
  <2>9. ASSUME Looking, NEW i \in DOMAIN snap, NEW id \in DOMAIN snap'[i].records
        PROVE  snap'[i].records[id].revision <= seen[snap'[i].pane]
    BY <2>1, <2>5, <2>9 DEF SnapInv
  <2> HIDE DEF run
  <2> QED BY <2>1, <2>5, <2>6, <2>7, <2>8, <2>9 DEF SnapInv
<1> QED BY <1>1, <1>2, <1>3, <1>4, <1>5, <1>6, StepShape

\* In the beginning nothing is reported, read or seen.
LEMMA RowInvInit == Init => RowInv
<1> SUFFICES ASSUME Init PROVE RowInv
  OBVIOUS
<1>1. NoRecords \in RecordMaps /\ DOMAIN NoRecords = {}
  <2>1. {} \in SUBSET Ids /\ IsFiniteSet({}) /\ NoRecords \in [{} -> Reported]
    BY FS_EmptySet DEF NoRecords
  <2> QED BY <2>1 DEF RecordMaps
<1>2. TermInv
  <2>1. [records |-> NoRecords, revision |-> 0, running |-> FALSE] \in Terminals
    BY <1>1, RowBoundsAssumption DEF Terminals
  <2> QED BY <1>1, <2>1 DEF Init, TermInv
<1>3. PICK p \in Panes : controls = <<p>>
  BY DEF Init
<1>4. TabInv
  <2>1. controls \in Seq(Panes) /\ Len(controls) # 0
    BY <1>3
  <2>2. Flags
    BY DEF Init, Flags
  <2> QED BY <2>1, <2>2 DEF Init, TabInv
<1>5. Range(controls) \subseteq Panes
  BY <1>3 DEF Range
<1>6. SeenInv
  BY <1>5 DEF Init, SeenInv, Looking
<1> QED BY <1>2, <1>4, <1>6 DEF Init, RowInv, PcInv, SnapInv

\* A step that changes nothing keeps the invariant.
LEMMA RowInvStutters ==
    ASSUME RowInv, UNCHANGED vars
    PROVE  RowInv'
BY DEF RowInv, TermInv, TabInv, Flags, PcInv, SeenInv, SnapInv, SnapLength, Looking,
       vars, termVars, paneVars, tabVars, bellVars, uiVars, previewVars

\* The invariant that the others rest on.
LEMMA RowInvHolds == Spec => []RowInv
<1>1. ASSUME RowInv, [Next]_vars PROVE RowInv'
  <2>1. CASE Next
    BY <1>1, <2>1, StepShape, PcKept, SeenKept, SnapKept DEF RowInv
  <2>2. CASE UNCHANGED vars
    BY <1>1, <2>2, RowInvStutters
  <2> QED BY <1>1, <2>1, <2>2
<1> QED BY <1>1, RowInvInit, PTL DEF Spec

\* A tab in the background, or in a background window, marks nothing as seen
\* (AxanSessionTreeView.cpp, _AcknowledgeNodeState and _RecomputeNodeState).
THEOREM SeenWasLookedAt == Spec => []SeenWasLooked
<1>1. RowInv => SeenWasLooked
  BY DEF RowInv, SeenInv, SeenWasLooked
<1> QED BY <1>1, RowInvHolds, PTL

-----------------------------------------------------------------------------
(* What Derive is given *)

\* One record as Derive sees it.
RecordInput(pane, rs, id) ==
    [id |-> id, state |-> rs[id].state, kind |-> rs[id].kind, revision |-> rs[id].revision,
     seen |-> rs[id].revision <= seen[pane]]

\* It is seen if its revision is.
LEMMA RecordInputFacts ==
    ASSUME NEW pane, seen[pane] \in Nat, NEW rs \in RecordMaps, NEW id \in DOMAIN rs
    PROVE  /\ IsRecordInput(RecordInput(pane, rs, id))
           /\ RecordInput(pane, rs, id).state = rs[id].state
           /\ RecordInput(pane, rs, id).seen <=> rs[id].revision <= seen[pane]
<1>1. rs[id].state \in ProgramStates /\ rs[id].revision \in Int
  BY RecordMapFacts, RowBoundsAssumption
<1>2. (rs[id].revision <= seen[pane]) \in BOOLEAN
  BY <1>1
<1> DEFINE b == rs[id].revision <= seen[pane]
           r == [id |-> id, state |-> rs[id].state, kind |-> rs[id].kind, revision |-> rs[id].revision, seen |-> b]
<1>3. r = RecordInput(pane, rs, id)
  BY DEF RecordInput
<1> HIDE DEF b
<1>4. r.state = rs[id].state /\ r.revision = rs[id].revision /\ r.seen = b
  OBVIOUS
<1> HIDE DEF r
<1>5. IsRecordInput(r)
  BY <1>1, <1>2, <1>4, Zenon DEF IsRecordInput, b
<1>6. r.seen <=> b
  BY <1>2, <1>4, Zenon
<1> QED BY <1>3, <1>4, <1>5, <1>6, Zenon DEF b

\* The records of a pane reach Derive one by one, with their seen flag.
LEMMA InputIsPane ==
    ASSUME NEW pane, seen[pane] \in Nat, NEW rs \in RecordMaps, NEW running \in BOOLEAN
    PROVE  /\ IsPaneInput(InputOf(pane, rs, running))
           /\ InputOf(pane, rs, running).pane = pane
           /\ InputOf(pane, rs, running).running = running
           /\ Range(InputOf(pane, rs, running).records) = {RecordInput(pane, rs, id) : id \in DOMAIN rs}
           /\ DOMAIN rs = {} => InputOf(pane, rs, running).records = <<>>
<1> DEFINE D == DOMAIN rs
           n == Cardinality(D)
           ids == InOrder(D)
           list == InputOf(pane, rs, running).records
<1>1. D \in SUBSET Nat /\ IsFiniteSet(D)
  BY RecordMapFacts
<1>2. /\ n \in Nat /\ ids \in Seq(D) /\ Len(ids) = n
      /\ \A i \in 1..n : ids[i] \in D
      /\ \A x \in D : Position(D, x) + 1 \in 1..n /\ ids[Position(D, x) + 1] = x
  BY <1>1, InOrderLists
<1>3. DOMAIN ids = 1..n
  BY <1>2
<1> HIDE DEF n, D, ids
<1>4. list = [i \in DOMAIN ids |-> RecordInput(pane, rs, ids[i])]
  BY DEF InputOf, RecordInput, ids, D
<1> HIDE DEF list
<1>5. DOMAIN list = 1..n /\ \A i \in 1..n : list[i] = RecordInput(pane, rs, ids[i])
  BY <1>3, <1>4
<1>6. \A i \in DOMAIN list : IsRecordInput(list[i])
  <2> SUFFICES ASSUME NEW i \in 1..n PROVE IsRecordInput(list[i])
    BY <1>5
  <2>1. IsRecordInput(RecordInput(pane, rs, ids[i]))
    BY <1>2, RecordInputFacts DEF D
  <2> QED BY <1>5, <2>1
<1>7. list \in Seq(Range(list))
  <2>1. \A i \in 1..n : list[i] \in Range(list)
    BY <1>5 DEF Range
  <2>2. list = [i \in 1..n |-> list[i]]
    BY <1>3, <1>4
  <2> QED BY <1>2, <2>1, <2>2
<1>8. InputOf(pane, rs, running).pane = pane /\ InputOf(pane, rs, running).running = running
  BY DEF InputOf
<1>9. IsPaneInput(InputOf(pane, rs, running))
  BY <1>6, <1>7, <1>8 DEF IsPaneInput, list
<1>10. Range(list) = {RecordInput(pane, rs, id) : id \in D}
  <2>1. ASSUME NEW i \in 1..n PROVE \E id \in D : list[i] = RecordInput(pane, rs, id)
    BY <1>2, <1>5
  <2>2. ASSUME NEW id \in D PROVE \E i \in 1..n : list[i] = RecordInput(pane, rs, id)
    <3>1. PICK i \in 1..n : ids[i] = id
      BY <1>2
    <3> QED BY <1>5, <3>1
  <2> HIDE DEF list
  <2>3. Range(list) = {list[i] : i \in 1..n}
    BY <1>5 DEF Range
  <2> QED BY <2>1, <2>2, <2>3
<1>11. D = {} => list = <<>>
  <2> SUFFICES ASSUME D = {} PROVE list = <<>>
    OBVIOUS
  <2>1. n = 0
    BY FS_EmptySet DEF n
  <2>2. DOMAIN list = {}
    BY <1>5, <2>1
  <2> QED BY <1>7, <2>2
<1> QED BY <1>8, <1>9, <1>10, <1>11 DEF list, D

\* The tab that a list of pane snapshots makes, and which of its reports are
\* still to be seen.
LEMMA InputsAreTab ==
    ASSUME seen \in [Panes -> Nat], NEW reads \in Seq(PaneInputSet), NEW inputs,
           inputs = [i \in DOMAIN reads |-> InputOf(reads[i].pane, reads[i].records, reads[i].running)]
    PROVE  /\ IsTab(inputs) /\ DOMAIN inputs = DOMAIN reads
           /\ \A state : HasUnseen(inputs, state) <=>
                \E i \in DOMAIN reads : \E id \in DOMAIN reads[i].records :
                  /\ reads[i].records[id].state = state
                  /\ ~(reads[i].records[id].revision <= seen[reads[i].pane])
<1>1. Len(reads) \in Nat /\ DOMAIN reads = 1..Len(reads) /\ \A i \in DOMAIN reads : reads[i] \in PaneInputSet
  OBVIOUS
<1>2. ASSUME NEW i \in DOMAIN reads
      PROVE  /\ IsPaneInput(inputs[i])
             /\ Range(inputs[i].records) =
                  {RecordInput(reads[i].pane, reads[i].records, id) : id \in DOMAIN reads[i].records}
  <2>1. reads[i].records \in RecordMaps /\ reads[i].running \in BOOLEAN /\ seen[reads[i].pane] \in Nat
    BY <1>1 DEF PaneInputSet
  <2>2. inputs[i] = InputOf(reads[i].pane, reads[i].records, reads[i].running)
    OBVIOUS
  <2> QED BY <2>1, <2>2, InputIsPane
<1>3. DOMAIN inputs = DOMAIN reads
  OBVIOUS
<1>4. inputs \in Seq(Range(inputs))
  <2>1. \A i \in DOMAIN reads : inputs[i] \in Range(inputs)
    BY <1>3 DEF Range
  <2>2. inputs = [i \in 1..Len(reads) |-> inputs[i]]
    BY <1>1
  <2> QED BY <1>1, <2>1, <2>2
<1>5. IsTab(inputs)
  BY <1>2, <1>3, <1>4 DEF IsTab
<1>6. ASSUME NEW state, HasUnseen(inputs, state)
      PROVE  \E i \in DOMAIN reads : \E id \in DOMAIN reads[i].records :
               /\ reads[i].records[id].state = state
               /\ ~(reads[i].records[id].revision <= seen[reads[i].pane])
  <2>1. PICK x \in AllRecords(inputs) : x[2].state = state /\ ~x[2].seen
    BY <1>6 DEF HasUnseen
  <2>2. PICK i \in DOMAIN inputs : \E r \in Range(inputs[i].records) : x = <<inputs[i].pane, r>>
    BY <2>1 DEF AllRecords
  <2>3. PICK r \in Range(inputs[i].records) : x = <<inputs[i].pane, r>>
    BY <2>2
  <2>4. PICK id \in DOMAIN reads[i].records : r = RecordInput(reads[i].pane, reads[i].records, id)
    BY <1>2, <1>3, <2>3
  <2>5. x[2] = r
    BY <2>3
  <2>6. reads[i].records \in RecordMaps /\ seen[reads[i].pane] \in Nat
    BY <1>1, <1>3 DEF PaneInputSet
  <2>7. /\ RecordInput(reads[i].pane, reads[i].records, id).state = reads[i].records[id].state
        /\ RecordInput(reads[i].pane, reads[i].records, id).seen
             <=> reads[i].records[id].revision <= seen[reads[i].pane]
    BY <2>6, RecordInputFacts
  <2> QED BY <1>3, <2>1, <2>4, <2>5, <2>7
<1>7. ASSUME NEW state, NEW i \in DOMAIN reads, NEW id \in DOMAIN reads[i].records,
             reads[i].records[id].state = state,
             ~(reads[i].records[id].revision <= seen[reads[i].pane])
      PROVE  HasUnseen(inputs, state)
  <2> DEFINE r == RecordInput(reads[i].pane, reads[i].records, id)
             x == <<inputs[i].pane, r>>
  <2>1. r \in Range(inputs[i].records) /\ i \in DOMAIN inputs
    BY <1>2, <1>3
  <2>2. r.state = state /\ ~r.seen
    <3>1. reads[i].records \in RecordMaps /\ seen[reads[i].pane] \in Nat
      BY <1>1 DEF PaneInputSet
    <3> QED BY <1>7, <3>1, RecordInputFacts
  <2> HIDE DEF r
  <2>3. x \in AllRecords(inputs) /\ x[2] = r
    BY <2>1 DEF AllRecords
  <2> QED BY <2>2, <2>3 DEF HasUnseen
<1> QED BY <1>3, <1>5, <1>6, <1>7

-----------------------------------------------------------------------------
(* What a recompute shows *)

\* What a recompute hands to Derive.
SnapInputs == [i \in DOMAIN snap |-> InputOf(snap[i].pane, snap[i].records, snap[i].running)]

\* A recompute shows the strongest state of what it has read.
LEMMA AppliedRow ==
    ASSUME RowInv, Applies
    PROVE  /\ pc = "apply" /\ pc' \in {"idle", "join", "select"}
           /\ UNCHANGED <<term, due, controls, activated, selected, bell, keep, seen, selecting, unnoticed, baseline>>
           /\ row' = NewRow(Derive(SnapInputs, bell, keep))
           /\ row'.state = Strongest(SnapInputs, bell)
           /\ snap \in Seq(PaneInputSet) /\ DOMAIN snap = DOMAIN controls
<1> USE DEF RowInv
<1>1. /\ pc = "apply" /\ pc' \in {"idle", "join", "select"}
      /\ UNCHANGED <<term, due, controls, activated, selected, bell, keep, seen, selecting, unnoticed, baseline>>
  BY DEF Applies, AfterRecompute, termVars, paneVars, tabVars, bellVars
<1>2. row' = NewRow(Derive(SnapInputs, bell, keep))
  BY DEF Applies, SnapInputs
<1>3. snap \in Seq(PaneInputSet) /\ Len(snap) = Len(controls)
  BY <1>1 DEF SnapInv, SnapLength
<1>4. DOMAIN snap = DOMAIN controls
  BY <1>1, <1>3, SnapWithin
<1>5. IsTab(SnapInputs)
  <2>1. seen \in [Panes -> Nat]
    BY DEF SeenInv
  <2> QED BY <1>3, <2>1, InputsAreTab DEF SnapInputs
<1>6. Derive(SnapInputs, bell, keep).state = Strongest(SnapInputs, bell)
  BY <1>5, DeriveShowsStrongest DEF TabInv, Flags
<1>7. "state" \in DOMAIN BlankRow
  BY DEF BlankRow
<1>8. row'.state = Derive(SnapInputs, bell, keep).state
  BY <1>2, <1>7 DEF NewRow
<1> QED BY <1>1, <1>2, <1>3, <1>4, <1>6, <1>8

\* Which steps leave a row at rest, and what they keep.
LEMMA RestShape ==
    ASSUME RowInv, Next, AtRest', ~Applies
    PROVE  /\ AtRest \/ JoinedQuietly
           /\ row' = row
           /\ \/ \E p \in Panes : PaneChanges(p)
              \/ Quiet
              \/ JoinedQuietly
              \/ SelectedQuietly
              \/ UNCHANGED <<term, due, controls, activated, selected, bell, keep, seen, selecting, unnoticed>>
<1>1. ~Starts /\ ~AcknowledgesPane /\ ~ReadsRecords /\ ~ReadsRunning
  BY DEF AtRest, Starts, AcknowledgesPane, ReadsRecords, ReadsRunning
<1>2. CASE \E p \in Panes : PaneChanges(p)
  BY <1>2 DEF PaneChanges, AtRest
<1>3. CASE Quiet
  BY <1>3 DEF Quiet, AtRest, UiIdle
<1>4. CASE JoinedQuietly
  BY <1>4 DEF JoinedQuietly
<1>5. CASE PreviewChosen \/ PreviewReadsPane
  BY <1>5 DEF PreviewChosen, PreviewReadsPane, UiIdle, AtRest, termVars, paneVars, tabVars, bellVars, uiVars
<1>6. CASE SelectedQuietly
  BY <1>6 DEF SelectedQuietly, AtRest
<1> QED BY <1>1, <1>2, <1>3, <1>4, <1>5, <1>6, StepShape

\* A pane that changes while no recompute is due is not in the tab.
LEMMA TabUnchanged ==
    ASSUME TabInv, NEW p \in Panes, PaneChanges(p), ~due'
    PROVE  ~due /\ \A q \in Range(controls) : q \in Panes /\ term'[q] = term[q]
<1>1. ~due /\ p \notin Range(controls)
  BY DEF PaneChanges, InTab
<1>2. Range(controls) \subseteq Panes
  BY DEF TabInv, Range
<1> QED BY <1>1, <1>2 DEF PaneChanges

\* A row that is looked at stays calm.
LEMMA CalmKept ==
    ASSUME RowInv, CalmInv, Next
    PROVE  CalmInv'
<1> USE DEF RowInv
<1> SUFFICES ASSUME AtRest', Looking', ~bell', "selected" \notin unnoticed' PROVE row'.state \notin {"error", "done-unseen"}
  BY DEF CalmInv
<1>1. CASE Applies
  <2>1. ~bell /\ Looking
    <3>1. UNCHANGED <<activated, selected, bell>>
      BY <1>1, AppliedRow
    <3> QED BY <3>1 DEF Looking
  <2>2. ASSUME NEW state PROVE ~HasUnseen(SnapInputs, state)
    <3>1. \A i \in DOMAIN snap : \A id \in DOMAIN snap[i].records :
            snap[i].records[id].revision <= seen[snap[i].pane]
      BY <1>1, <2>1, AppliedRow DEF SnapInv
    <3>2. seen \in [Panes -> Nat] /\ snap \in Seq(PaneInputSet)
      BY <1>1, AppliedRow DEF SeenInv
    <3> QED BY <3>1, <3>2, InputsAreTab DEF SnapInputs
  <2>3. row'.state = Strongest(SnapInputs, bell)
    BY <1>1, AppliedRow
  <2> QED BY <2>1, <2>2, <2>3 DEF Strongest
<1>2. CASE ~Applies
  <2>1. CASE JoinedQuietly
    BY <2>1 DEF JoinedQuietly, Looking
  <2>2. CASE ~JoinedQuietly
    <3>1. AtRest /\ row' = row
      BY <1>2, <2>2, RestShape
    <3>2. bell' = bell /\ (Looking' => Looking) /\ "selected" \notin unnoticed
      <4>1. CASE Quiet
        BY <4>1 DEF Quiet
      <4>2. CASE UNCHANGED <<activated, selected, bell, unnoticed>>
        BY <4>2 DEF Looking
      <4>3. ~SelectedQuietly
        BY DEF SelectedQuietly
      <4> QED BY <1>2, <2>2, <4>1, <4>2, <4>3, RestShape DEF PaneChanges
    <3> QED BY <3>1, <3>2 DEF CalmInv
  <2> QED BY <2>1, <2>2
<1> QED BY <1>1, <1>2

\* A row at rest goes on asking for attention to every unseen report.
LEMMA AlertKept ==
    ASSUME RowInv, AlertInv, Next
    PROVE  AlertInv'
<1> USE DEF RowInv
<1> SUFFICES ASSUME AtRest', ~due', ~selecting',
                    NEW p \in Range(controls'), NEW id \in DOMAIN term'[p].records,
                    term'[p].records[id].revision > seen'[p],
                    term'[p].records[id].state \in {"done", "error"}
             PROVE  Rank(row'.state) >= Rank("done-unseen")
  BY DEF AlertInv
<1>1. CASE Applies
  <2>1. /\ ~due /\ term' = term /\ seen' = seen /\ controls' = controls /\ DOMAIN snap = DOMAIN controls
        /\ snap \in Seq(PaneInputSet) /\ pc = "apply"
    BY <1>1, AppliedRow
  <2>2. PICK i \in DOMAIN snap : controls[i] = p
    BY <2>1 DEF Range
  <2>3. snap[i].pane = p /\ snap[i].records = term[p].records
    BY <2>1, <2>2 DEF SnapInv
  <2>4. seen \in [Panes -> Nat] /\ snap[i] \in PaneInputSet
    BY <2>1 DEF SeenInv
  <2>5. p \in Panes /\ term[p].records \in RecordMaps
    BY <2>3, <2>4 DEF PaneInputSet
  <2>6. term[p].records[id].revision \in Int /\ seen[p] \in Int
    BY <2>1, <2>4, <2>5, RecordMapFacts, RowBoundsAssumption
  <2>7. ~(snap[i].records[id].revision <= seen[snap[i].pane])
    BY <2>1, <2>3, <2>6
  <2>8. HasUnseen(SnapInputs, "done") \/ HasUnseen(SnapInputs, "error")
    <3>1. id \in DOMAIN snap[i].records /\ snap[i].records[id].state \in {"done", "error"}
      BY <2>1, <2>3
    <3> QED BY <2>1, <2>4, <2>7, <3>1, InputsAreTab DEF SnapInputs
  <2>9. row'.state \in {"needs-you", "error", "done-unseen"}
    BY <1>1, <2>8, AppliedRow DEF Strongest
  <2> QED BY <2>9, RankValues
<1>2. CASE ~Applies
  <2>1. ~JoinedQuietly
    BY DEF JoinedQuietly
  <2>2. AtRest /\ row' = row
    BY <1>2, <2>1, RestShape
  <2>3. ~due /\ ~selecting /\ p \in Range(controls) /\ term'[p] = term[p] /\ seen' = seen
    <3>1. CASE \E q \in Panes : PaneChanges(q)
      <4>1. PICK q \in Panes : PaneChanges(q)
        BY <3>1
      <4>2. controls' = controls /\ seen' = seen /\ selecting' = selecting
        BY <4>1 DEF PaneChanges
      <4> QED BY <4>1, <4>2, TabUnchanged
    <3>2. CASE Quiet
      BY <3>2 DEF Quiet
    <3>3. CASE SelectedQuietly
      BY <3>3 DEF SelectedQuietly
    <3> QED BY <1>2, <2>1, <3>1, <3>2, <3>3, RestShape
  <2> QED BY <2>2, <2>3 DEF AlertInv
<1> QED BY <1>1, <1>2

\* The inputs of Derive depend on the panes of the tab and what is seen.
LEMMA InputsSame ==
    ASSUME UNCHANGED <<controls, seen>>, \A i \in DOMAIN controls : term'[controls[i]] = term[controls[i]]
    PROVE  CurrentInputs' = CurrentInputs
BY ZenonT(90) DEF CurrentInputs, InputOf

\* A row at rest with nothing due stays what Derive makes of the tab.
LEMMA CurrentKept ==
    ASSUME RowInv, CurrentInv, Next
    PROVE  CurrentInv'
<1> USE DEF RowInv
<1> SUFFICES ASSUME AtRest', ~due', "closed" \notin unnoticed', ~selecting'
             PROVE  row' = NewRow(Derive(CurrentInputs', bell', keep'))
  BY DEF CurrentInv, NewRow, BlankRow
<1>1. CASE Applies
  <2>1. UNCHANGED <<term, controls, seen, bell, keep>> /\ ~due /\ pc = "apply" /\ DOMAIN snap = DOMAIN controls
    BY <1>1, AppliedRow
  <2>2. ASSUME NEW i \in DOMAIN controls
        PROVE  /\ snap[i].pane = controls[i] /\ snap[i].records = term[controls[i]].records
               /\ snap[i].running = term[controls[i]].running
    BY <2>1 DEF SnapInv
  <2>3. SnapInputs = CurrentInputs
    BY <2>1, <2>2 DEF SnapInputs, CurrentInputs
  <2>4. CurrentInputs' = CurrentInputs
    BY <2>1, InputsSame
  <2>5. row' = NewRow(Derive(SnapInputs, bell, keep))
    BY <1>1, AppliedRow
  <2> QED BY <2>1, <2>3, <2>4, <2>5
<1>2. CASE ~Applies
  <2>1. ~JoinedQuietly
    BY DEF JoinedQuietly
  <2>2. AtRest /\ row' = row
    BY <1>2, <2>1, RestShape
  <2>3. /\ ~due /\ "closed" \notin unnoticed /\ ~selecting /\ UNCHANGED <<controls, seen, bell, keep>>
        /\ \A i \in DOMAIN controls : term'[controls[i]] = term[controls[i]]
    <3>1. CASE \E q \in Panes : PaneChanges(q)
      <4>1. PICK q \in Panes : PaneChanges(q)
        BY <3>1
      <4>2. UNCHANGED <<controls, seen, bell, keep, selecting, unnoticed>>
        BY <4>1 DEF PaneChanges
      <4>3. \A i \in DOMAIN controls : controls[i] \in Range(controls)
        BY DEF Range
      <4> QED BY <4>1, <4>2, <4>3, TabUnchanged
    <3>2. CASE Quiet
      BY <3>2 DEF Quiet
    <3>3. CASE SelectedQuietly
      BY <3>3 DEF SelectedQuietly
    <3> QED BY <1>2, <2>1, <3>1, <3>2, <3>3, RestShape
  <2>4. CurrentInputs' = CurrentInputs
    BY <2>3, InputsSame
  <2>5. row = NewRow(Derive(CurrentInputs, bell, keep))
    BY <2>2, <2>3 DEF CurrentInv
  <2> QED BY <2>2, <2>3, <2>4, <2>5
<1> QED BY <1>1, <1>2

\* A preview that a recompute leaves standing hides no report it has read.
LEMMA AppliedPreview ==
    ASSUME RowInv, PreviewInv, Applies, previewing', NEW i \in DOMAIN controls, ~due
    PROVE  MaxRecordRevision(term[controls[i]].records) <= baseline[controls[i]]
<1> USE DEF RowInv
<1> DEFINE p == controls[i]
           current == [q \in {snap[j].pane : j \in DOMAIN snap} |->
                         MaxRecordRevision((CHOOSE x \in Range(snap) : x.pane = q).records)]
<1>1. DOMAIN snap = DOMAIN controls /\ pc = "apply"
  BY AppliedRow
<1>2. \A j \in DOMAIN snap : snap[j].pane = controls[j] /\ snap[j].records = term[controls[j]].records
  BY <1>1 DEF SnapInv
<1>3. ~HasNewReport(baseline, current)
  BY DEF Applies
<1>4. PICK y \in Range(snap) : y.pane = p
  BY <1>1, <1>2 DEF Range
<1> DEFINE z == CHOOSE x \in Range(snap) : x.pane = p
<1>5. z \in Range(snap) /\ z.pane = p
  BY <1>4
<1> HIDE DEF z
<1>6. z.records = term[p].records
  BY <1>2, <1>5 DEF Range
<1>7. p \in DOMAIN current /\ current[p] = MaxRecordRevision(z.records)
  <2>1. p \in {snap[j].pane : j \in DOMAIN snap}
    BY <1>1, <1>2
  <2> QED BY <2>1 DEF z
<1>8. p \in Panes /\ term[p].records \in RecordMaps /\ DOMAIN baseline = Panes /\ baseline[p] \in Nat
  <2>1. p \in Panes
    BY <1>1, SnapWithin
  <2> QED BY <2>1 DEF TermInv, Terminals, PreviewInv
<1>9. MaxRecordRevision(term[p].records) \in Nat
  BY <1>8, MaxOfRecords
<1>10. ~(current[p] > baseline[p])
  <2> HIDE DEF current, p
  <2> QED BY <1>3, <1>7, <1>8 DEF HasNewReport
<1> HIDE DEF current
<1> QED BY <1>6, <1>7, <1>8, <1>9, <1>10

\* A preview does not become older than the reports it hides.
LEMMA PreviewKept ==
    ASSUME RowInv, PreviewInv, Next
    PROVE  PreviewInv'
<1> USE DEF RowInv
<1>0. /\ controls \in Seq(Panes) /\ DOMAIN controls = 1..Len(controls) /\ Len(controls) \in Nat
      /\ \A i \in DOMAIN controls : controls[i] \in Panes /\ controls[i] \in Range(controls)
  BY DEF TabInv, Range
<1>1. CASE \E p \in Panes : PaneChanges(p)
  <2>1. PICK p \in Panes : PaneChanges(p)
    BY <1>1
  <2>2. UNCHANGED <<controls, pc, next, selecting, previewing, baseline>>
    BY <2>1 DEF PaneChanges
  <2>3. ~due' => ~due /\ \A q \in Range(controls) : term'[q] = term[q]
    BY <2>1, TabUnchanged
  <2>4. ASSUME pc = "baseline", NEW i \in 1..(next - 1) PROVE controls[i] \in Range(controls)
    <3>1. next \in 1..Len(controls)
      BY <2>4 DEF PcInv
    <3>2. i \in DOMAIN controls
      BY <1>0, <3>1
    <3> QED BY <1>0, <3>2
  <2> QED BY <2>2, <2>3, <2>4 DEF PreviewInv
<1>2. CASE Starts
  BY <1>2 DEF Starts, PreviewInv
<1>3. CASE Quiet
  BY <1>3 DEF Quiet, PreviewInv, UiIdle
<1>4. CASE JoinedQuietly
  BY <1>4 DEF JoinedQuietly, PreviewInv
<1>9. CASE SelectedQuietly
  BY <1>9 DEF SelectedQuietly, PreviewInv
<1>5. CASE AcknowledgesPane \/ ReadsRecords \/ ReadsRunning
  <2>1. baseline' = baseline /\ pc' \notin {"idle", "select", "baseline"}
    BY <1>5 DEF AcknowledgesPane, ReadsRecords, ReadsRunning, previewVars
  <2> QED BY <2>1 DEF PreviewInv
<1>6. CASE PreviewChosen
  <2>1. baseline' = [p \in Panes |-> 0] /\ pc' = "baseline" /\ next' = 1
    BY <1>6 DEF PreviewChosen
  <2> QED BY <2>1 DEF PreviewInv
<1>7. CASE PreviewReadsPane
  <2> DEFINE p == controls[next]
             m == MaxRecordRevision(term[p].records)
             n == Len(controls)
  <2>1. /\ pc = "baseline" /\ baseline' = [baseline EXCEPT ![p] = m]
        /\ next' = (IF next = n THEN 1 ELSE next + 1) /\ pc' = (IF next = n THEN "idle" ELSE "baseline")
        /\ UNCHANGED <<term, due, controls>>
    BY <1>7 DEF PreviewReadsPane, termVars, tabVars
  <2>2. next \in 1..n /\ p \in Panes /\ m \in Nat /\ n \in Nat
    BY <1>0, <2>1, AtPane
  <2>3. baseline' \in [Panes -> Nat]
    BY <2>1, <2>2 DEF PreviewInv
  <2>4. ASSUME ~due, NEW i \in 1..next
        PROVE  MaxRecordRevision(term'[controls'[i]].records) <= baseline'[controls'[i]]
    <3>1. controls[i] \in Panes
      BY <1>0, <2>2
    <3>2. CASE controls[i] = p
      <4>1. MaxRecordRevision(term[controls[i]].records) = m /\ baseline'[p] = m
        BY <2>1, <2>2, <3>2 DEF PreviewInv
      <4> HIDE DEF m
      <4> QED BY <2>1, <2>2, <3>2, <4>1
    <3>3. CASE controls[i] # p
      <4>1. i \in 1..(next - 1)
        BY <2>2, <3>3
      <4>2. MaxRecordRevision(term[controls[i]].records) <= baseline[controls[i]]
        BY <2>1, <2>4, <4>1 DEF PreviewInv
      <4>3. baseline'[controls[i]] = baseline[controls[i]]
        BY <2>1, <3>1, <3>3 DEF PreviewInv
      <4> QED BY <2>1, <4>2, <4>3
    <3> QED BY <3>2, <3>3
  <2>5. CASE next = n
    <3>1. pc' = "idle" /\ \A q \in Range(controls') : \E i \in 1..next : controls'[i] = q
      BY <1>0, <2>1, <2>5 DEF Range
    <3>2. (~due') => \A q \in Range(controls') : MaxRecordRevision(term'[q].records) <= baseline'[q]
      BY <2>1, <2>4, <3>1
    <3> QED BY <2>3, <3>1, <3>2 DEF PreviewInv
  <2>6. CASE next # n
    <3>1. pc' = "baseline" /\ next' - 1 = next
      BY <2>1, <2>2, <2>6
    <3>2. (~due') => \A i \in 1..next : MaxRecordRevision(term'[controls'[i]].records) <= baseline'[controls'[i]]
      BY <2>1, <2>4
    <3> QED BY <2>3, <3>1, <3>2 DEF PreviewInv
  <2> QED BY <2>5, <2>6
<1>8. CASE Applies
  <2>1. UNCHANGED <<term, due, controls, baseline>> /\ pc' # "baseline"
    BY <1>8, AppliedRow
  <2>2. ASSUME ~due', previewing', NEW p \in Range(controls')
        PROVE  MaxRecordRevision(term'[p].records) <= baseline'[p]
    <3>1. PICK i \in DOMAIN controls : controls[i] = p
      BY <2>1 DEF Range
    <3>2. MaxRecordRevision(term[p].records) <= baseline[p]
      BY <1>8, <2>1, <2>2, <3>1, AppliedPreview
    <3> QED BY <2>1, <3>2
  <2> QED BY <2>1, <2>2 DEF PreviewInv
<1> QED BY <1>1, <1>2, <1>3, <1>4, <1>5, <1>6, <1>7, <1>8, <1>9, StepShape

-----------------------------------------------------------------------------
(* The theorems *)

ShownInv == CurrentInv /\ CalmInv /\ AlertInv /\ PreviewInv

\* In the beginning the blank row is what Derive makes of a tab with one
\* silent pane.
LEMMA ShownInvInit == Init => ShownInv
<1> SUFFICES ASSUME Init PROVE ShownInv
  OBVIOUS
<1>1. PICK p \in Panes : controls = <<p>>
  BY DEF Init
<1>2. RowInv
  BY RowInvInit
<1>3. term[p].records = NoRecords /\ term[p].records \in RecordMaps /\ DOMAIN NoRecords = {} /\ ~term[p].running
  BY <1>2 DEF Init, NoRecords, RowInv, TermInv, Terminals
<1> DEFINE read == [pane |-> p, records |-> term[p].records, running |-> term[p].running]
           reads == <<read>>
<1>4. reads \in Seq(PaneInputSet) /\ DOMAIN reads = {1} /\ reads[1] = read /\ DOMAIN controls = {1} /\ controls[1] = p
  <2>1. read \in PaneInputSet
    BY <1>2, <1>3 DEF PaneInputSet, RowInv, TermInv, Terminals
  <2> HIDE DEF read
  <2> QED BY <1>1, <2>1
<1>5. CurrentInputs = [i \in DOMAIN reads |-> InputOf(reads[i].pane, reads[i].records, reads[i].running)]
  <2> HIDE DEF reads
  <2> QED BY <1>4 DEF CurrentInputs
<1>6. IsTab(CurrentInputs) /\ DOMAIN CurrentInputs = {1}
  <2>1. seen \in [Panes -> Nat]
    BY DEF Init
  <2> HIDE DEF reads
  <2> QED BY <1>4, <1>5, <2>1, InputsAreTab
<1>7. CurrentInputs[1].records = <<>> /\ ~CurrentInputs[1].running
  <2>1. CurrentInputs[1] = InputOf(p, term[p].records, term[p].running)
    BY <1>4 DEF CurrentInputs
  <2>2. seen[p] \in Nat /\ term[p].running \in BOOLEAN /\ DOMAIN term[p].records = {}
    BY <1>3 DEF Init
  <2> QED BY <1>3, <2>1, <2>2, InputIsPane
<1>8. Derive(CurrentInputs, FALSE, TRUE) = BlankRow
  BY <1>6, <1>7, NothingToShow DEF BlankRow
<1>9. NewRow(BlankRow) = BlankRow
  BY DEF NewRow, BlankRow
<1>10. CurrentInv
  <2>1. row = BlankRow /\ bell = FALSE /\ keep = TRUE
    BY DEF Init
  <2>2. NewRow(Derive(CurrentInputs, bell, keep)) = NewRow(BlankRow)
    BY <1>8, <2>1
  <2> QED BY <1>9, <2>1, <2>2 DEF CurrentInv
<1>11. CalmInv
  BY DEF Init, CalmInv, BlankRow
<1>12. AlertInv
  <2>1. Range(controls) = {p}
    BY <1>4 DEF Range
  <2> QED BY <1>3, <2>1 DEF AlertInv
<1>13. PreviewInv
  BY DEF Init, PreviewInv
<1> QED BY <1>10, <1>11, <1>12, <1>13 DEF ShownInv

\* A step that changes nothing keeps it.
LEMMA ShownInvStutters ==
    ASSUME ShownInv, UNCHANGED vars
    PROVE  ShownInv'
<1> USE DEF vars, termVars, paneVars, tabVars, bellVars, uiVars, previewVars
<1>1. CurrentInputs' = CurrentInputs
  BY InputsSame
<1>2. CurrentInv'
  BY <1>1 DEF ShownInv, CurrentInv, AtRest, NewRow, BlankRow
<1>3. CalmInv'
  BY DEF ShownInv, CalmInv, AtRest, Looking
<1>4. AlertInv'
  BY DEF ShownInv, AlertInv, AtRest
<1>5. PreviewInv'
  BY DEF ShownInv, PreviewInv
<1> QED BY <1>2, <1>3, <1>4, <1>5 DEF ShownInv

\* What a row at rest shows.
LEMMA ShownInvHolds == Spec => [](RowInv /\ ShownInv)
<1>1. ASSUME RowInv, ShownInv, [Next]_vars PROVE ShownInv'
  <2>1. CASE Next
    BY <1>1, <2>1, CurrentKept, CalmKept, AlertKept, PreviewKept DEF ShownInv
  <2>2. CASE UNCHANGED vars
    BY <1>1, <2>2, ShownInvStutters
  <2> QED BY <1>1, <2>1, <2>2
<1> QED BY <1>1, ShownInvInit, RowInvHolds, PTL DEF Spec

\* A settled row shows what its tab is in, unless a pane closed in the
\* background: every event that changes an input of Derive recomputes.
THEOREM SettledRowIsCurrent == Spec => []RowIsCurrentButForClosed
<1>1. RowInv /\ ShownInv => RowIsCurrentButForClosed
  <2> SUFFICES ASSUME RowInv, ShownInv, "closed" \notin unnoticed, Settled,
                      NEW f \in DOMAIN Derive(CurrentInputs, bell, keep)
               PROVE  row[f] = Derive(CurrentInputs, bell, keep)[f]
    BY DEF RowIsCurrentButForClosed, RowIsCurrent
  <2>1. row = NewRow(Derive(CurrentInputs, bell, keep))
    BY DEF ShownInv, CurrentInv, AtRest, Settled, UiIdle
  <2>2. f \in DOMAIN BlankRow
    BY DEF Derive, BlankRow
  <2> QED BY <2>1, <2>2 DEF NewRow
<1> QED BY <1>1, ShownInvHolds, PTL

\* The panes of the tab, as Derive would read them now.
LEMMA CurrentTab ==
    ASSUME RowInv
    PROVE  IsTab(CurrentInputs) /\ bell \in BOOLEAN /\ keep \in BOOLEAN
<1> USE DEF RowInv
<1> DEFINE reads == [i \in DOMAIN controls |->
                      [pane |-> controls[i], records |-> term[controls[i]].records, running |-> term[controls[i]].running]]
<1>1. controls \in Seq(Panes) /\ DOMAIN controls = 1..Len(controls) /\ Len(controls) \in Nat
  BY DEF TabInv
<1>2. ASSUME NEW i \in DOMAIN controls
      PROVE  [pane |-> controls[i], records |-> term[controls[i]].records, running |-> term[controls[i]].running]
               \in PaneInputSet
  <2>1. controls[i] \in Panes
    BY <1>1
  <2>2. term[controls[i]].records \in RecordMaps /\ term[controls[i]].running \in BOOLEAN
    BY <2>1 DEF TermInv, Terminals
  <2> QED BY <2>1, <2>2 DEF PaneInputSet
<1>3. reads \in Seq(PaneInputSet)
  BY <1>1, <1>2
<1>4. CurrentInputs = [i \in DOMAIN reads |-> InputOf(reads[i].pane, reads[i].records, reads[i].running)]
  BY DEF CurrentInputs
<1>5. seen \in [Panes -> Nat]
  BY DEF SeenInv
<1> HIDE DEF reads
<1> QED BY <1>3, <1>4, <1>5, InputsAreTab DEF TabInv, Flags

\* A settled row, unless a pane closed in the background, is what Derive makes
\* of the tab.
LEMMA SettledRow ==
    ASSUME RowInv, ShownInv, Settled, "closed" \notin unnoticed
    PROVE  /\ row.state = Derive(CurrentInputs, bell, keep).state
           /\ row.message = Derive(CurrentInputs, bell, keep).message
<1>1. row = NewRow(Derive(CurrentInputs, bell, keep))
  BY DEF ShownInv, CurrentInv, AtRest, Settled, UiIdle
<1>2. "state" \in DOMAIN BlankRow /\ "message" \in DOMAIN BlankRow
  BY DEF BlankRow
<1> QED BY <1>1, <1>2 DEF NewRow

\* A settled row shows the strongest state of any pane of its tab, however
\* many panes and records it has (AxanSessionState.h, Derive).
THEOREM RowShowsStrongest == Spec => []StrongestShown
<1>1. RowInv /\ ShownInv => StrongestShown
  BY SettledRow, CurrentTab, DeriveShowsStrongest DEF StrongestShown
<1> QED BY <1>1, ShownInvHolds, PTL

\* Its message is that of a report in the shown state: a root program's if
\* there is one, and never one its own terminal has replaced.
THEOREM RowShowsPreferred == Spec => []MessageFromPreferred
<1>1. RowInv /\ ShownInv => MessageFromPreferred
  <2> SUFFICES ASSUME RowInv, ShownInv, Settled, "closed" \notin unnoticed, row.message \notin {Nothing, <<"bell">>}
               PROVE  \E x \in AllRecords(CurrentInputs) :
                        row.message = ReportKey(x[1], x[2]) /\ GoesFirst(CurrentInputs, x, row.state)
    BY DEF MessageFromPreferred
  <2>1. IsTab(CurrentInputs) /\ bell \in BOOLEAN /\ keep \in BOOLEAN
    BY CurrentTab
  <2>2. /\ row.state = Derive(CurrentInputs, bell, keep).state
        /\ row.message = Derive(CurrentInputs, bell, keep).message
    BY SettledRow
  <2>3. PICK x \in AllRecords(CurrentInputs) :
          row.message = ReportKey(x[1], x[2]) /\ IsPreferred(CurrentInputs, x, row.state)
    BY <2>1, <2>2, DeriveShowsPreferred
  <2>4. GoesFirst(CurrentInputs, x, row.state)
    BY <2>1, <2>3, PreferredGoesFirst
  <2> QED BY <2>3, <2>4
<1> QED BY <1>1, ShownInvHolds, PTL

\* Seeing the reports of a row that then rests does not change which report's
\* age the row shows.
THEOREM RowKeepsAge == Spec => []AgeSurvivesSeeing
<1>1. RowInv => AgeSurvivesSeeing
  BY CurrentTab, DeriveKeepsAge DEF AgeSurvivesSeeing
<1> QED BY <1>1, RowInvHolds, PTL

\* A done or an error that nobody has looked at is on the row.
THEOREM UnlookedIsShown == Spec => []AttentionKept
<1>1. RowInv /\ ShownInv => AttentionKept
  <2> SUFFICES ASSUME RowInv, ShownInv, Settled, NEW p \in Range(controls), NEW id \in DOMAIN term[p].records,
                      term[p].records[id].revision > looked[p],
                      term[p].records[id].state \in {"done", "error"}
               PROVE  Rank(row.state) >= Rank("done-unseen")
    BY DEF AttentionKept
  <2>1. p \in Panes
    BY DEF RowInv, TabInv, Range
  <2>2. seen[p] <= looked[p] /\ seen[p] \in Nat /\ looked[p] \in Nat
    BY <2>1 DEF RowInv, SeenInv
  <2>3. term[p].records \in RecordMaps
    BY <2>1 DEF RowInv, TermInv, Terminals
  <2>4. term[p].records[id].revision \in Int
    BY <2>3, RecordMapFacts, RowBoundsAssumption
  <2>5. term[p].records[id].revision > seen[p]
    BY <2>2, <2>4
  <2> QED BY <2>5 DEF ShownInv, AlertInv, AtRest, Settled, UiIdle
<1> QED BY <1>1, ShownInvHolds, PTL

\* What the user looks at does not ask for attention, but for the tab that a
\* removal has just selected: every other way to look acknowledges.
THEOREM LookedAtIsCalm == Spec => []LookedIsSeenButForRemoval
<1>1. RowInv /\ ShownInv => LookedIsSeenButForRemoval
  BY DEF ShownInv, CalmInv, LookedIsSeenButForRemoval, AtRest, Settled, UiIdle
<1> QED BY <1>1, ShownInvHolds, PTL

\* A preview hides no newer report.
THEOREM PreviewsEnd == Spec => []PreviewEndsWithReport
<1>1. RowInv /\ ShownInv => PreviewEndsWithReport
  BY DEF ShownInv, PreviewInv, PreviewEndsWithReport, Settled, UiIdle
<1> QED BY <1>1, ShownInvHolds, PTL

===============================================================================
