--------------------------- MODULE Updates_proofs ---------------------------
(***************************************************************************)
(* Theorems about Updates: what the user chose outlasts saves, checks and  *)
(* restarts, failing checks do not make the scheduler fetch on every tick, *)
(* the newest release is chosen and offered, and what a check found stays  *)
(* on show.  They hold for any goroutines, releases, window and bounds.    *)
(***************************************************************************)
EXTENDS Updates, FiniteSetTheorems, WellFoundedInduction, TLAPS

-----------------------------------------------------------------------------
(* Least and greatest numbers, and induction over the positions of a list. *)

\* A non-empty set of numbers has a least element.
LEMMA Least ==
  ASSUME NEW S, S \subseteq Nat, S # {}
  PROVE  \E m \in S : \A n \in S : m <= n
  <1> DEFINE R == {ss \in Nat \X Nat : ss[1] < ss[2]}
  <1>1. IsWellFoundedOn(R, Nat)
    BY NatLessThanWellFounded, Zenon DEF OpToRel
  <1> HIDE DEF R
  <1>2. PICK m \in S : \A n \in S : <<n, m>> \notin R
    BY <1>1, WFMin
  <1>3. \A n \in S : ~(n < m)
    BY <1>2 DEF R
  <1> QED BY <1>3

\* A set that holds 0 and the successor of each of its members holds every number.
LEMMA Induction ==
  ASSUME NEW S, 0 \in S, \A n \in Nat : n \in S => n + 1 \in S
  PROVE  Nat \subseteq S
  <1> SUFFICES ASSUME Nat \ S # {} PROVE FALSE
    OBVIOUS
  <1>1. PICK m \in Nat \ S : \A n \in Nat \ S : m <= n
    BY Least
  <1>2. m - 1 \in Nat /\ m - 1 \in S
    BY <1>1
  <1> QED BY <1>1, <1>2

\* A non-empty set of bounded numbers has a greatest element.
LEMMA Greatest ==
  ASSUME NEW top \in Nat, NEW S, S \subseteq 0..top, S # {}
  PROVE  /\ Max(S) \in S /\ \A n \in S : n <= Max(S)
  <1> DEFINE Bounds == {b \in Nat : \A n \in S : n <= b}
  <1>1. PICK b \in Bounds : \A c \in Bounds : b <= c
    <2>1. top \in Bounds
      OBVIOUS
    <2> QED BY <2>1, Least
  <1>2. b \in S
    <2> SUFFICES ASSUME b \notin S PROVE FALSE
      OBVIOUS
    <2>1. PICK n : n \in S
      OBVIOUS
    <2>4. n \in Nat /\ n <= b
      BY <2>1, <1>1
    <2>2. b # 0 /\ \A k \in S : k <= b - 1
      BY <1>1, <2>1, <2>4
    <2>3. b - 1 \in Bounds
      BY <1>1, <2>2
    <2> QED BY <1>1, <2>3
  <1>3. \E x \in S : \A y \in S : x >= y
    BY <1>1, <1>2
  <1> QED BY <1>3 DEF Max

\* What a release of the list does to the best one before it.
Choose(best, r) ==
  IF r.stable /\ (best = NoRelease \/ compareSemver(best, r.version)) THEN r.version ELSE best

\* g is the fold on the subsets of the positions S of the list s.
Folds(g, S, s) ==
  g = [P \in SUBSET S |->
         IF P = {} THEN NoRelease ELSE Choose(g[P \ {Max(P)}], s[Max(P)])]

\* There is such a function for the first n positions.
LEMMA FoldExists ==
  ASSUME NEW s, NEW n \in Nat
  PROVE  \E g : Folds(g, 1..n, s)
  <1> DEFINE Reached == {k \in Nat : \E g : Folds(g, 1..k, s)}
  <1>1. 0 \in Reached
    <2>1. Folds([P \in SUBSET (1..0) |-> NoRelease], 1..0, s)
      BY DEF Folds
    <2> QED BY <2>1
  <1>2. ASSUME NEW k \in Nat, k \in Reached PROVE k + 1 \in Reached
    <2>1. PICK g : Folds(g, 1..k, s)
      BY <1>2
    <2> DEFINE h == [P \in SUBSET (1..(k + 1)) |->
                       IF P = {} THEN NoRelease ELSE Choose(g[P \ {Max(P)}], s[Max(P)])]
    <2>2. ASSUME NEW P \in SUBSET (1..(k + 1)), P # {}
          PROVE  P \ {Max(P)} \in SUBSET (1..k) /\ Max(P) \in P
      <3>1. P \subseteq 0..(k + 1)
        OBVIOUS
      <3>2. Max(P) \in P /\ \A m \in P : m <= Max(P)
        <4>1. k + 1 \in Nat
          OBVIOUS
        <4> HIDE DEF h, Reached
        <4> QED BY <2>2, <3>1, <4>1, Greatest, Zenon
      <3>3. ASSUME NEW m \in P \ {Max(P)} PROVE m \in 1..k
        <4>1. /\ m \in 1..(k + 1) /\ Max(P) \in 1..(k + 1)
              /\ m <= Max(P) /\ m # Max(P)
          BY <3>2
        <4> QED BY <4>1
      <3> QED BY <3>2, <3>3
    <2>3. ASSUME NEW P \in SUBSET (1..k) PROVE h[P] = g[P]
      <3>1. P \in SUBSET (1..(k + 1))
        OBVIOUS
      <3>2. h[P] = IF P = {} THEN NoRelease ELSE Choose(g[P \ {Max(P)}], s[Max(P)])
        BY <3>1
      <3>3. g[P] = IF P = {} THEN NoRelease ELSE Choose(g[P \ {Max(P)}], s[Max(P)])
        BY <2>1 DEF Folds
      <3> QED BY <3>2, <3>3
    <2>4. ASSUME NEW P \in SUBSET (1..(k + 1))
          PROVE  h[P] = IF P = {} THEN NoRelease ELSE Choose(h[P \ {Max(P)}], s[Max(P)])
      <3>1. CASE P = {}
        BY <3>1
      <3>2. CASE P # {}
        <4>1. h[P \ {Max(P)}] = g[P \ {Max(P)}]
          BY <2>2, <2>3, <3>2
        <4>2. h[P] = Choose(g[P \ {Max(P)}], s[Max(P)])
          BY <3>2
        <4> QED BY <3>2, <4>1, <4>2
      <3> QED BY <3>1, <3>2
    <2> HIDE DEF h
    <2>5. h = [P \in SUBSET (1..(k + 1)) |-> h[P]]
      BY DEF h
    <2>6. Folds(h, 1..(k + 1), s)
      BY <2>4, <2>5 DEF Folds
    <2> QED BY <2>6
  <1> QED BY <1>1, <1>2, Induction

\* FetchLatestRelease reads the list from its first entry to its last.
LEMMA ReadsInOrder ==
  ASSUME NEW s, NEW n \in Nat, DOMAIN s = 1..n
  PROVE  \E h : /\ h[0] = NoRelease /\ h[n] = FetchLatestRelease(s)
               /\ \A k \in 1..n : h[k] = Choose(h[k - 1], s[k])
  <1>1. FetchLatestRelease(s) = (CHOOSE g : Folds(g, DOMAIN s, s))[DOMAIN s]
    BY DEF FetchLatestRelease, FoldLeft, MapThenFoldSet, Folds, Choose
  <1>2. PICK g : Folds(g, 1..n, s) /\ FetchLatestRelease(s) = g[1..n]
    BY <1>1, FoldExists
  <1> DEFINE h == [k \in 0..n |-> g[1..k]]
  <1>3. h[0] = NoRelease
    <2>1. 1..0 = {} /\ {} \in SUBSET (1..n)
      OBVIOUS
    <2> QED BY <1>2, <2>1 DEF Folds
  <1>4. ASSUME NEW k \in 1..n PROVE h[k] = Choose(h[k - 1], s[k])
    <2>1. k \in Nat /\ k \in 1..k /\ 1..k \in SUBSET (1..n) /\ 1..k \subseteq 0..k
      OBVIOUS
    <2>2. Max(1..k) = k
      <3>1. Max(1..k) \in 1..k /\ k <= Max(1..k)
        BY <2>1, Greatest, Zenon
      <3> QED BY <3>1
    <2>3. (1..k) \ {k} = 1..(k - 1)
      OBVIOUS
    <2>4. g[1..k] = Choose(g[1..(k - 1)], s[k])
      BY <1>2, <2>1, <2>2, <2>3 DEF Folds
    <2> QED BY <2>4
  <1>5. h[n] = FetchLatestRelease(s)
    BY <1>2
  <1> HIDE DEF h
  <1> QED BY <1>3, <1>4, <1>5

-----------------------------------------------------------------------------
(* The order of versions.                                                  *)

LEMMA SegmentType == \A segs \in Seq(Nat), i \in Nat \ {0} : segAt(segs, i) \in Nat
  BY DEF segAt

\* The first segment in which a is before b.
Before(a, b, i) ==
  /\ segAt(a, i) < segAt(b, i)
  /\ \A j \in Nat \ {0} : j < i => segAt(a, j) = segAt(b, j)

\* compareNumericSegments finds it, though it looks no further than the longer list.
LEMMA FirstSegment ==
  ASSUME NEW a \in Seq(Nat), NEW b \in Seq(Nat)
  PROVE  compareNumericSegments(a, b) <=> \E i \in Nat \ {0} : Before(a, b, i)
  <1> DEFINE D == {i \in DOMAIN a \cup DOMAIN b : segAt(a, i) # segAt(b, i)}
  <1>1. DOMAIN a = 1..Len(a) /\ DOMAIN b = 1..Len(b) /\ Len(a) \in Nat /\ Len(b) \in Nat
    OBVIOUS
  <1>2. ASSUME NEW i \in Nat \ {0} PROVE i \in D <=> segAt(a, i) # segAt(b, i)
    BY <1>1 DEF segAt
  <1>3. \A i \in D : i \in Nat \ {0}
    BY <1>1
  <1>4. compareNumericSegments(a, b)
          <=> \E i \in D : (\A j \in D : i <= j) /\ segAt(a, i) < segAt(b, i)
    BY DEF compareNumericSegments
  <1> HIDE DEF D
  <1>5. ASSUME NEW i \in D, \A j \in D : i <= j, segAt(a, i) < segAt(b, i)
        PROVE  i \in Nat \ {0} /\ Before(a, b, i)
    <2>1. i \in Nat \ {0}
      BY <1>3
    <2>2. ASSUME NEW j \in Nat \ {0}, j < i PROVE segAt(a, j) = segAt(b, j)
      <3>1. j \notin D
        BY <1>5, <2>1, <2>2
      <3> QED BY <1>2, <3>1
    <2> QED BY <1>5, <2>1, <2>2 DEF Before
  <1>6. ASSUME NEW i \in Nat \ {0}, Before(a, b, i)
        PROVE  i \in D /\ (\A j \in D : i <= j) /\ segAt(a, i) < segAt(b, i)
    <2>1. segAt(a, i) \in Nat /\ segAt(b, i) \in Nat
      BY SegmentType
    <2>2. segAt(a, i) < segAt(b, i) /\ segAt(a, i) # segAt(b, i)
      BY <1>6, <2>1 DEF Before
    <2>3. ASSUME NEW j \in D PROVE i <= j
      <3>1. j \in Nat \ {0} /\ segAt(a, j) # segAt(b, j)
        BY <1>2, <1>3
      <3> QED BY <1>6, <3>1 DEF Before
    <2> QED BY <1>2, <2>2, <2>3
  <1> QED BY <1>4, <1>5, <1>6

\* Two lists of segments agree up to i or differ first somewhere up to i.
LEMMA AgreeOrDiffer ==
  ASSUME NEW a \in Seq(Nat), NEW b \in Seq(Nat), NEW i \in Nat \ {0}
  PROVE  \/ \A j \in 1..i : segAt(a, j) = segAt(b, j)
         \/ \E j \in 1..i : Before(a, b, j) \/ Before(b, a, j)
  <1> DEFINE D == {j \in 1..i : segAt(a, j) # segAt(b, j)}
  <1>1. CASE D = {}
    BY <1>1
  <1>2. CASE D # {}
    <2>1. PICK m \in D : \A n \in D : m <= n
      <3>1. D \subseteq Nat
        OBVIOUS
      <3> HIDE DEF D
      <3> QED BY <1>2, <3>1, Least
    <2>2. \A j \in Nat \ {0} : j < m => segAt(a, j) = segAt(b, j)
      BY <2>1
    <2>3. segAt(a, m) < segAt(b, m) \/ segAt(b, m) < segAt(a, m)
      BY <2>1, SegmentType
    <2> QED BY <2>1, <2>2, <2>3 DEF Before
  <1> QED BY <1>1, <1>2

\* compareNumericSegments is a strict order whose ties are equal.
LEMMA NumericOrder ==
  ASSUME NEW a \in Seq(Nat), NEW b \in Seq(Nat), compareNumericSegments(a, b)
  PROVE  /\ ~compareNumericSegments(b, a)
         /\ \A c \in Seq(Nat) : compareNumericSegments(a, c) \/ compareNumericSegments(c, b)
  <1>1. PICK i \in Nat \ {0} : Before(a, b, i)
    BY FirstSegment
  <1>2. ~compareNumericSegments(b, a)
    <2> SUFFICES ASSUME NEW j \in Nat \ {0}, Before(b, a, j) PROVE FALSE
      BY FirstSegment
    <2>1. /\ segAt(a, i) \in Nat /\ segAt(b, i) \in Nat
          /\ segAt(a, j) \in Nat /\ segAt(b, j) \in Nat
      BY SegmentType
    <2> QED BY <1>1, <2>1 DEF Before
  <1>3. ASSUME NEW c \in Seq(Nat)
        PROVE  compareNumericSegments(a, c) \/ compareNumericSegments(c, b)
    <2>1. /\ segAt(a, i) \in Nat /\ segAt(b, i) \in Nat /\ segAt(c, i) \in Nat
      BY SegmentType
    <2>2. CASE \A j \in 1..i : segAt(a, j) = segAt(c, j)
      <3>1. Before(c, b, i)
        BY <1>1, <2>1, <2>2 DEF Before
      <3> QED BY <3>1, FirstSegment
    <2>3. ASSUME NEW j \in 1..i, Before(a, c, j)
          PROVE  compareNumericSegments(a, c)
      BY <2>3, FirstSegment
    <2>4. ASSUME NEW j \in 1..i, Before(c, a, j)
          PROVE  compareNumericSegments(c, b)
      <3>1. segAt(a, j) \in Nat /\ segAt(b, j) \in Nat /\ segAt(c, j) \in Nat
        BY SegmentType
      <3>2. \A k \in Nat \ {0} : k < j => segAt(c, k) = segAt(b, k)
        BY <1>1, <2>4 DEF Before
      <3>3. segAt(c, j) < segAt(b, j)
        <4>1. CASE j < i
          BY <1>1, <2>4, <3>1, <4>1 DEF Before
        <4>2. CASE j = i
          BY <1>1, <2>1, <2>4, <4>2 DEF Before
        <4> QED BY <4>1, <4>2
      <3>4. Before(c, b, j)
        BY <3>2, <3>3 DEF Before
      <3> QED BY <3>4, FirstSegment
    <2> QED BY <2>2, <2>3, <2>4, AgreeOrDiffer
  <1> QED BY <1>2, <1>3

\* So is compareSemver: no version is before itself, and whatever is before
\* another is before or behind any third.
LEMMA VersionOrder ==
  ASSUME NEW a \in Version, NEW b \in Version, compareSemver(a, b)
  PROVE  /\ ~compareSemver(b, a)
         /\ \A c \in Version : compareSemver(a, c) \/ compareSemver(c, b)
  <1>1. \A v \in Version : v.main \in Seq(Nat) /\ v.pre \in Nat
    BY DEF Version
  <1>2. ~compareSemver(b, a)
    BY <1>1, NumericOrder DEF compareSemver
  <1>3. ASSUME NEW c \in Version PROVE compareSemver(a, c) \/ compareSemver(c, b)
    <2>1. CASE compareNumericSegments(a.main, b.main)
      BY <1>1, <2>1, NumericOrder DEF compareSemver
    <2>2. CASE ~compareNumericSegments(a.main, b.main)
      <3>1. ~compareNumericSegments(b.main, a.main) /\ a.pre # 0 /\ (b.pre = 0 \/ a.pre < b.pre)
        BY <2>2 DEF compareSemver
      <3>2. CASE compareNumericSegments(c.main, a.main)
        BY <1>1, <3>1, <3>2, NumericOrder DEF compareSemver
      <3>3. CASE compareNumericSegments(b.main, c.main)
        BY <1>1, <3>1, <3>3, NumericOrder DEF compareSemver
      <3>4. CASE ~compareNumericSegments(c.main, a.main) /\ ~compareNumericSegments(b.main, c.main)
        BY <1>1, <3>1, <3>4 DEF compareSemver
      <3> QED BY <3>2, <3>3, <3>4
    <2> QED BY <2>1, <2>2
  <1> QED BY <1>2, <1>3

LEMMA VersionOrderTransitive ==
  ASSUME NEW a \in Version, NEW b \in Version, NEW c \in Version,
         compareSemver(a, b), compareSemver(b, c)
  PROVE  compareSemver(a, c)
  BY VersionOrder

LEMMA ReleaseTypes ==
  ASSUME NEW s \in Seq(Release)
  PROVE  /\ Len(s) \in Nat /\ DOMAIN s = 1..Len(s)
         /\ \A i \in 1..Len(s) : s[i].version \in Version /\ s[i].stable \in BOOLEAN
  <1>1. \A i \in 1..Len(s) : s[i] \in Release
    OBVIOUS
  <1>2. \A r \in Release : r.version \in Version /\ r.stable \in BOOLEAN
    BY DEF Release
  <1> QED BY <1>1, <1>2

\* v is the first of the highest stable releases among the first n of the list s.
FirstHighest(s, n, v) ==
  \/ v = NoRelease /\ \A j \in 1..n : ~s[j].stable
  \/ \E i \in 1..n :
       /\ s[i].stable /\ v = s[i].version
       /\ \A j \in 1..n : s[j].stable =>
            /\ ~compareSemver(v, s[j].version)
            /\ j < i => compareSemver(s[j].version, v)

\* FetchLatestRelease chooses the first of the highest stable releases of any
\* list, by an order in which every list has one.
THEOREM NewestIsChosen ==
  ASSUME NEW s \in Seq(Release)
  PROVE  FirstHighest(s, Len(s), FetchLatestRelease(s))
  <1>1. /\ Len(s) \in Nat /\ DOMAIN s = 1..Len(s)
        /\ \A i \in 1..Len(s) : s[i].version \in Version /\ s[i].stable \in BOOLEAN
    BY ReleaseTypes
  <1>2. PICK h : /\ h[0] = NoRelease /\ h[Len(s)] = FetchLatestRelease(s)
                 /\ \A k \in 1..Len(s) : h[k] = Choose(h[k - 1], s[k])
    BY <1>1, ReadsInOrder
  <1> DEFINE Right == {k \in Nat : k <= Len(s) => FirstHighest(s, k, h[k])}
  <1>3. 0 \in Right
    BY <1>2 DEF FirstHighest
  <1>4. ASSUME NEW k \in Nat, k \in Right, k + 1 <= Len(s)
        PROVE  FirstHighest(s, k + 1, h[k + 1])
    <2>1. FirstHighest(s, k, h[k]) /\ h[k + 1] = Choose(h[k], s[k + 1])
      BY <1>1, <1>2, <1>4
    <2> DEFINE r == s[k + 1]
    <2>2. r.version \in Version /\ \A j \in 1..(k + 1) : s[j].version \in Version
      BY <1>1, <1>4
    <2>3. \A j \in 1..(k + 1) : j \in 1..k \/ j = k + 1
      OBVIOUS
    <2>4. CASE ~r.stable
      BY <2>1, <2>3, <2>4 DEF Choose, FirstHighest
    <2>5. CASE r.stable /\ h[k] = NoRelease
      <3>1. \A j \in 1..k : ~s[j].stable
        BY <2>1, <2>2, <2>5, VersionsAssumption DEF FirstHighest, VersionsAssumption
      <3>2. h[k + 1] = r.version /\ k + 1 \in 1..(k + 1)
        BY <2>1, <2>5 DEF Choose
      <3>3. ~compareSemver(r.version, r.version)
        BY <2>2, VersionOrder
      <3> HIDE DEF r
      <3> QED BY <2>3, <2>5, <3>1, <3>2, <3>3 DEF FirstHighest, r
    <2>6. CASE r.stable /\ h[k] # NoRelease
      <3>1. PICK i \in 1..k :
               /\ s[i].stable /\ h[k] = s[i].version
               /\ \A j \in 1..k : s[j].stable =>
                    /\ ~compareSemver(h[k], s[j].version)
                    /\ j < i => compareSemver(s[j].version, h[k])
        BY <2>1, <2>6 DEF FirstHighest
      <3>2. h[k] \in Version /\ \A j \in 1..k : s[j].version \in Version
        BY <2>2, <2>3, <3>1
      <3>3. CASE compareSemver(h[k], r.version)
        <4>1. h[k + 1] = r.version /\ k + 1 \in 1..(k + 1)
          BY <2>1, <2>6, <3>3 DEF Choose
        <4>2. ASSUME NEW j \in 1..k, s[j].stable
              PROVE  /\ ~compareSemver(r.version, s[j].version)
                     /\ compareSemver(s[j].version, r.version)
          BY <2>2, <3>1, <3>2, <3>3, <4>2, VersionOrder
        <4>3. ~compareSemver(r.version, r.version)
          BY <2>2, VersionOrder
        <4> QED BY <2>3, <2>6, <4>1, <4>2, <4>3 DEF FirstHighest
      <3>4. CASE ~compareSemver(h[k], r.version)
        <4>1. h[k + 1] = h[k] /\ i \in 1..(k + 1) /\ ~(k + 1 < i)
          BY <2>1, <2>6, <3>4 DEF Choose
        <4> QED BY <2>3, <3>1, <3>4, <4>1 DEF FirstHighest
      <3> QED BY <3>3, <3>4
    <2> QED BY <2>4, <2>5, <2>6
  <1>5. ASSUME NEW k \in Nat, k \in Right PROVE k + 1 \in Right
    BY <1>1, <1>4, <1>5
  <1> HIDE DEF Right
  <1>6. Len(s) \in Right
    BY <1>1, <1>3, <1>5, Induction
  <1> QED BY <1>2, <1>6 DEF Right

\* There is one first of the highest.
LEMMA OneFirstHighest ==
  ASSUME NEW s \in Seq(Release), NEW v, NEW w,
         FirstHighest(s, Len(s), v), FirstHighest(s, Len(s), w)
  PROVE  v = w
  <1>1. \A i \in 1..Len(s) : s[i].version \in Version
    BY ReleaseTypes
  <1>2. CASE v = NoRelease \/ w = NoRelease
    BY <1>1, <1>2, VersionsAssumption DEF FirstHighest, VersionsAssumption
  <1>3. CASE v # NoRelease /\ w # NoRelease
    <2>1. PICK i \in 1..Len(s) :
             /\ s[i].stable /\ v = s[i].version
             /\ \A j \in 1..Len(s) : s[j].stable =>
                  /\ ~compareSemver(v, s[j].version)
                  /\ j < i => compareSemver(s[j].version, v)
      BY <1>3 DEF FirstHighest
    <2>2. PICK k \in 1..Len(s) :
             /\ s[k].stable /\ w = s[k].version
             /\ \A j \in 1..Len(s) : s[j].stable =>
                  /\ ~compareSemver(w, s[j].version)
                  /\ j < k => compareSemver(s[j].version, w)
      BY <1>3 DEF FirstHighest
    <2>3. i < k \/ k < i \/ i = k
      OBVIOUS
    <2> QED BY <2>1, <2>2, <2>3
  <1> QED BY <1>2, <1>3

\* A release that GitHub puts in front of its list is chosen, or the choice stays.
LEMMA PublishKeepsOrReplaces ==
  ASSUME NEW s \in Seq(Release), NEW r \in Release
  PROVE  FetchLatestRelease(<<r>> \o s) \in {FetchLatestRelease(s), r.version}
  <1> DEFINE t == <<r>> \o s
             w == FetchLatestRelease(t)
  <1>1. /\ t \in Seq(Release) /\ Len(t) = Len(s) + 1 /\ t[1] = r
        /\ \A j \in 1..Len(s) : t[j + 1] = s[j]
        /\ Len(s) \in Nat
    OBVIOUS
  <1>2. FirstHighest(t, Len(t), w)
    BY <1>1, NewestIsChosen
  <1> HIDE DEF t, w
  <1>3. \A j \in 1..Len(s) : j + 1 \in 1..Len(t)
    BY <1>1
  <1>4. CASE w = NoRelease /\ \A j \in 1..Len(t) : ~t[j].stable
    <2>1. FirstHighest(s, Len(s), w)
      BY <1>1, <1>3, <1>4 DEF FirstHighest
    <2> QED BY <2>1, NewestIsChosen, OneFirstHighest DEF t, w
  <1>5. ASSUME NEW i \in 1..Len(t),
               /\ t[i].stable /\ w = t[i].version
               /\ \A j \in 1..Len(t) : t[j].stable =>
                    /\ ~compareSemver(w, t[j].version)
                    /\ j < i => compareSemver(t[j].version, w)
        PROVE  w \in {FetchLatestRelease(s), r.version}
    <2>1. CASE i = 1
      BY <1>1, <1>5, <2>1
    <2>2. CASE i # 1
      <3>1. i - 1 \in 1..Len(s) /\ s[i - 1] = t[i]
        BY <1>1, <1>5, <2>2
      <3>2. ASSUME NEW j \in 1..Len(s), s[j].stable
            PROVE  /\ ~compareSemver(w, s[j].version)
                   /\ j < i - 1 => compareSemver(s[j].version, w)
        BY <1>1, <1>3, <1>5, <3>2
      <3>3. FirstHighest(s, Len(s), w)
        BY <1>5, <3>1, <3>2 DEF FirstHighest
      <3> QED BY <3>3, NewestIsChosen, OneFirstHighest
    <2> QED BY <2>1, <2>2
  <1>6. w \in {FetchLatestRelease(s), r.version}
    <2>1. CASE w = NoRelease /\ \A j \in 1..Len(t) : ~t[j].stable
      BY <1>4, <2>1 DEF w, t
    <2>2. ASSUME ~(w = NoRelease /\ \A j \in 1..Len(t) : ~t[j].stable)
          PROVE  w \in {FetchLatestRelease(s), r.version}
      <3>1. PICK i \in 1..Len(t) :
               /\ t[i].stable /\ w = t[i].version
               /\ \A j \in 1..Len(t) : t[j].stable =>
                    /\ ~compareSemver(w, t[j].version)
                    /\ j < i => compareSemver(t[j].version, w)
        BY <1>2, <2>2 DEF FirstHighest
      <3> QED BY <1>5, <3>1
    <2> QED BY <2>1, <2>2
  <1> QED BY <1>6 DEF w, t

-----------------------------------------------------------------------------
(* The weight of short versions.                                           *)

Short(v) ==
  /\ v \in Version /\ v.pre \in 0..8
  /\ Len(v.main) <= 3 /\ \A i \in 1..Len(v.main) : v.main[i] \in 0..9

\* For versions of at most three one-digit segments the order is that of Weight.
LEMMA WeightIsOrder ==
  ASSUME NEW a, NEW b, Short(a), Short(b)
  PROVE  compareSemver(a, b) <=> Weight(a) < Weight(b)
  <1>1. /\ a.main \in Seq(Nat) /\ b.main \in Seq(Nat)
        /\ a.pre \in 0..8 /\ b.pre \in 0..8
    BY DEF Short, Version
  <1>2. ASSUME NEW v, Short(v), v.main \in Seq(Nat), NEW i \in Nat \ {0}
        PROVE  segAt(v.main, i) \in 0..9 /\ (i > 3 => segAt(v.main, i) = 0)
    BY <1>2 DEF Short, segAt
  <1> DEFINE a1 == segAt(a.main, 1)  a2 == segAt(a.main, 2)  a3 == segAt(a.main, 3)
             b1 == segAt(b.main, 1)  b2 == segAt(b.main, 2)  b3 == segAt(b.main, 3)
  <1>3. /\ a1 \in 0..9 /\ a2 \in 0..9 /\ a3 \in 0..9
        /\ b1 \in 0..9 /\ b2 \in 0..9 /\ b3 \in 0..9
    BY <1>1, <1>2
  <1>4. ASSUME NEW v, NEW w, Short(v), Short(w), v.main \in Seq(Nat), w.main \in Seq(Nat)
        PROVE  compareNumericSegments(v.main, w.main) <=>
                 \/ segAt(v.main, 1) < segAt(w.main, 1)
                 \/ /\ segAt(v.main, 1) = segAt(w.main, 1)
                    /\ \/ segAt(v.main, 2) < segAt(w.main, 2)
                       \/ /\ segAt(v.main, 2) = segAt(w.main, 2)
                          /\ segAt(v.main, 3) < segAt(w.main, 3)
    <2>1. compareNumericSegments(v.main, w.main)
            <=> \E i \in Nat \ {0} : Before(v.main, w.main, i)
      BY <1>4, FirstSegment
    <2>2. ASSUME NEW i \in Nat \ {0}, Before(v.main, w.main, i) PROVE i \in {1, 2, 3}
      <3>1. segAt(v.main, i) < segAt(w.main, i)
        BY <2>2 DEF Before
      <3>2. i > 3 => segAt(v.main, i) = 0 /\ segAt(w.main, i) = 0
        BY <1>2, <1>4
      <3> QED BY <3>1, <3>2
    <2>3. Before(v.main, w.main, 1) <=> segAt(v.main, 1) < segAt(w.main, 1)
      BY DEF Before
    <2>4. Before(v.main, w.main, 2) <=> /\ segAt(v.main, 1) = segAt(w.main, 1)
                                        /\ segAt(v.main, 2) < segAt(w.main, 2)
      <3>1. \A j \in Nat \ {0} : j < 2 <=> j = 1
        OBVIOUS
      <3> QED BY <3>1 DEF Before
    <2>5. Before(v.main, w.main, 3) <=> /\ segAt(v.main, 1) = segAt(w.main, 1)
                                        /\ segAt(v.main, 2) = segAt(w.main, 2)
                                        /\ segAt(v.main, 3) < segAt(w.main, 3)
      <3>1. \A j \in Nat \ {0} : j < 3 <=> j = 1 \/ j = 2
        OBVIOUS
      <3> QED BY <3>1 DEF Before
    <2> QED BY <2>1, <2>2, <2>3, <2>4, <2>5
  <1>5. /\ compareNumericSegments(a.main, b.main) <=>
             a1 < b1 \/ (a1 = b1 /\ (a2 < b2 \/ (a2 = b2 /\ a3 < b3)))
        /\ compareNumericSegments(b.main, a.main) <=>
             b1 < a1 \/ (b1 = a1 /\ (b2 < a2 \/ (b2 = a2 /\ b3 < a3)))
    BY <1>1, <1>4
  <1>6. /\ Weight(a) = 1000 * a1 + 100 * a2 + 10 * a3 + (IF a.pre = 0 THEN 9 ELSE a.pre)
        /\ Weight(b) = 1000 * b1 + 100 * b2 + 10 * b3 + (IF b.pre = 0 THEN 9 ELSE b.pre)
    BY DEF Weight
  <1> DEFINE p == IF a.pre = 0 THEN 9 ELSE a.pre
             q == IF b.pre = 0 THEN 9 ELSE b.pre
  <1>7. /\ p \in 1..9 /\ q \in 1..9
        /\ a.pre # 0 /\ (b.pre = 0 \/ a.pre < b.pre) <=> p < q
    BY <1>1
  <1>8. /\ Weight(a) = 1000 * a1 + 100 * a2 + 10 * a3 + p
        /\ Weight(b) = 1000 * b1 + 100 * b2 + 10 * b3 + q
    BY <1>6
  <1>9. compareSemver(a, b) <=>
          \/ compareNumericSegments(a.main, b.main)
          \/ ~compareNumericSegments(b.main, a.main) /\ p < q
    BY <1>7 DEF compareSemver
  <1> HIDE DEF a1, a2, a3, b1, b2, b3, p, q
  <1>10. CASE a1 < b1 \/ (a1 = b1 /\ (a2 < b2 \/ (a2 = b2 /\ a3 < b3)))
    <2>1. Weight(a) < Weight(b)
      BY <1>3, <1>7, <1>8, <1>10
    <2> QED BY <1>5, <1>9, <1>10, <2>1
  <1>11. CASE b1 < a1 \/ (b1 = a1 /\ (b2 < a2 \/ (b2 = a2 /\ b3 < a3)))
    <2>1. Weight(b) < Weight(a) /\ ~(Weight(a) < Weight(b))
      BY <1>3, <1>7, <1>8, <1>11
    <2>2. ~compareSemver(a, b)
      BY <1>3, <1>5, <1>9, <1>11
    <2> QED BY <2>1, <2>2
  <1>12. CASE a1 = b1 /\ a2 = b2 /\ a3 = b3
    <2>1. Weight(a) < Weight(b) <=> p < q
      BY <1>3, <1>7, <1>8, <1>12
    <2> QED BY <1>3, <1>5, <1>9, <1>12, <2>1
  <1> QED BY <1>3, <1>10, <1>11, <1>12
-----------------------------------------------------------------------------
(* Types.                                                                  *)

Steps == {"idle", "save", "gate", "fetch", "store", "persist", "observe", "sync",
          "syncstore"}

\* A record of UpdateState; nothing here depends on the version in it.
IsResult(s) ==
  /\ s = [latest |-> s.latest, available |-> s.available, last |-> s.last,
          enabled |-> s.enabled]
  /\ s.last \in Nat

Results == result = [t \in Threads |-> result[t]] /\ \A t \in Threads : IsResult(result[t])

TypeInv ==
  /\ SettingsTypeOK
  /\ pc \in [Threads -> Steps]
  /\ clock \in Nat
  /\ Results

\* The settings the program starts from, and what it reads from a file.
LEMMA Defaults == NewAppSettings \in AppSettings /\ NewAppSettings.last = 0
  BY DEF NewAppSettings, AppSettings

LEMMA LoadTypes ==
  ASSUME NEW raw \in RawSettings
  PROVE  loadSettings(raw) \in AppSettings
  <1>1. ASSUME NEW o \in Options
        PROVE  (IF raw.on[o] = Absent THEN defaultAppSettings.on[o] ELSE raw.on[o]) \in BOOLEAN
    <2>1. raw.on[o] \in BOOLEAN \cup {Absent}
      BY DEF RawSettings
    <2>2. defaultAppSettings.on[o] \in BOOLEAN
      <3>1. CASE o \in {"open-draft", "dedicated"}
        BY <3>1 DEF defaultAppSettings
      <3>2. CASE o \notin {"open-draft", "dedicated"}
        BY <3>2 DEF defaultAppSettings
      <3> QED BY <3>1, <3>2
    <2>3. raw.on[o] # Absent => raw.on[o] \in BOOLEAN
      BY <2>1
    <2>4. CASE raw.on[o] = Absent
      BY <2>2, <2>4
    <2>5. CASE raw.on[o] # Absent
      BY <2>3, <2>5
    <2> QED BY <2>4, <2>5
  <1>2. loadSettings(raw).on \in [Options -> BOOLEAN]
    BY <1>1 DEF loadSettings
  <1>3. loadSettings(raw).last \in Nat
    BY DEF loadSettings, RawSettings
  <1> QED BY <1>2, <1>3 DEF AppSettings, loadSettings

\* saveSettings writes a file without absent fields: reading it changes nothing.
LEMMA LoadsWhatWasSaved ==
  ASSUME NEW s \in AppSettings
  PROVE  s \in RawSettings /\ \A o \in Options : loadSettings(s).on[o] = s.on[o]
  <1>1. \A o \in Options : s.on[o] # Absent
    BY SettingsAssumption DEF AppSettings, SettingsAssumption
  <1>2. s \in RawSettings
    BY DEF AppSettings, RawSettings
  <1> QED BY <1>1, <1>2 DEF loadSettings

LEMMA BlankIsResult == IsResult(Blank)
  BY DEF Blank, IsResult

-----------------------------------------------------------------------------
(* The steps by what they do to the settings.                              *)

\* A step of t that touches neither settings nor file.
Quiet(t) ==
  /\ UNCHANGED <<settingsVars, phase>>
  /\ pc[t] # "save"
  /\ \E step \in Steps \ {"save"} : Goto(t, step)

\* A step of the startup or of the world without a goroutine.
Outside == ClockTick \/ Publish \/ StartUpdates

QuietStep(t) ==
  \/ Tick(t) \/ CheckForUpdatesNow(t)
  \/ MaybeCheck(t) \/ SkipCheck(t) \/ (\E ok \in BOOLEAN : CheckNow(t, ok))
  \/ StoreMerged(t) \/ Observe(t) \/ SyncLoad(t) \/ SyncStore(t)

\* Every step is one of these.
LEMMA Parts ==
  ASSUME Next
  PROVE  \/ Outside \/ ReadSettings \/ Restart
         \/ \E t \in Threads : QuietStep(t) \/ UserChanges(t)
                               \/ persistLastUpdateCheck(t) \/ SaveSettings(t)
  BY UpdatesAssumption DEF Next, Outside, QuietStep, Proceed, UpdatesAssumption

LEMMA QuietSteps ==
  ASSUME NEW t \in Threads, QuietStep(t)
  PROVE  Quiet(t)
  <1> USE DEF Steps, Goto, At, Quiet
  <1>1. CASE Tick(t)
    BY <1>1 DEF Tick
  <1>2. CASE CheckForUpdatesNow(t)
    BY <1>2 DEF CheckForUpdatesNow, BeginFetch
  <1>3. CASE MaybeCheck(t)
    BY <1>3 DEF MaybeCheck, BeginFetch
  <1>4. CASE SkipCheck(t)
    BY <1>4 DEF SkipCheck
  <1>5. CASE \E ok \in BOOLEAN : CheckNow(t, ok)
    BY <1>5 DEF CheckNow
  <1>6. CASE StoreMerged(t)
    BY <1>6 DEF StoreMerged
  <1>7. CASE Observe(t)
    BY <1>7 DEF Observe, Done
  <1>8. CASE SyncLoad(t)
    BY <1>8 DEF SyncLoad, Done
  <1>9. CASE SyncStore(t)
    BY <1>9 DEF SyncStore, Done
  <1> QED BY <1>1, <1>2, <1>3, <1>4, <1>5, <1>6, <1>7, <1>8, <1>9 DEF QuietStep

\* A setter changes one option, a check the time; both copy under the mutex.
LEMMA Setters ==
  ASSUME NEW t \in Threads, UserChanges(t)
  PROVE  \E o \in Options : SetOption(t, o)
  BY DEF UserChanges, SetMode, SetOpenDraftInBrowser, SetDraftBrowserDedicated,
         SetActiveAccount, SetUpdateChecksEnabled, Options

-----------------------------------------------------------------------------
(* Type correctness.                                                       *)

\* A goroutine's copy is taken, kept and dropped with its type.
LEMMA CopyTypes ==
  ASSUME SettingsTypeOK, pc \in [Threads -> Steps], NEW t \in Threads,
         NEW f \in Options \cup {"last"}, NEW s \in AppSettings,
         CopyUnderLock(t, f, s), phase' = phase, file' = file, chosen' = chosen,
         changes' \in 0..MaxChanges
  PROVE  SettingsTypeOK' /\ pc' \in [Threads -> Steps]
  <1>1. overlap' \in BOOLEAN /\ early' \in BOOLEAN
    BY Zenon DEF CopyUnderLock
  <1>2. copy' \in [Threads -> AppSettings] /\ field' \in [Threads -> Options \cup {"last"}]
    BY DEF CopyUnderLock, SettingsTypeOK
  <1> QED BY <1>1, <1>2 DEF CopyUnderLock, SettingsTypeOK, Goto, Steps

LEMMA OptionTypes ==
  ASSUME TypeInv, NEW t \in Threads, NEW o \in Options, SetOption(t, o),
         UNCHANGED <<phase, updateVars, worldVars>>
  PROVE  TypeInv' /\ settings'.last = settings.last
  <1>1. /\ [settings EXCEPT !.on[o] = ~@] \in AppSettings
        /\ [settings EXCEPT !.on[o] = ~@].last = settings.last
    <2>1. (~settings.on[o]) \in BOOLEAN
      OBVIOUS
    <2> QED BY <2>1 DEF TypeInv, SettingsTypeOK, AppSettings
  <1>2. changes' \in 0..MaxChanges
    BY SettingsAssumption DEF SetOption, TypeInv, SettingsTypeOK, SettingsAssumption
  <1>3. SettingsTypeOK' /\ pc' \in [Threads -> Steps]
    BY <1>1, <1>2, CopyTypes DEF SetOption, TypeInv
  <1> QED BY <1>1, <1>3 DEF SetOption, CopyUnderLock, TypeInv, Results, updateVars, worldVars

LEMMA PersistTypes ==
  ASSUME TypeInv, NEW t \in Threads, persistLastUpdateCheck(t)
  PROVE  TypeInv' /\ settings' = [settings EXCEPT !.last = result[t].last]
  <1>1. result[t].last \in Nat
    BY DEF TypeInv, Results, IsResult
  <1>2. [settings EXCEPT !.last = result[t].last] \in AppSettings
    BY <1>1 DEF TypeInv, SettingsTypeOK, AppSettings
  <1>3. changes' \in 0..MaxChanges
    BY DEF persistLastUpdateCheck, TypeInv, SettingsTypeOK
  <1>4. SettingsTypeOK' /\ pc' \in [Threads -> Steps]
    BY <1>2, <1>3, CopyTypes DEF persistLastUpdateCheck, TypeInv
  <1> QED BY <1>4 DEF persistLastUpdateCheck, CopyUnderLock, TypeInv, Results, worldVars

LEMMA SaveTypes ==
  ASSUME TypeInv, NEW t \in Threads, SaveSettings(t)
  PROVE  TypeInv'
  <1>1. copy[t] \in AppSettings /\ copy[t] \in RawSettings
    BY LoadsWhatWasSaved DEF TypeInv, SettingsTypeOK
  <1>2. copy[t].on \in [Options -> BOOLEAN]
    BY <1>1 DEF AppSettings
  <1>3. chosen' \in [Options -> SUBSET BOOLEAN]
    <2>1. CASE Replace(t)
      BY <1>2, <2>1 DEF Replace, TypeInv, SettingsTypeOK
    <2>2. CASE Refuse(t)
      BY <2>2 DEF Refuse, TypeInv, SettingsTypeOK
    <2> QED BY <2>1, <2>2 DEF SaveSettings
  <1>4. file' \in RawSettings /\ Returned(t)
    BY <1>1 DEF SaveSettings, Replace, Refuse, TypeInv, SettingsTypeOK
  <1>5. pc' \in [Threads -> Steps]
    BY DEF SaveSettings, Goto, AfterSave, TypeInv, Steps
  <1>6. copy' \in [Threads -> AppSettings] /\ field' \in [Threads -> Options \cup {"last"}]
    BY <1>4, Defaults DEF Returned, TypeInv, SettingsTypeOK
  <1>7. SettingsTypeOK'
    BY <1>3, <1>4, <1>6 DEF SaveSettings, Returned, TypeInv, SettingsTypeOK
  <1>8. Results'
    BY DEF SaveSettings, TypeInv, Results, IsResult
  <1> QED BY <1>5, <1>7, <1>8 DEF SaveSettings, TypeInv, worldVars

LEMMA QuietTypes ==
  ASSUME TypeInv, NEW t \in Threads, QuietStep(t)
  PROVE  TypeInv'
  <1>1. SettingsTypeOK' /\ pc' \in [Threads -> Steps]
    BY QuietSteps DEF Quiet, Goto, TypeInv, SettingsTypeOK, settingsVars
  <1> USE BlankIsResult DEF TypeInv, Results, worldVars
  <1>2. CASE Tick(t)
    BY <1>1, <1>2 DEF Tick, IsResult
  <1>3. CASE CheckForUpdatesNow(t)
    BY <1>1, <1>3 DEF CheckForUpdatesNow, BeginFetch, IsResult
  <1>4. CASE MaybeCheck(t)
    BY <1>1, <1>4 DEF MaybeCheck, BeginFetch, IsResult
  <1>5. CASE SkipCheck(t)
    BY <1>1, <1>5 DEF SkipCheck, updateVars
  <1>6. CASE \E ok \in BOOLEAN : CheckNow(t, ok)
    <2>1. PICK ok \in BOOLEAN : CheckNow(t, ok)
      BY <1>6
    <2>2. \E latest, available, enabled :
            result' = [result EXCEPT ![t].latest = latest, ![t].available = available,
                                     ![t].enabled = enabled]
      BY <2>1 DEF CheckNow
    <2>3. PICK latest, available, enabled :
            result' = [result EXCEPT ![t].latest = latest, ![t].available = available,
                                     ![t].enabled = enabled]
      BY <2>2
    <2>4. result[t] = [latest |-> result[t].latest, available |-> result[t].available,
                       last |-> result[t].last, enabled |-> result[t].enabled]
      BY DEF IsResult
    <2>5. result'[t] = [latest |-> latest, available |-> available,
                        last |-> result[t].last, enabled |-> enabled]
      BY <2>3, <2>4
    <2>6. IsResult(result'[t]) /\ result[t].last = result'[t].last
      BY <2>5 DEF IsResult
    <2>7. result' = [u \in Threads |-> IF u = t THEN result'[t] ELSE result[u]]
      BY <2>3, <2>5
    <2> QED BY <1>1, <2>1, <2>6, <2>7 DEF CheckNow
  <1>7. CASE StoreMerged(t)
    <2>1. /\ result[t] = [latest |-> result[t].latest, available |-> result[t].available,
                          last |-> result[t].last, enabled |-> result[t].enabled]
          /\ result[t].last \in Nat
      BY DEF IsResult
    <2>2. \/ merged(t) = result[t]
          \/ merged(t) = [latest |-> prior[t].latest, available |-> prior[t].available,
                          last |-> result[t].last, enabled |-> result[t].enabled]
      BY <2>1 DEF merged
    <2>3. IsResult(merged(t))
      BY <2>1, <2>2 DEF IsResult
    <2> QED BY <1>1, <1>7, <2>3 DEF StoreMerged
  <1>8. CASE Observe(t) \/ SyncLoad(t) \/ SyncStore(t)
    BY <1>1, <1>8 DEF Observe, SyncLoad, SyncStore, Done
  <1> QED BY <1>2, <1>3, <1>4, <1>5, <1>6, <1>7, <1>8 DEF QuietStep

LEMMA RestartTypes ==
  ASSUME TypeInv, Restart
  PROVE  TypeInv'
  <1>1. /\ pc' \in [Threads -> Steps] /\ copy' \in [Threads -> AppSettings]
        /\ field' \in [Threads -> Options \cup {"last"}]
    BY Defaults DEF Restart, SettingsRestart, Steps
  <1>2. SettingsTypeOK'
    BY <1>1, Defaults DEF Restart, SettingsRestart, TypeInv, SettingsTypeOK
  <1> QED BY <1>1, <1>2, BlankIsResult DEF Restart, TypeInv, Results

LEMMA OutsideTypes ==
  ASSUME TypeInv, Outside \/ ReadSettings
  PROVE  TypeInv'
  <1>1. CASE Outside
    BY <1>1 DEF Outside, ClockTick, Publish, StartUpdates, TypeInv, Results,
                SettingsTypeOK, settingsVars, updateVars, worldVars
  <1>2. CASE ReadSettings
    <2>1. loadSettings(file) \in AppSettings
      BY LoadTypes DEF TypeInv, SettingsTypeOK
    <2> QED BY <1>2, <2>1 DEF ReadSettings, LoadSettings, TypeInv, Results,
                SettingsTypeOK, updateVars, worldVars
  <1> QED BY <1>1, <1>2

LEMMA InitTypes == Init => TypeInv
  <1> SUFFICES ASSUME Init PROVE TypeInv
    OBVIOUS
  <1>1. loadSettings(file) \in AppSettings
    BY LoadTypes, SettingsAssumption DEF Init, SettingsInit, SettingsAssumption
  <1>2. chosen \in [Options -> SUBSET BOOLEAN]
    BY <1>1 DEF Init, SettingsInit, AppSettings
  <1>3. /\ copy \in [Threads -> AppSettings] /\ pc \in [Threads -> Steps]
        /\ field \in [Threads -> Options \cup {"last"}]
    BY Defaults DEF Init, SettingsInit, Steps
  <1>4. file \in RawSettings /\ changes \in 0..MaxChanges
    BY SettingsAssumption DEF Init, SettingsInit, SettingsAssumption
  <1>5. {overlap, early} \subseteq BOOLEAN /\ settings \in AppSettings
    BY Defaults DEF Init, SettingsInit
  <1>6. SettingsTypeOK
    BY <1>2, <1>3, <1>4, <1>5 DEF Init, SettingsTypeOK
  <1>7. clock \in Nat /\ Results
    BY BlankIsResult DEF Init, Results
  <1> QED BY <1>3, <1>6, <1>7 DEF TypeInv

LEMMA StepTypes == TypeInv /\ [Next]_vars => TypeInv'
  <1> SUFFICES ASSUME TypeInv, [Next]_vars PROVE TypeInv'
    OBVIOUS
  <1>1. CASE UNCHANGED vars
    BY <1>1 DEF vars, TypeInv, Results, SettingsTypeOK, settingsVars, updateVars, worldVars
  <1>2. CASE Outside \/ ReadSettings \/ Restart
    BY <1>2, OutsideTypes, RestartTypes
  <1>3. ASSUME NEW t \in Threads, UserChanges(t) PROVE TypeInv'
    BY <1>3, Setters, OptionTypes DEF UserChanges
  <1>4. ASSUME NEW t \in Threads,
               QuietStep(t) \/ persistLastUpdateCheck(t) \/ SaveSettings(t)
        PROVE  TypeInv'
    BY <1>4, QuietTypes, PersistTypes, SaveTypes
  <1> QED BY <1>1, <1>2, <1>3, <1>4, Parts

\* The settings, their file and every copy on its way there have their types.
THEOREM SettingsTypes == Spec => []SettingsTypeOK
  <1>1. TypeInv => SettingsTypeOK
    BY DEF TypeInv
  <1> QED BY <1>1, InitTypes, StepTypes, PTL DEF Spec

-----------------------------------------------------------------------------
(* What the user chose outlasts saves, checks and restarts.                *)

Saving(t) == pc[t] = "save"

Calm == ~overlap /\ ~early

\* While saves follow one another and none precedes the load: the file holds
\* what was chosen; memory holds it too, but for the field on its way to the
\* file; and what is on its way is what is in memory.
KeptInv ==
  Calm =>
    /\ ChoicesKept
    /\ phase # "starting" =>
         \A o \in Options : \/ settings.on[o] \in chosen[o]
                            \/ \E t \in Threads : Saving(t) /\ field[t] = o
    /\ \A t \in Threads : Saving(t) => phase # "starting" /\ copy[t].on = settings.on
    /\ \A t, u \in Threads : Saving(t) /\ Saving(u) => t = u

\* A copy that keeps the calm is the only one under way.
LEMMA CopyKept ==
  ASSUME TypeInv, KeptInv, NEW t \in Threads, NEW f \in Options \cup {"last"},
         NEW s \in AppSettings, CopyUnderLock(t, f, s),
         \A o \in Options \ {f} : s.on[o] = settings.on[o],
         phase' = phase, file' = file, chosen' = chosen
  PROVE  KeptInv'
  <1> SUFFICES ASSUME Calm' PROVE KeptInv'
    BY DEF KeptInv
  <1>1. Calm /\ (\A u \in Threads : ~Saving(u)) /\ phase # "starting"
    BY DEF Calm, CopyUnderLock, At, Saving
  <1>2. /\ ChoicesKept
        /\ \A o \in Options : settings.on[o] \in chosen[o]
    BY <1>1 DEF KeptInv
  <1>3. /\ pc'[t] = "save" /\ field'[t] = f /\ copy'[t] = settings'
        /\ \A u \in Threads : u # t => pc'[u] # "save"
    BY <1>1 DEF CopyUnderLock, Goto, Saving, TypeInv, SettingsTypeOK
  <1>4. ChoicesKept'
    BY <1>2 DEF ChoicesKept
  <1>5. ASSUME NEW o \in Options
        PROVE  \/ settings'.on[o] \in chosen'[o]
               \/ \E u \in Threads : pc'[u] = "save" /\ field'[u] = o
    BY <1>2, <1>3 DEF CopyUnderLock
  <1> QED BY <1>1, <1>3, <1>4, <1>5 DEF KeptInv, Saving

\* saveSettings puts into the file what is in memory, or tells the user it failed.
LEMMA SaveKept ==
  ASSUME TypeInv, KeptInv, NEW t \in Threads, SaveSettings(t)
  PROVE  KeptInv'
  <1> SUFFICES ASSUME Calm' PROVE KeptInv'
    BY DEF KeptInv
  <1>1. Calm /\ Saving(t) /\ settings' = settings /\ phase' = phase
    <2>1. Returned(t) /\ Saving(t) /\ phase' = phase
      BY DEF SaveSettings, Replace, Refuse, At, Saving
    <2>2. overlap' = overlap /\ early' = early /\ settings' = settings
      BY <2>1 DEF Returned
    <2> QED BY <2>1, <2>2, Zenon DEF Calm
  <1>2. phase # "starting" /\ copy[t].on = settings.on
    BY <1>1 DEF KeptInv
  <1>3. \A o \in Options : o # field[t] => settings.on[o] \in chosen[o]
    BY <1>1, <1>2 DEF KeptInv
  <1>4. /\ copy[t] \in AppSettings
        /\ \A o \in Options : loadSettings(copy[t]).on[o] = settings.on[o]
        /\ \A o \in Options : settings.on[o] \in BOOLEAN
    BY <1>2, LoadsWhatWasSaved DEF TypeInv, SettingsTypeOK, AppSettings
  <1>5. \A u \in Threads : pc'[u] # "save"
    <2>1. pc'[t] # "save"
      BY DEF SaveSettings, Goto, AfterSave, TypeInv
    <2>2. \A u \in Threads : u # t => pc'[u] = pc[u]
      BY DEF SaveSettings, Goto, TypeInv
    <2> QED BY <1>1, <2>1, <2>2 DEF KeptInv, Saving
  <1>6. CASE Replace(t)
    <2>1. \A o \in Options : chosen'[o] = IF o = field[t] THEN {settings.on[o]} ELSE chosen[o]
      BY <1>2, <1>6 DEF Replace
    <2>2. \A o \in Options : loadSettings(file').on[o] = settings.on[o]
      BY <1>4, <1>6 DEF Replace
    <2>3. \A o \in Options : settings.on[o] \in chosen'[o]
      BY <1>3, <2>1
    <2>4. ChoicesKept'
      BY <2>2, <2>3 DEF ChoicesKept
    <2> QED BY <1>1, <1>5, <2>3, <2>4 DEF KeptInv, Saving
  <1>7. CASE Refuse(t)
    <2>1. \A o \in Options : chosen'[o] = IF o = field[t] THEN BOOLEAN ELSE chosen[o]
      BY <1>7 DEF Refuse
    <2>2. \A o \in Options : settings.on[o] \in chosen'[o]
      BY <1>3, <1>4, <2>1
    <2>3. \A o \in Options : loadSettings(file).on[o] \in BOOLEAN
      BY LoadTypes DEF TypeInv, SettingsTypeOK, AppSettings
    <2>4. \A o \in Options : loadSettings(file).on[o] \in chosen'[o]
      BY <1>1, <2>1, <2>3 DEF KeptInv, ChoicesKept
    <2>5. ChoicesKept'
      BY <1>7, <2>4 DEF ChoicesKept, Refuse
    <2> QED BY <1>1, <1>5, <2>2, <2>5 DEF KeptInv, Saving
  <1> QED BY <1>6, <1>7 DEF SaveSettings

\* A step that touches neither settings nor file keeps it, and so does a stutter.
LEMMA QuietKept ==
  ASSUME TypeInv, KeptInv, NEW t \in Threads, Quiet(t)
  PROVE  KeptInv'
  <1>1. \A u \in Threads : Saving(u)' <=> Saving(u)
    BY DEF Quiet, Goto, Saving, TypeInv
  <1> QED BY <1>1 DEF Quiet, KeptInv, Calm, ChoicesKept, settingsVars

LEMMA OutsideKept ==
  ASSUME TypeInv, KeptInv, Outside \/ ReadSettings \/ Restart \/ UNCHANGED vars
  PROVE  KeptInv'
  <1>1. CASE ClockTick \/ Publish \/ UNCHANGED vars
    BY <1>1 DEF ClockTick, Publish, vars, KeptInv, Calm, ChoicesKept, Saving, settingsVars
  <1>2. CASE StartUpdates
    BY <1>2 DEF StartUpdates, KeptInv, Calm, ChoicesKept, Saving, settingsVars
  <1>3. CASE ReadSettings
    BY <1>3 DEF ReadSettings, LoadSettings, KeptInv, Calm, ChoicesKept, Saving
  <1>4. CASE Restart
    <2>1. \A t \in Threads : pc'[t] # "save"
      BY <1>4 DEF Restart, SettingsRestart
    <2> QED BY <1>4, <2>1
            DEF Restart, SettingsRestart, KeptInv, Calm, ChoicesKept, Saving
  <1> QED BY <1>1, <1>2, <1>3, <1>4 DEF Outside

LEMMA InitKept == Init => KeptInv
  BY DEF Init, SettingsInit, KeptInv, ChoicesKept, Saving

LEMMA StepKept == TypeInv /\ KeptInv /\ [Next]_vars => KeptInv'
  <1> SUFFICES ASSUME TypeInv, KeptInv, [Next]_vars PROVE KeptInv'
    OBVIOUS
  <1>1. CASE Outside \/ ReadSettings \/ Restart \/ UNCHANGED vars
    BY <1>1, OutsideKept
  <1>2. ASSUME NEW t \in Threads, UserChanges(t) PROVE KeptInv'
    <2>1. PICK o \in Options : SetOption(t, o)
      BY <1>2, Setters
    <2>2. [settings EXCEPT !.on[o] = ~@] \in AppSettings
      <3>1. (~settings.on[o]) \in BOOLEAN
        OBVIOUS
      <3> QED BY <3>1 DEF TypeInv, SettingsTypeOK, AppSettings
    <2>3. \A p \in Options \ {o} : [settings EXCEPT !.on[o] = ~@].on[p] = settings.on[p]
      BY DEF TypeInv, SettingsTypeOK, AppSettings
    <2> QED BY <1>2, <2>1, <2>2, <2>3, CopyKept DEF SetOption, UserChanges
  <1>3. ASSUME NEW t \in Threads, persistLastUpdateCheck(t) PROVE KeptInv'
    <2>1. /\ [settings EXCEPT !.last = result[t].last] \in AppSettings
          /\ [settings EXCEPT !.last = result[t].last].on = settings.on
      BY <1>3 DEF TypeInv, SettingsTypeOK, AppSettings, Results, IsResult
    <2> QED BY <1>3, <2>1, CopyKept DEF persistLastUpdateCheck
  <1>4. ASSUME NEW t \in Threads, QuietStep(t) \/ SaveSettings(t) PROVE KeptInv'
    BY <1>4, QuietSteps, QuietKept, SaveKept
  <1> QED BY <1>1, <1>2, <1>3, <1>4, Parts

\* Checks beside the user, saves that fail and restarts at any point bring no
\* older value of a setting back, unless two saves overlapped or a change
\* preceded loadSettings (saveSettings, persistLastUpdateCheck).
THEOREM ChoicesLast == Spec => []ChoicesKeptOneByOne
  <1>1. KeptInv => ChoicesKeptOneByOne
    BY DEF KeptInv, Calm, ChoicesKeptOneByOne
  <1> QED BY <1>1, InitTypes, StepTypes, InitKept, StepKept, PTL DEF Spec

-----------------------------------------------------------------------------
(* Failing checks do not make the scheduler fetch on every tick.           *)

\* The startup check is over long before the scheduler's first tick, a day later.
OneBackground == \A t, u \in Background : t = u

Way == {"fetch", "store", "persist"}
Fetching(t) == pc[t] \in Way
Manuals == {t \in Threads \ Background : Fetching(t)}

\* Memory holds an older time than that of the last background fetch, and no
\* background check is about to write it: one more fetch may come too early.
Stale == bgAt # 0 /\ settings.last < bgAt /\ \A t \in Background : ~Fetching(t)
Credit == IF Stale THEN 1 ELSE 0

\* Each manual check and each restart makes memory stale at most once, and a
\* fetch that comes too early uses that up.
CadenceInv ==
  /\ bgAt \in Nat /\ excess \in Nat /\ manuals \in Nat /\ restarts \in Nat
  /\ phase = "starting" =>
       settings.last = 0 /\ \A t \in Threads : pc[t] \notin Way \cup {"gate"}
  /\ \A t \in Threads : pc[t] = "gate" => t \in Background
  /\ \A t \in Background : Fetching(t) => result[t].last = bgAt
  /\ excess + Cardinality(Manuals) + Credit <= manuals + restarts

LEMMA ManualCount ==
  ASSUME IsFiniteSet(Threads), TypeInv
  PROVE  Cardinality(Manuals) \in Nat /\ IsFiniteSet(Manuals)
  BY FS_Subset, FS_CardinalityType DEF Manuals

\* How a step of t changes the number of manual checks under way.
LEMMA Moves ==
  ASSUME IsFiniteSet(Threads), TypeInv, NEW t \in Threads, NEW step, Goto(t, step)
  PROVE  /\ t \in Background \/ (Fetching(t) <=> step \in Way)
           => Cardinality(Manuals)' = Cardinality(Manuals)
         /\ t \notin Background /\ ~Fetching(t) /\ step \in Way
           => Cardinality(Manuals)' = Cardinality(Manuals) + 1
         /\ t \notin Background /\ Fetching(t) /\ step \notin Way
           => Cardinality(Manuals)' = Cardinality(Manuals) - 1
         /\ Fetching(t)' <=> step \in Way
         /\ \A u \in Threads \ {t} : Fetching(u)' <=> Fetching(u)
  <1>1. pc'[t] = step /\ \A u \in Threads \ {t} : pc'[u] = pc[u]
    BY DEF Goto, TypeInv
  <1>2. ASSUME t \in Background \/ (Fetching(t) <=> step \in Way)
        PROVE  Manuals' = Manuals
    BY <1>1, <1>2 DEF Manuals, Fetching
  <1>3. ASSUME t \notin Background, ~Fetching(t), step \in Way
        PROVE  Manuals' = Manuals \cup {t} /\ t \notin Manuals
    BY <1>1, <1>3 DEF Manuals, Fetching
  <1>4. ASSUME t \notin Background, Fetching(t), step \notin Way
        PROVE  Manuals' = Manuals \ {t} /\ t \in Manuals
    BY <1>1, <1>4 DEF Manuals, Fetching
  <1>5. /\ t \notin Manuals => Cardinality(Manuals \cup {t}) = Cardinality(Manuals) + 1
        /\ t \in Manuals => Cardinality(Manuals \ {t}) = Cardinality(Manuals) - 1
    BY ManualCount, FS_AddElement, FS_RemoveElement
  <1> QED BY <1>1, <1>2, <1>3, <1>4, <1>5 DEF Fetching

\* A step that neither begins nor ends a fetch and keeps the times.
LEMMA BesideFetches ==
  ASSUME IsFiniteSet(Threads), TypeInv, CadenceInv, NEW t \in Threads, NEW step,
         Goto(t, step), Fetching(t) <=> step \in Way,
         step = "gate" => t \in Background /\ phase = "running",
         phase' = phase, settings'.last = settings.last, bgAt' = bgAt,
         excess' = excess, manuals' = manuals, restarts' = restarts,
         \A u \in Background : u # t \/ Fetching(t) => result'[u].last = result[u].last
  PROVE  CadenceInv'
  <1>1. /\ Cardinality(Manuals)' = Cardinality(Manuals)
        /\ \A u \in Threads : Fetching(u)' <=> Fetching(u)
        /\ pc'[t] = step /\ \A u \in Threads \ {t} : pc'[u] = pc[u]
    BY Moves DEF Goto, TypeInv
  <1>2. Credit' = Credit
    BY <1>1, UpdatesAssumption DEF Credit, Stale, UpdatesAssumption
  <1>3. \A u \in Background : Fetching(u)' => result'[u].last = bgAt'
    BY <1>1, UpdatesAssumption DEF CadenceInv, UpdatesAssumption
  <1>4. \A u \in Threads : pc'[u] = "gate" => u \in Background
    BY <1>1 DEF CadenceInv
  <1>5. phase' = "starting" => \A u \in Threads : pc'[u] \notin Way \cup {"gate"}
    BY <1>1 DEF CadenceInv, Fetching
  <1> QED BY <1>1, <1>2, <1>3, <1>4, <1>5 DEF CadenceInv

\* The steps of a goroutine before, inside and after a fetch.
LEMMA OwnSteps ==
  ASSUME IsFiniteSet(Threads), TypeInv, CadenceInv, NEW t \in Threads,
         \/ Tick(t) /\ t \in Background
         \/ SkipCheck(t) \/ (\E ok \in BOOLEAN : CheckNow(t, ok)) \/ StoreMerged(t)
         \/ Observe(t) \/ SyncLoad(t) \/ SyncStore(t)
  PROVE  CadenceInv'
  <1> USE DEF Way, Fetching, At
  <1>1. Results /\ IsResult(result[t])
    BY DEF TypeInv, Results
  <1>2. CASE Tick(t) /\ t \in Background
    BY <1>1, <1>2, BesideFetches
       DEF Tick, settingsVars, worldVars, updHistory, Results
  <1>3. CASE SkipCheck(t)
    BY <1>3, BesideFetches DEF SkipCheck, settingsVars, updateVars, worldVars, updHistory
  <1>4. CASE \E ok \in BOOLEAN : CheckNow(t, ok)
    <2>1. PICK ok \in BOOLEAN : CheckNow(t, ok)
      BY <1>4
    <2>2. \E latest, available, enabled :
            result' = [result EXCEPT ![t].latest = latest, ![t].available = available,
                                     ![t].enabled = enabled]
      BY <2>1 DEF CheckNow
    <2>3. \A u \in Threads : result'[u].last = result[u].last
      BY <1>1, <2>2 DEF Results, IsResult
    <2>4. /\ Goto(t, "store") /\ pc[t] = "fetch" /\ phase' = phase
          /\ settings' = settings /\ bgAt' = bgAt /\ excess' = excess
          /\ manuals' = manuals /\ restarts' = restarts
      BY <2>1 DEF CheckNow, settingsVars, worldVars, updHistory
    <2> QED BY <2>3, <2>4, BesideFetches, UpdatesAssumption DEF UpdatesAssumption
  <1>5. CASE StoreMerged(t)
    <2>1. merged(t).last = result[t].last
      BY <1>1 DEF merged, IsResult
    <2>2. \A u \in Threads : result'[u].last = result[u].last
      BY <1>1, <1>5, <2>1 DEF StoreMerged, Results
    <2> QED BY <1>5, <2>2, BesideFetches, UpdatesAssumption
            DEF StoreMerged, settingsVars, worldVars, UpdatesAssumption
  <1>6. CASE Observe(t)
    BY <1>1, <1>6, BesideFetches DEF Observe, Done, settingsVars, worldVars, Results
  <1>7. CASE SyncLoad(t)
    <2>1. /\ Goto(t, "idle") \/ Goto(t, "syncstore")
          /\ pc[t] = "sync" /\ phase' = phase
          /\ settings' = settings /\ bgAt' = bgAt /\ excess' = excess
          /\ manuals' = manuals /\ restarts' = restarts
      BY <1>7 DEF SyncLoad, Done, settingsVars, worldVars, updHistory
    <2>2. \A u \in Threads : u # t => result'[u].last = result[u].last
      BY <1>1, <1>7 DEF SyncLoad, Done, Results
    <2> QED BY <2>1, <2>2, BesideFetches, UpdatesAssumption DEF UpdatesAssumption
  <1>8. CASE SyncStore(t)
    BY <1>1, <1>8, BesideFetches DEF SyncStore, Done, settingsVars, worldVars, Results
  <1> QED BY <1>2, <1>3, <1>4, <1>5, <1>6, <1>7, <1>8

\* The steps of the setters and of saveSettings.
LEMMA SetterSteps ==
  ASSUME IsFiniteSet(Threads), TypeInv, CadenceInv, NEW t \in Threads,
         UserChanges(t) \/ SaveSettings(t)
  PROVE  CadenceInv'
  <1> USE DEF Way, Fetching, At
  <1>1. CASE UserChanges(t)
    <2>1. PICK o \in Options : SetOption(t, o)
      BY <1>1, Setters
    <2>2. settings'.last = settings.last
      BY <1>1, <2>1, OptionTypes DEF UserChanges
    <2> QED BY <1>1, <2>1, <2>2, BesideFetches
            DEF UserChanges, SetOption, CopyUnderLock, updateVars, worldVars, updHistory
  <1>2. CASE SaveSettings(t)
    <2>1. PICK saved \in BOOLEAN : Goto(t, AfterSave(t, saved)) /\ settings' = settings
      BY <1>2 DEF SaveSettings, Replace, Refuse, Returned
    <2>2. AfterSave(t, saved) \notin Way \cup {"gate"}
      BY DEF AfterSave
    <2>3. \A u \in Threads : result'[u].last = result[u].last
      BY <1>2 DEF SaveSettings, TypeInv, Results, IsResult
    <2> QED BY <1>2, <2>1, <2>2, <2>3, BesideFetches, UpdatesAssumption
            DEF SaveSettings, worldVars, updHistory, UpdatesAssumption
  <1> QED BY <1>1, <1>2

\* "Check for updates now" may make memory stale later: it pays in advance.
LEMMA ManualBegins ==
  ASSUME IsFiniteSet(Threads), TypeInv, CadenceInv, NEW t \in Threads \ Background,
         CheckForUpdatesNow(t)
  PROVE  CadenceInv'
  <1>1. Goto(t, "fetch") /\ pc[t] = "idle"
    BY DEF CheckForUpdatesNow, BeginFetch, At
  <1>2. /\ Cardinality(Manuals)' = Cardinality(Manuals) + 1
        /\ \A u \in Threads \ {t} : Fetching(u)' <=> Fetching(u)
    BY <1>1, Moves DEF Way, Fetching
  <1>3. \A u \in Background : /\ Fetching(u)' <=> Fetching(u)
                             /\ result'[u].last = result[u].last
    BY <1>2, UpdatesAssumption
       DEF CheckForUpdatesNow, BeginFetch, UpdatesAssumption, TypeInv, Results
  <1>4. /\ settings' = settings /\ bgAt' = bgAt /\ excess' = excess
        /\ restarts' = restarts /\ manuals' = manuals + 1 /\ phase' = phase
        /\ phase = "running"
    BY DEF CheckForUpdatesNow, settingsVars
  <1>5. Credit' = Credit
    BY <1>3, <1>4 DEF Credit, Stale
  <1>6. \A u \in Threads : pc'[u] = "gate" => u \in Background
    BY <1>1 DEF Goto, TypeInv, CadenceInv
  <1> QED BY <1>2, <1>3, <1>4, <1>5, <1>6, ManualCount DEF CadenceInv, Credit

\* A background fetch within Window finds memory stale, and mends that.
LEMMA BackgroundBegins ==
  ASSUME IsFiniteSet(Threads), OneBackground, TypeInv, CadenceInv, NEW t \in Threads,
         MaybeCheck(t)
  PROVE  CadenceInv'
  <1>1. Goto(t, "fetch") /\ pc[t] = "gate"
    BY DEF MaybeCheck, BeginFetch, At
  <1>2. t \in Background /\ \A u \in Background : u = t
    BY <1>1 DEF CadenceInv, OneBackground
  <1>3. /\ Cardinality(Manuals)' = Cardinality(Manuals) /\ Fetching(t)'
        /\ \A u \in Background : ~Fetching(u)
    BY <1>1, <1>2, Moves DEF Way, Fetching
  <1>4. /\ settings' = settings /\ manuals' = manuals /\ restarts' = restarts
        /\ phase' = phase /\ bgAt' = clock /\ phase # "starting"
        /\ result'[t].last = clock /\ clock \in Nat
    BY <1>1 DEF MaybeCheck, BeginFetch, settingsVars, worldVars, TypeInv, Results,
                IsResult, CadenceInv
  <1>5. Credit' = 0
    BY <1>2, <1>3 DEF Credit, Stale
  <1>6. excess' \in Nat /\ excess' <= excess + Credit
    <2>1. settings.last \in Nat /\ Window \in Nat
      BY UpdatesAssumption DEF UpdatesAssumption, TypeInv, SettingsTypeOK, AppSettings
    <2>2. excess' = IF bgAt # 0 /\ clock - bgAt < Window THEN excess + 1 ELSE excess
      BY DEF MaybeCheck
    <2>3. settings.last = 0 \/ clock - settings.last >= Window
      BY DEF MaybeCheck, cadenceExpired
    <2>4. bgAt # 0 /\ clock - bgAt < Window => settings.last < bgAt
      BY <1>4, <2>1, <2>3 DEF CadenceInv
    <2> QED BY <1>3, <2>2, <2>4 DEF Credit, Stale, CadenceInv
  <1>7. \A u \in Threads : pc'[u] = "gate" => u \in Background
    BY <1>1 DEF Goto, TypeInv, CadenceInv
  <1> QED BY <1>2, <1>3, <1>4, <1>5, <1>6, <1>7, ManualCount DEF CadenceInv, Credit

\* The time of a background check mends memory; an older manual one may make it
\* stale, and was paid for when it began.
LEMMA Persists ==
  ASSUME IsFiniteSet(Threads), OneBackground, TypeInv, CadenceInv, NEW t \in Threads,
         persistLastUpdateCheck(t)
  PROVE  CadenceInv'
  <1>1. Goto(t, "save") /\ pc[t] = "persist"
    BY DEF persistLastUpdateCheck, CopyUnderLock, At
  <1>2. /\ manuals' = manuals /\ restarts' = restarts /\ phase' = phase
        /\ phase # "starting" /\ bgAt' = bgAt /\ excess' = excess /\ result' = result
    BY <1>1 DEF persistLastUpdateCheck, worldVars, updHistory, CadenceInv, Way
  <1>3. settings'.last = result[t].last
    BY PersistTypes DEF TypeInv, SettingsTypeOK, AppSettings
  <1>4. ~Fetching(t)' /\ \A u \in Threads \ {t} : Fetching(u)' <=> Fetching(u)
    BY <1>1, Moves DEF Way
  <1>5. \A u \in Threads : pc'[u] = "gate" => u \in Background
    BY <1>1 DEF Goto, TypeInv, CadenceInv
  <1>6. excess' + Cardinality(Manuals)' + Credit' <= manuals' + restarts'
    <2>1. CASE t \in Background
      <3>1. Cardinality(Manuals)' = Cardinality(Manuals)
        BY <1>1, <2>1, Moves
      <3>2. settings'.last = bgAt
        BY <1>1, <1>3, <2>1 DEF CadenceInv, Fetching, Way
      <3>3. Credit' = 0
        BY <1>2, <3>2 DEF Credit, Stale, CadenceInv
      <3> QED BY <1>2, <3>1, <3>3, ManualCount DEF CadenceInv, Credit
    <2>2. CASE t \notin Background
      <3>1. Cardinality(Manuals)' = Cardinality(Manuals) - 1
        BY <1>1, <2>2, Moves DEF Fetching, Way
      <3> QED BY <1>2, <3>1, ManualCount DEF CadenceInv, Credit
    <2> QED BY <2>1, <2>2
  <1>7. \A u \in Background : Fetching(u)' => result'[u].last = bgAt'
    BY <1>2, <1>4, UpdatesAssumption DEF CadenceInv, UpdatesAssumption
  <1> QED BY <1>2, <1>5, <1>6, <1>7 DEF CadenceInv

\* A restart pays for what the file lacks, and reading the file uses that up.
LEMMA OutsideSteps ==
  ASSUME IsFiniteSet(Threads), TypeInv, CadenceInv,
         Outside \/ ReadSettings \/ Restart \/ UNCHANGED vars
  PROVE  CadenceInv'
  <1>1. CASE Outside \/ UNCHANGED vars
    BY <1>1 DEF Outside, ClockTick, Publish, StartUpdates, vars, CadenceInv, Manuals,
                Credit, Stale, Fetching, settingsVars, updateVars, worldVars, updHistory
  <1>2. CASE ReadSettings
    <2>1. /\ phase = "starting" /\ phase' = "loaded" /\ pc' = pc /\ result' = result
          /\ bgAt' = bgAt /\ excess' = excess /\ manuals' = manuals
          /\ restarts' = restarts
      BY <1>2 DEF ReadSettings, LoadSettings, updateVars, worldVars, updHistory
    <2>2. settings.last = 0 /\ \A t \in Background : ~Fetching(t)
      BY <2>1, UpdatesAssumption DEF CadenceInv, Fetching, UpdatesAssumption
    <2>3. Credit' <= Credit
      BY <2>1, <2>2 DEF Credit, Stale, CadenceInv
    <2>4. Manuals' = Manuals /\ Credit' \in {0, 1} /\ Credit \in {0, 1}
      BY <2>1 DEF Manuals, Fetching, Credit
    <2>5. \A t \in Background : Fetching(t)' => result'[t].last = bgAt'
      BY <2>1 DEF CadenceInv, Fetching
    <2> QED BY <2>1, <2>3, <2>4, <2>5, ManualCount DEF CadenceInv
  <1>3. CASE Restart
    <2>1. /\ phase' = "starting" /\ settings' = NewAppSettings
          /\ \A t \in Threads : pc'[t] = "idle"
          /\ restarts' = restarts + 1 /\ manuals' = manuals /\ bgAt' = bgAt
          /\ excess' = excess
      BY <1>3 DEF Restart, SettingsRestart
    <2>2. Manuals' = {} /\ \A t \in Background : ~Fetching(t)'
      BY <2>1, UpdatesAssumption DEF Manuals, Fetching, Way, UpdatesAssumption
    <2>3. Cardinality(Manuals)' = 0 /\ Credit' \in {0, 1} /\ Credit \in {0, 1}
      BY <2>2, FS_EmptySet DEF Credit
    <2> QED BY <2>1, <2>2, <2>3, Defaults, ManualCount DEF CadenceInv, Way
  <1> QED BY <1>1, <1>2, <1>3

LEMMA InitCadence == Init => CadenceInv
  <1> SUFFICES ASSUME Init PROVE CadenceInv
    OBVIOUS
  <1>1. Manuals = {} /\ Credit = 0
    BY DEF Init, Manuals, Fetching, Way, Credit, Stale
  <1>2. Cardinality(Manuals) = 0
    BY <1>1, FS_EmptySet
  <1> QED BY <1>1, <1>2, Defaults, UpdatesAssumption
          DEF Init, SettingsInit, CadenceInv, Way, Fetching, UpdatesAssumption

LEMMA StepCadence ==
  ASSUME IsFiniteSet(Threads), OneBackground
  PROVE  TypeInv /\ CadenceInv /\ [Next]_vars => CadenceInv'
  <1> SUFFICES ASSUME TypeInv, CadenceInv, [Next]_vars PROVE CadenceInv'
    OBVIOUS
  <1>1. CASE Outside \/ ReadSettings \/ Restart \/ UNCHANGED vars
    BY <1>1, OutsideSteps
  <1>2. ASSUME NEW t \in Background, Tick(t) PROVE CadenceInv'
    BY <1>2, OwnSteps, UpdatesAssumption DEF UpdatesAssumption
  <1>3. ASSUME NEW t \in Threads \ Background, UserChanges(t) \/ CheckForUpdatesNow(t)
        PROVE  CadenceInv'
    BY <1>3, SetterSteps, ManualBegins
  <1>4. ASSUME NEW t \in Threads, Proceed(t) PROVE CadenceInv'
    BY <1>4, OwnSteps, SetterSteps, BackgroundBegins, Persists DEF Proceed
  <1> QED BY <1>1, <1>2, <1>3, <1>4 DEF Next, Outside

\* The scheduler fetches within Window of its last fetch at most once for each
\* manual check and each restart, whatever fetches and saves fail
\* (maybeCheckForUpdate, persistLastUpdateCheck), for finitely many goroutines
\* and a startup check that is over before the scheduler's first tick.
THEOREM FetchesAreSpaced ==
  ASSUME IsFiniteSet(Threads), OneBackground
  PROVE  Spec => []NoHotLoop
  <1>1. CadenceInv /\ TypeInv => NoHotLoop
    BY ManualCount DEF CadenceInv, Credit, NoHotLoop
  <1>2. TypeInv /\ CadenceInv /\ [Next]_vars => CadenceInv'
    BY StepCadence
  <1> QED BY <1>1, <1>2, InitTypes, StepTypes, InitCadence, PTL DEF Spec

-----------------------------------------------------------------------------
(* What the user sees is the newest release, and each is announced once.   *)

\* GitHub gives no version to two releases.
UniqueVersions ==
  \A j, k \in DOMAIN Timeline : Timeline[j].version = Timeline[k].version => j = k

\* The list of GitHub is what of the timeline has been published, newest first.
ListInv ==
  /\ github \in Seq(Release) /\ Len(github) <= Len(Timeline)
  /\ \A i \in 1..Len(github) : github[i] = Timeline[Len(github) + 1 - i]

\* A version that GitHub publishes at some time, or none.
Known(v) == v = NoRelease \/ \E k \in DOMAIN Timeline : Timeline[k].version = v

\* A record that offers a version exactly when it is newer than the running one.
Offered(s) ==
  /\ s = [latest |-> s.latest, available |-> s.available, last |-> s.last,
          enabled |-> s.enabled]
  /\ Known(s.latest)
  /\ s.available = isNewerVersion(Current, s.latest)

\* What is stored, what a goroutine has loaded to merge with, and what a
\* successful check is about to store are such records.
OfferInv ==
  /\ prior = [t \in Threads |-> prior[t]] /\ failed \in [Threads -> BOOLEAN]
  /\ Offered(state)
  /\ \A t \in Threads : Offered(prior[t])
  /\ \A t \in Threads : pc[t] = "store" /\ ~failed[t] => Offered(result[t])

\* The place of a version in the order of publication.
Index(v) == IF v = NoRelease THEN 0
            ELSE CHOOSE k \in DOMAIN Timeline : Timeline[k].version = v

Best == FetchLatestRelease(github)

\* A check between StoreMerged and Observe.
Stored(t) == \/ pc[t] \in {"persist", "observe"}
             \/ pc[t] = "save" /\ field[t] = "last"

FoundInv ==
  /\ phase # "running" => /\ lastGood = NoRelease /\ announced = {}
                          /\ \A t \in Threads : ~Checking(t) /\ pc[t] # "gate"
  /\ Known(lastGood) /\ Index(lastGood) <= Index(Best)
  /\ \A t \in Threads : pc[t] = "store" /\ ~failed[t] =>
       Index(result[t].latest) <= Index(Best)
  /\ ~raced => state.latest = lastGood

\* One check at a time finds no older release than the one before.
OneByOne ==
  ~crossed =>
    /\ \A t, u \in Threads : Checking(t) /\ Checking(u) => t = u
    /\ \A t \in Threads : pc[t] = "store" /\ ~failed[t] =>
         Index(lastGood) <= Index(result[t].latest)

\* Then the tracker knows the newest of the versions announced.
AnnouncedInv ==
  ~crossed /\ ~raced =>
    /\ ~repeated
    /\ \A t \in Threads : Stored(t) =>
         /\ result[t].latest = lastGood
         /\ result[t].available = isNewerVersion(Current, lastGood)
    /\ \A v \in announced :
         /\ v # NoRelease /\ Known(v) /\ isNewerVersion(Current, v)
         /\ Index(v) <= Index(lastGood)
         /\ v = lastGood => tracker = v

SeenInv == FoundInv /\ OneByOne /\ AnnouncedInv

LEMMA TimelineTypes ==
  /\ Len(Timeline) \in Nat /\ DOMAIN Timeline = 1..Len(Timeline)
  /\ \A k \in 1..Len(Timeline) : /\ Timeline[k] \in Release
                                 /\ Timeline[k].version \in Version
                                 /\ Timeline[k].version # NoRelease
  <1>1. Timeline \in Seq(Release)
    BY UpdatesAssumption DEF UpdatesAssumption
  <1> QED BY <1>1, ReleaseTypes, VersionsAssumption DEF VersionsAssumption

\* A known version stands where its index says.
LEMMA IndexOfKnown ==
  ASSUME NEW v, Known(v)
  PROVE  /\ Index(v) \in Nat
         /\ \/ v = NoRelease /\ Index(v) = 0
            \/ /\ Index(v) \in 1..Len(Timeline) /\ Timeline[Index(v)].version = v
               /\ v # NoRelease
  <1>1. CASE v = NoRelease
    BY <1>1 DEF Index
  <1>2. CASE v # NoRelease
    <2>1. \E k \in DOMAIN Timeline : Timeline[k].version = v
      BY <1>2 DEF Known
    <2>2. Index(v) \in DOMAIN Timeline /\ Timeline[Index(v)].version = v
      BY <1>2, <2>1 DEF Index
    <2> QED BY <1>2, <2>2, TimelineTypes
  <1> QED BY <1>1, <1>2

LEMMA IndexInjective ==
  ASSUME NEW v, NEW w, Known(v), Known(w), Index(v) = Index(w)
  PROVE  v = w
  BY IndexOfKnown

LEMMA IndexOfPublished ==
  ASSUME UniqueVersions, NEW k \in 1..Len(Timeline)
  PROVE  Known(Timeline[k].version) /\ Index(Timeline[k].version) = k
  <1>1. Known(Timeline[k].version) /\ Timeline[k].version # NoRelease
    BY TimelineTypes DEF Known
  <1> QED BY <1>1, IndexOfKnown, TimelineTypes DEF UniqueVersions

\* The choice is one of the published versions.
LEMMA BestIsPublished ==
  ASSUME ListInv
  PROVE  /\ Known(Best)
         /\ UniqueVersions => Index(Best) <= Len(github)
  <1>1. github \in Seq(Release) /\ Len(github) \in Nat /\ Len(github) <= Len(Timeline)
    BY DEF ListInv
  <1>2. FirstHighest(github, Len(github), Best)
    BY <1>1, NewestIsChosen DEF Best
  <1>3. CASE Best = NoRelease
    BY <1>1, <1>3 DEF Known, Index
  <1>4. CASE Best # NoRelease
    <2>1. PICK i \in 1..Len(github) : Best = github[i].version
      BY <1>2, <1>4 DEF FirstHighest
    <2>2. /\ Len(github) + 1 - i \in 1..Len(Timeline)
          /\ Best = Timeline[Len(github) + 1 - i].version
      BY <1>1, <2>1, TimelineTypes DEF ListInv
    <2>3. Known(Best)
      BY <2>2, TimelineTypes DEF Known
    <2>4. UniqueVersions => Index(Best) = Len(github) + 1 - i
      BY <2>2, IndexOfPublished
    <2> QED BY <1>1, <2>1, <2>3, <2>4
  <1> QED BY <1>3, <1>4

\* Publish puts the next release in front.
LEMMA PublishKeepsList ==
  ASSUME ListInv, Publish
  PROVE  /\ ListInv'
         /\ Len(github) + 1 \in 1..Len(Timeline)
         /\ github' = <<Timeline[Len(github) + 1]>> \o github
  <1> DEFINE n == Len(github)
             r == Timeline[n + 1]
  <1>1. /\ github \in Seq(Release) /\ n \in Nat /\ n < Len(Timeline)
        /\ n + 1 \in 1..Len(Timeline) /\ r \in Release
        /\ github' = <<r>> \o github
    BY TimelineTypes DEF ListInv, Publish
  <1>2. /\ github' \in Seq(Release) /\ Len(github') = n + 1
        /\ \A i \in 1..(n + 1) : github'[i] = IF i = 1 THEN r ELSE github[i - 1]
    BY <1>1
  <1>3. ASSUME NEW i \in 1..(n + 1) PROVE github'[i] = Timeline[(n + 1) + 1 - i]
    <2>1. CASE i = 1
      BY <1>1, <1>2, <2>1
    <2>2. CASE i # 1
      <3>1. i - 1 \in 1..n /\ n + 1 - (i - 1) = (n + 1) + 1 - i
        BY <1>1, <2>2
      <3>2. github[i - 1] = Timeline[n + 1 - (i - 1)]
        BY <3>1 DEF ListInv
      <3> QED BY <1>2, <2>2, <3>1, <3>2
    <2> QED BY <2>1, <2>2
  <1> HIDE DEF n, r
  <1>4. ListInv'
    BY <1>1, <1>2, <1>3, TimelineTypes DEF ListInv
  <1> QED BY <1>1, <1>4 DEF n, r

\* A new release moves the choice forward, if at all.
LEMMA PublishKeepsOrder ==
  ASSUME ListInv, UniqueVersions, Publish
  PROVE  Index(Best') \in Nat /\ Index(Best) <= Index(Best')
  <1> DEFINE n == Len(github)
             r == Timeline[n + 1]
  <1>1. /\ github \in Seq(Release) /\ n \in Nat /\ n + 1 \in 1..Len(Timeline)
        /\ r \in Release /\ github' = <<r>> \o github
    BY PublishKeepsList, TimelineTypes DEF ListInv
  <1>2. Best' \in {Best, r.version}
    BY <1>1, PublishKeepsOrReplaces DEF Best
  <1>3. Index(r.version) = n + 1
    BY <1>1, IndexOfPublished
  <1>4. Index(Best) <= n /\ Index(Best) \in Nat
    BY BestIsPublished, IndexOfKnown
  <1>5. Index(Best') \in {Index(Best), n + 1}
    BY <1>2, <1>3
  <1> HIDE DEF n, r
  <1> QED BY <1>1, <1>4, <1>5

\* A step of t leaves alone what the other goroutines hold.
Own(t) ==
  /\ \A u \in Threads \ {t} :
       /\ pc'[u] = pc[u] /\ field'[u] = field[u] /\ result'[u] = result[u]
       /\ failed'[u] = failed[u] /\ prior'[u] = prior[u]
  /\ prior' = [u \in Threads |-> prior'[u]] /\ failed' \in [Threads -> BOOLEAN]
  /\ github' = github

ThreadStep(t) ==
  QuietStep(t) \/ UserChanges(t) \/ persistLastUpdateCheck(t) \/ SaveSettings(t)

LEMMA OwnParts ==
  ASSUME TypeInv, OfferInv, NEW t \in Threads, ThreadStep(t)
  PROVE  Own(t)
  <1> USE DEF TypeInv, SettingsTypeOK, Results, Goto, Own, worldVars, settingsVars
  <1>1. /\ prior = [u \in Threads |-> prior[u]] /\ failed \in [Threads -> BOOLEAN]
    BY DEF OfferInv
  <1>2. CASE Tick(t) \/ CheckForUpdatesNow(t) \/ MaybeCheck(t)
    BY <1>1, <1>2 DEF Tick, CheckForUpdatesNow, MaybeCheck, BeginFetch
  <1>3. CASE SkipCheck(t)
    BY <1>1, <1>3 DEF SkipCheck, updateVars
  <1>4. ASSUME NEW ok \in BOOLEAN, CheckNow(t, ok) PROVE Own(t)
    <2>1. \A u \in Threads \ {t} : result'[u] = result[u]
      BY <1>4 DEF CheckNow
    <2>2. (~ok) \in BOOLEAN
      OBVIOUS
    <2> QED BY <1>1, <1>4, <2>1, <2>2 DEF CheckNow
  <1>5. CASE StoreMerged(t)
    BY <1>1, <1>5 DEF StoreMerged
  <1>6. CASE Observe(t) \/ SyncStore(t)
    BY <1>1, <1>6 DEF Observe, SyncStore, Done
  <1>7. CASE SyncLoad(t)
    <2>1. CASE state.enabled = result[t].enabled
      <3>1. Done(t) /\ github' = github /\ field' = field
        BY <1>7, <2>1 DEF SyncLoad
      <3> QED BY <1>1, <3>1 DEF Done
    <2>2. CASE state.enabled # result[t].enabled
      BY <1>1, <1>7, <2>2 DEF SyncLoad
    <2> QED BY <2>1, <2>2
  <1>8. CASE UserChanges(t)
    <2>1. PICK o \in Options : SetOption(t, o)
      BY <1>8, Setters
    <2> QED BY <1>1, <1>8, <2>1 DEF UserChanges, SetOption, CopyUnderLock, updateVars
  <1>9. CASE persistLastUpdateCheck(t)
    BY <1>1, <1>9 DEF persistLastUpdateCheck, CopyUnderLock
  <1>10. CASE SaveSettings(t)
    <2>1. Returned(t) /\ \E step : Goto(t, step)
      BY <1>10 DEF SaveSettings, Replace, Refuse
    <2> QED BY <1>1, <1>10, <2>1 DEF SaveSettings, Returned
  <1> QED BY <1>2, <1>3, <1>4, <1>5, <1>6, <1>7, <1>8, <1>9, <1>10
          DEF ThreadStep, QuietStep

\* Offers do not depend on times and flags.
LEMMA SameOffer ==
  ASSUME NEW s, NEW r, Offered(s), r.latest = s.latest, r.available = s.available,
         r = [latest |-> r.latest, available |-> r.available, last |-> r.last,
              enabled |-> r.enabled]
  PROVE  Offered(r)
  BY DEF Offered

LEMMA BlankIsOffered == Offered(Blank)
  <1>1. isNewerVersion(Current, NoRelease) = FALSE
    BY DEF isNewerVersion
  <1> QED BY <1>1 DEF Offered, Blank, Known

LEMMA OfferKept ==
  ASSUME TypeInv, ListInv, OfferInv, [Next]_vars
  PROVE  ListInv' /\ OfferInv'
  <1>1. CASE UNCHANGED vars \/ ClockTick \/ ReadSettings
    <2>1. UNCHANGED <<github, state, prior, failed, result, pc>>
      BY <1>1 DEF vars, ClockTick, ReadSettings, LoadSettings, updateVars, worldVars
    <2> QED BY <2>1 DEF ListInv, OfferInv, Offered
  <1>2. CASE Publish
    <2>1. UNCHANGED <<state, prior, failed, result, pc>>
      BY <1>2 DEF Publish, updateVars
    <2> QED BY <1>2, <2>1, PublishKeepsList DEF OfferInv, Offered
  <1>3. CASE StartUpdates
    <2>1. /\ UNCHANGED <<github, prior, failed, result, pc>>
          /\ state' = [latest |-> Blank.latest, available |-> Blank.available,
                       last |-> settings.last, enabled |-> settings.on["checks"]]
      BY <1>3 DEF StartUpdates, worldVars, Blank
    <2>2. Offered(state')
      BY <2>1, BlankIsOffered, SameOffer
    <2> QED BY <2>1, <2>2 DEF OfferInv, ListInv, Offered
  <1>4. CASE Restart
    <2>1. /\ github' = github /\ state' = Blank
          /\ prior' = [t \in Threads |-> Blank] /\ failed' = [t \in Threads |-> FALSE]
          /\ \A t \in Threads : pc'[t] = "idle"
      BY <1>4 DEF Restart, SettingsRestart
    <2>2. Offered(state') /\ \A t \in Threads : Offered(prior'[t])
      BY <2>1, BlankIsOffered
    <2> QED BY <2>1, <2>2 DEF OfferInv, ListInv, Offered
  <1>5. ASSUME NEW t \in Threads, ThreadStep(t) PROVE ListInv' /\ OfferInv'
    <2>1. Own(t)
      BY <1>5, OwnParts
    <2>2. ListInv'
      BY <2>1 DEF Own, ListInv
    <2>3. Offered(state) /\ Offered(prior[t]) /\ IsResult(result[t]) /\ t \in DOMAIN prior
      BY DEF OfferInv, TypeInv, Results
    <2>4. /\ Offered(state') /\ Offered(prior'[t])
          /\ pc'[t] = "store" /\ ~failed'[t] => Offered(result'[t])
      <3> USE DEF TypeInv, Goto, At
      <3>1. CASE Tick(t) \/ CheckForUpdatesNow(t) \/ MaybeCheck(t) \/ SkipCheck(t)
        <4>1. UNCHANGED <<state, prior>> /\ pc'[t] # "store"
          BY <3>1 DEF Tick, CheckForUpdatesNow, MaybeCheck, SkipCheck, BeginFetch,
                      updateVars
        <4> QED BY <2>3, <4>1 DEF Offered
      <3>2. ASSUME NEW ok \in BOOLEAN, CheckNow(t, ok)
            PROVE  /\ Offered(state') /\ Offered(prior'[t])
                   /\ pc'[t] = "store" /\ ~failed'[t] => Offered(result'[t])
        <4>1. state' = state /\ prior'[t] = state /\ (failed'[t] <=> ~ok)
          BY <3>2 DEF CheckNow, OfferInv
        <4>2. ok => /\ result'[t].latest = Best
                    /\ result'[t].available = isNewerVersion(Current, Best)
          BY <3>2 DEF CheckNow, Best, Results, IsResult
        <4>3. result'[t] = [latest |-> result'[t].latest,
                            available |-> result'[t].available,
                            last |-> result'[t].last, enabled |-> result'[t].enabled]
          BY <3>2 DEF CheckNow, Results, IsResult
        <4> QED BY <2>3, <4>1, <4>2, <4>3, BestIsPublished DEF Offered
      <3>3. CASE StoreMerged(t)
        <4>1. state' = merged(t) /\ prior' = prior /\ pc'[t] = "persist" /\ pc[t] = "store"
          BY <3>3 DEF StoreMerged
        <4>2. CASE failed[t]
          <5>1. merged(t) = [result[t] EXCEPT !.latest = prior[t].latest,
                                              !.available = prior[t].available]
            BY <4>2 DEF merged
          <5>2. merged(t) = [latest |-> prior[t].latest, available |-> prior[t].available,
                             last |-> result[t].last, enabled |-> result[t].enabled]
            BY <2>3, <5>1 DEF IsResult
          <5>3. Offered(merged(t))
            BY <2>3, <5>2, SameOffer
          <5> QED BY <2>3, <4>1, <5>3 DEF Offered
        <4>3. CASE ~failed[t]
          <5>1. merged(t) = result[t] /\ Offered(result[t])
            BY <4>1, <4>3 DEF merged, OfferInv
          <5> QED BY <2>3, <4>1, <5>1 DEF Offered
        <4> QED BY <4>2, <4>3
      <3>4. CASE Observe(t)
        <4>1. state' = state /\ prior'[t] = Blank /\ pc'[t] # "store"
          BY <2>3, <3>4 DEF Observe, Done
        <4> QED BY <2>3, <4>1, BlankIsOffered DEF Offered
      <3>5. CASE SyncLoad(t)
        <4>1. state' = state /\ prior'[t] \in {Blank, state} /\ pc'[t] # "store"
          BY <2>3, <3>5 DEF SyncLoad, Done
        <4> QED BY <2>3, <4>1, BlankIsOffered DEF Offered
      <3>6. CASE SyncStore(t)
        <4>1. /\ state' = [prior[t] EXCEPT !.enabled = result[t].enabled]
              /\ prior'[t] = Blank /\ pc'[t] # "store"
          BY <2>3, <3>6 DEF SyncStore, Done
        <4>2. state' = [latest |-> prior[t].latest, available |-> prior[t].available,
                        last |-> prior[t].last, enabled |-> result[t].enabled]
          BY <2>3, <4>1 DEF Offered
        <4>3. Offered(state')
          BY <2>3, <4>2, SameOffer
        <4> QED BY <4>1, <4>3, BlankIsOffered
      <3>7. CASE UserChanges(t) \/ persistLastUpdateCheck(t) \/ SaveSettings(t)
        <4>1. UNCHANGED <<state, prior>>
          BY <3>7 DEF UserChanges, persistLastUpdateCheck, SaveSettings, updateVars
        <4>2. pc'[t] # "store"
          <5>1. CASE UserChanges(t)
            BY <5>1, Setters DEF SetOption, CopyUnderLock
          <5>2. CASE persistLastUpdateCheck(t)
            BY <5>2 DEF persistLastUpdateCheck, CopyUnderLock
          <5>3. CASE SaveSettings(t)
            BY <5>3 DEF SaveSettings, AfterSave
          <5> QED BY <3>7, <5>1, <5>2, <5>3
        <4> QED BY <2>3, <4>1, <4>2 DEF Offered
      <3> QED BY <1>5, <3>1, <3>2, <3>3, <3>4, <3>5, <3>6, <3>7
              DEF ThreadStep, QuietStep
    <2>5. \A u \in Threads : /\ Offered(prior'[u])
                             /\ pc'[u] = "store" /\ ~failed'[u] => Offered(result'[u])
      BY <2>1, <2>4 DEF Own, OfferInv
    <2>6. (Offered(state))' /\ \A u \in Threads :
             /\ (Offered(prior[u]))'
             /\ pc'[u] = "store" /\ ~failed'[u] => (Offered(result[u]))'
      BY <2>4, <2>5 DEF Offered
    <2> QED BY <2>1, <2>2, <2>6 DEF Own, OfferInv
  <1> QED BY <1>1, <1>2, <1>3, <1>4, <1>5, Parts DEF Outside, ThreadStep

LEMMA InitOffer == Init => ListInv /\ OfferInv
  <1> SUFFICES ASSUME Init PROVE ListInv /\ OfferInv
    OBVIOUS
  <1>1. /\ prior = [t \in Threads |-> Blank] /\ failed = [t \in Threads |-> FALSE]
        /\ state = Blank /\ github = <<>> /\ \A t \in Threads : pc[t] # "store"
    BY DEF Init
  <1>2. ListInv
    BY <1>1, TimelineTypes DEF ListInv
  <1> QED BY <1>1, <1>2, BlankIsOffered DEF OfferInv

\* Every version has at most three one-digit segments, as those of the project do.
ShortVersions ==
  /\ Short(Current) /\ \A v \in Catalog : Short(v)
  /\ \A k \in DOMAIN Timeline : Short(Timeline[k].version)

\* Of a list of short versions the choice is the newest by weight.
LEMMA NewestByWeight ==
  ASSUME NEW s \in Seq(Release), NEW c, Short(c),
         \A i \in 1..Len(s) : Short(s[i].version)
  PROVE  /\ Newest(s, FetchLatestRelease(s))
         /\ isNewerVersion(c, FetchLatestRelease(s))
              <=> /\ FetchLatestRelease(s) # NoRelease
                  /\ Weight(c) < Weight(FetchLatestRelease(s))
  <1> DEFINE v == FetchLatestRelease(s)
  <1>1. Len(s) \in Nat /\ DOMAIN s = 1..Len(s) /\ FirstHighest(s, Len(s), v)
    BY NewestIsChosen, ReleaseTypes
  <1>2. \A i \in 1..Len(s) : s[i].version \in Version /\ s[i].stable \in BOOLEAN
    BY ReleaseTypes
  <1>3. \A a : Short(a) => Weight(a) \in Int
    <2>1. ASSUME NEW a, Short(a) PROVE Weight(a) \in Int
      <3>1. /\ segAt(a.main, 1) \in Nat /\ segAt(a.main, 2) \in Nat
            /\ segAt(a.main, 3) \in Nat /\ a.pre \in Nat
        BY <2>1, SegmentType DEF Short, Version
      <3>2. CASE a.pre = 0
        BY <3>1, <3>2 DEF Weight
      <3>3. CASE a.pre # 0
        BY <3>1, <3>3 DEF Weight
      <3> QED BY <3>2, <3>3
    <2> QED BY <2>1
  <1> HIDE DEF v
  <1>4. CASE v = NoRelease
    <2>1. \A i \in 1..Len(s) : ~s[i].stable
      BY <1>1, <1>2, <1>4, VersionsAssumption DEF FirstHighest, VersionsAssumption
    <2>2. {s[i].version : i \in {j \in DOMAIN s : s[j].stable}} = {}
      BY <1>1, <2>1
    <2> QED BY <1>4, <2>2 DEF Newest, isNewerVersion, v
  <1>5. CASE v # NoRelease
    <2>1. PICK i \in 1..Len(s) :
            /\ s[i].stable /\ v = s[i].version
            /\ \A j \in 1..Len(s) : s[j].stable => ~compareSemver(v, s[j].version)
      BY <1>1, <1>5 DEF FirstHighest
    <2>2. Short(v) /\ (compareSemver(c, v) <=> Weight(c) < Weight(v))
      BY <2>1, WeightIsOrder
    <2>3. ASSUME NEW j \in 1..Len(s), s[j].stable
          PROVE  Weight(s[j].version) <= Weight(v)
      BY <1>3, <2>1, <2>2, <2>3, WeightIsOrder
    <2> QED BY <1>1, <1>5, <2>1, <2>2, <2>3 DEF Newest, isNewerVersion, v
  <1> QED BY <1>4, <1>5

\* The release offered is the newest stable one in whatever list GitHub returns,
\* and it is offered only when it outranks the running version (FetchLatestRelease,
\* isNewerVersion), for versions of at most three one-digit segments.
THEOREM NewestIsOffered ==
  ASSUME ShortVersions
  PROVE  Spec => []NewestOffered
  <1>1. NewestOfAnyList
    <2> SUFFICES ASSUME NEW releases \in CandidateLists, NEW current \in Catalog
                 PROVE  LET found == FetchLatestRelease(releases)
                        IN  /\ Newest(releases, found)
                            /\ isNewerVersion(current, found)
                                 <=> /\ found # NoRelease
                                     /\ Weight(current) < Weight(found)
      BY DEF NewestOfAnyList
    <2>1. PICK n \in 0..2 : releases \in [1..n -> Candidates]
      BY DEF CandidateLists
    <2>2. \A r \in Candidates : r \in Release /\ r.version \in Catalog
      BY VersionsAssumption DEF Candidates, Release, VersionsAssumption
    <2>3. releases \in Seq(Release) /\ Len(releases) = n
      <3>1. releases \in [1..n -> Release] /\ n \in Nat
        BY <2>1, <2>2
      <3> QED BY <3>1
    <2>4. \A i \in 1..Len(releases) : Short(releases[i].version)
      BY <2>1, <2>2, <2>3 DEF ShortVersions
    <2> QED BY <2>3, <2>4, NewestByWeight DEF ShortVersions
  <1>2. ListInv /\ OfferInv => NewestOffered
    <2> SUFFICES ASSUME OfferInv, state.available
                 PROVE  /\ state.latest # NoRelease
                        /\ Weight(Current) < Weight(state.latest)
      BY <1>1 DEF NewestOffered
    <2>1. Known(state.latest) /\ isNewerVersion(Current, state.latest)
      BY DEF OfferInv, Offered
    <2>2. state.latest # NoRelease /\ Short(state.latest)
      BY <2>1 DEF isNewerVersion, Known, ShortVersions
    <2> QED BY <2>1, <2>2, WeightIsOrder DEF isNewerVersion, ShortVersions
  <1>3. TypeInv /\ (ListInv /\ OfferInv) /\ [Next]_vars => (ListInv /\ OfferInv)'
    BY OfferKept
  <1> QED BY <1>2, <1>3, InitTypes, StepTypes, InitOffer, PTL DEF Spec

\* A step of t that finds, stores and announces nothing.
Aside(t) ==
  /\ UNCHANGED <<lastGood, announced, repeated, tracker, crossed, phase>>
  /\ raced => raced'
  /\ raced' \/ state'.latest = state.latest
  /\ pc'[t] # "store" /\ (pc'[t] = "gate" => phase = "running")
  /\ Checking(t)' => Checking(t)
  /\ Stored(t)' => /\ Stored(t) /\ result'[t].latest = result[t].latest
                   /\ result'[t].available = result[t].available

LEMMA AsideKeeps ==
  ASSUME TypeInv, SeenInv, NEW t \in Threads, Own(t), Aside(t)
  PROVE  SeenInv'
  <1>1. \A u \in Threads : (Checking(u))' => Checking(u)
    BY DEF Own, Aside, Checking, At
  <1>2. \A u \in Threads : pc'[u] = "store" /\ ~failed'[u] =>
          pc[u] = "store" /\ ~failed[u] /\ result'[u] = result[u]
    BY DEF Own, Aside
  <1>3. \A u \in Threads : Stored(u)' =>
          /\ Stored(u) /\ result'[u].latest = result[u].latest
          /\ result'[u].available = result[u].available
    BY DEF Own, Aside, Stored
  <1>4. Best' = Best
    BY DEF Own, Best
  <1>5. FoundInv'
    <2>1. \A u \in Threads : pc'[u] = "gate" => pc[u] = "gate" \/ phase = "running"
      BY DEF Own, Aside
    <2> QED BY <1>1, <1>2, <1>4, <2>1 DEF SeenInv, FoundInv, Aside
  <1>6. OneByOne'
    BY <1>1, <1>2 DEF SeenInv, OneByOne, Aside
  <1>7. AnnouncedInv'
    BY <1>3 DEF SeenInv, AnnouncedInv, Aside
  <1> QED BY <1>5, <1>6, <1>7 DEF SeenInv

LEMMA AsideParts ==
  ASSUME TypeInv, OfferInv, SeenInv, NEW t \in Threads,
         \/ Tick(t) \/ SkipCheck(t) \/ SyncLoad(t) \/ SyncStore(t)
         \/ UserChanges(t) \/ persistLastUpdateCheck(t) \/ SaveSettings(t)
  PROVE  Aside(t)
  <1> USE DEF Aside, TypeInv, Goto, At, Checking, Stored, updHistory
  <1>1. CASE Tick(t)
    BY <1>1 DEF Tick
  <1>2. CASE SkipCheck(t)
    BY <1>2 DEF SkipCheck, updateVars
  <1>3. CASE SyncLoad(t)
    <2>1. pc'[t] \in {"idle", "syncstore"}
      BY <1>3 DEF SyncLoad, Done
    <2> QED BY <1>3, <2>1 DEF SyncLoad
  <1>4. CASE SyncStore(t)
    <2>1. state # prior[t] \/ state'.latest = state.latest
      <3>1. prior[t] = [latest |-> prior[t].latest, available |-> prior[t].available,
                        last |-> prior[t].last, enabled |-> prior[t].enabled]
        BY DEF OfferInv, Offered
      <3> QED BY <1>4, <3>1 DEF SyncStore
    <2> QED BY <1>4, <2>1 DEF SyncStore, Done
  <1>5. CASE UserChanges(t)
    <2>1. PICK o \in Options : SetOption(t, o)
      BY <1>5, Setters
    <2>2. pc'[t] = "save" /\ field'[t] # "last"
      BY <2>1 DEF SetOption, CopyUnderLock, SettingsTypeOK, Options
    <2> QED BY <1>5, <2>2 DEF UserChanges, updateVars
  <1>6. CASE persistLastUpdateCheck(t)
    BY <1>6 DEF persistLastUpdateCheck, CopyUnderLock
  <1>7. CASE SaveSettings(t)
    <2>1. PICK saved \in BOOLEAN : Goto(t, AfterSave(t, saved)) /\ pc[t] = "save"
      BY <1>7 DEF SaveSettings
    <2>2. pc'[t] \in {"idle", "sync"} \/ (pc'[t] = "observe" /\ field[t] = "last")
      BY <2>1 DEF AfterSave
    <2>3. pc'[t] # "sync" => result' = result
      BY <1>7 DEF SaveSettings
    <2> QED BY <1>7, <2>1, <2>2, <2>3 DEF SaveSettings
  <1> QED BY <1>1, <1>2, <1>3, <1>4, <1>5, <1>6, <1>7

\* A check begins: alone, or crossed.
LEMMA BeginsSeen ==
  ASSUME TypeInv, SeenInv, NEW t \in Threads, Own(t), MaybeCheck(t) \/ CheckForUpdatesNow(t)
  PROVE  SeenInv'
  <1>1. /\ UNCHANGED <<lastGood, announced, repeated, raced, tracker, state, phase>>
        /\ BeginFetch(t) /\ pc[t] \in {"gate", "idle"} /\ pc'[t] = "fetch"
        /\ phase = "running"
    <2>1. BeginFetch(t) /\ pc[t] \in {"gate", "idle"}
      BY DEF MaybeCheck, CheckForUpdatesNow, At
    <2>2. pc'[t] = "fetch"
      BY <2>1 DEF BeginFetch, Goto, TypeInv
    <2>3. phase = "running"
      BY DEF MaybeCheck, CheckForUpdatesNow, At, SeenInv, FoundInv
    <2> QED BY <2>1, <2>2, <2>3 DEF MaybeCheck, CheckForUpdatesNow
  <1>2. \A u \in Threads : pc'[u] = "store" /\ ~failed'[u] =>
          pc[u] = "store" /\ ~failed[u] /\ result'[u] = result[u]
    BY <1>1 DEF Own
  <1>3. \A u \in Threads : Stored(u)' => Stored(u) /\ result'[u] = result[u]
    BY <1>1 DEF Own, Stored
  <1>4. ~crossed' => ~crossed /\ \A u \in Threads : ~Checking(u)
    BY <1>1 DEF BeginFetch
  <1>5. ~crossed' => \A u \in Threads : (Checking(u))' => u = t
    BY <1>4 DEF Own, Checking, At
  <1>6. Best' = Best
    BY DEF Own, Best
  <1>7. FoundInv'
    BY <1>1, <1>2, <1>6 DEF SeenInv, FoundInv
  <1>8. OneByOne'
    BY <1>1, <1>2, <1>4, <1>5 DEF SeenInv, OneByOne
  <1>9. AnnouncedInv'
    BY <1>1, <1>3, <1>4 DEF SeenInv, AnnouncedInv
  <1> QED BY <1>7, <1>8, <1>9 DEF SeenInv

\* What it finds is the best of the list, in which the last find was.
LEMMA FindsSeen ==
  ASSUME TypeInv, UniqueVersions, ListInv, SeenInv, NEW t \in Threads, Own(t),
         NEW ok \in BOOLEAN, CheckNow(t, ok)
  PROVE  SeenInv'
  <1>1. /\ UNCHANGED <<lastGood, announced, repeated, raced, crossed, tracker, state, phase>>
        /\ pc[t] = "fetch" /\ pc'[t] = "store" /\ (failed'[t] <=> ~ok)
    <2>1. failed'[t] <=> ~ok
      <3>1. failed' \in [Threads -> BOOLEAN] /\ failed' = [failed EXCEPT ![t] = ~ok]
        BY DEF Own, CheckNow
      <3>2. t \in DOMAIN failed
        BY <3>1
      <3> QED BY <3>1, <3>2
    <2> QED BY <2>1 DEF CheckNow, updHistory, At, Goto, TypeInv
  <1>2. ok => result'[t].latest = Best
    BY DEF CheckNow, Best, TypeInv, Results, IsResult
  <1>3. Best' = Best
    BY DEF Own, Best
  <1>4. \A u \in Threads : pc'[u] = "store" /\ ~failed'[u] =>
          \/ u = t /\ result'[u].latest = Best
          \/ pc[u] = "store" /\ ~failed[u] /\ result'[u] = result[u]
    BY <1>1, <1>2 DEF Own
  <1>5. \A u \in Threads : (Checking(u))' <=> Checking(u)
    BY <1>1 DEF Own, Checking, At
  <1>6. \A u \in Threads : Stored(u)' => Stored(u) /\ result'[u] = result[u]
    BY <1>1 DEF Own, Stored
  <1>7. Index(Best) \in Nat /\ Index(Best) <= Index(Best)
    BY BestIsPublished, IndexOfKnown
  <1>8. FoundInv'
    BY <1>1, <1>3, <1>4, <1>5, <1>7 DEF SeenInv, FoundInv, Own
  <1>9. OneByOne'
    BY <1>1, <1>4, <1>5 DEF SeenInv, OneByOne, FoundInv
  <1>10. AnnouncedInv'
    BY <1>1, <1>6 DEF SeenInv, AnnouncedInv
  <1> QED BY <1>8, <1>9, <1>10 DEF SeenInv

\* It stores what it found, or what was stored when it failed.
LEMMA StoresSeen ==
  ASSUME TypeInv, OfferInv, SeenInv, NEW t \in Threads, Own(t), StoreMerged(t)
  PROVE  SeenInv'
  <1>1. /\ UNCHANGED <<announced, repeated, crossed, tracker, phase>>
        /\ pc[t] = "store" /\ pc'[t] = "persist"
        /\ state' = merged(t) /\ result'[t] = merged(t)
        /\ lastGood' = IF failed[t] THEN lastGood ELSE result[t].latest
        /\ (raced => raced') /\ (failed[t] /\ state # prior[t] => raced')
    BY DEF StoreMerged, At, Goto, TypeInv, Results
  <1>2. Best' = Best
    BY DEF Own, Best
  <1>3. \A u \in Threads : (Checking(u))' <=> Checking(u)
    BY <1>1 DEF Own, Checking, At
  <1>4. \A u \in Threads : pc'[u] = "store" /\ ~failed'[u] =>
          u # t /\ pc[u] = "store" /\ ~failed[u] /\ result'[u] = result[u]
    BY <1>1 DEF Own
  <1>5. /\ failed[t] => /\ merged(t).latest = prior[t].latest
                        /\ merged(t).available = prior[t].available
        /\ ~failed[t] => merged(t) = result[t] /\ Offered(result[t])
    <2>1. result[t] = [latest |-> result[t].latest, available |-> result[t].available,
                       last |-> result[t].last, enabled |-> result[t].enabled]
      BY DEF TypeInv, Results, IsResult
    <2>2. failed[t] => merged(t) = [latest |-> prior[t].latest,
                                    available |-> prior[t].available,
                                    last |-> result[t].last, enabled |-> result[t].enabled]
      BY <2>1 DEF merged
    <2> QED BY <1>1, <2>2 DEF merged, OfferInv
  <1>6. ~raced' => /\ merged(t).latest = lastGood'
                   /\ merged(t).available = isNewerVersion(Current, lastGood')
    <2>1. CASE failed[t]
      <3>1. ~raced' => state = prior[t] /\ state.latest = lastGood
        BY <1>1, <2>1 DEF SeenInv, FoundInv
      <3>2. state.available = isNewerVersion(Current, state.latest)
        BY DEF OfferInv, Offered
      <3> QED BY <1>1, <1>5, <2>1, <3>1, <3>2
    <2>2. CASE ~failed[t]
      BY <1>1, <1>5, <2>2 DEF Offered
    <2> QED BY <2>1, <2>2
  <1>7. Known(lastGood') /\ Index(lastGood') <= Index(Best)
    <2>1. ~failed[t] => Known(result[t].latest)
      BY <1>5 DEF Offered
    <2> QED BY <1>1, <2>1 DEF SeenInv, FoundInv
  <1>8. FoundInv'
    <2>1. \A u \in Threads : pc'[u] = "gate" => pc[u] = "gate"
      BY <1>1 DEF Own
    <2>2. phase = "running"
      BY <1>1 DEF SeenInv, FoundInv, Checking
    <2>3. \A u \in Threads : pc'[u] = "store" /\ ~failed'[u] =>
            Index(result'[u].latest) <= Index(Best)
      BY <1>4 DEF SeenInv, FoundInv
    <2> QED BY <1>1, <1>2, <1>6, <1>7, <2>2, <2>3 DEF FoundInv
  <1>9. ~crossed' => /\ \A u \in Threads : Checking(u) => u = t
                     /\ Index(lastGood) <= Index(lastGood')
    <2>1. Checking(t)
      BY <1>1 DEF Checking
    <2>2. Index(lastGood) \in Nat
      BY IndexOfKnown DEF SeenInv, FoundInv
    <2> QED BY <1>1, <2>1, <2>2 DEF SeenInv, OneByOne
  <1>10. OneByOne'
    <2>1. ~crossed' => \A u \in Threads : pc'[u] = "store" => FALSE
      BY <1>1, <1>9 DEF Own, Checking
    <2> QED BY <1>1, <1>3, <2>1 DEF SeenInv, OneByOne
  <1>11. AnnouncedInv'
    <2> SUFFICES ASSUME ~crossed', ~raced' PROVE AnnouncedInv'
      BY DEF AnnouncedInv
    <2>1. ~crossed /\ ~raced
      BY <1>1
    <2>2. \A u \in Threads : Stored(u)' => u = t
      BY <1>1, <1>3, <1>9 DEF Own, Stored, Checking, At
    <2>3. ASSUME NEW v \in announced
          PROVE  /\ v # NoRelease /\ Known(v) /\ isNewerVersion(Current, v)
                 /\ Index(v) <= Index(lastGood')
                 /\ v = lastGood' => tracker = v
      <3>1. /\ v # NoRelease /\ Known(v) /\ isNewerVersion(Current, v)
            /\ Index(v) <= Index(lastGood) /\ (v = lastGood => tracker = v)
        BY <2>1 DEF SeenInv, AnnouncedInv
      <3>2. /\ Index(v) \in Nat /\ Index(lastGood) \in Nat /\ Index(lastGood') \in Nat
            /\ Index(lastGood) <= Index(lastGood')
        BY <1>1, <1>7, <1>9, <3>1, IndexOfKnown DEF SeenInv, FoundInv
      <3>3. v = lastGood' => v = lastGood
        <4>1. v = lastGood' => Index(v) = Index(lastGood)
          BY <3>1, <3>2
        <4> QED BY <3>1, <4>1, IndexInjective DEF SeenInv, FoundInv
      <3> QED BY <3>1, <3>2, <3>3
    <2> QED BY <1>1, <1>6, <2>1, <2>2, <2>3 DEF SeenInv, AnnouncedInv
  <1> QED BY <1>8, <1>10, <1>11 DEF SeenInv

\* Observe announces what the tracker does not know.
LEMMA ObservesSeen ==
  ASSUME TypeInv, SeenInv, NEW t \in Threads, Own(t), Observe(t)
  PROVE  SeenInv'
  <1> DEFINE seen == IF result[t].available THEN result[t].latest ELSE NoRelease
             fire == seen # NoRelease /\ seen # tracker
  <1>1. /\ UNCHANGED <<lastGood, raced, crossed, state, phase>>
        /\ pc[t] = "observe" /\ pc'[t] = "idle" /\ tracker' = seen
        /\ announced' = IF fire THEN announced \cup {seen} ELSE announced
        /\ (repeated' <=> (repeated \/ (fire /\ seen \in announced)))
    BY DEF Observe, Done, At, Goto, TypeInv
  <1>2. Best' = Best
    BY DEF Own, Best
  <1>3. \A u \in Threads : pc'[u] = "store" /\ ~failed'[u] =>
          pc[u] = "store" /\ ~failed[u] /\ result'[u] = result[u]
    BY <1>1 DEF Own
  <1>4. \A u \in Threads : (Checking(u))' => Checking(u)
    BY <1>1 DEF Own, Checking, At
  <1>5. \A u \in Threads : Stored(u)' => Stored(u) /\ result'[u] = result[u]
    BY <1>1 DEF Own, Stored
  <1>6. FoundInv'
    <2>1. \A u \in Threads : pc'[u] = "gate" => pc[u] = "gate"
      BY <1>1 DEF Own
    <2>2. phase = "running"
      BY <1>1 DEF SeenInv, FoundInv, Checking
    <2> QED BY <1>1, <1>2, <1>3, <2>2 DEF SeenInv, FoundInv
  <1>7. OneByOne'
    BY <1>1, <1>3, <1>4 DEF SeenInv, OneByOne
  <1>8. AnnouncedInv'
    <2> SUFFICES ASSUME ~crossed, ~raced PROVE AnnouncedInv'
      BY <1>1 DEF AnnouncedInv
    <2>1. /\ ~repeated
          /\ result[t].latest = lastGood
          /\ result[t].available = isNewerVersion(Current, lastGood)
          /\ \A v \in announced :
               /\ v # NoRelease /\ Known(v) /\ isNewerVersion(Current, v)
               /\ Index(v) <= Index(lastGood)
               /\ v = lastGood => tracker = v
      BY <1>1 DEF SeenInv, AnnouncedInv, Stored
    <2>2. /\ isNewerVersion(Current, lastGood) => seen = lastGood
          /\ fire => seen = lastGood /\ isNewerVersion(Current, lastGood)
      <3>1. CASE isNewerVersion(Current, lastGood)
        BY <2>1, <3>1
      <3>2. CASE ~isNewerVersion(Current, lastGood)
        BY <2>1, <3>2
      <3> QED BY <3>1, <3>2
    <2>3. Known(lastGood) /\ Index(lastGood) \in Nat
      BY IndexOfKnown DEF SeenInv, FoundInv
    <2> HIDE DEF seen
    <2>4. ~repeated'
      BY <1>1, <2>1, <2>2
    <2>5. ASSUME NEW v \in announced'
          PROVE  /\ v # NoRelease /\ Known(v) /\ isNewerVersion(Current, v)
                 /\ Index(v) <= Index(lastGood)
                 /\ v = lastGood => tracker' = v
      <3>1. CASE v \in announced
        BY <1>1, <2>1, <2>2, <3>1
      <3>2. CASE v \notin announced
        BY <1>1, <2>2, <2>3, <3>2
      <3> QED BY <3>1, <3>2
    <2> QED BY <1>1, <1>5, <2>4, <2>5 DEF SeenInv, AnnouncedInv
  <1> QED BY <1>6, <1>7, <1>8 DEF SeenInv

\* New releases, the clock, the start, and a restart, which forgets all of it.
LEMMA OutsideSeen ==
  ASSUME TypeInv, UniqueVersions, ListInv, OfferInv, SeenInv,
         Outside \/ ReadSettings \/ Restart \/ UNCHANGED vars
  PROVE  SeenInv'
  <1>1. CASE ClockTick \/ Publish \/ ReadSettings \/ UNCHANGED vars
    <2>1. /\ UNCHANGED <<state, tracker, result, failed, pc, field, updHistory>>
          /\ phase' = phase \/ (phase # "running" /\ phase' # "running")
      BY <1>1 DEF ClockTick, Publish, ReadSettings, LoadSettings, vars, updateVars,
                  settingsVars
    <2>2. Index(Best) \in Nat /\ Index(Best') \in Nat /\ Index(Best) <= Index(Best')
      <3>1. CASE Publish
        BY <3>1, PublishKeepsOrder, PublishKeepsList, BestIsPublished, IndexOfKnown
      <3>2. CASE github' = github
        BY <3>2, BestIsPublished, IndexOfKnown DEF Best
      <3> QED BY <1>1, <3>1, <3>2
              DEF ClockTick, ReadSettings, vars, worldVars
    <2>3. \A u \in Threads : /\ (Checking(u))' <=> Checking(u)
                             /\ Stored(u)' <=> Stored(u)
      BY <2>1 DEF Checking, Stored, At
    <2>4. FoundInv'
      <3>1. Index(lastGood) \in Nat /\ Index(lastGood) <= Index(Best')
        BY <2>2, IndexOfKnown DEF SeenInv, FoundInv
      <3>2. ASSUME NEW u \in Threads, pc[u] = "store", ~failed[u]
            PROVE  Index(result[u].latest) <= Index(Best')
        <4>1. Index(result[u].latest) <= Index(Best)
          BY <3>2 DEF SeenInv, FoundInv
        <4>2. Index(result[u].latest) \in Nat
          BY <3>2, IndexOfKnown DEF OfferInv, Offered
        <4> QED BY <2>2, <4>1, <4>2
      <3> QED BY <2>1, <2>3, <3>1, <3>2 DEF SeenInv, FoundInv, updHistory
    <2>5. OneByOne'
      BY <2>1, <2>3 DEF SeenInv, OneByOne, updHistory
    <2>6. AnnouncedInv'
      BY <2>1, <2>3 DEF SeenInv, AnnouncedInv, updHistory
    <2> QED BY <2>4, <2>5, <2>6 DEF SeenInv
  <1>2. CASE StartUpdates
    <2>1. /\ UNCHANGED <<github, tracker, result, failed, pc, field, updHistory>>
          /\ phase # "running" /\ phase' = "running" /\ state'.latest = NoRelease
      BY <1>2 DEF StartUpdates, updateVars, settingsVars, worldVars, Blank
    <2>2. FoundInv'
      BY <2>1 DEF SeenInv, FoundInv, updHistory, Best
    <2>3. OneByOne'
      BY <2>1 DEF SeenInv, OneByOne, updHistory, Checking, At
    <2>4. AnnouncedInv'
      BY <2>1 DEF SeenInv, AnnouncedInv, updHistory, Stored
    <2> QED BY <2>2, <2>3, <2>4 DEF SeenInv
  <1>3. CASE Restart
    <2>1. /\ UNCHANGED <<github, raced, crossed, repeated>>
          /\ lastGood' = NoRelease /\ announced' = {} /\ state'.latest = NoRelease
          /\ \A u \in Threads : pc'[u] = "idle"
      BY <1>3 DEF Restart, SettingsRestart, Blank
    <2>2. Known(NoRelease) /\ Index(NoRelease) = 0 /\ Index(Best) \in Nat
      BY BestIsPublished, IndexOfKnown DEF Known, Index
    <2>3. FoundInv'
      BY <2>1, <2>2 DEF FoundInv, Best, Checking, At
    <2>4. OneByOne'
      BY <2>1 DEF OneByOne, Checking, At
    <2>5. AnnouncedInv'
      BY <2>1 DEF SeenInv, AnnouncedInv, Stored
    <2> QED BY <2>3, <2>4, <2>5 DEF SeenInv
  <1> QED BY <1>1, <1>2, <1>3 DEF Outside

LEMMA InitSeen == Init => SeenInv
  <1> SUFFICES ASSUME Init PROVE SeenInv
    OBVIOUS
  <1>1. ListInv
    BY InitOffer
  <1>2. Known(NoRelease) /\ Index(NoRelease) = 0 /\ Index(Best) \in Nat
    BY <1>1, BestIsPublished, IndexOfKnown DEF Known, Index
  <1>3. FoundInv
    BY <1>2 DEF Init, FoundInv, Checking, At, Blank
  <1> QED BY <1>3 DEF Init, SeenInv, OneByOne, AnnouncedInv, Checking, Stored, At

LEMMA StepSeen ==
  ASSUME UniqueVersions
  PROVE  TypeInv /\ ListInv /\ OfferInv /\ SeenInv /\ [Next]_vars => SeenInv'
  <1> SUFFICES ASSUME TypeInv, ListInv, OfferInv, SeenInv, [Next]_vars PROVE SeenInv'
    OBVIOUS
  <1>1. CASE Outside \/ ReadSettings \/ Restart \/ UNCHANGED vars
    BY <1>1, OutsideSeen
  <1>2. ASSUME NEW t \in Threads, ThreadStep(t) PROVE SeenInv'
    <2>1. Own(t)
      BY <1>2, OwnParts
    <2>2. CASE MaybeCheck(t) \/ CheckForUpdatesNow(t)
      BY <2>1, <2>2, BeginsSeen
    <2>3. ASSUME NEW ok \in BOOLEAN, CheckNow(t, ok) PROVE SeenInv'
      BY <2>1, <2>3, FindsSeen
    <2>4. CASE StoreMerged(t)
      BY <2>1, <2>4, StoresSeen
    <2>5. CASE Observe(t)
      BY <2>1, <2>5, ObservesSeen
    <2>6. CASE \/ Tick(t) \/ SkipCheck(t) \/ SyncLoad(t) \/ SyncStore(t)
               \/ UserChanges(t) \/ persistLastUpdateCheck(t) \/ SaveSettings(t)
      BY <2>1, <2>6, AsideParts, AsideKeeps
    <2> QED BY <1>2, <2>2, <2>3, <2>4, <2>5, <2>6 DEF ThreadStep, QuietStep
  <1> QED BY <1>1, <1>2, Parts DEF ThreadStep

\* Failed checks and switches of the opt-out flag leave in place what the last
\* successful check found, and no version is announced twice, unless two writers
\* of the snapshot raced or two checks overlapped (StoreMerged, Observe), for a
\* timeline that gives no version to two releases.
THEOREM DetectedStays ==
  ASSUME UniqueVersions
  PROVE  Spec => []DetectedStaysShown
  <1>1. OfferInv /\ SeenInv => DetectedStaysShown
    BY DEF OfferInv, Offered, SeenInv, FoundInv, AnnouncedInv, DetectedStaysShown
  <1>2. TypeInv /\ (ListInv /\ OfferInv) /\ [Next]_vars => (ListInv /\ OfferInv)'
    BY OfferKept
  <1>3. TypeInv /\ (ListInv /\ OfferInv) /\ SeenInv /\ [Next]_vars => SeenInv'
    BY StepSeen
  <1> QED BY <1>1, <1>2, <1>3, InitTypes, StepTypes, InitOffer, InitSeen, PTL DEF Spec
=============================================================================
