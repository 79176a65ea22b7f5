------------------------- MODULE LadderPagesProofs -------------------------
(***************************************************************************)
(* Pages of the ladder show what they should, for rankings of any size:    *)
(* theorems about LadderPages.                                             *)
(***************************************************************************)
EXTENDS LadderPages, TeamRankOrderProofs

-----------------------------------------------------------------------------
(* Places without gaps. *)

LEMMA LeastAndGreatest ==
  ASSUME NEW n \in Nat, NEW P \in SUBSET (0..n), P # {}
  PROVE  /\ Min(P) \in P /\ \A i \in P : Min(P) <= i
         /\ Max(P) \in P /\ \A i \in P : i <= Max(P)
<1>1. PICK x \in P : TRUE
  OBVIOUS
<1>2. \E m \in P : \A i \in P : m <= i
  <2>1. P \in SUBSET Nat
    OBVIOUS
  <2> QED BY <1>1, <2>1, Smallest
<1>3. \E m \in P : \A i \in P : m >= i
  <2> DEFINE D == {n - i : i \in P}
  <2>1. D \in SUBSET Nat /\ n - x \in D
    BY <1>1
  <2> HIDE DEF D
  <2>2. PICK d \in D : \A k \in D : d <= k
    BY <2>1, Smallest
  <2>3. PICK m \in P : d = n - m
    BY DEF D
  <2>4. ASSUME NEW i \in P PROVE m >= i
    <3>1. d <= n - i /\ i \in 0..n /\ m \in 0..n
      BY <2>2 DEF D
    <3> QED BY <2>3, <3>1
  <2> QED BY <2>4
<1>4. Min(P) \in P /\ \A i \in P : Min(P) <= i
  BY <1>2 DEF Min
<1>5. Max(P) \in P /\ \A i \in P : Max(P) >= i
  BY <1>3 DEF Max
<1>6. ASSUME NEW i \in P PROVE i <= Max(P)
  <2> DEFINE m == Max(P)
  <2>1. m \in P /\ m >= i
    BY <1>5
  <2> HIDE DEF m
  <2>2. m \in Int /\ i \in Int
    BY <2>1
  <2>3. i <= m
    BY <2>1, <2>2
  <2> QED BY <2>3 DEF m
<1> QED BY <1>4, <1>5, <1>6

\* A piece of a list, and two lists one after the other.
LEMMA Piece ==
  ASSUME NEW n \in Nat, NEW s \in Seq(TeamRank), Len(s) = n,
         NEW d \in Nat, NEW m \in Nat, d + m <= n
  PROVE  /\ SubSeq(s, d + 1, d + m) \in Seq(TeamRank)
         /\ Len(SubSeq(s, d + 1, d + m)) = m
         /\ \A i \in 1..m : SubSeq(s, d + 1, d + m)[i] = s[d + i]
<1>1. SubSeq(s, d + 1, d + m) = [i \in 1..(d + m - (d + 1) + 1) |-> s[i + (d + 1) - 1]]
  OBVIOUS
<1>2. d + m - (d + 1) + 1 = m /\ \A i \in 1..m : i + (d + 1) - 1 = d + i /\ d + i \in 1..n
  OBVIOUS
<1> DEFINE a == SubSeq(s, d + 1, d + m)
<1> HIDE DEF a
<1>3. a = [i \in 1..m |-> s[d + i]]
  BY <1>1, <1>2 DEF a
<1>4. \A i \in 1..m : s[d + i] \in TeamRank
  BY <1>2
<1>5. a \in Seq(TeamRank) /\ Len(a) = m /\ \A i \in 1..m : a[i] = s[d + i]
  BY <1>3, <1>4
<1> QED BY <1>5 DEF a

Joins(t, k, a, m, b) ==
  /\ t \in Seq(TeamRank) /\ Len(t) = k + m
  /\ \A i \in 1..(k + m) : t[i] = IF i <= k THEN a[i] ELSE b[i - k]

LEMMA Joined ==
  ASSUME NEW k \in Nat, NEW a \in Seq(TeamRank), Len(a) = k,
         NEW m \in Nat, NEW b \in Seq(TeamRank), Len(b) = m
  PROVE  Joins(a \o b, k, a, m, b)
BY DEF Joins

Gapless(P) == \A i, k \in P : \A j \in i..k : j \in P

\* What is at such places is a piece of the list: the m elements after the first d.
PieceAt(s, n, P, d, m) ==
  /\ d + m <= n
  /\ P = (d + 1)..(d + m)
  /\ P # {} => d = Min(P) - 1 /\ d + m = Max(P)
  /\ RowsAt(s, P) \in Seq(TeamRank) /\ Len(RowsAt(s, P)) = m
  /\ \A i \in 1..m : RowsAt(s, P)[i] = s[d + i]

LEMMA RowsAtIs ==
  ASSUME NEW s, NEW n \in Nat, s \in Seq(TeamRank), Len(s) = n,
         NEW P \in SUBSET (1..n), Gapless(P)
  PROVE  \E d, m \in Nat : PieceAt(s, n, P, d, m)
<1>1. CASE P = {}
  <2>1. RowsAt(s, P) = <<>>
    BY <1>1 DEF RowsAt
  <2>2. 0 + 0 <= n /\ (0 + 1)..(0 + 0) = {} /\ \A i \in 1..0 : RowsAt(s, P)[i] = s[0 + i]
    OBVIOUS
  <2>3. <<>> \in Seq(TeamRank) /\ Len(<<>>) = 0
    OBVIOUS
  <2>4. RowsAt(s, P) \in Seq(TeamRank) /\ Len(RowsAt(s, P)) = 0
    BY <2>1, <2>3
  <2>5. P = (0 + 1)..(0 + 0)
    BY <1>1, <2>2
  <2>6. PieceAt(s, n, P, 0, 0)
    BY <1>1, <2>1, <2>2, <2>4, <2>5 DEF PieceAt
  <2> QED BY <2>6
<1>2. CASE P # {}
  <2> DEFINE lo == Min(P)
             hi == Max(P)
             d == lo - 1
             m == hi - d
  <2>1. /\ lo \in P /\ \A i \in P : lo <= i
        /\ hi \in P /\ \A i \in P : i <= hi
    <3>1. P \in SUBSET (0..n)
      OBVIOUS
    <3> QED BY <1>2, <3>1, LeastAndGreatest
  <2>2. RowsAt(s, P) = SubSeq(s, lo, hi)
    BY <1>2 DEF RowsAt
  <2> HIDE DEF lo, hi
  <2>3. lo \in 1..n /\ hi \in 1..n /\ lo <= hi
    BY <2>1
  <2>4. d \in Nat /\ m \in Nat /\ d + m <= n /\ d + m = hi
    BY <2>3
  <2>5. P = (d + 1)..(d + m)
    <3>1. \A j \in lo..hi : j \in P
      BY <2>1 DEF Gapless
    <3>2. \A j \in P : j \in lo..hi
      BY <2>1, <2>3
    <3>3. d + 1 = lo
      BY <2>3
    <3> QED BY <2>4, <3>1, <3>2, <3>3
  <2>6. SubSeq(s, lo, hi) \in Seq(TeamRank) /\ Len(SubSeq(s, lo, hi)) = m
        /\ \A i \in 1..m : SubSeq(s, lo, hi)[i] = s[d + i]
    <3>1. d + 1 = lo /\ d + m = hi
      BY <2>3
    <3> HIDE DEF d, m
    <3> QED BY <2>4, <3>1, Piece
  <2> HIDE DEF d, m
  <2>7. d = lo - 1
    BY DEF d
  <2>8. PieceAt(s, n, P, d, m)
    BY <2>2, <2>4, <2>5, <2>6, <2>7 DEF lo, hi, PieceAt
  <2> QED BY <2>4, <2>8
<1> QED BY <1>1, <1>2

\* Of a kind that leaves no gaps the first run is all there is.
LEMMA OneRun ==
  ASSUME NEW n \in Nat, NEW P \in SUBSET (1..n), Gapless(P)
  PROVE  {i \in 1..n : i \in P /\ ~(\E j, k \in 1..i : j < k /\ j \in P /\ k \notin P)} = P
<1>1. ASSUME NEW i \in P, NEW j \in 1..i, NEW k \in 1..i, j < k, j \in P PROVE k \in P
  <2>1. k \in j..i
    BY <1>1
  <2> QED BY <1>1, <2>1 DEF Gapless
<1> QED BY <1>1

-----------------------------------------------------------------------------
(* The order in which rows are shown, by the key and what breaks ties of it. *)

Earlier(key, x, y) == Ahead(key, x, y) \/ (Level(key, x, y) /\ TieBefore(key, x, y))
Shown(c, x, y) == IF c.reverse THEN Earlier(c.key, y, x) ELSE Earlier(c.key, x, y)
Better(c, x, y) == IF c.reverse THEN Ahead(c.key, y, x) ELSE Ahead(c.key, x, y)

LEMMA ShownOrder ==
  ASSUME NEW c \in Comparators, NEW x, NEW y, NEW z,
         Fit(c.key, x), Fit(c.key, y), Fit(c.key, z)
  PROVE  /\ ~Shown(c, x, x)
         /\ Shown(c, x, y) /\ Shown(c, y, z) => Shown(c, x, z)
         /\ ~Shown(c, x, y) /\ ~Shown(c, y, x) /\ ~Shown(c, y, z) /\ ~Shown(c, z, y)
              => ~Shown(c, x, z) /\ ~Shown(c, z, x)
<1> DEFINE d == [c EXCEPT !.strict = FALSE]
<1>1. c.key \in SortKeys /\ d.key = c.key /\ ~d.strict
  BY DEF Comparators
<1>2. \A u, v : First(d, u, v) <=> Earlier(c.key, u, v)
  BY <1>1 DEF First, Earlier
<1>3. \A u, v, w \in {x, y, z} : KeyOrder(d.key, u, v, w) /\ TieOrder(d.key, u, v, w)
  BY <1>1, KeysOrder, TiesOrder DEF Fit
<1> HIDE DEF d
<1>4. /\ ~First(d, x, x)
      /\ First(d, x, y) /\ First(d, y, z) => First(d, x, z)
      /\ ~First(d, x, y) /\ ~First(d, y, x) /\ ~First(d, y, z) /\ ~First(d, z, y)
           => ~First(d, x, z) /\ ~First(d, z, x)
  BY <1>3, FirstOrder
<1>5. First(d, z, y) /\ First(d, y, x) => First(d, z, x)
  <2>1. \A u, v, w \in {z, y, x} : KeyOrder(d.key, u, v, w) /\ TieOrder(d.key, u, v, w)
    BY <1>3
  <2> QED BY <2>1, FirstOrder
<1> QED BY <1>2, <1>4, <1>5 DEF Shown

\* What a comparator for display puts before the other, and not the other way round.
Leads(c, x, y) == Before(c, x, y) /\ ~Before(c, y, x)

LEMMA LeadsIs ==
  ASSUME NEW c \in Comparators, ~c.strict, NEW x, NEW y, Fit(c.key, x), Fit(c.key, y)
  PROVE  Leads(c, x, y) <=>
           \/ c.region # NOT_SET /\ x.region < y.region
           \/ /\ c.region # NOT_SET => x.region = y.region
              /\ \/ c.league # NOT_SET /\ x.league > y.league
                 \/ /\ c.league # NOT_SET => x.league = y.league
                    /\ \/ c.race # NOT_SET /\ x.race0 < y.race0
                       \/ /\ c.race # NOT_SET => x.race0 = y.race0
                          /\ Shown(c, x, y)
<1>1. c.key \in SortKeys /\ c.reverse \in BOOLEAN
  BY DEF Comparators
<1>2. /\ KeyOrder(c.key, x, y, x) /\ KeyOrder(c.key, y, x, y)
      /\ TieOrder(c.key, x, y, x) /\ TieOrder(c.key, y, x, y)
  BY <1>1, KeysOrder, TiesOrder DEF Fit
<1> DEFINE A == Ahead(c.key, x, y)
           B == Ahead(c.key, y, x)
           L == Level(c.key, x, y)
           T == TieBefore(c.key, x, y)
           U == TieBefore(c.key, y, x)
           E == TieEqual(c.key, x, y)
<1>3. /\ A \in BOOLEAN /\ B \in BOOLEAN
      /\ Level(c.key, y, x) <=> L
      /\ A => ~B /\ ~L
      /\ B => ~L
      /\ A \/ L \/ B
  BY <1>1, <1>2, AheadIsBoolean DEF KeyOrder
<1>4. /\ E => ~T /\ ~U
      /\ T => ~U
      /\ T \/ U \/ E
      /\ TieEqual(c.key, y, x) <=> E
  BY <1>2 DEF TieOrder, TieEqual
<1>5. ByKey(c, x, y) <=> IF L THEN (c.key = "MMR" \/ ~E) /\ c.reverse # T ELSE c.reverse # A
  BY <1>1, <1>3 DEF ByKey, LeftAlone, TieBefore, TieEqual
<1>6. ByKey(c, y, x) <=> IF L THEN (c.key = "MMR" \/ ~E) /\ c.reverse # U ELSE c.reverse # B
  BY <1>1, <1>3, <1>4 DEF ByKey, LeftAlone, TieBefore, TieEqual
<1>7. Shown(c, x, y) <=> IF c.reverse THEN B \/ (L /\ U) ELSE A \/ (L /\ T)
  BY <1>3 DEF Shown, Earlier
<1>8. T \in BOOLEAN /\ U \in BOOLEAN
  BY DEF TieBefore, LexBefore
<1> HIDE DEF A, B, L, T, U, E
<1>9. ByKey(c, x, y) /\ ~ByKey(c, y, x) <=> Shown(c, x, y)
  BY <1>1, <1>3, <1>4, <1>5, <1>6, <1>7, <1>8
<1>10. \A u \in {x, y} : u.region \in Int /\ u.league \in Int /\ u.race0 \in Int
  BY DEF Fit, IsTeamRank
<1>11. \A u, v \in {x, y} :
        Before(c, u, v) <=>
          \/ c.region # NOT_SET /\ u.region < v.region
          \/ /\ c.region # NOT_SET => u.region = v.region
             /\ \/ c.league # NOT_SET /\ u.league > v.league
                \/ /\ c.league # NOT_SET => u.league = v.league
                   /\ \/ c.race # NOT_SET /\ u.race0 < v.race0
                      \/ /\ c.race # NOT_SET => u.race0 = v.race0
                         /\ ByKey(c, u, v)
  BY <1>10 DEF Before
<1> QED BY <1>9, <1>10, <1>11 DEF Leads

LEMMA LeadsOrder ==
  ASSUME NEW c \in Comparators, ~c.strict, NEW x, NEW y, NEW z,
         Fit(c.key, x), Fit(c.key, y), Fit(c.key, z)
  PROVE  /\ ~Leads(c, x, x)
         /\ Leads(c, x, y) /\ Leads(c, y, z) => Leads(c, x, z)
         /\ ~Leads(c, x, y) /\ ~Leads(c, y, x) /\ ~Leads(c, y, z) /\ ~Leads(c, z, y)
              => ~Leads(c, x, z) /\ ~Leads(c, z, x)
<1>1. \A u \in {x, y, z} : u.region \in Int /\ u.league \in Int /\ u.race0 \in Int
  BY DEF Fit, IsTeamRank
<1>2. /\ ~Shown(c, x, x)
      /\ Shown(c, x, y) /\ Shown(c, y, z) => Shown(c, x, z)
      /\ Shown(c, z, y) /\ Shown(c, y, x) => Shown(c, z, x)
      /\ ~Shown(c, x, y) /\ ~Shown(c, y, x) /\ ~Shown(c, y, z) /\ ~Shown(c, z, y)
           => ~Shown(c, x, z) /\ ~Shown(c, z, x)
  BY ShownOrder
<1>3. \A u, v \in {x, y, z} : Leads(c, u, v) <=>
           \/ c.region # NOT_SET /\ u.region < v.region
           \/ /\ c.region # NOT_SET => u.region = v.region
              /\ \/ c.league # NOT_SET /\ u.league > v.league
                 \/ /\ c.league # NOT_SET => u.league = v.league
                    /\ \/ c.race # NOT_SET /\ u.race0 < v.race0
                       \/ /\ c.race # NOT_SET => u.race0 = v.race0
                          /\ Shown(c, u, v)
  BY LeadsIs
<1> QED BY <1>1, <1>2, <1>3

\* Among rows that a filter lets through only the key counts.
Alike(c, x, y) ==
  /\ c.region # NOT_SET => x.region = y.region
  /\ c.league # NOT_SET => x.league = y.league
  /\ c.race # NOT_SET => x.race0 = y.race0

LEMMA UsedAreAlike ==
  ASSUME NEW c, NEW x, NEW y, Use(c, x), Use(c, y)
  PROVE  Alike(c, x, y)
BY DEF Use, Alike

LEMMA AmongAlike ==
  ASSUME NEW c \in Comparators, NEW x, NEW y, Fit(c.key, x), Fit(c.key, y), Alike(c, x, y)
  PROVE  /\ ~c.strict => (Leads(c, x, y) <=> Shown(c, x, y))
         /\ c.strict => (Before(c, x, y) <=> Better(c, x, y))
         /\ ~Better(c, x, x)
         /\ Better(c, x, y) => Shown(c, x, y)
<1>1. c.key \in SortKeys /\ c.reverse \in BOOLEAN /\ c.strict \in BOOLEAN
  BY DEF Comparators
<1>2. KeyOrder(c.key, x, y, x) /\ KeyOrder(c.key, y, x, y)
  BY <1>1, KeysOrder
<1>3. \A u \in {x, y} : u.region \in Int /\ u.league \in Int /\ u.race0 \in Int
  BY DEF Fit, IsTeamRank
<1>4. ASSUME ~c.strict PROVE Leads(c, x, y) <=> Shown(c, x, y)
  BY <1>3, <1>4, LeadsIs DEF Alike
<1>5. ASSUME c.strict PROVE Before(c, x, y) <=> Better(c, x, y)
  <2>1. Before(c, x, y) <=> ByKey(c, x, y)
    BY <1>3 DEF Before, Alike
  <2>2. /\ Ahead(c.key, x, y) \in BOOLEAN /\ Ahead(c.key, y, x) \in BOOLEAN
        /\ Ahead(c.key, x, y) => ~Ahead(c.key, y, x) /\ ~Level(c.key, x, y)
        /\ Ahead(c.key, y, x) => ~Level(c.key, x, y)
        /\ Ahead(c.key, x, y) \/ Level(c.key, x, y) \/ Ahead(c.key, y, x)
    BY <1>1, <1>2, AheadIsBoolean DEF KeyOrder
  <2>3. ByKey(c, x, y) <=> ~Level(c.key, x, y) /\ c.reverse # Ahead(c.key, x, y)
    BY <1>5 DEF ByKey
  <2> QED BY <1>1, <2>1, <2>2, <2>3 DEF Better
<1>6. ~Better(c, x, x)
  <2>1. KeyOrder(c.key, x, x, x)
    BY <1>1, KeysOrder
  <2> QED BY <2>1 DEF Better, KeyOrder
<1>7. Better(c, x, y) => Shown(c, x, y)
  BY DEF Better, Shown, Earlier
<1> QED BY <1>1, <1>4, <1>5, <1>6, <1>7

\* Ranks that a filter lets through are side by side: nothing that has no mmr comes
\* between those that have.
LEMMA UsedSideBySide ==
  ASSUME NEW c \in Comparators, ~c.strict, NEW x, NEW y, NEW z,
         Fit(c.key, x), Fit(c.key, y), Fit(c.key, z),
         x.mmr >= NO_MMR, y.mmr >= NO_MMR, z.mmr >= NO_MMR,
         Use(c, x), Use(c, z), ~Leads(c, y, x), ~Leads(c, z, y)
  PROVE  Use(c, y)
<1>1. \A u \in {x, y, z} : /\ u.region \in Int /\ u.league \in Int /\ u.race0 \in Int
                           /\ u.mmr \in Int
  BY DEF Fit, IsTeamRank
<1>2. Alike(c, x, z)
  BY UsedAreAlike
<1>3. \A u, v \in {x, y, z} : Leads(c, u, v) <=>
           \/ c.region # NOT_SET /\ u.region < v.region
           \/ /\ c.region # NOT_SET => u.region = v.region
              /\ \/ c.league # NOT_SET /\ u.league > v.league
                 \/ /\ c.league # NOT_SET => u.league = v.league
                    /\ \/ c.race # NOT_SET /\ u.race0 < v.race0
                       \/ /\ c.race # NOT_SET => u.race0 = v.race0
                          /\ Shown(c, u, v)
  BY LeadsIs
<1>4. /\ c.region # NOT_SET => y.region = x.region
      /\ c.league # NOT_SET => y.league = x.league
      /\ c.race # NOT_SET => y.race0 = x.race0
      /\ ~Shown(c, y, x) /\ ~Shown(c, z, y)
  BY <1>1, <1>2, <1>3 DEF Alike
<1>5. ASSUME c.key = "MMR" PROVE y.mmr # NO_MMR
  <2>1. x.mmr # NO_MMR /\ z.mmr # NO_MMR
    BY <1>5 DEF Use
  <2>2. \A u, v \in {x, y, z} : Ahead(c.key, u, v) <=> u.mmr > v.mmr
    BY <1>5 DEF Ahead
  <2>3. IF c.reverse THEN ~(x.mmr > y.mmr) /\ ~(y.mmr > z.mmr)
                     ELSE ~(y.mmr > x.mmr) /\ ~(z.mmr > y.mmr)
    BY <1>4, <2>2 DEF Shown, Earlier
  <2> QED BY <1>1, <2>1, <2>3 DEF NO_MMR
<1> QED BY <1>4, <1>5 DEF Use

-----------------------------------------------------------------------------
(* Sorting, where the comparison may be no order. *)

\* A list of n elements, each once, and one with the same elements.
Once(s, n) ==
  s \in Seq(TeamRank) /\ Len(s) = n /\ \A i, j \in 1..n : s[i] = s[j] => i = j
Rearranged(t, s, n) ==
  \E perm : Permutation(n, perm) /\ \A p \in 1..n : t[p] = s[perm[p]]

LEMMA OnceCounts ==
  ASSUME NEW n \in Nat, NEW s, Once(s, n)
  PROVE  IsFiniteSet(ToSet(s)) /\ Cardinality(ToSet(s)) = n
<1>1. DOMAIN s = 1..n
  BY DEF Once
<1>2. ToSet(s) = {s[i] : i \in 1..n}
  BY <1>1 DEF ToSet
<1> DEFINE f == [i \in 1..n |-> s[i]]
<1>3. f \in Bijection(1..n, ToSet(s))
  <2>1. f \in Injection(1..n, ToSet(s))
    BY <1>2 DEF Once, Injection, IsInjective
  <2>2. \A x \in ToSet(s) : \E i \in 1..n : f[i] = x
    BY <1>2
  <2> QED BY <2>1, <2>2 DEF Bijection, Surjection, Injection
<1>4. IsFiniteSet(1..n) /\ Cardinality(1..n) = n
  BY FS_Interval
<1>5. ExistsBijection(1..n, ToSet(s))
  BY <1>3 DEF ExistsBijection
<1> QED BY <1>4, <1>5, FS_Bijection

\* Every element at a place of its own, as often as there are elements: a rearrangement.
LEMMA AnyOrder ==
  ASSUME NEW n \in Nat, NEW s, Once(s, n), NEW t \in SetToSeqs(ToSet(s))
  PROVE  Once(t, n) /\ Rearranged(t, s, n)
<1>1. Cardinality(ToSet(s)) = n
  BY OnceCounts
<1>2. /\ t \in [1..n -> ToSet(s)]
      /\ \A i, j \in 1..n : i # j => t[i] # t[j]
  BY <1>1 DEF SetToSeqs
<1>3. DOMAIN s = 1..n /\ \A i \in 1..n : s[i] \in TeamRank
  BY DEF Once
<1>4. ToSet(s) = {s[i] : i \in 1..n}
  BY <1>3 DEF ToSet
<1>5. Once(t, n)
  <2>1. t \in [1..n -> TeamRank]
    BY <1>2, <1>3, <1>4
  <2>2. t \in Seq(TeamRank) /\ Len(t) = n
    BY <2>1
  <2> QED BY <1>2, <2>2 DEF Once
<1> DEFINE perm == [p \in 1..n |-> CHOOSE i \in 1..n : s[i] = t[p]]
<1>6. \A p \in 1..n : perm[p] \in 1..n /\ s[perm[p]] = t[p]
  BY <1>2, <1>4
<1>7. perm \in [1..n -> 1..n]
  BY <1>6
<1> HIDE DEF perm
<1>8. \A p, q \in 1..n : perm[p] = perm[q] => p = q
  BY <1>2, <1>6
<1>9. \A i \in 1..n : \E p \in 1..n : perm[p] = i
  <2>1. perm \in Injection(1..n, 1..n)
    BY <1>7, <1>8 DEF Injection, IsInjective
  <2>2. IsFiniteSet(1..n)
    BY FS_Interval
  <2>3. perm \in Surjection(1..n, 1..n)
    BY <2>1, <2>2, FS_Injection
  <2> QED BY <2>3 DEF Surjection
<1> QED BY <1>5, <1>6, <1>7, <1>8, <1>9 DEF Rearranged, Permutation

\* First and Tied of Sorted, as far as they are an order of the elements of s.
LeadsInOrder(c, rows) ==
  \A x, y, z \in rows :
    /\ Leads(c, x, y) /\ Leads(c, y, z) => Leads(c, x, z)
    /\ ~Leads(c, x, y) /\ ~Leads(c, y, x) /\ ~Leads(c, y, z) /\ ~Leads(c, z, y)
         => ~Leads(c, x, z) /\ ~Leads(c, z, x)

\* An asymmetric relation is an order with transitive ties if whatever is between two
\* that it orders is after the one or before the other.
LEMMA BetweenIsOrdered ==
  ASSUME NEW c, NEW rows
  PROVE  LeadsInOrder(c, rows) <=>
           \A x, y \in rows :
             Leads(c, x, y) => \A z \in rows : Leads(c, x, z) \/ Leads(c, z, y)
<1>1. ASSUME NEW x \in rows, NEW y \in rows, Leads(c, x, y) PROVE ~Leads(c, y, x)
  BY <1>1, Zenon DEF Leads
<1>2. ASSUME LeadsInOrder(c, rows), NEW x \in rows, NEW y \in rows, Leads(c, x, y), NEW z \in rows
      PROVE  Leads(c, x, z) \/ Leads(c, z, y)
  <2>1. /\ Leads(c, z, x) /\ Leads(c, x, y) => Leads(c, z, y)
        /\ Leads(c, x, y) /\ Leads(c, y, z) => Leads(c, x, z)
        /\ ~Leads(c, x, z) /\ ~Leads(c, z, x) /\ ~Leads(c, z, y) /\ ~Leads(c, y, z)
             => ~Leads(c, x, y)
    BY <1>2 DEF LeadsInOrder
  <2> QED BY <1>2, <2>1
<1>3. ASSUME \A x, y \in rows :
               Leads(c, x, y) => \A z \in rows : Leads(c, x, z) \/ Leads(c, z, y)
      PROVE  LeadsInOrder(c, rows)
  <2> SUFFICES ASSUME NEW x \in rows, NEW y \in rows, NEW z \in rows
               PROVE  /\ Leads(c, x, y) /\ Leads(c, y, z) => Leads(c, x, z)
                      /\ ~Leads(c, x, y) /\ ~Leads(c, y, x) /\ ~Leads(c, y, z) /\ ~Leads(c, z, y)
                           => ~Leads(c, x, z) /\ ~Leads(c, z, x)
    BY DEF LeadsInOrder
  <2> QED BY <1>1, <1>3
<1> QED BY <1>2, <1>3

\* Whatever the comparison is nothing is lost, and if it is an order, but for ties that
\* are before each other, what comes later does not lead.
LEMMA SortedIs ==
  ASSUME NEW n \in Nat, NEW s, Once(s, n), NEW c, NEW t \in Sorted(s, c)
  PROVE  /\ Once(t, n) /\ Rearranged(t, s, n)
         /\ LeadsInOrder(c, ToSet(s)) =>
              \A i, j \in 1..n : i < j => ~Leads(c, t[j], t[i])
<1>1. DOMAIN s = 1..n /\ \A i \in 1..n : s[i] \in TeamRank
  BY DEF Once
<1>2. ToSet(s) = {s[i] : i \in 1..n}
  BY <1>1 DEF ToSet
<1> DEFINE before == {p \in (DOMAIN s) \X (DOMAIN s) : Leads(c, s[p[1]], s[p[2]])}
           byLeads == Sorting(s, {p \in (DOMAIN s) \X (DOMAIN s) :
                                    /\ Before(c, s[p[1]], s[p[2]])
                                    /\ ~Before(c, s[p[2]], s[p[1]])})
           order == LeadsInOrder(c, ToSet(s))
<1>3. byLeads = Sorting(s, before)
  BY DEF Leads
<1>4. \/ order /\ t = byLeads
      \/ order /\ t \in SetToSeqs(ToSet(s))
               /\ \A i, j \in DOMAIN t : i < j => ~Leads(c, t[j], t[i])
      \/ ~order /\ t \in SetToSeqs(ToSet(s))
  <2>1. order <=> \A x, y \in ToSet(s) :
                    Leads(c, x, y) => \A z \in ToSet(s) : Leads(c, x, z) \/ Leads(c, z, y)
    <3> DEFINE rows == ToSet(s)
    <3> HIDE DEF rows
    <3>1. LeadsInOrder(c, rows) <=>
            \A x, y \in rows :
              Leads(c, x, y) => \A z \in rows : Leads(c, x, z) \/ Leads(c, z, y)
      BY BetweenIsOrdered, Zenon
    <3> QED BY <3>1, Zenon DEF rows
  <2>2. order <=> \A x, y \in ToSet(s) :
                    /\ Before(c, x, y) /\ ~Before(c, y, x)
                    => \A z \in ToSet(s) : \/ Before(c, x, z) /\ ~Before(c, z, x)
                                           \/ Before(c, z, y) /\ ~Before(c, y, z)
    BY <2>1 DEF Leads
  <2> QED BY <2>2 DEF Sorted, StableSort, Leads
<1>5. ASSUME t \in SetToSeqs(ToSet(s)) PROVE Once(t, n) /\ Rearranged(t, s, n)
  BY <1>5, AnyOrder
<1>6. ASSUME order, t = byLeads
      PROVE  /\ Once(t, n) /\ Rearranged(t, s, n)
             /\ \A i, j \in 1..n : i < j => ~Leads(c, t[j], t[i])
  <2>1. \A i, j \in 1..n : <<i, j>> \in before <=> Leads(c, s[i], s[j])
    BY <1>1
  <2>2. StrictWeak(n, before)
    <3>1. \A i \in 1..n : ~Leads(c, s[i], s[i])
      BY DEF Leads
    <3>2. \A i, j \in 1..n : Leads(c, s[i], s[j]) => ~Leads(c, s[j], s[i])
      BY DEF Leads
    <3>3. \A i, j, k \in 1..n :
            /\ Leads(c, s[i], s[j]) /\ Leads(c, s[j], s[k]) => Leads(c, s[i], s[k])
            /\ ~Leads(c, s[i], s[j]) /\ ~Leads(c, s[j], s[i]) /\ ~Leads(c, s[j], s[k]) /\ ~Leads(c, s[k], s[j])
                 => ~Leads(c, s[i], s[k]) /\ ~Leads(c, s[k], s[i])
      <4>1. \A i \in 1..n : s[i] \in ToSet(s)
        BY <1>2
      <4>2. LeadsInOrder(c, ToSet(s))
        BY <1>6
      <4> DEFINE P(x, y, z) ==
              /\ Leads(c, x, y) /\ Leads(c, y, z) => Leads(c, x, z)
              /\ ~Leads(c, x, y) /\ ~Leads(c, y, x) /\ ~Leads(c, y, z) /\ ~Leads(c, z, y)
                   => ~Leads(c, x, z) /\ ~Leads(c, z, x)
      <4>3. \A x, y, z \in ToSet(s) : P(x, y, z)
        BY <4>2 DEF LeadsInOrder
      <4>4. \A i, j, k \in 1..n : P(s[i], s[j], s[k])
        <5> HIDE DEF P
        <5> QED BY <4>1, <4>3
      <4> QED BY <4>4
    <3> HIDE DEF before
    <3>4. \A i, j, k \in 1..n :
            Leads(c, s[i], s[k]) => Leads(c, s[i], s[j]) \/ Leads(c, s[j], s[k])
      BY <3>2, <3>3
    <3> QED BY <2>1, <3>1, <3>3, <3>4 DEF StrictWeak
  <2> HIDE DEF before
  <2>3. PICK perm : /\ Permutation(n, perm)
                    /\ Sorting(s, before) = [p \in 1..n |-> s[perm[p]]]
                    /\ \A p, q \in 1..n : p < q => <<perm[q], perm[p]>> \notin before
    BY <1>1, <2>2, SortingSorts
  <2>4. t = [p \in 1..n |-> s[perm[p]]]
    BY <1>3, <1>6, <2>3
  <2>5. \A p \in 1..n : perm[p] \in 1..n
    BY <2>3 DEF Permutation
  <2>6. Once(t, n)
    <3>1. t \in [1..n -> TeamRank]
      BY <1>1, <2>4, <2>5
    <3>2. t \in Seq(TeamRank) /\ Len(t) = n
      BY <3>1
    <3>3. \A p, q \in 1..n : t[p] = t[q] => perm[p] = perm[q]
      BY <2>4, <2>5 DEF Once
    <3> QED BY <2>3, <3>2, <3>3 DEF Once, Permutation
  <2>7. Rearranged(t, s, n)
    BY <2>3, <2>4 DEF Rearranged
  <2>8. \A i, j \in 1..n : i < j => ~Leads(c, t[j], t[i])
    BY <2>1, <2>3, <2>4, <2>5
  <2> QED BY <2>6, <2>7, <2>8
<1>7. Once(t, n) => DOMAIN t = 1..n
  BY DEF Once
<1> QED BY <1>4, <1>5, <1>6, <1>7

-----------------------------------------------------------------------------
(* The team ranks in memory: every rank once, those of a version and mode together. *)

SameSpan(x, y) == x.version = y.version /\ x.mode = y.mode
Grouped(s) ==
  \A i, k \in 1..Len(s) : \A j \in i..k : SameSpan(s[i], s[k]) => SameSpan(s[i], s[j])

LEMMA RowsOfRanking ==
  ASSUME NEW rows \in Rankings
  PROVE  /\ IsFiniteSet(rows) /\ Cardinality(rows) \in Nat
         /\ \A x \in rows : x \in TeamRank /\ IsTeamRank(x) /\ x.mmr >= NO_MMR /\ x.team_id # 0
<1>1. /\ IsFiniteSet(rows) /\ rows \subseteq TeamRank
      /\ \A x \in rows : x.mmr >= NO_MMR
  BY LadderPagesAssumption
<1>2. Cardinality(rows) \in Nat
  BY <1>1, FS_CardinalityType
<1>3. \A x \in TeamRank : IsTeamRank(x) /\ x.team_id # 0
  BY DEF TeamRank, IsTeamRank
<1> QED BY <1>1, <1>2, <1>3

LEMMA AllOnce ==
  ASSUME NEW rows \in Rankings, NEW s
  PROVE  s \in SetToSeqs(rows) <=> Once(s, Cardinality(rows)) /\ ToSet(s) = rows
<1> DEFINE n == Cardinality(rows)
<1>1. n \in Nat /\ IsFiniteSet(rows) /\ rows \subseteq TeamRank
  BY RowsOfRanking
<1>2. SetToSeqs(rows) = {f \in [1..n -> rows] : \A i, j \in 1..n : i # j => f[i] # f[j]}
  BY DEF SetToSeqs
<1> HIDE DEF n
<1>3. ASSUME s \in SetToSeqs(rows) PROVE Once(s, n) /\ ToSet(s) = rows
  <2>1. s \in [1..n -> rows] /\ \A i, j \in 1..n : s[i] = s[j] => i = j
    BY <1>2, <1>3
  <2>2. s \in [1..n -> TeamRank]
    BY <1>1, <2>1
  <2>3. s \in Seq(TeamRank) /\ Len(s) = n
    BY <1>1, <2>2
  <2>4. s \in Injection(1..n, rows)
    BY <2>1 DEF Injection, IsInjective
  <2>5. IsFiniteSet(1..n) /\ Cardinality(1..n) = n
    BY <1>1, FS_Interval
  <2>6. s \in Surjection(1..n, rows)
    BY <1>1, <2>4, <2>5, FS_Injection DEF n
  <2>7. ToSet(s) = rows
    BY <2>1, <2>6 DEF ToSet, Surjection
  <2> QED BY <2>1, <2>3, <2>7 DEF Once
<1>4. ASSUME Once(s, n), ToSet(s) = rows PROVE s \in SetToSeqs(rows)
  <2>1. DOMAIN s = 1..n /\ s \in [1..n -> TeamRank] /\ \A i, j \in 1..n : s[i] = s[j] => i = j
    BY <1>4 DEF Once
  <2>2. s \in [1..n -> rows]
    BY <1>4, <2>1 DEF ToSet
  <2> QED BY <1>2, <2>1, <2>2
<1> QED BY <1>3, <1>4 DEF n

\* In order of world ranks those of a version and mode are together.
LEMMA LoadedIs ==
  ASSUME NEW rows \in Rankings, NEW s \in Loaded(rows)
  PROVE  Once(s, Cardinality(rows)) /\ ToSet(s) = rows /\ Grouped(s)
<1> DEFINE n == Cardinality(rows)
           Upto(x, y) == x.version < y.version \/ (x.version = y.version /\ x.mode <= y.mode)
<1>1. Once(s, n) /\ ToSet(s) = rows /\ n \in Nat
  BY AllOnce, RowsOfRanking DEF Loaded
<1>2. Len(s) = n /\ \A i \in 1..n : s[i] \in TeamRank
  BY <1>1 DEF Once
<1>3. \A i \in 1..n : s[i].version \in Int /\ s[i].mode \in Int /\ s[i].world_rank \in Int
  BY <1>2 DEF TeamRank
<1>4. \A i \in 1..(n - 1) : Upto(s[i], s[i + 1])
  <2>1. ASSUME NEW i \in 1..(n - 1) PROVE Upto(s[i], s[i + 1])
    <3>1. i \in 1..n /\ i + 1 \in 1..n
      BY <1>1
    <3>2. ~BeforeByWorldRank(s[i + 1], s[i])
      BY <1>2 DEF Loaded
    <3> DEFINE x == s[i]
               y == s[i + 1]
    <3>3. ~(\/ y.version < x.version
            \/ y.version = x.version /\ y.mode < x.mode
            \/ y.version = x.version /\ y.mode = x.mode /\ y.world_rank < x.world_rank)
      BY <3>2, LexThree DEF BeforeByWorldRank
    <3> QED BY <1>3, <3>1, <3>3
  <2> QED BY <2>1
<1> HIDE DEF n
<1>5. ASSUME NEW i \in 1..n, NEW j \in i..n PROVE Upto(s[i], s[j])
  <2> DEFINE S == {k \in i..n : ~Upto(s[i], s[k])}
  <2>1. SUFFICES ASSUME j \in S PROVE FALSE
    OBVIOUS
  <2>2. S \in SUBSET Nat
    BY <1>1
  <2> HIDE DEF S
  <2>3. PICK k \in S : \A l \in S : k <= l
    BY <2>1, <2>2, Smallest
  <2>4. k \in i..n /\ ~Upto(s[i], s[k])
    BY <2>3 DEF S
  <2>5. k # i
    BY <1>3, <2>4
  <2>6. k - 1 \in i..n /\ k - 1 \in 1..(n - 1) /\ (k - 1) + 1 = k /\ ~(k <= k - 1)
    BY <1>1, <2>4, <2>5
  <2>7. Upto(s[i], s[k - 1])
    BY <2>3, <2>6 DEF S
  <2>8. Upto(s[k - 1], s[k])
    BY <1>4, <2>6
  <2>9. k \in 1..n /\ k - 1 \in 1..n
    BY <2>4, <2>6
  <2> QED BY <1>3, <2>4, <2>7, <2>8, <2>9
<1>6. Grouped(s)
  <2>1. ASSUME NEW i \in 1..n, NEW k \in 1..n, NEW j \in i..k, SameSpan(s[i], s[k])
        PROVE  SameSpan(s[i], s[j])
    <3>1. j \in i..n /\ k \in j..n /\ j \in 1..n
      BY <1>1
    <3>2. Upto(s[i], s[j]) /\ Upto(s[j], s[k])
      BY <1>5, <3>1
    <3> QED BY <1>3, <2>1, <3>1, <3>2 DEF SameSpan
  <2> QED BY <1>2, <2>1 DEF Grouped
<1> QED BY <1>1, <1>6 DEF n

MemoryInv ==
  /\ ranking \in Rankings
  /\ Once(team_ranks, Cardinality(ranking))
  /\ ToSet(team_ranks) = ranking
  /\ Grouped(team_ranks)

OfSpan(span) == {x \in ranking : x.version = span.version /\ x.mode = span.mode}

InSpan(x, span) == x.version = span.version /\ x.mode = span.mode

\* Where the ranks of a version and mode are, and which they are.
SpanAt(span, d, m) ==
  LET n == Len(team_ranks)
      P == Span(team_ranks, span)
      of_span == RowsAt(team_ranks, P)
  IN  /\ d + m <= n /\ P = (d + 1)..(d + m)
      /\ P # {} => d = Min(P) - 1 /\ d + m = Max(P)
      /\ \A i \in 1..n : i \in (d + 1)..(d + m) <=> InSpan(team_ranks[i], span)
      /\ Once(of_span, m) /\ ToSet(of_span) = OfSpan(span)
      /\ \A i \in 1..m : of_span[i] = team_ranks[d + i]

LEMMA SpanIs ==
  ASSUME MemoryInv, NEW span
  PROVE  \E d, m \in Nat : SpanAt(span, d, m)
<1> DEFINE n == Len(team_ranks)
           In(x) == x.version = span.version /\ x.mode = span.mode
           P == {i \in 1..n : In(team_ranks[i])}
           of_span == RowsAt(team_ranks, P)
<1>1. /\ n = Cardinality(ranking) /\ n \in Nat
      /\ team_ranks \in Seq(TeamRank) /\ DOMAIN team_ranks = 1..n
      /\ \A i, j \in 1..n : team_ranks[i] = team_ranks[j] => i = j
      /\ ranking = {team_ranks[i] : i \in 1..n}
  BY RowsOfRanking DEF MemoryInv, Once, ToSet
<1>2. Gapless(P)
  <2>1. ASSUME NEW i \in P, NEW k \in P, NEW j \in i..k PROVE j \in P
    <3>1. i \in 1..n /\ k \in 1..n /\ j \in 1..n
      BY <1>1
    <3>2. SameSpan(team_ranks[i], team_ranks[k])
      BY DEF SameSpan
    <3>3. SameSpan(team_ranks[i], team_ranks[j])
      BY <3>1, <3>2 DEF MemoryInv, Grouped
    <3> QED BY <3>1, <3>3 DEF SameSpan
  <2> QED BY <2>1 DEF Gapless
<1>3. Span(team_ranks, span) = P
  <2>1. P \in SUBSET (1..n)
    OBVIOUS
  <2>2. Span(team_ranks, span)
          = {i \in 1..n : i \in P /\ ~(\E j, k \in 1..i : j < k /\ j \in P /\ k \notin P)}
    <3>1. \A i \in 1..n : \A j \in 1..i : j \in P <=> In(team_ranks[j])
      BY <1>1
    <3>2. Span(team_ranks, span)
            = {i \in 1..n : /\ In(team_ranks[i])
                            /\ ~(\E j, k \in 1..i : /\ j < k /\ In(team_ranks[j])
                                                    /\ ~In(team_ranks[k]))}
      BY <1>1 DEF Span
    <3> HIDE DEF In
    <3> QED BY <3>1, <3>2
  <2> QED BY <1>1, <1>2, <2>1, <2>2, OneRun
<1> HIDE DEF P
<1>4. P \in SUBSET (1..n)
  BY DEF P
<1>9. n = Len(team_ranks)
  OBVIOUS
<1> HIDE DEF n
<1>10. PICK d, m \in Nat : PieceAt(team_ranks, n, P, d, m)
  BY <1>1, <1>2, <1>4, <1>9, RowsAtIs
<1>5. /\ d + m <= n
      /\ P = (d + 1)..(d + m)
      /\ P # {} => d = Min(P) - 1 /\ d + m = Max(P)
      /\ of_span \in Seq(TeamRank) /\ Len(of_span) = m
      /\ \A i \in 1..m : of_span[i] = team_ranks[d + i]
  BY <1>10 DEF PieceAt
<1> HIDE DEF of_span
<1>6. Once(of_span, m)
  <2>1. \A i, j \in 1..m : d + i \in 1..n /\ d + j \in 1..n
                           /\ (d + i = d + j => i = j)
    BY <1>1, <1>5
  <2>2. \A i, j \in 1..m : of_span[i] = of_span[j] => i = j
    BY <1>1, <1>5, <2>1
  <2> QED BY <1>5, <2>2 DEF Once
<1>7. ToSet(of_span) = OfSpan(span)
  <2>1. DOMAIN of_span = 1..m
    BY <1>5
  <2>2. ToSet(of_span) = {team_ranks[d + i] : i \in 1..m}
    BY <1>5, <2>1 DEF ToSet
  <2>3. {team_ranks[d + i] : i \in 1..m} = {team_ranks[i] : i \in P}
    <3>1. \A i \in 1..m : d + i \in P
      BY <1>5
    <3>2. \A i \in P : i - d \in 1..m /\ d + (i - d) = i
      BY <1>5
    <3> QED BY <3>1, <3>2
  <2>4. {team_ranks[i] : i \in P} = OfSpan(span)
    BY <1>1 DEF P, OfSpan
  <2> QED BY <2>2, <2>3, <2>4
<1>8. \A i \in 1..n : i \in P <=> InSpan(team_ranks[i], span)
  BY DEF P, InSpan
<1>11. SpanAt(span, d, m)
  BY <1>3, <1>5, <1>6, <1>7, <1>8 DEF n, of_span, SpanAt
<1> QED BY <1>11

LEMMA Remainder ==
  ASSUME NEW n \in Nat, NEW d \in Nat, NEW m \in Nat, d + m <= n
  PROVE  /\ d + m \in Nat /\ n - (d + m) \in Nat /\ (d + m) + (n - (d + m)) = n
         /\ 0 + d <= n /\ 0 + 1 = 1 /\ 0 + d = d /\ \A i \in 1..d : 0 + i = i
OBVIOUS

\* A list of which the middle is replaced.
Assembles(t, n, s, d, m, r) ==
  /\ t \in Seq(TeamRank) /\ Len(t) = n
  /\ \A i \in 1..n : t[i] = IF i \in (d + 1)..(d + m) THEN r[i - d] ELSE s[i]

LEMMA Assembled ==
  ASSUME NEW n \in Nat, NEW s \in Seq(TeamRank), Len(s) = n,
         NEW d \in Nat, NEW m \in Nat, d + m <= n,
         NEW r \in Seq(TeamRank), Len(r) = m,
         NEW t, t = SubSeq(s, 1, d) \o r \o SubSeq(s, d + m + 1, n)
  PROVE  Assembles(t, n, s, d, m, r)
<1> DEFINE k == d + m
           l == n - (d + m)
           a == SubSeq(s, 1, d)
           b == SubSeq(s, k + 1, n)
           ar == a \o r
<1>1. k \in Nat /\ l \in Nat /\ k + l = n
  BY Remainder
<1>2. a \in Seq(TeamRank) /\ Len(a) = d /\ \A i \in 1..d : a[i] = s[i]
  <2>1. 0 + 1 = 1 /\ 0 + d = d /\ 0 + d <= n /\ \A i \in 1..d : 0 + i = i
    BY Remainder
  <2>2. /\ SubSeq(s, 0 + 1, 0 + d) \in Seq(TeamRank)
        /\ Len(SubSeq(s, 0 + 1, 0 + d)) = d
        /\ \A i \in 1..d : SubSeq(s, 0 + 1, 0 + d)[i] = s[0 + i]
    BY <2>1, Piece
  <2> QED BY <2>1, <2>2
<1>3. t = ar \o b
  OBVIOUS
<1> HIDE DEF k, l
<1>4. b \in Seq(TeamRank) /\ Len(b) = l /\ \A i \in 1..l : b[i] = s[k + i]
  <2>1. k + l <= n
    BY <1>1
  <2>2. /\ SubSeq(s, k + 1, k + l) \in Seq(TeamRank)
        /\ Len(SubSeq(s, k + 1, k + l)) = l
        /\ \A i \in 1..l : SubSeq(s, k + 1, k + l)[i] = s[k + i]
    BY <1>1, <2>1, Piece
  <2> QED BY <1>1, <2>2
<1> HIDE DEF a, b
<1>5. ar \in Seq(TeamRank) /\ Len(ar) = d + m
      /\ \A i \in 1..(d + m) : ar[i] = IF i <= d THEN a[i] ELSE r[i - d]
  <2>1. Joins(ar, d, a, m, r)
    BY <1>2, Joined
  <2> QED BY <2>1 DEF Joins
<1> HIDE DEF ar
<1>6. ar \o b \in Seq(TeamRank) /\ Len(ar \o b) = k + l
      /\ \A i \in 1..(k + l) : (ar \o b)[i] = IF i <= k THEN ar[i] ELSE b[i - k]
  <2>1. Len(ar) = k
    BY <1>5 DEF k
  <2>2. Joins(ar \o b, k, ar, l, b)
    BY <1>1, <1>4, <1>5, <2>1, Joined
  <2> QED BY <2>2 DEF Joins
<1>7. t \in Seq(TeamRank) /\ Len(t) = n
      /\ \A i \in 1..n : t[i] = IF i <= k THEN ar[i] ELSE b[i - k]
  BY <1>1, <1>3, <1>6
<1>8. ASSUME NEW i \in 1..n
      PROVE  t[i] = IF i \in (d + 1)..(d + m) THEN r[i - d] ELSE s[i]
  <2>1. CASE i <= d
    <3>1. i \in 1..d /\ i \in 1..(d + m) /\ i <= k /\ i \notin (d + 1)..(d + m)
      BY <2>1 DEF k
    <3> QED BY <1>2, <1>5, <1>7, <2>1, <3>1
  <2>2. CASE i \in (d + 1)..(d + m)
    <3>1. i \in 1..(d + m) /\ ~(i <= d) /\ i <= k
      BY <2>2 DEF k
    <3> QED BY <1>5, <1>7, <2>2, <3>1
  <2>3. CASE i > d + m
    <3>1. ~(i <= k) /\ i - k \in 1..l /\ k + (i - k) = i /\ i \notin (d + 1)..(d + m)
      BY <2>3 DEF k, l
    <3> QED BY <1>4, <1>7, <3>1
  <2>4. i <= d \/ i \in (d + 1)..(d + m) \/ i > d + m
    OBVIOUS
  <2> QED BY <2>1, <2>2, <2>3, <2>4
<1> QED BY <1>7, <1>8 DEF Assembles

\* A rearrangement of every place is one of the list.
LEMMA OnceRearranged ==
  ASSUME NEW n \in Nat, NEW s, Once(s, n), NEW t \in Seq(TeamRank), Len(t) = n,
         NEW perm, Permutation(n, perm), \A i \in 1..n : t[i] = s[perm[i]]
  PROVE  Once(t, n) /\ ToSet(t) = ToSet(s)
<1>1. /\ DOMAIN s = 1..n /\ DOMAIN t = 1..n
      /\ \A i, j \in 1..n : s[i] = s[j] => i = j
  BY DEF Once
<1>2. /\ \A p \in 1..n : perm[p] \in 1..n
      /\ \A p, q \in 1..n : perm[p] = perm[q] => p = q
      /\ \A i \in 1..n : \E p \in 1..n : perm[p] = i
  BY DEF Permutation
<1>3. Once(t, n)
  <2>1. ASSUME NEW i \in 1..n, NEW j \in 1..n, t[i] = t[j] PROVE i = j
    <3>1. s[perm[i]] = s[perm[j]] /\ perm[i] \in 1..n /\ perm[j] \in 1..n
      BY <1>2, <2>1
    <3>2. perm[i] = perm[j]
      BY <1>1, <3>1
    <3> QED BY <1>2, <3>2
  <2> QED BY <2>1 DEF Once
<1>4. ToSet(t) = {t[i] : i \in 1..n} /\ ToSet(s) = {s[i] : i \in 1..n}
  BY <1>1 DEF ToSet
<1>5. \A i \in 1..n : t[i] \in {s[j] : j \in 1..n}
  BY <1>2
<1>6. ASSUME NEW j \in 1..n PROVE s[j] \in {t[i] : i \in 1..n}
  <2>1. PICK i \in 1..n : perm[i] = j
    BY <1>2
  <2>2. s[j] = t[i]
    BY <2>1
  <2> QED BY <2>2
<1>7. ToSet(t) \subseteq ToSet(s)
  BY <1>4, <1>5
<1>8. ToSet(s) \subseteq ToSet(t)
  BY <1>4, <1>6
<1> QED BY <1>3, <1>7, <1>8

\* The rearrangement of a list that rearranges m elements after the first d.
Within(n, d, m, q) ==
  [i \in 1..n |-> IF i \in (d + 1)..(d + m) THEN d + q[i - d] ELSE i]

LEMMA WithinPermutes ==
  ASSUME NEW n \in Nat, NEW d \in Nat, NEW m \in Nat, d + m <= n, NEW q, Permutation(m, q)
  PROVE  /\ Permutation(n, Within(n, d, m, q))
         /\ \A i \in 1..n : /\ i \notin (d + 1)..(d + m) => Within(n, d, m, q)[i] = i
                            /\ i \in (d + 1)..(d + m) =>
                                 /\ i - d \in 1..m /\ q[i - d] \in 1..m
                                 /\ Within(n, d, m, q)[i] = d + q[i - d]
                                 /\ Within(n, d, m, q)[i] \in (d + 1)..(d + m)
<1> DEFINE perm == Within(n, d, m, q)
           M == (d + 1)..(d + m)
<1>1. \A i \in M : i \in 1..n /\ i - d \in 1..m /\ d + (i - d) = i
  OBVIOUS
<1>2. \A p \in 1..m : d + p \in M /\ d + p \in 1..n /\ (d + p) - d = p
  OBVIOUS
<1>3. /\ \A p \in 1..m : q[p] \in 1..m
      /\ \A p, r \in 1..m : q[p] = q[r] => p = r
      /\ \A p \in 1..m : \E r \in 1..m : q[r] = p
  BY DEF Permutation
<1>4. /\ perm = [i \in 1..n |-> perm[i]]
      /\ \A i \in 1..n : perm[i] = IF i \in M THEN d + q[i - d] ELSE i
  BY DEF Within
<1> HIDE DEF M, perm
<1>5. \A i \in M : /\ i - d \in 1..m /\ q[i - d] \in 1..m
                   /\ perm[i] = d + q[i - d] /\ perm[i] \in M /\ perm[i] \in 1..n
  <2>1. ASSUME NEW i \in M
        PROVE  /\ i - d \in 1..m /\ q[i - d] \in 1..m
               /\ perm[i] = d + q[i - d] /\ perm[i] \in M /\ perm[i] \in 1..n
    <3>1. i - d \in 1..m /\ i \in 1..n
      BY <1>1
    <3>2. q[i - d] \in 1..m
      BY <1>3, <3>1
    <3>3. d + q[i - d] \in M /\ d + q[i - d] \in 1..n
      BY <1>2, <3>2
    <3>4. perm[i] = d + q[i - d]
      BY <1>4, <3>1
    <3> QED BY <3>1, <3>2, <3>3, <3>4
  <2> QED BY <2>1
<1>6. \A i \in 1..n : i \notin M => perm[i] = i
  BY <1>4
<1>7. \A i \in 1..n : perm[i] \in 1..n
  BY <1>5, <1>6
<1>8. perm \in [1..n -> 1..n]
  BY <1>4, <1>7
<1>9. ASSUME NEW i \in 1..n, NEW j \in 1..n, perm[i] = perm[j] PROVE i = j
  <2>1. CASE i \in M /\ j \in M
    <3>1. (d + q[i - d]) - d = q[i - d] /\ (d + q[j - d]) - d = q[j - d]
      BY <1>2, <1>5, <2>1
    <3>2. q[i - d] = q[j - d]
      BY <1>5, <1>9, <2>1, <3>1
    <3>3. i - d = j - d
      BY <1>3, <1>5, <2>1, <3>2
    <3> QED BY <1>1, <2>1, <3>3
  <2>2. CASE i \in M /\ j \notin M
    BY <1>5, <1>6, <1>9, <2>2
  <2>3. CASE i \notin M /\ j \in M
    BY <1>5, <1>6, <1>9, <2>3
  <2>4. CASE i \notin M /\ j \notin M
    BY <1>6, <1>9, <2>4
  <2> QED BY <2>1, <2>2, <2>3, <2>4
<1>10. ASSUME NEW k \in 1..n PROVE \E i \in 1..n : perm[i] = k
  <2>1. CASE k \in M
    <3>1. k - d \in 1..m /\ d + (k - d) = k
      BY <1>1, <2>1
    <3>2. PICK p \in 1..m : q[p] = k - d
      BY <1>3, <3>1
    <3>3. d + p \in M /\ d + p \in 1..n /\ (d + p) - d = p
      BY <1>2
    <3>4. perm[d + p] = k
      BY <1>5, <3>1, <3>2, <3>3
    <3> QED BY <3>3, <3>4
  <2>2. CASE k \notin M
    BY <1>6, <2>2
  <2> QED BY <2>1, <2>2
<1>11. Permutation(n, perm)
  BY <1>8, <1>9, <1>10 DEF Permutation
<1> QED BY <1>5, <1>6, <1>11 DEF M, perm

SpanHas(s, n, d, m, span) ==
  d + m <= n /\ \A i \in 1..n : i \in (d + 1)..(d + m) <=> InSpan(s[i], span)
IsPiece(p, s, d, m) == \A i \in 1..m : p[i] = s[d + i]
Put(s, n, d, m, r) == SubSeq(s, 1, d) \o r \o SubSeq(s, d + m + 1, n)

\* A span that is sorted where it is: nothing is lost, and the span stays together.
LEMMA PutBack ==
  ASSUME NEW n \in Nat, NEW s, Once(s, n), Grouped(s),
         NEW d \in Nat, NEW m \in Nat, NEW span, SpanHas(s, n, d, m, span),
         NEW of_span, Once(of_span, m), IsPiece(of_span, s, d, m),
         NEW r, Once(r, m), Rearranged(r, of_span, m)
  PROVE  /\ Once(Put(s, n, d, m, r), n) /\ ToSet(Put(s, n, d, m, r)) = ToSet(s)
         /\ Grouped(Put(s, n, d, m, r))
<1> DEFINE t == Put(s, n, d, m, r)
<1>0. /\ d + m <= n /\ \A i \in 1..n : i \in (d + 1)..(d + m) <=> InSpan(s[i], span)
      /\ \A i \in 1..m : of_span[i] = s[d + i]
      /\ t = SubSeq(s, 1, d) \o r \o SubSeq(s, d + m + 1, n)
  BY DEF SpanHas, IsPiece, Put
<1> HIDE DEF t
<1> DEFINE M == (d + 1)..(d + m)
<1>1. PICK q : Permutation(m, q) /\ \A p \in 1..m : r[p] = of_span[q[p]]
  BY DEF Rearranged
<1> DEFINE perm == Within(n, d, m, q)
<1>2. /\ Permutation(n, perm)
      /\ \A i \in 1..n : /\ i \notin M => perm[i] = i
                         /\ i \in M => /\ i - d \in 1..m /\ q[i - d] \in 1..m
                                       /\ perm[i] = d + q[i - d] /\ perm[i] \in M
  BY <1>0, <1>1, WithinPermutes
<1>3. s \in Seq(TeamRank) /\ Len(s) = n /\ r \in Seq(TeamRank) /\ Len(r) = m
  BY DEF Once
<1>4. t \in Seq(TeamRank) /\ Len(t) = n /\ \A i \in 1..n : t[i] = IF i \in M THEN r[i - d] ELSE s[i]
  <2>1. Assembles(t, n, s, d, m, r)
    BY <1>0, <1>3, Assembled
  <2> QED BY <2>1 DEF Assembles
<1>5. \A i \in 1..n : i \in M <=> InSpan(s[i], span)
  BY <1>0
<1> HIDE DEF M, perm
<1>6. ASSUME NEW i \in 1..n PROVE t[i] = s[perm[i]]
  <2>1. CASE i \in M
    <3>1. r[i - d] = of_span[q[i - d]] /\ of_span[q[i - d]] = s[d + q[i - d]]
      BY <1>0, <1>1, <1>2, <2>1
    <3> QED BY <1>2, <1>4, <2>1, <3>1
  <2>2. CASE i \notin M
    BY <1>2, <1>4, <2>2
  <2> QED BY <2>1, <2>2
<1>7. Once(t, n) /\ ToSet(t) = ToSet(s)
  BY <1>2, <1>4, <1>6, OnceRearranged
<1>8. ASSUME NEW i \in 1..n PROVE InSpan(t[i], span) <=> i \in M
  <2>1. perm[i] \in 1..n
    BY <1>2 DEF Permutation
  <2>2. perm[i] \in M <=> i \in M
    BY <1>2
  <2> QED BY <1>5, <1>6, <2>1, <2>2
<1>9. ASSUME NEW i \in 1..n, NEW k \in 1..n, NEW j \in i..k, SameSpan(t[i], t[k])
      PROVE  SameSpan(t[i], t[j])
  <2>1. j \in 1..n
    BY <1>9
  <2>2. CASE InSpan(t[i], span)
    <3>1. InSpan(t[k], span)
      BY <1>9, <2>2 DEF SameSpan, InSpan
    <3>2. i \in M /\ k \in M
      BY <1>8, <2>2, <3>1
    <3>3. j \in M
      BY <1>9, <3>2 DEF M
    <3>4. InSpan(t[j], span)
      BY <1>8, <2>1, <3>3
    <3> QED BY <2>2, <3>4 DEF SameSpan, InSpan
  <2>3. CASE ~InSpan(t[i], span)
    <3>1. ~InSpan(t[k], span)
      BY <1>9, <2>3 DEF SameSpan, InSpan
    <3>2. i \notin M /\ k \notin M
      BY <1>8, <2>3, <3>1
    <3>3. t[i] = s[i] /\ t[k] = s[k] /\ (j \notin M => t[j] = s[j])
      BY <1>4, <2>1, <3>2
    <3>4. SameSpan(s[i], s[j])
      BY <1>3, <1>9, <3>3 DEF Grouped
    <3>5. j \notin M
      BY <1>5, <2>1, <2>3, <3>3, <3>4 DEF SameSpan, InSpan
    <3> QED BY <3>3, <3>4, <3>5
  <2> QED BY <2>2, <2>3
<1>10. Grouped(t)
  BY <1>4, <1>9 DEF Grouped
<1> QED BY <1>7, <1>10 DEF t

-----------------------------------------------------------------------------
(* What a request selects. *)

\* Each of the rows of all that are of use to c once, none before one that is shown
\* before it.
RowsAre(c, rows, all, m) ==
  /\ Once(rows, m)
  /\ ToSet(rows) = {x \in all : Use(c, x)}
  /\ \A i, j \in 1..m : i < j => ~Shown(c, rows[j], rows[i])

LEMMA StrictUses ==
  ASSUME NEW c \in Comparators
  PROVE  /\ Strict(c) \in Comparators /\ Strict(c).strict /\ Strict(c).key = c.key
         /\ \A x : Use(Strict(c), x) <=> Use(c, x)
         /\ \A x, y : Shown(Strict(c), x, y) <=> Shown(c, x, y)
<1>1. /\ Strict(c) \in Comparators /\ Strict(c).strict /\ Strict(c).key = c.key
      /\ Strict(c).region = c.region /\ Strict(c).league = c.league
      /\ Strict(c).race = c.race /\ Strict(c).reverse = c.reverse
  BY DEF Strict, Comparators
<1> QED BY <1>1 DEF Use, Shown

\* What is fit to be compared is put in order by a comparator for display.
LEMMA FitLeads ==
  ASSUME NEW c \in Comparators, ~c.strict, NEW rows, \A x \in rows : Fit(c.key, x)
  PROVE  LeadsInOrder(c, rows)
<1>1. ASSUME NEW x \in rows, NEW y \in rows, NEW z \in rows
      PROVE  /\ Leads(c, x, y) /\ Leads(c, y, z) => Leads(c, x, z)
             /\ ~Leads(c, x, y) /\ ~Leads(c, y, x) /\ ~Leads(c, y, z) /\ ~Leads(c, z, y)
                  => ~Leads(c, x, z) /\ ~Leads(c, z, x)
  <2>1. Fit(c.key, x) /\ Fit(c.key, y) /\ Fit(c.key, z)
    OBVIOUS
  <2> QED BY <2>1, LeadsOrder
<1> QED BY <1>1 DEF LeadsInOrder

\* The first run of what c can use is all of it.
LEMMA FilteredIs ==
  ASSUME NEW c \in Comparators, ~c.strict, NEW n \in Nat, NEW s, Once(s, n),
         \A i \in 1..n : Fit(c.key, s[i]) /\ s[i].mmr >= NO_MMR,
         \A i, j \in 1..n : i < j => ~Leads(c, s[j], s[i])
  PROVE  \E m \in Nat : RowsAre(Strict(c), Filtered(s, Strict(c)), ToSet(s), m)
<1> DEFINE d == Strict(c)
           P == {i \in 1..n : Use(d, s[i])}
           rows == RowsAt(s, P)
<1>1. /\ s \in Seq(TeamRank) /\ Len(s) = n /\ DOMAIN s = 1..n
      /\ \A i, j \in 1..n : s[i] = s[j] => i = j
  BY DEF Once
<1>2. /\ \A x : Use(d, x) <=> Use(c, x)
      /\ \A x, y : Shown(d, x, y) <=> Shown(c, x, y)
  BY StrictUses
<1> HIDE DEF d
<1>3. Gapless(P)
  <2>1. ASSUME NEW i \in P, NEW k \in P, NEW j \in i..k PROVE j \in P
    <3>1. i \in 1..n /\ k \in 1..n /\ j \in 1..n /\ (j = i \/ i < j) /\ (j = k \/ j < k)
      BY <2>1
    <3>2. Use(d, s[i]) /\ Use(d, s[k])
      OBVIOUS
    <3>3. CASE j = i \/ j = k
      BY <3>1, <3>2, <3>3
    <3>4. CASE i < j /\ j < k
      <4>1. ~Leads(c, s[j], s[i]) /\ ~Leads(c, s[k], s[j])
        BY <3>1, <3>4
      <4>2. /\ Fit(c.key, s[i]) /\ Fit(c.key, s[j]) /\ Fit(c.key, s[k])
            /\ s[i].mmr >= NO_MMR /\ s[j].mmr >= NO_MMR /\ s[k].mmr >= NO_MMR
        BY <3>1
      <4>3. Use(c, s[i]) /\ Use(c, s[k])
        BY <1>2, <3>2
      <4>4. Use(c, s[j])
        BY <4>1, <4>2, <4>3, UsedSideBySide
      <4> QED BY <1>2, <3>1, <4>4
    <3> QED BY <3>1, <3>3, <3>4
  <2> QED BY <2>1 DEF Gapless
<1>4. Filtered(s, d) = rows
  <2>1. P \in SUBSET (1..n)
    OBVIOUS
  <2>2. {i \in 1..n : Use(d, s[i]) /\ ~(\E j, k \in 1..i : /\ j < k /\ Use(d, s[j])
                                                           /\ ~Use(d, s[k]))}
          = {i \in 1..n : i \in P /\ ~(\E j, k \in 1..i : j < k /\ j \in P /\ k \notin P)}
    <3>1. ASSUME NEW i \in 1..n, NEW j \in 1..i PROVE j \in P <=> Use(d, s[j])
      BY <3>1
    <3> HIDE DEF P
    <3>2. \A i \in 1..n : i \in P <=> Use(d, s[i])
      BY DEF P
    <3> QED BY <3>1, <3>2
  <2>3. {i \in 1..n : i \in P /\ ~(\E j, k \in 1..i : j < k /\ j \in P /\ k \notin P)} = P
    BY <1>3, <2>1, OneRun
  <2> HIDE DEF P
  <2> QED BY <1>1, <2>2, <2>3 DEF Filtered
<1>5. P \in SUBSET (1..n)
  OBVIOUS
<1> HIDE DEF P
<1>6. PICK e, m \in Nat : PieceAt(s, n, P, e, m)
  BY <1>1, <1>3, <1>5, RowsAtIs
<1>7. /\ e + m <= n /\ P = (e + 1)..(e + m)
      /\ rows \in Seq(TeamRank) /\ Len(rows) = m
      /\ \A i \in 1..m : rows[i] = s[e + i]
  BY <1>6 DEF PieceAt
<1> HIDE DEF rows
<1>8. \A i \in 1..m : e + i \in 1..n /\ e + i \in P
  BY <1>7
<1>9. Once(rows, m)
  <2>1. ASSUME NEW i \in 1..m, NEW j \in 1..m, rows[i] = rows[j] PROVE i = j
    <3>1. e + i = e + j
      BY <1>1, <1>7, <1>8, <2>1
    <3> QED BY <3>1
  <2> QED BY <1>7, <2>1 DEF Once
<1>10. ToSet(rows) = {x \in ToSet(s) : Use(d, x)}
  <2>1. DOMAIN rows = 1..m
    BY <1>7
  <2>2. ToSet(rows) = {rows[i] : i \in 1..m} /\ ToSet(s) = {s[i] : i \in 1..n}
    BY <1>1, <2>1 DEF ToSet
  <2>3. ASSUME NEW i \in 1..m PROVE rows[i] \in ToSet(s) /\ Use(d, rows[i])
    <3>1. rows[i] = s[e + i] /\ e + i \in 1..n /\ e + i \in P
      BY <1>7, <1>8
    <3> QED BY <2>2, <3>1 DEF P
  <2>4. ASSUME NEW i \in 1..n, Use(d, s[i]) PROVE s[i] \in ToSet(rows)
    <3>1. i \in P
      BY <2>4 DEF P
    <3>2. i - e \in 1..m /\ e + (i - e) = i
      BY <1>7, <3>1
    <3>3. rows[i - e] = s[i]
      BY <1>7, <3>2
    <3> QED BY <2>2, <3>2, <3>3
  <2>5. \A x : x \in ToSet(rows) <=> x \in ToSet(s) /\ Use(d, x)
    BY <2>2, <2>3, <2>4
  <2> QED BY <2>5
<1>11. ASSUME NEW i \in 1..m, NEW j \in 1..m, i < j PROVE ~Shown(d, rows[j], rows[i])
  <2>1. e + i < e + j /\ e + i \in 1..n /\ e + j \in 1..n
    BY <1>8, <1>11
  <2>2. ~Leads(c, s[e + j], s[e + i])
    BY <2>1
  <2>3. Use(d, s[e + i]) /\ Use(d, s[e + j])
    BY <1>8 DEF P
  <2>4. Alike(c, s[e + j], s[e + i])
    BY <1>2, <2>3, UsedAreAlike
  <2>5. Fit(c.key, s[e + i]) /\ Fit(c.key, s[e + j])
    BY <2>1
  <2>6. ~Shown(c, s[e + j], s[e + i])
    BY <2>2, <2>4, <2>5, AmongAlike
  <2> QED BY <1>2, <1>7, <2>6
<1>12. RowsAre(d, rows, ToSet(s), m)
  BY <1>9, <1>10, <1>11 DEF RowsAre
<1> QED BY <1>4, <1>12 DEF d

\* What is picked out of a list, in its order.
LEMMA Picked ==
  ASSUME NEW n \in Nat, NEW s, Once(s, n), NEW at \in SUBSET (1..n)
  PROVE  \E k \in Nat : /\ Once(Selection(s, at), k)
                        /\ ToSet(Selection(s, at)) = {s[i] : i \in at}
<1> DEFINE k == Cardinality(at)
           own == Selection(s, at)
<1>1. IsFiniteSet(at) /\ at \in SUBSET Int
  <2>1. IsFiniteSet(1..n)
    BY FS_Interval
  <2>2. IsFiniteSet(at)
    BY <2>1, FS_Subset
  <2>3. at \in SUBSET Int
    OBVIOUS
  <2> QED BY <2>2, <2>3
<1>2. k \in Nat /\ \E f : Selects(f, s, at, k)
  BY <1>1, SelectionSelects
<1> HIDE DEF k
<1>3. PICK f : Selects(f, s, at, k)
  BY <1>2
<1>4. /\ f \in [1..k -> at]
      /\ \A p, q \in 1..k : p < q <=> f[p] < f[q]
      /\ \A i \in at : \E p \in 1..k : f[p] = i
      /\ own = [p \in 1..k |-> s[f[p]]]
  BY <1>3 DEF Selects
<1> HIDE DEF own
<1>5. s \in Seq(TeamRank) /\ Len(s) = n /\ \A i, j \in 1..n : s[i] = s[j] => i = j
  BY DEF Once
<1>6. \A p \in 1..k : f[p] \in at /\ f[p] \in 1..n /\ s[f[p]] \in TeamRank
  <2>1. \A i \in 1..n : s[i] \in TeamRank
    BY <1>5
  <2>2. \A i \in at : i \in 1..n
    OBVIOUS
  <2>3. \A p \in 1..k : f[p] \in at
    BY <1>4
  <2> QED BY <2>1, <2>2, <2>3
<1>7. own \in Seq(TeamRank) /\ Len(own) = k
  <2>1. own \in [1..k -> TeamRank]
    BY <1>4, <1>6
  <2> QED BY <1>2, <2>1
<1>8. ASSUME NEW p \in 1..k, NEW q \in 1..k, own[p] = own[q] PROVE p = q
  <2>1. f[p] = f[q] /\ f[p] \in Int
    BY <1>4, <1>5, <1>6, <1>8
  <2>2. ~(p < q) /\ ~(q < p)
    BY <1>4, <2>1
  <2> QED BY <2>2
<1>9. Once(own, k)
  BY <1>7, <1>8 DEF Once
<1>10. ToSet(own) = {s[i] : i \in at}
  <2>1. DOMAIN own = 1..k
    BY <1>4
  <2>2. ToSet(own) = {own[p] : p \in 1..k}
    BY <2>1 DEF ToSet
  <2>3. \A p \in 1..k : own[p] = s[f[p]]
    BY <1>4
  <2>4. \A p \in 1..k : own[p] \in {s[i] : i \in at}
    BY <1>6, <2>3
  <2>5. ASSUME NEW i \in at PROVE s[i] \in ToSet(own)
    <3>1. PICK p \in 1..k : f[p] = i
      BY <1>4
    <3> QED BY <2>2, <2>3, <3>1
  <2>6. ToSet(own) \subseteq {s[i] : i \in at}
    BY <2>2, <2>4
  <2>7. {s[i] : i \in at} \subseteq ToSet(own)
    BY <2>5
  <2> QED BY <2>6, <2>7
<1> QED BY <1>2, <1>9, <1>10 DEF own

-----------------------------------------------------------------------------
(* The invariant: the ranks in memory are those of the ranking, and an answer has the *)
(* right rows, wherever comparing them makes sense.                                   *)

\* What the request is about, before the filter.
Asked ==
  {x \in ranking : /\ x.version = answer.span.version /\ x.mode = answer.span.mode
                   /\ answer.of = "clan" => x.team_id \in answer.ids}

AnswerInv ==
  answer # NoAnswer =>
    /\ answer.of \in {"ladder", "clan"}
    /\ answer.by \in Comparators /\ answer.by.strict
    /\ Answered => \E m \in Nat : RowsAre(answer.by, answer.rows, Asked, m)

PagesInv == MemoryInv /\ AnswerInv

LEMMA DisplayIsComparator ==
  ASSUME NEW f \in Filters, NEW key \in SortKeys, NEW reverse \in BOOLEAN
  PROVE  Display(f, key, reverse) \in Comparators /\ ~Display(f, key, reverse).strict
<1>1. f \in [region : Int, league : Int, race : Int]
  BY LadderPagesAssumption
<1>2. f.region \in Int /\ f.league \in Int /\ f.race \in Int
  BY <1>1
<1> QED BY <1>2 DEF Display, Comparators

\* The rows of an answer, given the rows it was made from.
LEMMA AnswerRows ==
  ASSUME NEW c \in Comparators, ~c.strict, NEW n \in Nat, NEW s, Once(s, n),
         NEW r \in Sorted(s, c),
         \A x \in ToSet(s) : Fit(c.key, x) /\ x.mmr >= NO_MMR
  PROVE  \E m \in Nat : RowsAre(Strict(c), Filtered(r, Strict(c)), ToSet(s), m)
<1>1. LeadsInOrder(c, ToSet(s))
  BY FitLeads
<1>2. /\ Once(r, n) /\ Rearranged(r, s, n)
      /\ \A i, j \in 1..n : i < j => ~Leads(c, r[j], r[i])
  BY <1>1, SortedIs
<1>3. PICK perm : Permutation(n, perm) /\ \A p \in 1..n : r[p] = s[perm[p]]
  BY <1>2 DEF Rearranged
<1>4. ToSet(r) = ToSet(s)
  <2>1. r \in Seq(TeamRank) /\ Len(r) = n
    BY <1>2 DEF Once
  <2> QED BY <1>3, <2>1, OnceRearranged
<1>5. \A i \in 1..n : r[i] \in ToSet(s)
  <2>1. DOMAIN r = 1..n
    BY <1>2 DEF Once
  <2>2. ToSet(r) = {r[i] : i \in 1..n}
    BY <2>1 DEF ToSet
  <2> QED BY <1>4, <2>2
<1>6. \A i \in 1..n : Fit(c.key, r[i]) /\ r[i].mmr >= NO_MMR
  BY <1>5
<1> QED BY <1>2, <1>4, <1>6, FilteredIs

\* Ranks of the ranking that an answer compares can be compared.
LEMMA AskedAreFit ==
  ASSUME ranking \in Rankings, answer.by \in Comparators, Answered, NEW x \in ranking,
         x.version = answer.span.version, x.mode = answer.span.mode
  PROVE  Fit(answer.by.key, x) /\ x.mmr >= NO_MMR
<1>1. IsTeamRank(x) /\ x.mmr >= NO_MMR
  BY RowsOfRanking
<1>2. answer.by.key = "WIN_RATE" => Played(x) > 0
  BY DEF Answered
<1> QED BY <1>1, <1>2 DEF Fit

LEMMA PagesInit == Init => PagesInv
<1> SUFFICES ASSUME Init PROVE PagesInv
  OBVIOUS
<1>1. ranking \in Rankings /\ team_ranks \in Loaded(ranking) /\ answer = NoAnswer
  BY DEF Init
<1>2. MemoryInv
  BY <1>1, LoadedIs DEF MemoryInv
<1> QED BY <1>1, <1>2 DEF PagesInv, AnswerInv

LEMMA RefreshStep ==
  ASSUME NEW rows \in Rankings, Refresh(rows)
  PROVE  PagesInv'
<1>1. ranking' = rows /\ team_ranks' \in Loaded(rows) /\ answer' = NoAnswer
  BY DEF Refresh
<1>2. Once(team_ranks', Cardinality(rows)) /\ ToSet(team_ranks') = rows /\ Grouped(team_ranks')
  BY <1>1, LoadedIs
<1>3. MemoryInv'
  BY <1>1, <1>2 DEF MemoryInv
<1> QED BY <1>1, <1>3 DEF PagesInv, AnswerInv

\* An answer is right if its rows come of what the request asks for.
LEMMA AnswerStep ==
  ASSUME MemoryInv, ranking' = ranking,
         NEW request \in {"ladder", "clan"}, NEW ids, NEW span,
         NEW c \in Comparators, ~c.strict, NEW r,
         answer' = AnswerOf(request, ids, span, c, r),
         NEW all, all = {x \in OfSpan(span) : request = "clan" => x.team_id \in ids},
         (\A x \in all : Fit(c.key, x) /\ x.mmr >= NO_MMR)
           => \E m \in Nat : RowsAre(Strict(c), Filtered(r, Strict(c)), all, m)
  PROVE  AnswerInv'
<1> DEFINE d == Strict(c)
<1>1. d \in Comparators /\ d.strict /\ d.key = c.key
  BY StrictUses
<1> HIDE DEF d
<1>2. /\ answer'.of = request /\ answer'.ids = ids /\ answer'.span = span
      /\ answer'.by = d /\ answer'.rows = Filtered(r, d)
  BY DEF AnswerOf, d
<1>3. Asked' = all
  BY <1>2 DEF Asked, OfSpan
<1>4. ASSUME Answered' PROVE \E m \in Nat : RowsAre(answer'.by, answer'.rows, Asked', m)
  <2>1. ASSUME NEW x \in all PROVE Fit(c.key, x) /\ x.mmr >= NO_MMR
    <3>1. x \in ranking /\ x.version = span.version /\ x.mode = span.mode
      BY DEF OfSpan
    <3>2. IsTeamRank(x) /\ x.mmr >= NO_MMR
      BY <3>1, RowsOfRanking DEF MemoryInv
    <3>3. c.key = "WIN_RATE" => Played(x) > 0
      BY <1>1, <1>2, <1>4, <3>1 DEF Answered
    <3> QED BY <3>2, <3>3 DEF Fit
  <2>2. PICK m \in Nat : RowsAre(d, Filtered(r, d), all, m)
    BY <2>1 DEF d
  <2> QED BY <1>2, <1>3, <2>2
<1> QED BY <1>1, <1>2, <1>4 DEF AnswerInv

LEMMA LadderStep ==
  ASSUME MemoryInv, NEW span, NEW c \in Comparators, ~c.strict, Ladder(span, c)
  PROVE  PagesInv'
<1> DEFINE n == Len(team_ranks)
           places == Span(team_ranks, span)
           of_span == RowsAt(team_ranks, places)
           all == {x \in OfSpan(span) : "ladder" = "clan" => x.team_id \in {}}
<1>1. PICK d, m \in Nat : SpanAt(span, d, m)
  BY SpanIs
<1>2. /\ d + m <= n /\ places = (d + 1)..(d + m)
      /\ places # {} => d = Min(places) - 1 /\ d + m = Max(places)
      /\ \A i \in 1..n : i \in (d + 1)..(d + m) <=> InSpan(team_ranks[i], span)
      /\ Once(of_span, m) /\ ToSet(of_span) = OfSpan(span)
      /\ \A i \in 1..m : of_span[i] = team_ranks[d + i]
  BY <1>1 DEF SpanAt
<1>3. all = OfSpan(span)
  OBVIOUS
<1>4. n = Cardinality(ranking) /\ n \in Nat /\ Once(team_ranks, n)
  BY RowsOfRanking DEF MemoryInv, Once
<1> HIDE DEF n, all
<1>5. ranking' = ranking
  BY DEF Ladder
<1>6. CASE places = {}
  <2>1. team_ranks' = team_ranks /\ answer' = AnswerOf("ladder", {}, span, c, <<>>)
    BY <1>6 DEF Ladder
  <2>2. of_span = <<>>
    BY <1>6 DEF RowsAt
  <2>3. m = 0 /\ Once(<<>>, 0)
    BY <1>2, <2>2 DEF Once
  <2>4. ToSet(<<>>) = all
    BY <1>2, <1>3, <2>2
  <2>5. \E k \in Nat : RowsAre(Strict(c), Filtered(<<>>, Strict(c)), all, k)
    <3>1. 0 \in Nat /\ \A i \in 1..0 : FALSE
      OBVIOUS
    <3> QED BY <2>3, <2>4, <3>1, FilteredIs
  <2>6. AnswerInv'
    BY <1>5, <2>1, <2>5, AnswerStep DEF all
  <2>7. MemoryInv'
    BY <1>5, <2>1 DEF MemoryInv
  <2> QED BY <2>6, <2>7 DEF PagesInv
<1>7. CASE places # {}
  <2>1. PICK r \in Sorted(of_span, c) :
          /\ team_ranks' = SubSeq(team_ranks, 1, Min(places) - 1) \o r
                             \o SubSeq(team_ranks, Max(places) + 1, n)
          /\ answer' = AnswerOf("ladder", {}, span, c, r)
    BY <1>7 DEF Ladder, n
  <2>2. Once(r, m) /\ Rearranged(r, of_span, m)
    BY <1>2, <2>1, SortedIs
  <2>3. team_ranks' = SubSeq(team_ranks, 1, d) \o r \o SubSeq(team_ranks, d + m + 1, n)
    BY <1>2, <1>7, <2>1
  <2> HIDE DEF of_span, places
  <2>4. /\ Once(team_ranks', n) /\ ToSet(team_ranks') = ToSet(team_ranks)
        /\ Grouped(team_ranks')
    <3>1. Grouped(team_ranks)
      BY DEF MemoryInv
    <3>2. SpanHas(team_ranks, n, d, m, span) /\ IsPiece(of_span, team_ranks, d, m)
      BY <1>2 DEF SpanHas, IsPiece
    <3>3. team_ranks' = Put(team_ranks, n, d, m, r)
      BY <2>3 DEF Put
    <3> QED BY <1>2, <1>4, <2>2, <3>1, <3>2, <3>3, PutBack
  <2>5. MemoryInv'
    BY <1>4, <1>5, <2>4 DEF MemoryInv
  <2>6. ASSUME \A x \in all : Fit(c.key, x) /\ x.mmr >= NO_MMR
        PROVE  \E k \in Nat : RowsAre(Strict(c), Filtered(r, Strict(c)), all, k)
    BY <1>2, <1>3, <2>1, <2>6, AnswerRows
  <2>7. AnswerInv'
    BY <1>5, <2>1, <2>6, AnswerStep DEF all
  <2> QED BY <2>5, <2>7 DEF PagesInv
<1> QED BY <1>6, <1>7

LEMMA ClanStep ==
  ASSUME MemoryInv, NEW ids, NEW c \in Comparators, ~c.strict, Clan(ids, c)
  PROVE  PagesInv'
<1> DEFINE span == [version |-> LOTV, mode |-> TEAM_1V1]
           of_mode == RowsAt(team_ranks, Span(team_ranks, span))
           at == {i \in DOMAIN of_mode : of_mode[i].team_id \in ids}
           own == Selection(of_mode, at)
           all == {x \in OfSpan(span) : "clan" = "clan" => x.team_id \in ids}
<1>1. PICK d, m \in Nat : SpanAt(span, d, m)
  BY SpanIs
<1>2. Once(of_mode, m) /\ ToSet(of_mode) = OfSpan(span)
  BY <1>1 DEF SpanAt
<1>3. PICK r \in Sorted(own, c) : answer' = AnswerOf("clan", ids, span, c, r)
  BY DEF Clan
<1>4. ranking' = ranking /\ team_ranks' = team_ranks
  BY DEF Clan
<1> HIDE DEF span, of_mode
<1>5. DOMAIN of_mode = 1..m
  BY <1>2 DEF Once
<1>6. at \in SUBSET (1..m)
  BY <1>5
<1>7. ToSet(of_mode) = {of_mode[i] : i \in 1..m}
  BY <1>5 DEF ToSet
<1>8. {of_mode[i] : i \in at} = all
  BY <1>2, <1>5, <1>7
<1> HIDE DEF at
<1>9. PICK k \in Nat : Once(own, k) /\ ToSet(own) = {of_mode[i] : i \in at}
  BY <1>2, <1>6, Picked
<1> HIDE DEF own, all
<1>10. ASSUME \A x \in all : Fit(c.key, x) /\ x.mmr >= NO_MMR
       PROVE  \E j \in Nat : RowsAre(Strict(c), Filtered(r, Strict(c)), all, j)
  BY <1>3, <1>8, <1>9, <1>10, AnswerRows
<1>11. AnswerInv'
  BY <1>3, <1>4, <1>10, AnswerStep DEF all
<1>12. MemoryInv'
  BY <1>4 DEF MemoryInv
<1> QED BY <1>11, <1>12 DEF PagesInv

LEMMA PagesStep == PagesInv /\ [Next]_vars => PagesInv'
<1> SUFFICES ASSUME PagesInv, [Next]_vars PROVE PagesInv'
  OBVIOUS
<1>1. ASSUME NEW rows \in Rankings, Refresh(rows) PROVE PagesInv'
  BY <1>1, RefreshStep
<1>2. ASSUME NEW f \in Filters, NEW key \in SortKeys, NEW reverse \in BOOLEAN, NEW span \in Spans,
             Ladder(span, Display(f, key, reverse))
      PROVE  PagesInv'
  BY <1>2, DisplayIsComparator, LadderStep DEF PagesInv
<1>3. ASSUME NEW f \in Filters, NEW key \in SortKeys, NEW reverse \in BOOLEAN,
             NEW ids \in ClanTeams, Clan(ids, Display(f, key, reverse))
      PROVE  PagesInv'
  BY <1>3, DisplayIsComparator, ClanStep DEF PagesInv
<1>4. CASE UNCHANGED vars
  BY <1>4 DEF PagesInv, MemoryInv, AnswerInv, Asked, Answered, vars
<1> QED BY <1>1, <1>2, <1>3, <1>4 DEF Next

THEOREM PagesInvariance == Spec => []PagesInv
<1> QED BY PagesInit, PagesStep, PTL DEF Spec

\* The ranks in memory are the ones of the ranking that was loaded, each once, however
\* requests have sorted them.
THEOREM TypeCorrect == Spec => []TypeOK
<1>1. PagesInv => TypeOK
  <2> SUFFICES ASSUME PagesInv PROVE TypeOK
    OBVIOUS
  <2>1. team_ranks \in SetToSeqs(ranking) /\ ranking \in Rankings
    BY AllOnce DEF PagesInv, MemoryInv
  <2> QED BY <2>1 DEF PagesInv, AnswerInv, TypeOK
<1> QED BY <1>1, PagesInvariance, PTL

-----------------------------------------------------------------------------
(* Counting rows: by place or by what they are. *)

LEMMA CountRows ==
  ASSUME NEW m \in Nat, NEW rows, Once(rows, m), NEW S \in SUBSET ToSet(rows)
  PROVE  /\ Cardinality(S) = Cardinality({j \in 1..m : rows[j] \in S})
         /\ Cardinality(S) \in Nat
<1> DEFINE J == {j \in 1..m : rows[j] \in S}
           f == [j \in J |-> rows[j]]
<1>1. /\ DOMAIN rows = 1..m
      /\ \A i, j \in 1..m : rows[i] = rows[j] => i = j
  BY DEF Once
<1>2. ToSet(rows) = {rows[j] : j \in 1..m}
  BY <1>1 DEF ToSet
<1>3. f \in [J -> S]
  OBVIOUS
<1>4. \A i, j \in J : f[i] = f[j] => i = j
  BY <1>1
<1>5. \A x \in S : \E j \in J : f[j] = x
  BY <1>2
<1>6. IsFiniteSet(J) /\ Cardinality(J) \in Nat
  <2>1. IsFiniteSet(1..m)
    BY FS_Interval
  <2>2. J \in SUBSET (1..m)
    OBVIOUS
  <2> HIDE DEF J
  <2>3. IsFiniteSet(J)
    BY <2>1, <2>2, FS_Subset
  <2> QED BY <2>3, FS_CardinalityType
<1> HIDE DEF f, J
<1>7. f \in Bijection(J, S)
  BY <1>3, <1>4, <1>5 DEF Bijection, Injection, Surjection, IsInjective
<1>8. ExistsBijection(J, S)
  BY <1>7 DEF ExistsBijection
<1>9. Cardinality(S) = Cardinality(J)
  BY <1>6, <1>8, FS_Bijection
<1> QED BY <1>6, <1>9 DEF J

\* A comparator, the rows that it has selected and put in order, and what they were
\* selected from.
Selected(c, rows, all, m) ==
  /\ c \in Comparators /\ c.strict /\ m \in Nat
  /\ RowsAre(c, rows, all, m)
  /\ \A x \in all : Fit(c.key, x)

LEMMA SelectedRows ==
  ASSUME NEW c, NEW rows, NEW all, NEW m, Selected(c, rows, all, m)
  PROVE  /\ m \in Nat /\ Len(rows) = m /\ DOMAIN rows = 1..m
         /\ ToSet(rows) = {x \in all : Use(c, x)} /\ ToSet(rows) = {rows[j] : j \in 1..m}
         /\ \A j \in 1..m : /\ rows[j] \in all /\ Use(c, rows[j]) /\ Fit(c.key, rows[j])
                            /\ rows[j] \in ToSet(rows)
         /\ \A i, j \in 1..m : i < j => ~Shown(c, rows[j], rows[i])
<1>1. /\ m \in Nat /\ Len(rows) = m /\ DOMAIN rows = 1..m
      /\ ToSet(rows) = {x \in all : Use(c, x)}
      /\ \A i, j \in 1..m : i < j => ~Shown(c, rows[j], rows[i])
  BY DEF Selected, RowsAre, Once
<1>2. ToSet(rows) = {rows[j] : j \in 1..m}
  BY <1>1 DEF ToSet
<1>3. ASSUME NEW j \in 1..m
      PROVE  /\ rows[j] \in all /\ Use(c, rows[j]) /\ Fit(c.key, rows[j])
             /\ rows[j] \in ToSet(rows)
  <2>1. rows[j] \in ToSet(rows)
    BY <1>2
  <2>2. rows[j] \in all /\ Use(c, rows[j])
    BY <1>1, <2>1
  <2> QED BY <2>1, <2>2 DEF Selected
<1> QED BY <1>1, <1>2, <1>3

\* Whoever is shown before a row is before it in the rows, and what comes before it in the
\* rows is shown before it or tied with it.
LEMMA PlaceIsRight ==
  ASSUME NEW c, NEW rows, NEW all, NEW m, Selected(c, rows, all, m), NEW i \in 1..m,
         NEW tied, tied = {y \in ToSet(rows) : ~Shown(c, rows[i], y) /\ ~Shown(c, y, rows[i])},
         NEW ahead, ahead = {y \in ToSet(rows) : Shown(c, y, rows[i])}
  PROVE  i \in (Cardinality(ahead) + 1)..(Cardinality(ahead) + Cardinality(tied))
<1> DEFINE A == {j \in 1..m : rows[j] \in ahead}
           T == {j \in 1..m : rows[j] \in tied}
<1>1. /\ m \in Nat
      /\ \A j \in 1..m : Fit(c.key, rows[j]) /\ rows[j] \in ToSet(rows)
      /\ \A j, k \in 1..m : j < k => ~Shown(c, rows[k], rows[j])
  BY SelectedRows
<1>2. Once(rows, m) /\ c \in Comparators
  BY DEF Selected, RowsAre
<1>3. /\ Cardinality(ahead) = Cardinality(A) /\ Cardinality(ahead) \in Nat
      /\ Cardinality(tied) = Cardinality(T) /\ Cardinality(tied) \in Nat
  <2>1. ahead \in SUBSET ToSet(rows) /\ tied \in SUBSET ToSet(rows)
    OBVIOUS
  <2> QED BY <1>1, <1>2, <2>1, CountRows
<1>4. \A j \in 1..m : /\ j \in A <=> Shown(c, rows[j], rows[i])
                      /\ j \in T <=> ~Shown(c, rows[i], rows[j]) /\ ~Shown(c, rows[j], rows[i])
  BY <1>1
<1>5. A \in SUBSET (1..m) /\ T \in SUBSET (1..m)
  OBVIOUS
<1> HIDE DEF A, T
<1>6. ~Shown(c, rows[i], rows[i])
  BY <1>1, <1>2, ShownOrder
<1>7. A \subseteq 1..(i - 1)
  <2>1. ASSUME NEW j \in A PROVE j \in 1..(i - 1)
    <3>1. j \in 1..m /\ Shown(c, rows[j], rows[i])
      BY <1>4, <1>5
    <3>2. j # i /\ ~(i < j)
      BY <1>1, <1>6, <3>1
    <3> QED BY <1>1, <3>1, <3>2
  <2> QED BY <2>1
<1>8. 1..i \subseteq A \cup T
  <2>1. ASSUME NEW j \in 1..i PROVE j \in A \cup T
    <3>1. j \in 1..m /\ (j = i \/ j < i)
      BY <1>1
    <3>2. ~Shown(c, rows[i], rows[j])
      BY <1>1, <1>6, <3>1
    <3> QED BY <1>4, <3>1, <3>2
  <2> QED BY <2>1
<1>9. A \cap T = {}
  BY <1>4, <1>5
<1>10. IsFiniteSet(A) /\ IsFiniteSet(T)
  <2>1. IsFiniteSet(1..m)
    BY <1>1, FS_Interval
  <2> QED BY <1>5, <2>1, FS_Subset
<1>11. Cardinality(A) <= i - 1
  <2>1. i - 1 \in Nat /\ 1 \in Int /\ i - 1 \in Int
    BY <1>1
  <2> DEFINE k == i - 1
  <2>2. IsFiniteSet(1..k) /\ Cardinality(1..k) = k
    <3>1. k \in Nat /\ k \in Int /\ 1 \in Int
      BY <2>1
    <3> HIDE DEF k
    <3>2. IsFiniteSet(1..k) /\ Cardinality(1..k) = IF 1 > k THEN 0 ELSE k - 1 + 1
      BY <3>1, FS_Interval
    <3> QED BY <3>1, <3>2
  <2> QED BY <1>7, <2>2, FS_Subset
<1>12. i <= Cardinality(A) + Cardinality(T)
  <2>1. IsFiniteSet(A \cup T) /\ Cardinality(A \cup T) = Cardinality(A) + Cardinality(T)
    <3>1. Cardinality(A \cap T) = 0
      BY <1>9, FS_EmptySet
    <3>2. Cardinality(A \cup T) = Cardinality(A) + Cardinality(T) - Cardinality(A \cap T)
      BY <1>10, FS_Union
    <3>3. Cardinality(A) \in Nat /\ Cardinality(T) \in Nat
      BY <1>3
    <3>4. IsFiniteSet(A \cup T)
      BY <1>10, FS_Union
    <3> QED BY <3>1, <3>2, <3>3, <3>4
  <2>2. i \in Nat /\ i \in Int /\ 1 \in Int
    BY <1>1
  <2>3. IsFiniteSet(1..i) /\ Cardinality(1..i) = i
    BY <2>2, FS_Interval
  <2>4. Cardinality(1..i) <= Cardinality(A \cup T)
    BY <1>8, <2>1, FS_Subset
  <2> QED BY <2>1, <2>3, <2>4
<1> QED BY <1>1, <1>3, <1>11, <1>12

\* What is tied for display is a row of the same team.
LEMMA TiedIsOneTeam ==
  ASSUME NEW c \in Comparators, NEW x, NEW y, Fit(c.key, x), Fit(c.key, y),
         ~Shown(c, x, y), ~Shown(c, y, x)
  PROVE  y.team_id = x.team_id
<1>1. c.key \in SortKeys
  BY DEF Comparators
<1>2. KeyOrder(c.key, x, y, x) /\ TieOrder(c.key, x, y, x)
  BY <1>1, KeysOrder, TiesOrder DEF Fit
<1>3. /\ ~Earlier(c.key, x, y) /\ ~Earlier(c.key, y, x)
  BY DEF Shown
<1>4. Level(c.key, x, y) /\ Level(c.key, y, x)
  BY <1>2, <1>3 DEF Earlier, KeyOrder
<1>5. TieEqual(c.key, x, y)
  BY <1>2, <1>3, <1>4 DEF Earlier, TieOrder
<1>6. TieBreakers(c.key, x) = TieBreakers(c.key, y)
  BY <1>5 DEF TieEqual
<1>7. CASE c.key \in {"MMR", "LEAGUE_POINTS"}
  BY <1>6, <1>7 DEF TieBreakers
<1>8. CASE c.key = "PLAYED"
  BY <1>6, <1>8 DEF TieBreakers
<1>9. CASE c.key = "WINS"
  BY <1>6, <1>9 DEF TieBreakers
<1>10. CASE c.key = "LOSSES"
  BY <1>6, <1>10 DEF TieBreakers
<1>11. CASE c.key = "WIN_RATE"
  BY <1>6, <1>11 DEF TieBreakers
<1> QED BY <1>1, <1>7, <1>8, <1>9, <1>10, <1>11 DEF SortKeys

-----------------------------------------------------------------------------
(* What an answer shows. *)

LEMMA AnswerIsSelected ==
  ASSUME PagesInv, Answered
  PROVE  /\ \E m \in Nat : Selected(answer.by, answer.rows, Asked, m)
         /\ Matching = {x \in Asked : Use(answer.by, x)}
         /\ answer.by \in Comparators /\ answer.by.strict
         /\ answer.of \in {"ladder", "clan"}
<1>1. answer # NoAnswer /\ ranking \in Rankings
  BY DEF Answered, PagesInv, MemoryInv
<1>2. /\ answer.by \in Comparators /\ answer.by.strict /\ answer.of \in {"ladder", "clan"}
      /\ \E m \in Nat : RowsAre(answer.by, answer.rows, Asked, m)
  BY <1>1 DEF PagesInv, AnswerInv
<1>3. \A x \in Asked : Fit(answer.by.key, x)
  BY <1>1, <1>2, AskedAreFit DEF Asked
<1>4. Matching = {x \in Asked : Use(answer.by, x)}
  BY DEF Matching, Asked
<1> QED BY <1>2, <1>3, <1>4 DEF Selected

\* The order of the properties is the one of the comparator.
LEMMA DisplayIsShown ==
  ASSUME answer.by \in Comparators, NEW x, NEW y, Fit(answer.by.key, x), Fit(answer.by.key, y)
  PROVE  /\ DisplayBefore(y, x) <=> Shown(answer.by, y, x)
         /\ KeyBefore(y, x) <=> Better(answer.by, y, x)
<1> DEFINE c == answer.by
<1>1. c.key \in SortKeys /\ c.reverse \in BOOLEAN
  BY DEF Comparators
<1>2. KeyOrder(c.key, x, y, x) /\ KeyOrder(c.key, y, x, y)
  BY <1>1, KeysOrder
<1>3. /\ KeyBefore(y, x) <=> Better(c, y, x)
      /\ KeyBefore(x, y) <=> Better(c, x, y)
  BY DEF KeyBefore, Better
<1>4. DisplayBefore(y, x) <=>
        \/ Better(c, y, x)
        \/ ~Better(c, x, y) /\ IF c.reverse THEN TieBefore(c.key, x, y) ELSE TieBefore(c.key, y, x)
  BY <1>3 DEF DisplayBefore, TieBefore
<1>5. /\ Level(c.key, x, y) <=> ~Better(c, x, y) /\ ~Better(c, y, x)
      /\ Level(c.key, y, x) <=> ~Better(c, x, y) /\ ~Better(c, y, x)
  BY <1>2 DEF KeyOrder, Better
<1>6. CASE c.reverse
  <2>1. Shown(c, y, x) <=> Better(c, y, x) \/ (Level(c.key, x, y) /\ TieBefore(c.key, x, y))
    BY <1>6 DEF Shown, Earlier, Better
  <2>2. DisplayBefore(y, x) <=> Better(c, y, x) \/ (~Better(c, x, y) /\ TieBefore(c.key, x, y))
    BY <1>4, <1>6
  <2> QED BY <1>3, <1>5, <2>1, <2>2
<1>7. CASE ~c.reverse
  <2>1. Shown(c, y, x) <=> Better(c, y, x) \/ (Level(c.key, y, x) /\ TieBefore(c.key, y, x))
    BY <1>7 DEF Shown, Earlier, Better
  <2>2. DisplayBefore(y, x) <=> Better(c, y, x) \/ (~Better(c, x, y) /\ TieBefore(c.key, y, x))
    BY <1>4, <1>7
  <2> QED BY <1>3, <1>5, <2>1, <2>2
<1> QED BY <1>3, <1>6, <1>7

\* Pages show every matching rank once and where its place is: what is shown before it is
\* on an earlier place, and only rows of one team can change places.
THEOREM PagesTileHolds == Spec => []PagesTile
<1>1. PagesInv => PagesTile
  <2> SUFFICES ASSUME PagesInv, Answered
               PROVE  /\ ToSet(answer.rows) = Matching
                      /\ Len(answer.rows) = Cardinality(Matching)
                      /\ \A i \in DOMAIN answer.rows :
                           LET x == answer.rows[i]
                               tied == {y \in Matching : ~DisplayBefore(x, y) /\ ~DisplayBefore(y, x)}
                               ahead == Cardinality({y \in Matching : DisplayBefore(y, x)})
                           IN  /\ i \in (ahead + 1)..(ahead + Cardinality(tied))
                               /\ \A y \in tied : y.team_id = x.team_id
    BY DEF PagesTile
  <2> DEFINE c == answer.by
             rows == answer.rows
             M == ToSet(rows)
  <2>1. PICK m \in Nat : Selected(c, rows, Asked, m)
    BY AnswerIsSelected
  <2>2. /\ Len(rows) = m /\ DOMAIN rows = 1..m
        /\ \A j \in 1..m : Fit(c.key, rows[j]) /\ rows[j] \in M
        /\ M = {rows[j] : j \in 1..m}
        /\ M = {x \in Asked : Use(c, x)}
    BY <2>1, SelectedRows
  <2>3. c \in Comparators /\ Matching = M
    BY <2>2, AnswerIsSelected
  <2>4. \A x \in M : Fit(c.key, x)
    BY <2>2
  <2>5. \A x, y \in M : DisplayBefore(y, x) <=> Shown(c, y, x)
    BY <2>3, <2>4, DisplayIsShown
  <2>6. Cardinality(M) = m
    BY <2>1, OnceCounts DEF Selected, RowsAre
  <2> HIDE DEF c, rows, M
  <2>7. ASSUME NEW i \in 1..m
        PROVE  LET x == rows[i]
                   tied == {y \in M : ~DisplayBefore(x, y) /\ ~DisplayBefore(y, x)}
                   ahead == Cardinality({y \in M : DisplayBefore(y, x)})
               IN  /\ i \in (ahead + 1)..(ahead + Cardinality(tied))
                   /\ \A y \in tied : y.team_id = x.team_id
    <3> DEFINE x == rows[i]
               tied == {y \in M : ~Shown(c, x, y) /\ ~Shown(c, y, x)}
               ahead == {y \in M : Shown(c, y, x)}
    <3>1. x \in M
      BY <2>2
    <3>2. /\ {y \in M : ~DisplayBefore(x, y) /\ ~DisplayBefore(y, x)} = tied
          /\ {y \in M : DisplayBefore(y, x)} = ahead
      BY <2>5, <3>1
    <3>3. i \in (Cardinality(ahead) + 1)..(Cardinality(ahead) + Cardinality(tied))
      BY <2>1, PlaceIsRight DEF M
    <3>4. \A y \in tied : y.team_id = x.team_id
      BY <2>3, <2>4, <3>1, TiedIsOneTeam
    <3> HIDE DEF tied, ahead, x
    <3>5. /\ i \in (Cardinality(ahead) + 1)..(Cardinality(ahead) + Cardinality(tied))
          /\ \A y \in tied : y.team_id = x.team_id
      BY <3>3, <3>4
    <3> QED BY <3>2, <3>5 DEF x
  <2> QED BY <2>2, <2>3, <2>6, <2>7 DEF c, rows, M
<1> QED BY <1>1, PagesInvariance, PTL

-----------------------------------------------------------------------------
(* Ranks.  The rows that are better than the i-th are the first ones. *)

LEMMA BetterOrder ==
  ASSUME NEW c \in Comparators, NEW x, NEW y, NEW z,
         Fit(c.key, x), Fit(c.key, y), Fit(c.key, z)
  PROVE  /\ ~Better(c, x, x)
         /\ Better(c, x, y) => ~Better(c, y, x)
         /\ Better(c, x, z) => Better(c, x, y) \/ Better(c, y, z)
<1>1. c.key \in SortKeys
  BY DEF Comparators
<1>2. \A u, v, w \in {x, y, z} : KeyOrder(c.key, u, v, w)
  BY <1>1, KeysOrder
<1>3. /\ ~Ahead(c.key, x, x)
      /\ Ahead(c.key, x, y) => ~Ahead(c.key, y, x)
      /\ Ahead(c.key, y, x) => ~Ahead(c.key, x, y)
  BY <1>2 DEF KeyOrder
<1>4. /\ Ahead(c.key, x, z) => Ahead(c.key, x, y) \/ Ahead(c.key, y, z)
      /\ Ahead(c.key, z, x) => Ahead(c.key, z, y) \/ Ahead(c.key, y, x)
  BY <1>2 DEF KeyOrder
<1> QED BY <1>3, <1>4 DEF Better

Betters(c, rows, m, i) == {j \in 1..m : Better(c, rows[j], rows[i])}
RankOf(c, rows, m, i) == Cardinality(Betters(c, rows, m, i))

LEMMA BetterRows ==
  ASSUME NEW c, NEW rows, NEW all, NEW m, Selected(c, rows, all, m)
  PROVE  /\ \A i \in 1..m : ~Better(c, rows[i], rows[i])
         /\ \A i, j \in 1..m : i < j => ~Better(c, rows[j], rows[i])
         /\ \A i, j, k \in 1..m : Better(c, rows[i], rows[k])
              => Better(c, rows[i], rows[j]) \/ Better(c, rows[j], rows[k])
         /\ \A i, j \in 1..m : i < j =>
              /\ Differ(c, rows[i], rows[j]) <=> Better(c, rows[i], rows[j])
              /\ Differ(c, rows[j], rows[i]) <=> Better(c, rows[i], rows[j])
<1>1. c \in Comparators /\ c.strict
  BY DEF Selected
<1>2. /\ \A j \in 1..m : Use(c, rows[j]) /\ Fit(c.key, rows[j])
      /\ \A i, j \in 1..m : i < j => ~Shown(c, rows[j], rows[i])
  BY SelectedRows
<1>3. ASSUME NEW i \in 1..m, NEW j \in 1..m
      PROVE  /\ Before(c, rows[i], rows[j]) <=> Better(c, rows[i], rows[j])
             /\ Better(c, rows[i], rows[j]) => Shown(c, rows[i], rows[j])
  <2>1. Alike(c, rows[i], rows[j])
    BY <1>2, UsedAreAlike
  <2> QED BY <1>1, <1>2, <2>1, AmongAlike
<1>4. \A i, j \in 1..m : i < j => ~Better(c, rows[j], rows[i])
  BY <1>2, <1>3
<1>5. \A i, j, k \in 1..m :
        /\ ~Better(c, rows[i], rows[i])
        /\ Better(c, rows[i], rows[k]) => Better(c, rows[i], rows[j]) \/ Better(c, rows[j], rows[k])
  BY <1>1, <1>2, BetterOrder
<1>6. \A i, j \in 1..m : i < j =>
              /\ Differ(c, rows[i], rows[j]) <=> Better(c, rows[i], rows[j])
              /\ Differ(c, rows[j], rows[i]) <=> Better(c, rows[i], rows[j])
  BY <1>3, <1>4 DEF Differ
<1> QED BY <1>4, <1>5, <1>6

LEMMA BettersAreFirst ==
  ASSUME NEW c, NEW rows, NEW all, NEW m, Selected(c, rows, all, m), NEW i \in 1..m
  PROVE  /\ RankOf(c, rows, m, i) \in 0..(i - 1)
         /\ Betters(c, rows, m, i) = 1..RankOf(c, rows, m, i)
<1> DEFINE B == Betters(c, rows, m, i)
<1>1. m \in Nat
  BY DEF Selected
<1>2. \A j \in 1..m : j \in B <=> Better(c, rows[j], rows[i])
  BY DEF Betters
<1>3. B \in SUBSET (1..m)
  BY DEF Betters
<1> HIDE DEF B
<1>4. \A j \in B : j <= i - 1
  <2>1. ASSUME NEW j \in B PROVE j <= i - 1
    <3>1. j \in 1..m /\ Better(c, rows[j], rows[i])
      BY <1>2, <1>3
    <3>2. j # i /\ ~(i < j)
      BY <3>1, BetterRows
    <3> QED BY <1>1, <3>1, <3>2
  <2> QED BY <2>1
<1>5. \A j \in B : \A k \in 1..j : k \in B
  <2>1. ASSUME NEW j \in B, NEW k \in 1..j PROVE k \in B
    <3>1. j \in 1..m /\ k \in 1..m /\ Better(c, rows[j], rows[i]) /\ (k = j \/ k < j)
      BY <1>1, <1>2, <1>3
    <3>2. CASE k = j
      BY <3>2
    <3>3. CASE k < j
      <4>1. ~Better(c, rows[j], rows[k])
        BY <3>1, <3>3, BetterRows
      <4>2. Better(c, rows[k], rows[i])
        BY <3>1, <4>1, BetterRows
      <4> QED BY <1>2, <3>1, <4>2
    <3> QED BY <3>1, <3>2, <3>3
  <2> QED BY <2>1
<1>6. CASE B = {}
  <2>1. Cardinality(B) = 0
    BY <1>6, FS_EmptySet
  <2>2. B = 1..0 /\ 0 \in 0..(i - 1)
    BY <1>1, <1>6
  <2> QED BY <2>1, <2>2 DEF B, RankOf
<1>7. CASE B # {}
  <2> DEFINE h == Max(B)
  <2>1. h \in B /\ \A j \in B : j <= h
    <3>1. B \in SUBSET (0..m)
      BY <1>3
    <3> QED BY <1>1, <1>7, <3>1, LeastAndGreatest
  <2> HIDE DEF h
  <2>2. h \in Nat /\ h <= i - 1 /\ h >= 1
    BY <1>1, <1>3, <1>4, <2>1
  <2>3. B = 1..h
    <3>1. \A k \in 1..h : k \in B
      BY <1>5, <2>1
    <3>2. \A k \in B : k \in 1..h
      BY <1>3, <2>1, <2>2
    <3> QED BY <3>1, <3>2
  <2>4. Cardinality(1..h) = h
    BY <2>2, FS_Interval
  <2>5. h \in 0..(i - 1)
    BY <2>2
  <2> QED BY <2>3, <2>4, <2>5 DEF B, RankOf
<1> QED BY <1>6, <1>7

\* A row has the rank of the one before it, or its place, if it is worse than a row that
\* shares that rank.
LEMMA RankOfNext ==
  ASSUME NEW c, NEW rows, NEW all, NEW m, Selected(c, rows, all, m),
         NEW i \in 1..m, i - 1 \in 1..m, NEW k \in 1..(i - 1), k > RankOf(c, rows, m, i - 1)
  PROVE  IF Differ(c, rows[k], rows[i])
         THEN RankOf(c, rows, m, i) = i - 1
         ELSE RankOf(c, rows, m, i) = RankOf(c, rows, m, i - 1)
<1> DEFINE h == i - 1
           R == RankOf(c, rows, m, h)
           S == RankOf(c, rows, m, i)
<1>1. m \in Nat /\ k \in 1..m /\ k < i /\ h \in 1..m /\ h < i /\ (k = h \/ k < h)
  BY DEF Selected
<1>2. R \in 0..(h - 1) /\ Betters(c, rows, m, h) = 1..R
  BY BettersAreFirst
<1>3. S \in 0..(i - 1) /\ Betters(c, rows, m, i) = 1..S
  BY BettersAreFirst
<1>4. \A j \in 1..m : /\ j \in 1..R <=> Better(c, rows[j], rows[h])
                      /\ j \in 1..S <=> Better(c, rows[j], rows[i])
  BY <1>2, <1>3 DEF Betters
<1>5. Differ(c, rows[k], rows[i]) <=> Better(c, rows[k], rows[i])
  BY <1>1, BetterRows
<1>6. ~Better(c, rows[k], rows[h]) /\ ~Better(c, rows[h], rows[k])
  <2>1. k > R
    OBVIOUS
  <2> HIDE DEF h, R, S
  <2>2. k \notin 1..R
    BY <1>2, <2>1
  <2> QED BY <1>1, <1>4, <2>2, BetterRows
<1>7. h = i - 1
  OBVIOUS
<1> HIDE DEF h, R, S
<1>8. CASE Better(c, rows[k], rows[i])
  <2>1. Better(c, rows[h], rows[i])
    BY <1>1, <1>6, <1>8, BetterRows
  <2>2. h \in 1..S
    BY <1>1, <1>4, <2>1
  <2>3. S = h
    BY <1>1, <1>3, <1>7, <2>2
  <2> QED BY <1>5, <1>7, <1>8, <2>3 DEF S
<1>9. CASE ~Better(c, rows[k], rows[i])
  <2>1. ASSUME NEW j \in 1..m PROVE Better(c, rows[j], rows[h]) <=> Better(c, rows[j], rows[i])
    <3>1. ~Better(c, rows[i], rows[h])
      BY <1>1, BetterRows
    <3>2. Better(c, rows[j], rows[h]) => Better(c, rows[j], rows[i])
      BY <1>1, <3>1, BetterRows
    <3>3. Better(c, rows[j], rows[i]) => Better(c, rows[j], rows[k])
      BY <1>1, <1>9, BetterRows
    <3>4. Better(c, rows[j], rows[k]) => Better(c, rows[j], rows[h])
      BY <1>1, <1>6, BetterRows
    <3> QED BY <3>2, <3>3, <3>4
  <2>2. Betters(c, rows, m, h) = Betters(c, rows, m, i)
    BY <2>1 DEF Betters
  <2>3. R = S
    BY <2>2 DEF R, S, RankOf
  <2> QED BY <1>5, <1>7, <1>9, <2>3 DEF R, S
<1> QED BY <1>8, <1>9

-----------------------------------------------------------------------------
(* Pages. *)

LEMMA StartRankIs ==
  ASSUME NEW c, NEW rows, NEW all, NEW m, Selected(c, rows, all, m),
         NEW offset \in Nat, offset + 1 \in 1..m
  PROVE  StartRank(rows, c, offset) = RankOf(c, rows, m, offset + 1)
<1> DEFINE i == offset + 1
           R == RankOf(c, rows, m, i)
           D == {o \in 1..offset : Differ(c, rows[i], rows[o])}
           S == {0} \cup D
<1>1. m \in Nat
  BY DEF Selected
<1>2. R \in 0..(i - 1) /\ Betters(c, rows, m, i) = 1..R
  BY BettersAreFirst
<1>3. \A o \in 1..offset : o \in 1..m /\ o < i /\ i \in 1..m
  BY <1>1
<1>4. R \in 0..offset
  BY <1>2
<1>5. StartRank(rows, c, offset) = Max(S)
  BY DEF StartRank
<1>6. offset + 1 = i
  OBVIOUS
<1> HIDE DEF i, R
<1>7. \A o \in 1..offset : o \in D <=> o \in 1..R
  <2>1. ASSUME NEW o \in 1..offset PROVE o \in D <=> o \in 1..R
    <3>1. Differ(c, rows[i], rows[o]) <=> Better(c, rows[o], rows[i])
      BY <1>3, BetterRows
    <3>2. o \in 1..R <=> Better(c, rows[o], rows[i])
      BY <1>2, <1>3 DEF Betters
    <3> QED BY <3>1, <3>2
  <2> QED BY <2>1
<1>8. S = 0..R
  <2>1. \A o \in D : o \in 1..offset
    OBVIOUS
  <2> HIDE DEF D
  <2>2. \A o \in S : o \in 0..R
    BY <1>4, <1>7, <2>1
  <2>3. \A o \in 0..R : o \in S
    <3>1. \A o \in 1..R : o \in 1..offset
      BY <1>4
    <3>2. \A o \in 0..R : o = 0 \/ o \in 1..R
      OBVIOUS
    <3> QED BY <1>7, <3>1, <3>2
  <2>4. S \subseteq 0..R
    BY <2>2
  <2>5. 0..R \subseteq S
    BY <2>3
  <2> HIDE DEF S
  <2> QED BY <2>4, <2>5
<1> HIDE DEF S
<1>9. Max(S) = R
  <2>1. R \in Nat /\ S \in SUBSET (0..R) /\ S # {} /\ R \in S
    <3>1. R \in Nat
      BY <1>4
    <3>2. S \in SUBSET (0..R)
      BY <1>8
    <3>3. R \in S
      BY <1>8, <3>1
    <3> QED BY <3>1, <3>2, <3>3
  <2>2. Max(S) \in S /\ R <= Max(S)
    BY <2>1, LeastAndGreatest
  <2> DEFINE x == Max(S)
  <2> HIDE DEF x
  <2>3. x \in 0..R /\ R <= x
    BY <1>8, <2>2 DEF x
  <2>4. x = R
    BY <2>1, <2>3
  <2> QED BY <2>4 DEF x
<1> QED BY <1>5, <1>9 DEF R, i

\* What build_teams_array keeps for a row, given what it kept for the one before.
NextAt(prev, c, rows, start, offset, i) ==
  IF i = 1 THEN [rank |-> start, last |-> rows[offset + 1]]
  ELSE IF Differ(c, prev.last, rows[offset + i])
       THEN [rank |-> i - 1 + offset, last |-> rows[offset + i]]
       ELSE prev
IsAt(at, c, rows, start, offset, n) ==
  at = [i \in 1..n |-> NextAt(at[i - 1], c, rows, start, offset, i)]

\* It keeps the first row of the page that shares the rank of the row, and this rank.
KeptAt(c, rows, m, offset, i) ==
  LET R == RankOf(c, rows, m, offset + i)
  IN  [rank |-> R, last |-> rows[offset + (IF R > offset THEN R + 1 - offset ELSE 1)]]

IsKept(at, c, rows, m, offset, n) == \A i \in 1..n : at[i] = KeptAt(c, rows, m, offset, i)

LEMMA KeptIsNext ==
  ASSUME NEW c, NEW rows, NEW all, NEW m, Selected(c, rows, all, m),
         NEW offset \in Nat, NEW n \in Nat, offset + n <= m, NEW start,
         n > 0 => start = RankOf(c, rows, m, offset + 1), NEW i \in 1..n
  PROVE  KeptAt(c, rows, m, offset, i)
           = NextAt(KeptAt(c, rows, m, offset, i - 1), c, rows, start, offset, i)
<1> DEFINE h == offset + i
           R == RankOf(c, rows, m, h)
           S == RankOf(c, rows, m, h - 1)
           Kept(q) == [rank |-> q, last |-> rows[offset + (IF q > offset THEN q + 1 - offset ELSE 1)]]
<1>1. m \in Nat /\ h \in 1..m /\ h >= offset + 1
  BY DEF Selected
<1>2. R \in 0..(h - 1)
  BY <1>1, BettersAreFirst
<1>3. KeptAt(c, rows, m, offset, i) = Kept(R)
  BY DEF KeptAt
<1>4. CASE i = 1
  <2>1. R = start /\ R <= offset
    BY <1>2, <1>4
  <2>2. Kept(R) = [rank |-> start, last |-> rows[offset + 1]]
    BY <1>2, <2>1
  <2> QED BY <1>3, <1>4, <2>2 DEF NextAt
<1>5. CASE i # 1
  <2>1. h - 1 \in 1..m /\ h - 1 = offset + (i - 1) /\ h - 1 >= offset + 1
    BY <1>1, <1>5
  <2>2. S \in 0..(h - 2)
    <3>1. S \in 0..((h - 1) - 1)
      BY <2>1, BettersAreFirst
    <3> QED BY <1>1, <3>1
  <2>3. KeptAt(c, rows, m, offset, i - 1) = Kept(S)
    BY <2>1 DEF KeptAt
  <2> DEFINE k == offset + (IF S > offset THEN S + 1 - offset ELSE 1)
  <2>4. k \in 1..(h - 1) /\ k > S
    BY <1>1, <2>1, <2>2
  <2>5. Kept(S).last = rows[k] /\ Kept(S).rank = S
    OBVIOUS
  <2>6. IF Differ(c, rows[k], rows[h]) THEN R = h - 1 ELSE R = S
    <3> HIDE DEF h, k, Kept
    <3>1. S = RankOf(c, rows, m, h - 1)
      OBVIOUS
    <3> QED BY <1>1, <2>1, <2>4, <3>1, RankOfNext
  <2>7. CASE Differ(c, rows[k], rows[h])
    <3>2. R = i - 1 + offset /\ R + 1 - offset = i /\ R > offset
      BY <1>5, <2>6, <2>7
    <3>3. Kept(R) = [rank |-> i - 1 + offset, last |-> rows[offset + i]]
      BY <3>2
    <3> QED BY <1>3, <1>5, <2>3, <2>5, <2>7, <3>3 DEF NextAt
  <2>8. CASE ~Differ(c, rows[k], rows[h])
    <3>1. R = S
      BY <2>6, <2>8
    <3> QED BY <1>3, <1>5, <2>3, <2>5, <2>8, <3>1 DEF NextAt
  <2> QED BY <2>7, <2>8
<1> QED BY <1>4, <1>5

\* There is such a function, and no other.
LEMMA AtIs ==
  ASSUME NEW c, NEW rows, NEW all, NEW m, Selected(c, rows, all, m),
         NEW offset \in Nat, NEW n \in Nat, offset + n <= m, NEW start,
         n > 0 => start = RankOf(c, rows, m, offset + 1)
  PROVE  /\ \E at : IsAt(at, c, rows, start, offset, n)
         /\ \A at : IsAt(at, c, rows, start, offset, n) => IsKept(at, c, rows, m, offset, n)
<1> DEFINE w == [i \in 1..n |-> KeptAt(c, rows, m, offset, i)]
           G(prev, i) == NextAt(prev, c, rows, start, offset, i)
<1>1. \A i \in 1..n : w[i] = KeptAt(c, rows, m, offset, i)
  OBVIOUS
<1>2. \A i \in 1..n : KeptAt(c, rows, m, offset, i) = G(KeptAt(c, rows, m, offset, i - 1), i)
  BY KeptIsNext
<1>3. \A u, v : G(u, 1) = G(v, 1)
  BY DEF NextAt
<1>4. \A i \in 1..n : i = 1 \/ i - 1 \in 1..n
  OBVIOUS
<1> HIDE DEF w, G
<1>5. \A i \in 1..n : w[i] = G(w[i - 1], i)
  BY <1>1, <1>2, <1>3, <1>4
<1>6. w = [i \in 1..n |-> G(w[i - 1], i)]
  <2>1. w = [i \in 1..n |-> w[i]]
    BY DEF w
  <2> QED BY <1>5, <2>1
<1>7. IsAt(w, c, rows, start, offset, n)
  BY <1>6 DEF IsAt, G
<1>8. ASSUME NEW at, IsAt(at, c, rows, start, offset, n), NEW b \in 1..n, at[b] # w[b]
      PROVE  FALSE
  <2> DEFINE Bad == {i \in 1..n : at[i] # w[i]}
  <2>1. Bad \in SUBSET Nat /\ b \in Bad
    BY <1>8
  <2> HIDE DEF Bad
  <2>2. PICK i \in Bad : \A j \in Bad : i <= j
    BY <2>1, Smallest
  <2>3. i \in 1..n /\ at[i] # w[i]
    BY DEF Bad
  <2>4. at[i] = G(at[i - 1], i)
    BY <1>8, <2>3 DEF IsAt, G
  <2>5. CASE i = 1
    BY <1>3, <1>5, <2>3, <2>4, <2>5
  <2>6. CASE i # 1
    <3>1. i - 1 \in 1..n /\ ~(i <= i - 1)
      BY <2>3, <2>6
    <3>2. at[i - 1] = w[i - 1]
      BY <2>2, <3>1 DEF Bad
    <3> QED BY <1>5, <2>3, <2>4, <3>2
  <2> QED BY <2>5, <2>6
<1>9. \A at : IsAt(at, c, rows, start, offset, n) => \A i \in 1..n : at[i] = w[i]
  BY <1>8
<1>10. \A at : IsAt(at, c, rows, start, offset, n) => IsKept(at, c, rows, m, offset, n)
  BY <1>1, <1>9 DEF IsKept
<1> QED BY <1>7, <1>10

\* A page has as many rows as there are from its offset, or as fit, with their ranks.
IsPage(page, c, rows, m, offset, limit, n) ==
  /\ n \in Nat /\ n >= 1 /\ offset + n <= m /\ (n = limit \/ offset + n = m)
  /\ DOMAIN page = 1..n
  /\ \A i \in 1..n : /\ page[i].rank = RankOf(c, rows, m, offset + i)
                     /\ page[i].row = rows[offset + i]

LEMMA TeamsArrayIs ==
  ASSUME NEW c, NEW rows, NEW all, NEW m, Selected(c, rows, all, m),
         NEW offset \in Nat, offset < m, NEW limit \in 1..(m + Lead + 1),
         NEW start, start = RankOf(c, rows, m, offset + 1)
  PROVE  \E k : IsPage(TeamsArray(rows, c, start, offset, limit), c, rows, m, offset, limit, k)
<1> DEFINE n == Min({limit, Len(rows) - offset})
           at == CHOOSE f : IsAt(f, c, rows, start, offset, n)
<1>1. m \in Nat /\ Len(rows) = m /\ Lead \in Nat
  BY SelectedRows, LadderPagesAssumption
<1>2. /\ n \in Nat /\ n <= limit /\ offset + n <= m /\ n >= 1
      /\ n = limit \/ offset + n = m
  <2> DEFINE N == {limit, m - offset}
             big == m + Lead + 1
             x == Min(N)
  <2>1. big \in Nat /\ N \in SUBSET (0..big) /\ N # {} /\ limit \in N /\ m - offset \in N
    BY <1>1
  <2>2. m - offset \in Nat /\ m - offset >= 1 /\ limit \in Nat /\ limit >= 1
    BY <1>1
  <2> HIDE DEF big
  <2>3. x \in N /\ \A i \in N : x <= i
    <3> HIDE DEF N
    <3> QED BY <2>1, LeastAndGreatest
  <2> HIDE DEF x
  <2>4. (x = limit \/ x = m - offset) /\ x <= limit /\ x <= m - offset
    BY <2>3
  <2>5. x \in Nat /\ x <= limit /\ offset + x <= m /\ x >= 1 /\ (x = limit \/ offset + x = m)
    BY <1>1, <2>2, <2>4
  <2>6. n = x
    BY <1>1 DEF x
  <2> QED BY <2>5, <2>6
<1>3. TeamsArray(rows, c, start, offset, limit)
        = [i \in 1..n |-> [rank |-> at[i].rank, row |-> rows[offset + i]]]
  BY DEF TeamsArray, IsAt, NextAt
<1> HIDE DEF n, at
<1>4. IsAt(at, c, rows, start, offset, n)
  <2>1. \E f : IsAt(f, c, rows, start, offset, n)
    BY <1>2, AtIs
  <2> QED BY <2>1 DEF at
<1>5. IsKept(at, c, rows, m, offset, n)
  BY <1>2, <1>4, AtIs
<1>6. ASSUME NEW i \in 1..n PROVE at[i].rank = RankOf(c, rows, m, offset + i)
  <2>1. KeptAt(c, rows, m, offset, i).rank = RankOf(c, rows, m, offset + i)
    BY DEF KeptAt
  <2> QED BY <1>5, <2>1 DEF IsKept
<1> DEFINE page == TeamsArray(rows, c, start, offset, limit)
<1>7. /\ DOMAIN page = 1..n
      /\ \A i \in 1..n : page[i].rank = at[i].rank /\ page[i].row = rows[offset + i]
  <2> DEFINE r(i) == at[i].rank
             x(i) == rows[offset + i]
             P == [i \in 1..n |-> [rank |-> r(i), row |-> x(i)]]
  <2>1. page = P
    BY <1>3
  <2> HIDE DEF r, x
  <2>2. DOMAIN P = 1..n /\ \A i \in 1..n : P[i].rank = r(i) /\ P[i].row = x(i)
    OBVIOUS
  <2> HIDE DEF page, P
  <2> QED BY <2>1, <2>2 DEF r, x
<1> HIDE DEF page
<1>8. IsPage(page, c, rows, m, offset, limit, n)
  BY <1>2, <1>6, <1>7 DEF IsPage
<1> QED BY <1>8 DEF page

BetterOnes(c, rows, x) == {y \in ToSet(rows) : Better(c, y, x)}

\* The rank counts what is better, wherever it is shown.
LEMMA RankCounts ==
  ASSUME NEW c, NEW rows, NEW all, NEW m, Selected(c, rows, all, m), NEW i \in 1..m
  PROVE  RankOf(c, rows, m, i) = Cardinality(BetterOnes(c, rows, rows[i]))
<1> DEFINE S == BetterOnes(c, rows, rows[i])
<1>1. Once(rows, m) /\ m \in Nat
  BY DEF Selected, RowsAre
<1>2. S \in SUBSET ToSet(rows)
  BY DEF BetterOnes
<1>3. \A j \in 1..m : rows[j] \in ToSet(rows)
  BY SelectedRows
<1>4. {j \in 1..m : rows[j] \in S} = Betters(c, rows, m, i)
  BY <1>3 DEF Betters, BetterOnes
<1> HIDE DEF S
<1>5. Cardinality(S) = Cardinality({j \in 1..m : rows[j] \in S})
  BY <1>1, <1>2, CountRows
<1> QED BY <1>4, <1>5 DEF RankOf, S

LEMMA PageIs ==
  ASSUME NEW c, NEW rows, NEW all, NEW m, Selected(c, rows, all, m),
         NEW offset \in Nat, offset < m, NEW limit \in 1..(m + Lead + 1)
  PROVE  \E n : IsPage(Page(rows, c, offset, limit), c, rows, m, offset, limit, n)
<1>1. m \in Nat /\ Len(rows) = m
  BY SelectedRows
<1>2. offset + 1 \in 1..m /\ offset # Len(rows)
  BY <1>1
<1>3. StartRank(rows, c, offset) = RankOf(c, rows, m, offset + 1)
  BY <1>2, StartRankIs
<1>4. Page(rows, c, offset, limit)
        = TeamsArray(rows, c, StartRank(rows, c, offset), offset, limit)
  BY <1>2 DEF Page
<1> QED BY <1>3, <1>4, TeamsArrayIs

LEMMA ClanPageIs ==
  ASSUME NEW c, NEW rows, NEW all, NEW m, Selected(c, rows, all, m), m > 0
  PROVE  \E n : IsPage(ClanPage(rows, c), c, rows, m, 0, m, n)
<1>1. m \in Nat /\ Len(rows) = m /\ Lead \in Nat
  BY SelectedRows, LadderPagesAssumption
<1>2. rows # <<>>
  BY <1>1
<1>3. ClanPage(rows, c) = TeamsArray(rows, c, 0, 0, m)
  BY <1>1, <1>2 DEF ClanPage
<1>4. 0 \in Nat /\ 0 < m /\ m \in 1..(m + Lead + 1) /\ 0 + 1 = 1 /\ 1 \in 1..m
  BY <1>1
<1>5. RankOf(c, rows, m, 0 + 1) = 0
  <2>1. RankOf(c, rows, m, 1) \in 0..(1 - 1)
    BY <1>4, BettersAreFirst
  <2> QED BY <1>4, <2>1
<1> QED BY <1>3, <1>4, <1>5, TeamsArrayIs

\* The ranks on a page.
CountsTheBetter(page, c, rows) ==
  \A i \in DOMAIN page : /\ page[i].rank = Cardinality(BetterOnes(c, rows, page[i].row))
                         /\ page[i].row \in ToSet(rows)

LEMMA PageCounts ==
  ASSUME NEW c, NEW rows, NEW all, NEW m, Selected(c, rows, all, m), NEW offset \in Nat,
         NEW limit, NEW n, NEW page, IsPage(page, c, rows, m, offset, limit, n)
  PROVE  CountsTheBetter(page, c, rows)
<1> SUFFICES ASSUME NEW i \in DOMAIN page
             PROVE  /\ page[i].rank = Cardinality(BetterOnes(c, rows, page[i].row))
                    /\ page[i].row \in ToSet(rows)
  BY DEF CountsTheBetter
<1>1. /\ i \in 1..n /\ n \in Nat /\ offset + n <= m
      /\ page[i].rank = RankOf(c, rows, m, offset + i)
      /\ page[i].row = rows[offset + i]
  BY DEF IsPage
<1>2. offset + i \in 1..m
  BY <1>1 DEF Selected
<1> QED BY <1>1, <1>2, RankCounts, SelectedRows

\* Every page of the ladder, and the one of a clan, shows with each row how many matching
\* rows are better, also where some of those or of its equals are on other pages.
THEOREM PageRanksCountTheBetterHolds == Spec => []PageRanksCountTheBetter
<1>1. PagesInv => PageRanksCountTheBetter
  <2> DEFINE c == answer.by
             rows == answer.rows
             PageOf(o, l) == IF answer.of = "ladder" THEN Page(rows, c, o, l) ELSE ClanPage(rows, c)
  <2> SUFFICES ASSUME PagesInv, Answered, NEW offset \in 0..Len(rows), NEW limit \in 1..Len(rows),
                      NEW i \in DOMAIN PageOf(offset, limit)
               PROVE  PageOf(offset, limit)[i].rank
                        = Cardinality({y \in Matching : KeyBefore(y, PageOf(offset, limit)[i].row)})
    BY DEF PageRanksCountTheBetter
  <2> DEFINE page == PageOf(offset, limit)
  <2>1. PICK m \in Nat : Selected(c, rows, Asked, m)
    BY AnswerIsSelected
  <2>2. /\ Len(rows) = m /\ \A x \in ToSet(rows) : Fit(c.key, x)
        /\ ToSet(rows) = {x \in Asked : Use(c, x)}
    BY <2>1, SelectedRows
  <2>3. c \in Comparators /\ Matching = ToSet(rows)
    BY <2>2, AnswerIsSelected
  <2>4. ASSUME NEW o \in Nat, NEW l, NEW n, IsPage(page, c, rows, m, o, l, n), i \in DOMAIN page
        PROVE  page[i].rank = Cardinality({y \in Matching : KeyBefore(y, page[i].row)})
    <3> HIDE DEF page, c, rows
    <3> DEFINE x == page[i].row
    <3>1. x \in ToSet(rows)
          /\ page[i].rank = Cardinality(BetterOnes(c, rows, x))
      <4>1. CountsTheBetter(page, c, rows)
        BY <2>1, <2>4, PageCounts
      <4> QED BY <2>4, <4>1 DEF CountsTheBetter
    <3> HIDE DEF x
    <3>2. \A y \in ToSet(rows) : KeyBefore(y, x) <=> Better(c, y, x)
      BY <2>2, <2>3, <3>1, DisplayIsShown DEF c
    <3>3. {y \in Matching : KeyBefore(y, x)} = BetterOnes(c, rows, x)
      BY <2>3, <3>2 DEF BetterOnes
    <3> QED BY <3>1, <3>3 DEF x, page
  <2>5. limit \in 1..(m + Lead + 1) /\ offset \in Nat /\ offset <= m /\ m > 0
    BY <2>1, <2>2, LadderPagesAssumption
  <2>8. i \in DOMAIN page
    OBVIOUS
  <2>6. CASE answer.of = "ladder"
    <3>1. page = Page(rows, c, offset, limit)
      BY <2>6
    <3>2. offset # m
      <4>1. ASSUME offset = m PROVE FALSE
        <5>1. page = <<>>
          BY <2>2, <3>1, <4>1 DEF Page
        <5> QED BY <5>1
      <4> QED BY <4>1
    <3>3. \E n : IsPage(page, c, rows, m, offset, limit, n)
      BY <2>1, <2>5, <3>1, <3>2, PageIs
    <3> QED BY <2>4, <2>5, <2>8, <3>3
  <2>7. CASE answer.of # "ladder"
    <3>1. page = ClanPage(rows, c)
      BY <2>7
    <3>2. \E n : IsPage(page, c, rows, m, 0, m, n)
      BY <2>1, <2>5, <3>1, ClanPageIs
    <3> QED BY <2>4, <2>8, <3>2
  <2> QED BY <2>6, <2>7
<1> QED BY <1>1, PagesInvariance, PTL

\* The page that is asked for by team begins so far above the first row of the team that a
\* page with one row more shows it.
LEMMA OffsetIs ==
  ASSUME NEW m \in Nat, NEW rows, Len(rows) = m, NEW t, t # 0,
         NEW q \in 1..m, rows[q].team_id = t
  PROVE  \E p \in 0..(m - 1) :
           /\ rows[p + 1].team_id = t
           /\ Offset(rows, -1, t) \in 0..p /\ p <= Offset(rows, -1, t) + Lead
<1> DEFINE at == {o \in 0..(m - 1) : rows[o + 1].team_id = t}
           p == Min(at)
           wanted == Max({p - Lead, 0})
           offset == Min({wanted, m})
<1>1. at \in SUBSET (0..m) /\ at # {}
  <2>1. q - 1 \in 0..(m - 1) /\ (q - 1) + 1 = q
    OBVIOUS
  <2>2. q - 1 \in at
    BY <2>1
  <2>3. \A o \in at : o \in 0..m
    OBVIOUS
  <2> HIDE DEF at
  <2> QED BY <2>2, <2>3
<1>2. p \in at
  <2> HIDE DEF at
  <2> QED BY <1>1, LeastAndGreatest
<1>3. Offset(rows, -1, t) = offset
  <2>1. Offset(rows, -1, t)
          = Min({IF -1 = -1 /\ t # 0 /\ at # {} THEN wanted ELSE Max({-1, 0}), m})
    BY DEF Offset
  <2> QED BY <1>1, <2>1
<1>4. p \in 0..(m - 1) /\ rows[p + 1].team_id = t
  BY <1>2
<1> HIDE DEF at, p
<1>5. Lead \in Nat
  BY LadderPagesAssumption
<1>6. wanted = IF p >= Lead THEN p - Lead ELSE 0
  <2>1. CASE p >= Lead
    <3> DEFINE W == {p - Lead, 0}
    <3>1. p - Lead \in Nat
      BY <1>4, <1>5, <2>1
    <3>2. W \in SUBSET (0..(p - Lead)) /\ W # {} /\ p - Lead \in W
      BY <3>1
    <3>3. Max(W) \in W /\ p - Lead <= Max(W)
      <4> HIDE DEF W
      <4> QED BY <3>1, <3>2, LeastAndGreatest
    <3> DEFINE x == Max(W)
    <3> HIDE DEF x
    <3>4. (x = p - Lead \/ x = 0) /\ p - Lead <= x
      BY <3>3 DEF x
    <3>5. x = p - Lead
      BY <3>1, <3>4
    <3> QED BY <2>1, <3>5 DEF x
  <2>2. CASE ~(p >= Lead)
    <3>1. p - Lead < 0 /\ p - Lead \in Int
      BY <1>4, <1>5, <2>2
    <3>2. \A x \in {p - Lead, 0} : 0 >= x
      BY <3>1
    <3>3. wanted = CHOOSE x \in {p - Lead, 0} : \A y \in {p - Lead, 0} : x >= y
      BY DEF Max
    <3>4. wanted \in {p - Lead, 0} /\ wanted >= 0
      BY <3>2, <3>3
    <3>5. wanted = 0
      BY <3>1, <3>4
    <3> QED BY <2>2, <3>5
  <2> QED BY <2>1, <2>2
<1> HIDE DEF wanted
<1>7. wanted \in 0..p /\ p <= wanted + Lead /\ wanted < m
  BY <1>4, <1>5, <1>6
<1>8. offset = wanted
  <2> DEFINE W == {wanted, m}
  <2>1. W \in SUBSET (0..m) /\ W # {} /\ wanted \in W
    BY <1>4, <1>7
  <2>2. Min(W) \in W /\ Min(W) <= wanted
    <3> HIDE DEF W
    <3> QED BY <2>1, LeastAndGreatest
  <2> DEFINE x == Min(W)
  <2> HIDE DEF x
  <2>3. (x = wanted \/ x = m) /\ x <= wanted
    BY <2>2 DEF x
  <2>4. x = wanted
    BY <1>7, <2>3
  <2> QED BY <2>4 DEF x
<1> QED BY <1>3, <1>4, <1>7, <1>8

\* Whoever asks for the page of a team that matches gets a page that shows it.
THEOREM TeamIsOnItsPageHolds == Spec => []TeamIsOnItsPage
<1>1. PagesInv => TeamIsOnItsPage
  <2> DEFINE c == answer.by
             rows == answer.rows
             PageOf(t) == Page(rows, c, Offset(rows, -1, t), Lead + 1)
  <2> SUFFICES ASSUME PagesInv, Answered, NEW y \in Matching
               PROVE  \E i \in DOMAIN PageOf(y.team_id) :
                        PageOf(y.team_id)[i].row.team_id = y.team_id
    BY DEF TeamIsOnItsPage
  <2> DEFINE t == y.team_id
             offset == Offset(rows, -1, t)
             page == PageOf(t)
  <2>1. PICK m \in Nat : Selected(c, rows, Asked, m)
    BY AnswerIsSelected
  <2>2. /\ Len(rows) = m /\ ToSet(rows) = {rows[j] : j \in 1..m}
        /\ ToSet(rows) = {x \in Asked : Use(c, x)}
    BY <2>1, SelectedRows
  <2>3. PICK q \in 1..m : rows[q] = y
    BY <2>2, AnswerIsSelected
  <2>4. t # 0
    <3>1. y \in ranking /\ ranking \in Rankings
      BY DEF Matching, PagesInv, MemoryInv
    <3> QED BY <3>1, RowsOfRanking
  <2>5. PICK p \in 0..(m - 1) : /\ rows[p + 1].team_id = t
                                /\ offset \in 0..p /\ p <= offset + Lead
    BY <2>2, <2>3, <2>4, OffsetIs
  <2>6. Lead \in Nat
    BY LadderPagesAssumption
  <2>7. page = Page(rows, c, offset, Lead + 1)
    OBVIOUS
  <2> HIDE DEF offset, page, t, c, rows
  <2>8. offset \in Nat /\ offset < m /\ Lead + 1 \in 1..(m + Lead + 1)
    BY <2>5, <2>6
  <2>9. PICK n : IsPage(page, c, rows, m, offset, Lead + 1, n)
    BY <2>1, <2>7, <2>8, PageIs
  <2>10. /\ n \in Nat /\ (n = Lead + 1 \/ offset + n = m)
         /\ DOMAIN page = 1..n
         /\ \A i \in 1..n : page[i].row = rows[offset + i]
    BY <2>9 DEF IsPage
  <2> DEFINE i == p + 1 - offset
  <2>11. i \in 1..n /\ offset + i = p + 1
    BY <2>5, <2>6, <2>8, <2>10
  <2> HIDE DEF i
  <2>12. page[i].row.team_id = t /\ i \in DOMAIN page
    BY <2>5, <2>10, <2>11
  <2> QED BY <2>12 DEF page, t, offset, c, rows
<1> QED BY <1>1, PagesInvariance, PTL
=============================================================================
