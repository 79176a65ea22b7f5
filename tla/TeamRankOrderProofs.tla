------------------------ MODULE TeamRankOrderProofs ------------------------
(***************************************************************************)
(* What the sorting algorithms of C++ require of a comparison, for every   *)
(* comparator of compare.hpp and any team ranks.                           *)
(***************************************************************************)
EXTENDS TeamRankOrder, FiniteSetTheorems, TLAPS

\* The members of team_rank_t that are compared.
IsTeamRank(x) ==
  /\ x.region \in Int /\ x.league \in Int /\ x.tier \in Int /\ x.points \in Int
  /\ x.race0 \in Int /\ x.mmr \in Int /\ x.wins \in Nat /\ x.losses \in Nat
  /\ x.team_id \in Int

\* Ranks that a key can compare: a rate needs games.
Fit(key, x) == IsTeamRank(x) /\ (key = "WIN_RATE" => Played(x) > 0)

\* The requirements of std::sort on a comparison of x, y and z: nothing is before
\* itself, being before is transitive, and so is being tied.
Tied(c, x, y) == ~Before(c, x, y) /\ ~Before(c, y, x)
WeakOrder(c, x, y, z) ==
  /\ ~Before(c, x, x)
  /\ Before(c, x, y) /\ Before(c, y, z) => Before(c, x, z)
  /\ Tied(c, x, y) /\ Tied(c, y, z) => Tied(c, x, z)

-----------------------------------------------------------------------------
(* Lists of up to four numbers. *)

LEMMA LexTwo ==
  ASSUME NEW a1, NEW a2, NEW b1, NEW b2
  PROVE  LexBefore(<<a1, a2>>, <<b1, b2>>) <=> a1 < b1 \/ (a1 = b1 /\ a2 < b2)
<1> DEFINE s == <<a1, a2>>
           t == <<b1, b2>>
<1>1. /\ DOMAIN s = {1, 2} /\ s[1] = a1 /\ s[2] = a2 /\ t[1] = b1 /\ t[2] = b2
      /\ 1..(1 - 1) = {} /\ 1..(2 - 1) = {1}
  OBVIOUS
<1> HIDE DEF s, t
<1>2. LexBefore(s, t) <=> a1 < b1 \/ (a1 = b1 /\ a2 < b2)
  BY <1>1 DEF LexBefore
<1> QED BY <1>2 DEF s, t

LEMMA LexThree ==
  ASSUME NEW a1, NEW a2, NEW a3, NEW b1, NEW b2, NEW b3
  PROVE  LexBefore(<<a1, a2, a3>>, <<b1, b2, b3>>)
         <=> a1 < b1 \/ (a1 = b1 /\ a2 < b2) \/ (a1 = b1 /\ a2 = b2 /\ a3 < b3)
<1> DEFINE s == <<a1, a2, a3>>
           t == <<b1, b2, b3>>
<1>1. /\ DOMAIN s = {1, 2, 3} /\ s[1] = a1 /\ s[2] = a2 /\ s[3] = a3
      /\ t[1] = b1 /\ t[2] = b2 /\ t[3] = b3
      /\ 1..(1 - 1) = {} /\ 1..(2 - 1) = {1} /\ 1..(3 - 1) = {1, 2}
  OBVIOUS
<1> HIDE DEF s, t
<1>2. LexBefore(s, t)
      <=> a1 < b1 \/ (a1 = b1 /\ a2 < b2) \/ (a1 = b1 /\ a2 = b2 /\ a3 < b3)
  BY <1>1 DEF LexBefore
<1> QED BY <1>2 DEF s, t

LEMMA LexFour ==
  ASSUME NEW a1, NEW a2, NEW a3, NEW a4, NEW b1, NEW b2, NEW b3, NEW b4
  PROVE  LexBefore(<<a1, a2, a3, a4>>, <<b1, b2, b3, b4>>)
         <=> \/ a1 < b1 \/ (a1 = b1 /\ a2 < b2) \/ (a1 = b1 /\ a2 = b2 /\ a3 < b3)
             \/ (a1 = b1 /\ a2 = b2 /\ a3 = b3 /\ a4 < b4)
<1> DEFINE s == <<a1, a2, a3, a4>>
           t == <<b1, b2, b3, b4>>
<1>1. /\ DOMAIN s = {1, 2, 3, 4} /\ s[1] = a1 /\ s[2] = a2 /\ s[3] = a3 /\ s[4] = a4
      /\ t[1] = b1 /\ t[2] = b2 /\ t[3] = b3 /\ t[4] = b4
      /\ 1..(1 - 1) = {} /\ 1..(2 - 1) = {1} /\ 1..(3 - 1) = {1, 2}
      /\ 1..(4 - 1) = {1, 2, 3}
  OBVIOUS
<1> HIDE DEF s, t
<1>2. LexBefore(s, t)
      <=> \/ a1 < b1 \/ (a1 = b1 /\ a2 < b2) \/ (a1 = b1 /\ a2 = b2 /\ a3 < b3)
          \/ (a1 = b1 /\ a2 = b2 /\ a3 = b3 /\ a4 < b4)
  BY <1>1 DEF LexBefore
<1> QED BY <1>2 DEF s, t

-----------------------------------------------------------------------------
(* Keys.  Of two ranks one is ahead or they are level, and all that is level is in *)
(* one place of the order. *)

KeyOrder(key, x, y, z) ==
  /\ Level(key, x, x)
  /\ Level(key, x, y) => Level(key, y, x) /\ ~Ahead(key, x, y)
  /\ Level(key, x, y) /\ Level(key, y, z) => Level(key, x, z)
  /\ Ahead(key, x, y) => ~Ahead(key, y, x)
  /\ Ahead(key, x, y) \/ Level(key, x, y) \/ Ahead(key, y, x)
  /\ Ahead(key, x, y) /\ (Ahead(key, y, z) \/ Level(key, y, z)) => Ahead(key, x, z)
  /\ Level(key, x, y) /\ Ahead(key, y, z) => Ahead(key, x, z)

\* Comparing quotients by products.
LEMMA Quotients ==
  ASSUME NEW a \in Nat, NEW b \in Nat, NEW p \in Nat, NEW q \in Nat,
         NEW e \in Nat, NEW f \in Nat, b > 0, q > 0, f > 0
  PROVE  /\ a * q > p * b /\ p * f > e * q => a * f > e * b
         /\ a * q = p * b /\ p * f = e * q => a * f = e * b
         /\ a * q > p * b /\ p * f = e * q => a * f > e * b
         /\ a * q = p * b /\ p * f > e * q => a * f > e * b
OBVIOUS

LEMMA WinRateOrder ==
  ASSUME NEW x, NEW y, NEW z, Fit("WIN_RATE", x), Fit("WIN_RATE", y), Fit("WIN_RATE", z)
  PROVE  KeyOrder("WIN_RATE", x, y, z)
<1> DEFINE a == x.wins  b == Played(x)
           p == y.wins  q == Played(y)
           e == z.wins  f == Played(z)
<1>1. /\ a \in Nat /\ b \in Nat /\ p \in Nat /\ q \in Nat /\ e \in Nat /\ f \in Nat
      /\ b > 0 /\ q > 0 /\ f > 0
  BY DEF Fit, IsTeamRank, Played
<1>2. /\ Ahead("WIN_RATE", x, y) <=> a * q > p * b
      /\ Ahead("WIN_RATE", y, x) <=> p * b > a * q
      /\ Ahead("WIN_RATE", y, z) <=> p * f > e * q
      /\ Ahead("WIN_RATE", x, z) <=> a * f > e * b
  BY <1>1 DEF Ahead
<1>3. /\ Level("WIN_RATE", x, y) <=> a * q = p * b
      /\ Level("WIN_RATE", y, x) <=> p * b = a * q
      /\ Level("WIN_RATE", y, z) <=> p * f = e * q
      /\ Level("WIN_RATE", x, z) <=> a * f = e * b
      /\ Level("WIN_RATE", x, x)
  BY <1>1 DEF Level
<1> HIDE DEF a, b, p, q, e, f
<1>4. /\ a * q \in Int /\ p * b \in Int /\ p * f \in Int /\ e * q \in Int
      /\ a * f \in Int /\ e * b \in Int
  BY <1>1
<1>5. /\ a * q > p * b /\ p * f > e * q => a * f > e * b
      /\ a * q = p * b /\ p * f = e * q => a * f = e * b
      /\ a * q > p * b /\ p * f = e * q => a * f > e * b
      /\ a * q = p * b /\ p * f > e * q => a * f > e * b
  BY <1>1, Quotients
<1> DEFINE aq == a * q  pb == p * b  pf == p * f  eq == e * q  af == a * f  eb == e * b
<1>6. aq \in Int /\ pb \in Int
  BY <1>4
<1>7. ~(aq > pb /\ pb > aq) /\ (aq > pb \/ aq = pb \/ pb > aq) /\ ~(aq = pb /\ aq > pb)
  <2> HIDE DEF aq, pb
  <2> QED BY <1>6
<1> QED BY <1>2, <1>3, <1>5, <1>7 DEF KeyOrder

LEMMA OtherKeysOrder ==
  ASSUME NEW key \in SortKeys \ {"WIN_RATE"}, NEW x, NEW y, NEW z,
         IsTeamRank(x), IsTeamRank(y), IsTeamRank(z)
  PROVE  KeyOrder(key, x, y, z)
<1>1. CASE key = "LEAGUE_POINTS"
  <2>1. \A u, v : Ahead(key, u, v)
                  <=> \/ -u.league < -v.league
                      \/ -u.league = -v.league /\ u.tier < v.tier
                      \/ -u.league = -v.league /\ u.tier = v.tier /\ -u.points < -v.points
    BY <1>1, LexThree DEF Ahead
  <2>2. \A u, v : Level(key, u, v) <=> ~Ahead(key, u, v) /\ ~Ahead(key, v, u)
    BY <1>1 DEF Level
  <2> QED BY <2>1, <2>2 DEF KeyOrder, IsTeamRank
<1>2. CASE key # "LEAGUE_POINTS"
  <2>1. \A u, v : Level(key, u, v) <=> ~Ahead(key, u, v) /\ ~Ahead(key, v, u)
    BY <1>2 DEF Level
  <2>2. \A u, v : /\ key = "MMR" => (Ahead(key, u, v) <=> u.mmr > v.mmr)
                  /\ key = "PLAYED" => (Ahead(key, u, v) <=> Played(u) > Played(v))
                  /\ key = "WINS" => (Ahead(key, u, v) <=> u.wins > v.wins)
                  /\ key = "LOSSES" => (Ahead(key, u, v) <=> u.losses > v.losses)
    BY DEF Ahead
  <2>3. \A u \in {x, y, z} : u.mmr \in Int /\ Played(u) \in Int /\ u.wins \in Int /\ u.losses \in Int
    BY DEF IsTeamRank, Played
  <2>4. key \in {"MMR", "PLAYED", "WINS", "LOSSES"}
    BY <1>2 DEF SortKeys
  <2>5. CASE key = "MMR"
    BY <2>1, <2>2, <2>3, <2>5 DEF KeyOrder
  <2>6. CASE key = "PLAYED"
    BY <2>1, <2>2, <2>3, <2>6 DEF KeyOrder
  <2>7. CASE key = "WINS"
    BY <2>1, <2>2, <2>3, <2>7 DEF KeyOrder
  <2>8. CASE key = "LOSSES"
    BY <2>1, <2>2, <2>3, <2>8 DEF KeyOrder
  <2> QED BY <2>4, <2>5, <2>6, <2>7, <2>8
<1> QED BY <1>1, <1>2

LEMMA KeysOrder ==
  ASSUME NEW key \in SortKeys, NEW x, NEW y, NEW z, Fit(key, x), Fit(key, y), Fit(key, z)
  PROVE  KeyOrder(key, x, y, z)
BY WinRateOrder, OtherKeysOrder DEF Fit

-----------------------------------------------------------------------------
(* Ties.  What breaks them is a list of numbers that comes before, after or is equal to *)
(* another. *)

TieBefore(key, x, y) == LexBefore(TieBreakers(key, x), TieBreakers(key, y))
TieEqual(key, x, y) == TieBreakers(key, x) = TieBreakers(key, y)

TieOrder(key, x, y, z) ==
  /\ TieEqual(key, x, y) => ~TieBefore(key, x, y)
  /\ TieBefore(key, x, y) => ~TieBefore(key, y, x)
  /\ TieBefore(key, x, y) \/ TieEqual(key, x, y) \/ TieBefore(key, y, x)
  /\ TieBefore(key, x, y) /\ TieBefore(key, y, z) => TieBefore(key, x, z)

LEMMA TiesOrder ==
  ASSUME NEW key \in SortKeys, NEW x, NEW y, NEW z,
         IsTeamRank(x), IsTeamRank(y), IsTeamRank(z)
  PROVE  TieOrder(key, x, y, z)
<1>1. CASE key \in {"MMR", "LEAGUE_POINTS"}
  <2>1. \A u, v : TieBefore(key, u, v)
                  <=> \/ -u.wins < -v.wins
                      \/ -u.wins = -v.wins /\ u.losses < v.losses
                      \/ -u.wins = -v.wins /\ u.losses = v.losses /\ u.team_id < v.team_id
    BY <1>1, LexThree DEF TieBefore, TieBreakers
  <2>2. \A u, v : TieEqual(key, u, v)
                  <=> -u.wins = -v.wins /\ u.losses = v.losses /\ u.team_id = v.team_id
    BY <1>1 DEF TieEqual, TieBreakers
  <2> QED BY <2>1, <2>2 DEF TieOrder, IsTeamRank
<1>2. CASE key = "PLAYED"
  <2>1. \A u, v : TieBefore(key, u, v)
                  <=> \/ -u.mmr < -v.mmr
                      \/ -u.mmr = -v.mmr /\ -u.wins < -v.wins
                      \/ -u.mmr = -v.mmr /\ -u.wins = -v.wins /\ u.team_id < v.team_id
    BY <1>2, LexThree DEF TieBefore, TieBreakers
  <2>2. \A u, v : TieEqual(key, u, v)
                  <=> -u.mmr = -v.mmr /\ -u.wins = -v.wins /\ u.team_id = v.team_id
    BY <1>2 DEF TieEqual, TieBreakers
  <2> QED BY <2>1, <2>2 DEF TieOrder, IsTeamRank
<1>3. CASE key = "WINS"
  <2>1. \A u, v : TieBefore(key, u, v)
                  <=> \/ -u.mmr < -v.mmr
                      \/ -u.mmr = -v.mmr /\ u.losses < v.losses
                      \/ -u.mmr = -v.mmr /\ u.losses = v.losses /\ u.team_id < v.team_id
    BY <1>3, LexThree DEF TieBefore, TieBreakers
  <2>2. \A u, v : TieEqual(key, u, v)
                  <=> -u.mmr = -v.mmr /\ u.losses = v.losses /\ u.team_id = v.team_id
    BY <1>3 DEF TieEqual, TieBreakers
  <2> QED BY <2>1, <2>2 DEF TieOrder, IsTeamRank
<1>4. CASE key = "LOSSES"
  <2>1. \A u, v : TieBefore(key, u, v)
                  <=> u.wins < v.wins \/ (u.wins = v.wins /\ u.team_id < v.team_id)
    BY <1>4, LexTwo DEF TieBefore, TieBreakers
  <2>2. \A u, v : TieEqual(key, u, v) <=> u.wins = v.wins /\ u.team_id = v.team_id
    BY <1>4 DEF TieEqual, TieBreakers
  <2> QED BY <2>1, <2>2 DEF TieOrder, IsTeamRank
<1>5. CASE key = "WIN_RATE"
  <2>1. \A u, v : TieBefore(key, u, v)
                  <=> \/ -u.wins < -v.wins
                      \/ -u.wins = -v.wins /\ u.losses < v.losses
                      \/ -u.wins = -v.wins /\ u.losses = v.losses /\ -u.mmr < -v.mmr
                      \/ /\ -u.wins = -v.wins /\ u.losses = v.losses /\ -u.mmr = -v.mmr
                         /\ u.team_id < v.team_id
    BY <1>5, LexFour DEF TieBefore, TieBreakers
  <2>2. \A u, v : TieEqual(key, u, v)
                  <=> /\ -u.wins = -v.wins /\ u.losses = v.losses /\ -u.mmr = -v.mmr
                      /\ u.team_id = v.team_id
    BY <1>5 DEF TieEqual, TieBreakers
  <2> QED BY <2>1, <2>2 DEF TieOrder, IsTeamRank
<1> QED BY <1>1, <1>2, <1>3, <1>4, <1>5 DEF SortKeys

-----------------------------------------------------------------------------
(* Comparators. *)

\* All but the one that reverses mmr for display.
Orders(c) == c.strict \/ c.key # "MMR" \/ ~c.reverse

\* By the key, and what breaks ties of it where the comparator is not strict.
First(c, x, y) ==
  Ahead(c.key, x, y) \/ (~c.strict /\ Level(c.key, x, y) /\ TieBefore(c.key, x, y))

LEMMA AheadIsBoolean ==
  ASSUME NEW key \in SortKeys, NEW x, NEW y
  PROVE  Ahead(key, x, y) \in BOOLEAN
<1>1. CASE key = "MMR"
  BY <1>1 DEF Ahead
<1>2. CASE key = "LEAGUE_POINTS"
  BY <1>2 DEF Ahead, LexBefore
<1>3. CASE key = "PLAYED"
  BY <1>3 DEF Ahead
<1>4. CASE key = "WINS"
  BY <1>4 DEF Ahead
<1>5. CASE key = "LOSSES"
  BY <1>5 DEF Ahead
<1>6. CASE key = "WIN_RATE"
  BY <1>6 DEF Ahead
<1> QED BY <1>1, <1>2, <1>3, <1>4, <1>5, <1>6 DEF SortKeys

LEMMA ByKeyIsFirst ==
  ASSUME NEW c \in Comparators, Orders(c), NEW x, NEW y,
         KeyOrder(c.key, x, y, x), KeyOrder(c.key, y, x, y),
         TieOrder(c.key, x, y, x), TieOrder(c.key, y, x, y)
  PROVE  ByKey(c, x, y) <=> IF c.reverse THEN First(c, y, x) ELSE First(c, x, y)
<1>1. /\ Level(c.key, x, y) <=> Level(c.key, y, x)
      /\ Ahead(c.key, x, y) => ~Ahead(c.key, y, x) /\ ~Level(c.key, x, y)
      /\ Ahead(c.key, y, x) => ~Level(c.key, x, y)
      /\ Ahead(c.key, x, y) \/ Level(c.key, x, y) \/ Ahead(c.key, y, x)
  BY DEF KeyOrder
<1>2. /\ TieEqual(c.key, x, y) <=> TieEqual(c.key, y, x)
      /\ TieEqual(c.key, x, y) => ~TieBefore(c.key, x, y) /\ ~TieBefore(c.key, y, x)
      /\ TieBefore(c.key, x, y) => ~TieBefore(c.key, y, x)
      /\ TieBefore(c.key, x, y) \/ TieEqual(c.key, x, y) \/ TieBefore(c.key, y, x)
  BY DEF TieOrder, TieEqual
<1>3. /\ c.reverse \in BOOLEAN /\ c.strict \in BOOLEAN
  BY DEF Comparators
<1>4. CASE Level(c.key, x, y)
  <2>1. ByKey(c, x, y) <=> /\ ~c.strict
                           /\ c.key = "MMR" \/ ~TieEqual(c.key, x, y)
                           /\ (c.reverse # TieBefore(c.key, x, y))
    BY <1>4 DEF ByKey, LeftAlone, TieEqual, TieBefore
  <2>2. CASE c.reverse
    <3>1. ByKey(c, x, y) <=> /\ ~c.strict
                             /\ ~TieEqual(c.key, x, y)
                             /\ ~TieBefore(c.key, x, y)
      BY <1>3, <2>1, <2>2 DEF Orders, TieBefore, LexBefore
    <3> QED BY <1>1, <1>2, <1>4, <2>2, <3>1 DEF First
  <2>3. CASE ~c.reverse
    <3>1. ByKey(c, x, y) <=> ~c.strict /\ TieBefore(c.key, x, y)
      BY <1>2, <1>3, <2>1, <2>3 DEF TieBefore, LexBefore
    <3> QED BY <1>1, <1>4, <2>3, <3>1 DEF First
  <2> QED BY <2>2, <2>3
<1>5. CASE ~Level(c.key, x, y)
  <2>1. ByKey(c, x, y) <=> (c.reverse # Ahead(c.key, x, y))
    BY <1>5 DEF ByKey
  <2>2. CASE c.reverse
    <3>1. ByKey(c, x, y) <=> ~Ahead(c.key, x, y)
      BY <1>3, <2>1, <2>2
    <3> QED BY <1>1, <1>5, <2>2, <3>1 DEF First
  <2>3. CASE ~c.reverse
    <3>1. Ahead(c.key, x, y) \in BOOLEAN
      BY AheadIsBoolean DEF Comparators
    <3>2. ByKey(c, x, y) <=> Ahead(c.key, x, y)
      BY <1>3, <2>1, <2>3, <3>1
    <3> QED BY <1>1, <1>5, <2>3, <3>2 DEF First
  <2> QED BY <2>2, <2>3
<1> QED BY <1>4, <1>5

\* Where ByKey decides, being neither before the other is being in one place.
LEMMA FirstOrder ==
  ASSUME NEW c, NEW x, NEW y, NEW z,
         \A u, v, w \in {x, y, z} : KeyOrder(c.key, u, v, w) /\ TieOrder(c.key, u, v, w)
  PROVE  /\ ~First(c, x, x)
         /\ First(c, x, y) /\ First(c, y, z) => First(c, x, z)
         /\ ~First(c, x, y) /\ ~First(c, y, x) /\ ~First(c, y, z) /\ ~First(c, z, y)
              => ~First(c, x, z) /\ ~First(c, z, x)
<1> DEFINE A(u, v) == Ahead(c.key, u, v)
           L(u, v) == Level(c.key, u, v)
           T(u, v) == TieBefore(c.key, u, v)
           E(u, v) == TieEqual(c.key, u, v)
<1>1. \A u, v, w \in {x, y, z} :
        /\ L(u, u) /\ (L(u, v) => L(v, u) /\ ~A(u, v)) /\ (L(u, v) /\ L(v, w) => L(u, w))
        /\ (A(u, v) => ~A(v, u)) /\ (A(u, v) \/ L(u, v) \/ A(v, u))
        /\ (A(u, v) /\ (A(v, w) \/ L(v, w)) => A(u, w))
        /\ (L(u, v) /\ A(v, w) => A(u, w))
  BY DEF KeyOrder
<1>2. \A u, v, w \in {x, y, z} :
        /\ (E(u, v) => ~T(u, v)) /\ (T(u, v) => ~T(v, u)) /\ (T(u, v) \/ E(u, v) \/ T(v, u))
        /\ (T(u, v) /\ T(v, w) => T(u, w))
  BY DEF TieOrder
<1>3. \A u, v, w : E(u, u) /\ (E(u, v) => E(v, u)) /\ (E(u, v) /\ E(v, w) => E(u, w))
  BY DEF TieEqual
<1>4. \A u, v : First(c, u, v) <=> A(u, v) \/ (~c.strict /\ L(u, v) /\ T(u, v))
  BY DEF First
<1> HIDE DEF A, L, T, E
<1>5. ~First(c, x, x)
  BY <1>1, <1>2, <1>4
<1>6. First(c, x, y) /\ First(c, y, z) => First(c, x, z)
  BY <1>1, <1>2, <1>4
<1>7. \A u, v \in {x, y, z} : ~First(c, u, v) /\ ~First(c, v, u) <=> L(u, v) /\ (c.strict \/ E(u, v))
  BY <1>1, <1>2, <1>3, <1>4
<1>8. L(x, y) /\ (c.strict \/ E(x, y)) /\ L(y, z) /\ (c.strict \/ E(y, z))
        => L(x, z) /\ (c.strict \/ E(x, z))
  BY <1>1, <1>3
<1>9. ~First(c, x, y) /\ ~First(c, y, x) /\ ~First(c, y, z) /\ ~First(c, z, y)
        => ~First(c, x, z) /\ ~First(c, z, x)
  BY <1>7, <1>8
<1> QED BY <1>5, <1>6, <1>9

\* The orders by the fields a comparator is set to, then by its key.
LEMMA BeforeOrder ==
  ASSUME NEW c \in Comparators, Orders(c), NEW x, NEW y, NEW z,
         Fit(c.key, x), Fit(c.key, y), Fit(c.key, z)
  PROVE  WeakOrder(c, x, y, z)
<1>1. c.key \in SortKeys
  BY DEF Comparators
<1>2. \A u, v, w \in {x, y, z} : KeyOrder(c.key, u, v, w) /\ TieOrder(c.key, u, v, w)
  BY <1>1, KeysOrder, TiesOrder DEF Fit
<1>3. \A u, v \in {x, y, z} :
        ByKey(c, u, v) <=> IF c.reverse THEN First(c, v, u) ELSE First(c, u, v)
  BY <1>2, ByKeyIsFirst
<1>4. /\ ~ByKey(c, x, x)
      /\ ByKey(c, x, y) /\ ByKey(c, y, z) => ByKey(c, x, z)
      /\ ~ByKey(c, x, y) /\ ~ByKey(c, y, x) /\ ~ByKey(c, y, z) /\ ~ByKey(c, z, y)
           => ~ByKey(c, x, z) /\ ~ByKey(c, z, x)
  <2>1. /\ ~First(c, x, x)
        /\ First(c, x, y) /\ First(c, y, z) => First(c, x, z)
        /\ First(c, z, y) /\ First(c, y, x) => First(c, z, x)
        /\ ~First(c, x, y) /\ ~First(c, y, x) /\ ~First(c, y, z) /\ ~First(c, z, y)
             => ~First(c, x, z) /\ ~First(c, z, x)
    <3>1. \A u, v, w \in {z, y, x} : KeyOrder(c.key, u, v, w) /\ TieOrder(c.key, u, v, w)
      BY <1>2
    <3> QED BY <1>2, <3>1, FirstOrder
  <2> QED BY <1>3, <2>1
<1>5. \A u \in {x, y, z} : u.region \in Int /\ u.league \in Int /\ u.race0 \in Int
  BY DEF Fit, IsTeamRank
<1>6. \A u, v \in {x, y, z} :
        Before(c, u, v) <=>
          \/ c.region # NOT_SET /\ u.region < v.region
          \/ /\ c.region # NOT_SET => u.region = v.region
             /\ \/ c.league # NOT_SET /\ u.league > v.league
                \/ /\ c.league # NOT_SET => u.league = v.league
                   /\ \/ c.race # NOT_SET /\ u.race0 < v.race0
                      \/ /\ c.race # NOT_SET => u.race0 = v.race0
                         /\ ByKey(c, u, v)
  BY <1>5 DEF Before
<1> QED BY <1>4, <1>5, <1>6 DEF WeakOrder, Tied

\* compare.hpp: every comparator that ranks, and all but one of those that sort for
\* display, are what std::sort and std::stable_sort require, for all team ranks.  With
\* WIN_RATE all of them must have played.
THEOREM ComparatorsAreWeakOrders ==
  \A c \in Comparators : c.strict \/ c.key # "MMR" \/ ~c.reverse =>
    \A x, y, z \in [region : Int, league : Int, tier : Int, points : Int, race0 : Int,
                   mmr : Int, wins : Nat, losses : Nat, team_id : Int] :
      (c.key = "WIN_RATE" => Played(x) > 0 /\ Played(y) > 0 /\ Played(z) > 0)
        => WeakOrder(c, x, y, z)
BY BeforeOrder DEF Orders, Fit, IsTeamRank

\* compare.hpp, MMR: sorted for display in reverse, every rank comes before itself.
THEOREM ReversedMmrIsNoOrder ==
  \A c \in Comparators : ~c.strict /\ c.key = "MMR" /\ c.reverse =>
    \A x : IsTeamRank(x) => Before(c, x, x)
<1> SUFFICES ASSUME NEW c \in Comparators, ~c.strict, c.key = "MMR", c.reverse,
                    NEW x, IsTeamRank(x)
             PROVE  Before(c, x, x)
  OBVIOUS
<1>1. KeyOrder(c.key, x, x, x) /\ TieOrder(c.key, x, x, x)
  BY KeysOrder, TiesOrder DEF Fit, Comparators
<1>2. Level(c.key, x, x) /\ ~TieBefore(c.key, x, x)
  BY <1>1 DEF KeyOrder, TieOrder, TieEqual
<1>3. ByKey(c, x, x)
  BY <1>2 DEF ByKey, LeftAlone, TieBefore, LexBefore, Comparators
<1>4. ~(x.region # x.region) /\ ~(x.league # x.league) /\ ~(x.race0 # x.race0)
  OBVIOUS
<1> QED BY <1>3, <1>4 DEF Before

\* save_data and the pages give ranks in one walk through a sorted list, in which they
\* look only at what comes before: that is one more than the number of the
\* better ones, and the same for those that are level, in lists of any length.
THEOREM SharedRankCountsTheBetter ==
  ASSUME NEW c \in Comparators, c.strict, NEW s, NEW n \in Nat, DOMAIN s = 1..n,
         \A i \in 1..n : Fit(c.key, s[i]),
         \A i, j \in 1..n : i < j => ~Before(c, s[j], s[i]),
         NEW used \in SUBSET (1..n), NEW i \in 1..n
  PROVE  /\ SharedRank(s, used, c, i)
              = 1 + Cardinality({j \in used : Before(c, s[j], s[i])})
         /\ \A k \in 1..n : Tied(c, s[i], s[k])
              => SharedRank(s, used, c, k) = SharedRank(s, used, c, i)
<1>1. Orders(c)
  BY DEF Orders
<1>2. \A j, k, m \in 1..n : WeakOrder(c, s[j], s[k], s[m])
  BY <1>1, BeforeOrder
<1>3. ASSUME NEW k \in 1..n
      PROVE  {j \in used : j < k /\ (Before(c, s[j], s[k]) \/ Before(c, s[k], s[j]))}
               = {j \in used : Before(c, s[j], s[k])}
  <2>1. ASSUME NEW j \in used
        PROVE  j < k /\ (Before(c, s[j], s[k]) \/ Before(c, s[k], s[j]))
                 <=> Before(c, s[j], s[k])
    <3>1. j \in 1..n /\ (j < k \/ j = k \/ k < j)
      OBVIOUS
    <3>2. ~Before(c, s[k], s[k])
      BY <1>2 DEF WeakOrder
    <3> QED BY <3>1, <3>2
  <2> QED BY <2>1
<1>4. \A k \in 1..n : SharedRank(s, used, c, k)
                        = 1 + Cardinality({j \in used : Before(c, s[j], s[k])})
  BY <1>3 DEF SharedRank
<1>5. ASSUME NEW k \in 1..n, Tied(c, s[i], s[k])
      PROVE  {j \in used : Before(c, s[j], s[k])} = {j \in used : Before(c, s[j], s[i])}
  <2>1. ASSUME NEW j \in used PROVE Before(c, s[j], s[k]) <=> Before(c, s[j], s[i])
    <3>1. /\ WeakOrder(c, s[j], s[k], s[i]) /\ WeakOrder(c, s[j], s[i], s[k])
          /\ WeakOrder(c, s[k], s[j], s[i]) /\ WeakOrder(c, s[i], s[j], s[k])
          /\ WeakOrder(c, s[k], s[i], s[j]) /\ WeakOrder(c, s[i], s[k], s[j])
      BY <1>2
    <3> QED BY <1>5, <3>1 DEF WeakOrder, Tied
  <2> QED BY <2>1
<1> QED BY <1>4, <1>5

-----------------------------------------------------------------------------
(* Sorting.  An element of a finite set that is ordered strictly and totally has as *)
(* place one more than the number of those before it.                                *)

TotalOrder(S, T) ==
  \A i, j, k \in S : /\ <<i, i>> \notin T
                     /\ <<i, j>> \in T /\ <<j, k>> \in T => <<i, k>> \in T
                     /\ i = j \/ <<i, j>> \in T \/ <<j, i>> \in T

PlaceIn(S, T) == [i \in S |-> 1 + Cardinality({j \in S : <<j, i>> \in T})]

IsPlacing(place, n, S, T) ==
  /\ place \in [S -> 1..n]
  /\ \A i, j \in S : place[i] < place[j] <=> <<i, j>> \in T
  /\ \A i, j \in S : place[i] = place[j] => i = j
  /\ \A p \in 1..n : \E i \in S : place[i] = p

LEMMA Places ==
  ASSUME NEW S, IsFiniteSet(S), NEW T, TotalOrder(S, T)
  PROVE  IsPlacing(PlaceIn(S, T), Cardinality(S), S, T)
<1> DEFINE Below(i) == {j \in S : <<j, i>> \in T}
           n == Cardinality(S)
           place == PlaceIn(S, T)
<1>1. n \in Nat
  BY FS_CardinalityType
<1>2. /\ DOMAIN place = S /\ place = [i \in S |-> place[i]]
      /\ \A i \in S : place[i] = 1 + Cardinality(Below(i))
  BY DEF PlaceIn
<1>3. ASSUME NEW i \in S
      PROVE  /\ IsFiniteSet(Below(i)) /\ Cardinality(Below(i)) \in Nat
             /\ Cardinality(Below(i)) < n
  <2>1. Below(i) \in SUBSET S /\ i \notin Below(i)
    BY DEF TotalOrder
  <2>2. /\ IsFiniteSet(Below(i)) /\ Cardinality(Below(i)) <= n
        /\ n = Cardinality(Below(i)) => S = Below(i)
    BY <2>1, FS_Subset
  <2>3. Cardinality(Below(i)) \in Nat
    BY <2>2, FS_CardinalityType
  <2> QED BY <1>1, <2>1, <2>2, <2>3
<1>4. ASSUME NEW i \in S, NEW j \in S, <<i, j>> \in T
      PROVE  place[i] < place[j]
  <2>1. Below(i) \in SUBSET Below(j) /\ i \in Below(j) /\ i \notin Below(i)
    BY <1>4 DEF TotalOrder
  <2>2. /\ Cardinality(Below(i)) <= Cardinality(Below(j))
        /\ Cardinality(Below(j)) = Cardinality(Below(i)) => Below(j) = Below(i)
    BY <1>3, <2>1, FS_Subset
  <2> HIDE DEF Below
  <2> QED BY <1>2, <1>3, <2>1, <2>2
<1> HIDE DEF Below, n, place
<1>5. place \in [S -> 1..n]
  <2>1. \A i \in S : place[i] \in 1..n
    BY <1>1, <1>2, <1>3
  <2> QED BY <1>2, <2>1
<1>6. ASSUME NEW i \in S, NEW j \in S
      PROVE  place[i] < place[j] <=> <<i, j>> \in T
  <2>1. place[i] \in Int /\ place[j] \in Int
    BY <1>1, <1>5
  <2>2. i = j \/ <<i, j>> \in T \/ <<j, i>> \in T
    BY DEF TotalOrder
  <2>3. i = j => <<i, j>> \notin T
    BY DEF TotalOrder
  <2> QED BY <1>4, <2>1, <2>2, <2>3
<1>7. \A i, j \in S : place[i] = place[j] => i = j
  BY <1>1, <1>5, <1>6 DEF TotalOrder
<1>8. \A p \in 1..n : \E i \in S : place[i] = p
  <2>1. place \in Injection(S, 1..n)
    BY <1>5, <1>7 DEF Injection, IsInjective
  <2>2. IsFiniteSet(1..n) /\ Cardinality(1..n) = n
    BY <1>1, FS_Interval
  <2>3. place \in Surjection(S, 1..n)
    BY <2>1, <2>2, FS_Injection DEF n
  <2> QED BY <2>3 DEF Surjection
<1> QED BY <1>5, <1>6, <1>7, <1>8 DEF n, place, IsPlacing

\* What a comparison has to be on the places of a sequence for it to be sorted.
StrictWeak(n, before) ==
  \A i, j, k \in 1..n : /\ <<i, i>> \notin before
                        /\ <<i, j>> \in before /\ <<j, k>> \in before => <<i, k>> \in before
                        /\ <<i, k>> \in before => <<i, j>> \in before \/ <<j, k>> \in before

Permutation(n, perm) ==
  /\ perm \in [1..n -> 1..n]
  /\ \A p, q \in 1..n : perm[p] = perm[q] => p = q
  /\ \A i \in 1..n : \E p \in 1..n : perm[p] = i

\* Nothing is lost or doubled, and what comes later is not before what comes earlier.
LEMMA SortingSorts ==
  ASSUME NEW s, NEW n \in Nat, DOMAIN s = 1..n, NEW before, StrictWeak(n, before)
  PROVE  \E perm : /\ Permutation(n, perm)
                   /\ Sorting(s, before) = [p \in 1..n |-> s[perm[p]]]
                   /\ \A p, q \in 1..n : p < q => <<perm[q], perm[p]>> \notin before
<1> DEFINE S == DOMAIN s
           T == {x \in S \X S : x \in before \/ (x[1] < x[2] /\ <<x[2], x[1]>> \notin before)}
           place == [i \in S |-> 1 + Cardinality({j \in S : <<j, i>> \in T})]
           perm == [p \in S |-> CHOOSE i \in S : place[i] = p]
<1>1. S = 1..n /\ IsFiniteSet(S) /\ Cardinality(S) = n
  BY FS_Interval
<1>2. \A i, j \in S : <<i, j>> \in T <=> <<i, j>> \in before \/ (i < j /\ <<j, i>> \notin before)
  OBVIOUS
<1>3. TotalOrder(S, T)
  <2> HIDE DEF T, S
  <2> SUFFICES ASSUME NEW i \in S, NEW j \in S, NEW k \in S
               PROVE  /\ <<i, i>> \notin T
                      /\ <<i, j>> \in T /\ <<j, k>> \in T => <<i, k>> \in T
                      /\ i = j \/ <<i, j>> \in T \/ <<j, i>> \in T
    BY DEF TotalOrder
  <2>1. \A a, b, d \in S :
          /\ <<a, a>> \notin before
          /\ <<a, b>> \in before /\ <<b, d>> \in before => <<a, d>> \in before
          /\ <<a, d>> \in before => <<a, b>> \in before \/ <<b, d>> \in before
    BY <1>1 DEF StrictWeak
  <2>2. i \in Int /\ j \in Int /\ k \in Int
    BY <1>1
  <2>3. <<i, i>> \notin T
    BY <1>2, <2>1, <2>2
  <2>4. ASSUME <<i, j>> \in T, <<j, k>> \in T
        PROVE  <<i, k>> \in T
    <3>1. /\ <<i, j>> \in before \/ (i < j /\ <<j, i>> \notin before)
          /\ <<j, k>> \in before \/ (j < k /\ <<k, j>> \notin before)
      BY <1>2, <2>4
    <3>2. \/ <<i, k>> \in before
          \/ i < j /\ j < k /\ <<j, i>> \notin before /\ <<k, j>> \notin before
      BY <2>1, <3>1
    <3>3. <<k, i>> \in before => <<k, j>> \in before \/ <<j, i>> \in before
      BY <2>1
    <3>4. <<i, k>> \in before \/ (i < k /\ <<k, i>> \notin before)
      BY <2>2, <3>2, <3>3
    <3> QED BY <1>2, <3>4
  <2>5. i = j \/ <<i, j>> \in T \/ <<j, i>> \in T
    <3>1. i = j \/ i < j \/ j < i
      BY <2>2
    <3> QED BY <1>2, <3>1
  <2> QED BY <2>3, <2>4, <2>5
<1>4. /\ place \in [S -> S]
      /\ \A i, j \in S : place[i] < place[j] <=> <<i, j>> \in T
      /\ \A i, j \in S : place[i] = place[j] => i = j
      /\ \A p \in S : \E i \in S : place[i] = p
  <2>1. place = PlaceIn(S, T)
    BY DEF PlaceIn
  <2> HIDE DEF T, place, S
  <2>2. 1..Cardinality(S) = S
    BY <1>1
  <2>3. IsPlacing(place, Cardinality(S), S, T)
    BY <1>1, <1>3, <2>1, Places
  <2> QED BY <2>2, <2>3 DEF IsPlacing
<1>5. Sorting(s, before) = [p \in S |-> s[perm[p]]]
  <2>1. place = [i \in S |->
                   1 + Cardinality({j \in S : \/ <<j, i>> \in before
                                              \/ j < i /\ <<i, j>> \notin before})]
    <3>1. ASSUME NEW i \in S
          PROVE  {j \in S : <<j, i>> \in T}
                   = {j \in S : <<j, i>> \in before \/ (j < i /\ <<i, j>> \notin before)}
      <4> HIDE DEF T
      <4> QED BY <1>2
    <3> HIDE DEF T
    <3> QED BY <3>1
  <2>2. Sorting(s, before) = [p \in S |-> s[CHOOSE i \in S : place[i] = p]]
    <3> HIDE DEF place
    <3> QED BY <2>1 DEF Sorting
  <2>3. \A p \in S : perm[p] = CHOOSE i \in S : place[i] = p
    <3> HIDE DEF place, S
    <3> QED OBVIOUS
  <2> HIDE DEF place, perm, S
  <2> QED BY <2>2, <2>3
<1>6. perm = [p \in S |-> perm[p]] /\ \A p \in S : perm[p] \in S /\ place[perm[p]] = p
  <2> HIDE DEF place, S
  <2> QED BY <1>4
<1> HIDE DEF place, perm, T, S
<1>7. Permutation(n, perm)
  <2>1. perm \in [S -> S]
    BY <1>6
  <2>2. \A p, q \in S : perm[p] = perm[q] => p = q
    BY <1>6
  <2>3. \A i \in S : perm[place[i]] = i /\ place[i] \in S
    BY <1>4, <1>6
  <2> QED BY <1>1, <2>1, <2>2, <2>3 DEF Permutation
<1>8. ASSUME NEW p \in S, NEW q \in S, p < q
      PROVE  <<perm[q], perm[p]>> \notin before
  <2>1. p \in Int /\ q \in Int
    BY <1>1
  <2>2. <<perm[q], perm[p]>> \notin T
    BY <1>4, <1>6, <1>8, <2>1
  <2> QED BY <1>2, <1>6, <2>2
<1> QED BY <1>1, <1>5, <1>7, <1>8

\* As many elements are of some kind before and after.
LEMMA SameCount ==
  ASSUME NEW n \in Nat, NEW perm, Permutation(n, perm), NEW A \in SUBSET (1..n),
         NEW B \in SUBSET (1..n), \A p \in 1..n : p \in A <=> perm[p] \in B
  PROVE  Cardinality(A) = Cardinality(B)
<1> DEFINE f == [p \in A |-> perm[p]]
<1>1. f \in [A -> B] /\ (\A p, q \in A : f[p] = f[q] => p = q) /\ (\A i \in B : \E p \in A : f[p] = i)
  BY DEF Permutation
<1>2. f \in Bijection(A, B)
  <2> HIDE DEF f
  <2> QED BY <1>1 DEF Bijection, Injection, Surjection, IsInjective
<1>3. ExistsBijection(A, B)
  BY <1>2 DEF ExistsBijection
<1>4. IsFiniteSet(1..n)
  BY FS_Interval
<1>5. IsFiniteSet(A)
  BY <1>4, FS_Subset
<1> QED BY <1>3, <1>5, FS_Bijection

\* A selection has the elements at the selected places and no others, in their order.
Selects(f, s, at, n) ==
  /\ f \in [1..n -> at]
  /\ \A p, q \in 1..n : p < q <=> f[p] < f[q]
  /\ \A i \in at : \E p \in 1..n : f[p] = i
  /\ Selection(s, at) = [p \in 1..n |-> s[f[p]]]

LEMMA SelectionSelects ==
  ASSUME NEW s, NEW at \in SUBSET Int, IsFiniteSet(at), NEW n, n = Cardinality(at)
  PROVE  n \in Nat /\ \E f : Selects(f, s, at, n)
<1> DEFINE T == {x \in at \X at : x[1] < x[2]}
           place == [i \in at |-> 1 + Cardinality({j \in at : <<j, i>> \in T})]
           f == [p \in 1..n |-> CHOOSE i \in at : place[i] = p]
<1>1. n \in Nat
  BY FS_CardinalityType
<1>2. \A i, j \in at : <<i, j>> \in T <=> i < j
  OBVIOUS
<1>3. TotalOrder(at, T)
  <2> HIDE DEF T
  <2> SUFFICES ASSUME NEW i \in at, NEW j \in at, NEW k \in at
               PROVE  /\ <<i, i>> \notin T
                      /\ <<i, j>> \in T /\ <<j, k>> \in T => <<i, k>> \in T
                      /\ i = j \/ <<i, j>> \in T \/ <<j, i>> \in T
    BY DEF TotalOrder
  <2>1. i \in Int /\ j \in Int /\ k \in Int
    OBVIOUS
  <2>2. /\ <<i, i>> \in T <=> i < i
        /\ <<i, j>> \in T <=> i < j
        /\ <<j, i>> \in T <=> j < i
        /\ <<j, k>> \in T <=> j < k
        /\ <<i, k>> \in T <=> i < k
    BY <1>2
  <2> QED BY <2>1, <2>2
<1>4. /\ place \in [at -> 1..n]
      /\ \A i, j \in at : place[i] < place[j] <=> i < j
      /\ \A i, j \in at : place[i] = place[j] => i = j
      /\ \A p \in 1..n : \E i \in at : place[i] = p
  <2>1. place = PlaceIn(at, T)
    BY DEF PlaceIn
  <2> HIDE DEF T, place
  <2>2. IsPlacing(place, n, at, T)
    BY <1>3, <2>1, Places
  <2> QED BY <1>2, <2>2 DEF IsPlacing
<1>5. ASSUME NEW i \in at
      PROVE  place[i] = Cardinality({j \in at : j <= i})
  <2> DEFINE below == {j \in at : <<j, i>> \in T}
  <2>1. /\ {j \in at : j <= i} = below \cup {i}
        /\ i \notin below /\ below \in SUBSET at
    <3>1. ASSUME NEW j \in at PROVE j <= i <=> j \in below \/ j = i
      <4> HIDE DEF T
      <4>1. j \in Int /\ i \in Int
        OBVIOUS
      <4> QED BY <1>2, <4>1
    <3>2. i \in Int
      OBVIOUS
    <3>3. i \notin below
      <4> HIDE DEF T
      <4> QED BY <1>2, <3>2
    <3>4. below \in SUBSET at
      OBVIOUS
    <3> HIDE DEF below
    <3> QED BY <3>1, <3>3, <3>4
  <2>2. IsFiniteSet(below)
    <3> HIDE DEF below
    <3> QED BY <2>1, FS_Subset
  <2>3. Cardinality(below \cup {i}) = Cardinality(below) + 1 /\ Cardinality(below) \in Nat
    <3> HIDE DEF below
    <3> QED BY <2>1, <2>2, FS_AddElement, FS_CardinalityType
  <2>4. place[i] = 1 + Cardinality(below)
    <3> HIDE DEF T
    <3> QED OBVIOUS
  <2> HIDE DEF below, place
  <2> QED BY <2>1, <2>3, <2>4
<1>6. f = [p \in 1..n |-> f[p]] /\ \A p \in 1..n : f[p] \in at /\ place[f[p]] = p
  <2> HIDE DEF place
  <2> QED BY <1>4
<1>7. Selection(s, at) = [p \in 1..n |-> s[f[p]]]
  <2> DEFINE g(p) == CHOOSE i \in at : Cardinality({j \in at : j <= i}) = p
  <2>1. ASSUME NEW p \in 1..n
        PROVE  f[p] = g(p)
    <3>1. f[p] = CHOOSE i \in at : place[i] = p
      <4> HIDE DEF place
      <4> QED OBVIOUS
    <3>2. \A i \in at : place[i] = p <=> Cardinality({j \in at : j <= i}) = p
      BY <1>5
    <3> HIDE DEF place, f
    <3> QED BY <3>1, <3>2
  <2>2. Selection(s, at) = [p \in 1..n |-> s[g(p)]]
    BY DEF Selection
  <2> HIDE DEF f, g
  <2> QED BY <2>1, <2>2
<1> HIDE DEF f, place, T
<1>8. f \in [1..n -> at]
  BY <1>6
<1>9. \A p, q \in 1..n : p < q <=> f[p] < f[q]
  BY <1>4, <1>6
<1>10. \A i \in at : \E p \in 1..n : f[p] = i
  BY <1>4, <1>6
<1> QED BY <1>1, <1>7, <1>8, <1>9, <1>10 DEF Selects

\* There is a first place of any kind.
LEMMA Smallest ==
  ASSUME NEW S \in SUBSET Nat, NEW x \in S
  PROVE  \E m \in S : \A k \in S : m <= k
<1> DEFINE Less == OpToRel(<, Nat)
<1>1. \E m \in S : \A k \in S : <<k, m>> \notin Less
  <2>1. IsWellFoundedOn(Less, Nat)
    BY NatLessThanWellFounded
  <2> HIDE DEF Less
  <2> QED BY <2>1, WFMin
<1>2. PICK m \in S : \A k \in S : <<k, m>> \notin Less
  BY <1>1
<1>3. ASSUME NEW k \in S PROVE m <= k
  <2>1. ~(k < m)
    BY <1>2 DEF OpToRel
  <2> QED BY <2>1
<1> QED BY <1>3
=============================================================================
