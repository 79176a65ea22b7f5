------------------------- MODULE RankingDataProofs -------------------------
(***************************************************************************)
(* Proofs about RankingData, for every set of ladders and whatever answers *)
(* they may get: what the team ranks of a ranking are between two calls,   *)
(* what a merge leaves of them, and what saving them stores.               *)
(***************************************************************************)
EXTENDS FindTeamRank, TeamRankOrderProofs, SequenceTheorems

\* What _team_ranks holds.
TeamRank ==
  [team_id : Teams, race0 : Races, race3 : {RACE_LO, RACE_ANY, RACE_BEST},
   mmr : {n \in Int : n >= NO_MMR}, points : Nat, region : Nat, mode : Nat, league : Nat,
   tier : Nat, version : 0..(VERSION_COUNT - 1), ladder_id : Ladders,
   ladder_rank : Nat, ladder_count : Nat, league_rank : Nat, league_count : Nat,
   region_rank : Nat, region_count : Nat, world_rank : Nat, world_count : Nat]

LEMMA IdsAreNumbers ==
  /\ Teams \subseteq Nat /\ 0 \notin Teams /\ Seasons \subseteq Nat
  /\ Races \subseteq Int /\ \A r \in Races : -1 <= r /\ r <= 3
  /\ VERSION_COUNT = 3 /\ RACE_LO = -1 /\ RACE_HI = 3
<1>1. Races \subseteq RACE_LO..RACE_HI /\ Teams \subseteq Nat \ {0} /\ Seasons \subseteq Nat
  BY RankingDataAssumption
<1>2. VERSION_COUNT = 3 /\ RACE_LO = -1 /\ RACE_HI = 3
  BY DEF VERSION_COUNT, RACE_LO, RACE_HI
<1> QED BY <1>1, <1>2

LEMMA RowFields ==
  ASSUME NEW x \in TeamRank
  PROVE  /\ x.team_id \in Nat /\ x.team_id \in Teams /\ x.race0 \in Int /\ x.race0 \in Races
         /\ x.mmr \in Int /\ x.mmr >= NO_MMR
         /\ x.points \in Nat /\ x.region \in Nat /\ x.mode \in Nat /\ x.league \in Nat
         /\ x.tier \in Nat /\ x.version \in Nat /\ x.ladder_id \in Ladders
         /\ x.race3 \in {RACE_LO, RACE_ANY, RACE_BEST}
         /\ x.ladder_rank \in Nat /\ x.ladder_count \in Nat
<1>1. x.version \in 0..2 /\ x.team_id \in Teams /\ x.race0 \in Races
  BY IdsAreNumbers DEF TeamRank
<1>2. x.version \in Nat
  BY <1>1
<1>3. x.team_id \in Nat /\ x.race0 \in Int
  <2>1. Teams \subseteq Nat /\ Races \subseteq Int
    BY IdsAreNumbers
  <2> QED BY <1>1, <2>1
<1> QED BY <1>1, <1>2, <1>3 DEF TeamRank

\* The fields that saving leaves alone.
Agree(x, y) ==
  /\ x.team_id = y.team_id /\ x.race0 = y.race0 /\ x.mmr = y.mmr /\ x.points = y.points
  /\ x.region = y.region /\ x.mode = y.mode /\ x.league = y.league /\ x.tier = y.tier
  /\ x.version = y.version /\ x.ladder_id = y.ladder_id

LEMMA LadderRankSet ==
  ASSUME NEW x \in TeamRank, NEW r \in Nat, NEW y, y = [x EXCEPT !.ladder_rank = r]
  PROVE  y \in TeamRank /\ Agree(y, x) /\ y.ladder_rank = r /\ y.ladder_count = x.ladder_count
BY DEF TeamRank, Agree

HasRanks(y, x, a, b, c, d, e, f) ==
  /\ y \in TeamRank /\ Agree(y, x)
  /\ y.league_rank = a /\ y.league_count = b /\ y.region_rank = c
  /\ y.region_count = d /\ y.world_rank = e /\ y.world_count = f
  /\ y.ladder_rank = x.ladder_rank /\ y.ladder_count = x.ladder_count

LEMMA RanksSet ==
  ASSUME NEW x \in TeamRank, NEW a \in Nat, NEW b \in Nat, NEW c \in Nat, NEW d \in Nat,
         NEW e \in Nat, NEW f \in Nat
  PROVE  HasRanks([x EXCEPT !.league_rank = a, !.league_count = b, !.region_rank = c,
                            !.region_count = d, !.world_rank = e, !.world_count = f],
                  x, a, b, c, d, e, f)
BY DEF TeamRank, Agree, HasRanks

IsMarked(y, x, r) ==
  /\ y \in TeamRank /\ Agree(y, x) /\ y.race3 = r
  /\ y.league_rank = x.league_rank /\ y.league_count = x.league_count
  /\ y.region_rank = x.region_rank /\ y.region_count = x.region_count
  /\ y.world_rank = x.world_rank /\ y.world_count = x.world_count
  /\ y.ladder_rank = x.ladder_rank /\ y.ladder_count = x.ladder_count

LEMMA RaceSet ==
  ASSUME NEW x \in TeamRank, NEW r \in {RACE_ANY, RACE_BEST}
  PROVE  IsMarked([x EXCEPT !.race3 = r], x, r)
BY DEF TeamRank, Agree, IsMarked

-----------------------------------------------------------------------------
(* The orders, as comparisons of numbers. *)

LEMMA LexFive ==
  ASSUME NEW a1, NEW a2, NEW a3, NEW a4, NEW a5, NEW b1, NEW b2, NEW b3, NEW b4, NEW b5
  PROVE  LexBefore(<<a1, a2, a3, a4, a5>>, <<b1, b2, b3, b4, b5>>)
         <=> \/ a1 < b1 \/ (a1 = b1 /\ a2 < b2) \/ (a1 = b1 /\ a2 = b2 /\ a3 < b3)
             \/ (a1 = b1 /\ a2 = b2 /\ a3 = b3 /\ a4 < b4)
             \/ (a1 = b1 /\ a2 = b2 /\ a3 = b3 /\ a4 = b4 /\ a5 < b5)
<1> DEFINE s == <<a1, a2, a3, a4, a5>>
           t == <<b1, b2, b3, b4, b5>>
<1>1. /\ DOMAIN s = {1, 2, 3, 4, 5}
      /\ s[1] = a1 /\ s[2] = a2 /\ s[3] = a3 /\ s[4] = a4 /\ s[5] = a5
      /\ t[1] = b1 /\ t[2] = b2 /\ t[3] = b3 /\ t[4] = b4 /\ t[5] = b5
  OBVIOUS
<1>2. /\ 1..(1 - 1) = {} /\ 1..(2 - 1) = {1} /\ 1..(3 - 1) = {1, 2}
      /\ 1..(4 - 1) = {1, 2, 3} /\ 1..(5 - 1) = {1, 2, 3, 4}
  OBVIOUS
<1> HIDE DEF s, t
<1>3. LexBefore(s, t)
      <=> \/ a1 < b1 \/ (a1 = b1 /\ a2 < b2) \/ (a1 = b1 /\ a2 = b2 /\ a3 < b3)
          \/ (a1 = b1 /\ a2 = b2 /\ a3 = b3 /\ a4 < b4)
          \/ (a1 = b1 /\ a2 = b2 /\ a3 = b3 /\ a4 = b4 /\ a5 < b5)
  BY <1>1, <1>2 DEF LexBefore
<1> QED BY <1>3 DEF s, t

LEMMA TeamVersionRace ==
  ASSUME NEW x, NEW y
  PROVE  /\ BeforeByTeamVersion(x, y)
              <=> \/ x.team_id < y.team_id
                  \/ x.team_id = y.team_id /\ x.version < y.version
         /\ BeforeByTeamVersionRace(x, y)
              <=> \/ x.team_id < y.team_id
                  \/ x.team_id = y.team_id /\ x.version < y.version
                  \/ x.team_id = y.team_id /\ x.version = y.version /\ x.race0 < y.race0
BY LexTwo, LexThree DEF BeforeByTeamVersion, BeforeByTeamVersionRace

\* Better by the key of the season.
Better(x, y) == Ahead(SortKey(season), x, y)

LEMMA BetterIsByNumbers ==
  ASSUME NEW x, NEW y
  PROVE  Better(x, y) <=>
           IF season >= MMR_SEASON THEN x.mmr > y.mmr
           ELSE \/ -x.league < -y.league \/ (-x.league = -y.league /\ x.tier < y.tier)
                \/ -x.league = -y.league /\ x.tier = y.tier /\ -x.points < -y.points
<1>1. CASE season >= MMR_SEASON
  BY <1>1 DEF Better, SortKey, Ahead
<1>2. CASE ~(season >= MMR_SEASON)
  <2>1. SortKey(season) = "LEAGUE_POINTS"
    BY <1>2 DEF SortKey
  <2>2. Better(x, y) <=> LexBefore(<<-x.league, x.tier, -x.points>>,
                                   <<-y.league, y.tier, -y.points>>)
    BY <2>1 DEF Better, Ahead
  <2> QED BY <1>2, <2>2, LexThree
<1> QED BY <1>1, <1>2

LEMMA BetterOrder ==
  ASSUME NEW x \in TeamRank, NEW y \in TeamRank, NEW z \in TeamRank
  PROVE  /\ ~Better(x, x)
         /\ Better(x, y) /\ Better(y, z) => Better(x, z)
         /\ Better(x, z) => Better(x, y) \/ Better(y, z)
<1>1. CASE season >= MMR_SEASON
  <2>1. \A u, v \in {x, y, z} : Better(u, v) <=> u.mmr > v.mmr
    BY <1>1, BetterIsByNumbers
  <2>2. x.mmr \in Int /\ y.mmr \in Int /\ z.mmr \in Int
    BY RowFields
  <2> QED BY <2>1, <2>2
<1>2. CASE ~(season >= MMR_SEASON)
  <2>1. \A u, v \in {x, y, z} :
          Better(u, v) <=> \/ -u.league < -v.league
                           \/ -u.league = -v.league /\ u.tier < v.tier
                           \/ -u.league = -v.league /\ u.tier = v.tier /\ -u.points < -v.points
    BY <1>2, BetterIsByNumbers
  <2>2. /\ x.league \in Int /\ y.league \in Int /\ z.league \in Int
        /\ x.tier \in Int /\ y.tier \in Int /\ z.tier \in Int
        /\ x.points \in Int /\ y.points \in Int /\ z.points \in Int
    BY RowFields
  <2>3. \A a1, a2, a3, b1, b2, b3, c1, c2, c3 \in Int :
          LET L(d1, d2, d3, e1, e2, e3) ==
                -d1 < -e1 \/ (-d1 = -e1 /\ d2 < e2) \/ (-d1 = -e1 /\ d2 = e2 /\ -d3 < -e3)
          IN  /\ ~L(a1, a2, a3, a1, a2, a3)
              /\ L(a1, a2, a3, b1, b2, b3) /\ L(b1, b2, b3, c1, c2, c3)
                   => L(a1, a2, a3, c1, c2, c3)
              /\ L(a1, a2, a3, c1, c2, c3)
                   => L(a1, a2, a3, b1, b2, b3) \/ L(b1, b2, b3, c1, c2, c3)
    OBVIOUS
  <2> QED BY <2>1, <2>2, <2>3
<1> QED BY <1>1, <1>2

\* Teams with mmr are better than those without, once it is the key.
LEMMA NobodyIsBelowNoMmr ==
  ASSUME NEW x \in TeamRank, NEW y \in TeamRank, SortKey(season) = "MMR", x.mmr = NO_MMR
  PROVE  ~Better(x, y)
BY RowFields DEF Better, Ahead, NO_MMR

\* Within what its region and league let pass, a strict comparator compares by the key.
LEMMA StrictIsByKey ==
  ASSUME NEW x, NEW y, NEW region, NEW league,
         region = NOT_SET \/ x.region = y.region, league = NOT_SET \/ x.league = y.league,
         Better(x, y) => ~Better(y, x)
  PROVE  Before(StrictOrder(region, league), x, y) <=> Better(x, y)
<1> DEFINE c == StrictOrder(region, league)
<1>1. /\ c.reverse = FALSE /\ c.region = region /\ c.league = league /\ c.race = NOT_SET
      /\ c.key = SortKey(season) /\ c.strict = TRUE
  BY DEF StrictOrder
<1>2. SortKey(season) # "WIN_RATE" /\ SortKey(season) \in SortKeys
  BY DEF SortKey, SortKeys
<1> HIDE DEF c
<1>3. Before(c, x, y) <=> ByKey(c, x, y)
  BY <1>1 DEF Before
<1>4. Level(c.key, x, y) <=> ~Better(x, y) /\ ~Better(y, x)
  BY <1>1, <1>2 DEF Level, Better
<1>5. ByKey(c, x, y) <=> Better(x, y)
  <2>1. CASE Level(c.key, x, y)
    BY <1>1, <1>4, <2>1 DEF ByKey
  <2>2. CASE ~Level(c.key, x, y)
    <3>1. ByKey(c, x, y) <=> (FALSE # Ahead(c.key, x, y))
      BY <1>1, <2>2 DEF ByKey
    <3>2. Ahead(c.key, x, y) \in BOOLEAN
      BY <1>1, <1>2, AheadIsBoolean
    <3> QED BY <1>1, <3>1, <3>2 DEF Better
  <2> QED BY <2>1, <2>2
<1> QED BY <1>3, <1>5 DEF c

\* What can be sorted with: of x, y and z in an order that is strict and weak.
LEMMA TeamVersionRaceOrder ==
  ASSUME NEW x \in TeamRank, NEW y \in TeamRank, NEW z \in TeamRank
  PROVE  LET L(u, v) == BeforeByTeamVersionRace(u, v)
         IN  /\ ~L(x, x)
             /\ L(x, y) /\ L(y, z) => L(x, z)
             /\ L(x, z) => L(x, y) \/ L(y, z)
<1>1. \A u \in {x, y, z} : u.team_id \in Int /\ u.version \in Int /\ u.race0 \in Int
  BY RowFields
<1>2. \A u, v \in {x, y, z} :
        BeforeByTeamVersionRace(u, v)
          <=> \/ u.team_id < v.team_id
              \/ u.team_id = v.team_id /\ u.version < v.version
              \/ u.team_id = v.team_id /\ u.version = v.version /\ u.race0 < v.race0
  BY TeamVersionRace
<1> QED BY <1>1, <1>2

LEMMA MergeOrder ==
  ASSUME NEW mode, NEW x \in TeamRank, NEW y \in TeamRank, NEW z \in TeamRank
  PROVE  LET L(u, v) == MergeBefore(mode, u, v)
         IN  /\ ~L(x, x)
             /\ L(x, y) /\ L(y, z) => L(x, z)
             /\ L(x, z) => L(x, y) \/ L(y, z)
<1>1. CASE PerRace(mode, season)
  BY <1>1, TeamVersionRaceOrder DEF MergeBefore
<1>2. CASE ~PerRace(mode, season)
  <2>1. \A u \in {x, y, z} : u.team_id \in Int /\ u.version \in Int
    BY RowFields
  <2>2. \A u, v \in {x, y, z} :
          MergeBefore(mode, u, v)
            <=> u.team_id < v.team_id \/ (u.team_id = v.team_id /\ u.version < v.version)
    BY <1>2, TeamVersionRace DEF MergeBefore
  <2> QED BY <2>1, <2>2
<1> QED BY <1>1, <1>2

LEMMA StatsOrderOrders ==
  ASSUME NEW x \in TeamRank, NEW y \in TeamRank, NEW z \in TeamRank
  PROVE  LET L(u, v) == StatsOrder(u, v)
         IN  /\ ~L(x, x)
             /\ L(x, y) /\ L(y, z) => L(x, z)
             /\ L(x, z) => L(x, y) \/ L(y, z)
<1>1. \A u \in {x, y, z} : /\ u.mode \in Int /\ u.version \in Int /\ u.region \in Int
                           /\ u.league \in Int /\ u.race0 \in Int
  BY RowFields
<1>2. \A u, v \in {x, y, z} :
        StatsOrder(u, v)
          <=> \/ u.mode < v.mode \/ (u.mode = v.mode /\ u.version < v.version)
              \/ u.mode = v.mode /\ u.version = v.version /\ u.region < v.region
              \/ u.mode = v.mode /\ u.version = v.version /\ u.region = v.region
                   /\ u.league < v.league
              \/ u.mode = v.mode /\ u.version = v.version /\ u.region = v.region
                   /\ u.league = v.league /\ u.race0 < v.race0
  BY LexFive DEF StatsOrder, BeforeForStats
<1> QED BY <1>1, <1>2

LEMMA WorldByKey ==
  ASSUME NEW x \in TeamRank, NEW y \in TeamRank
  PROVE  Before(World, x, y) <=> Better(x, y)
BY BetterOrder, StrictIsByKey DEF World

LEMMA GlobalByKey ==
  ASSUME NEW x \in TeamRank, NEW y \in TeamRank
  PROVE  BeforeInVersionMode(World, x, y)
           <=> \/ x.version < y.version
               \/ x.version = y.version /\ x.mode < y.mode
               \/ x.version = y.version /\ x.mode = y.mode /\ Better(x, y)
BY WorldByKey, LexTwo DEF BeforeInVersionMode

LEMMA GlobalOrderOrders ==
  ASSUME NEW x \in TeamRank, NEW y \in TeamRank, NEW z \in TeamRank
  PROVE  LET L(u, v) == BeforeInVersionMode(World, u, v)
         IN  /\ ~L(x, x)
             /\ L(x, y) /\ L(y, z) => L(x, z)
             /\ L(x, z) => L(x, y) \/ L(y, z)
<1>1. \A u \in {x, y, z} : u.mode \in Int /\ u.version \in Int
  BY RowFields
<1>2. \A u, v \in {x, y, z} :
        BeforeInVersionMode(World, u, v)
          <=> \/ u.version < v.version
              \/ u.version = v.version /\ u.mode < v.mode
              \/ u.version = v.version /\ u.mode = v.mode /\ Better(u, v)
  BY GlobalByKey
<1>3. /\ ~Better(x, x)
      /\ Better(x, y) /\ Better(y, z) => Better(x, z)
      /\ Better(x, z) => Better(x, y) \/ Better(y, z)
  BY BetterOrder
<1> QED BY <1>1, <1>2, <1>3

-----------------------------------------------------------------------------
(* Sorting team ranks.  Each order leaves the same ones in another order. *)

\* sort_by_team_id_version_race: the order between two calls.
LEMMA TeamOrderSorts ==
  ASSUME NEW n \in Nat, NEW s \in [1..n -> TeamRank]
  PROVE  \E perm : /\ Permutation(n, perm)
                   /\ InTeamOrder(s) = [p \in 1..n |-> s[perm[p]]]
                   /\ \A p, q \in 1..n : p < q
                        => ~BeforeByTeamVersionRace(s[perm[q]], s[perm[p]])
<1> DEFINE before == {p \in (DOMAIN s) \X (DOMAIN s) : BeforeByTeamVersionRace(s[p[1]], s[p[2]])}
<1>1. DOMAIN s = 1..n /\ \A i \in 1..n : s[i] \in TeamRank
  OBVIOUS
<1>2. \A i, j \in 1..n : <<i, j>> \in before <=> BeforeByTeamVersionRace(s[i], s[j])
  BY <1>1
<1>3. InTeamOrder(s) = Sorting(s, before)
  BY DEF InTeamOrder, StableSort
<1> HIDE DEF before
<1>4. StrictWeak(n, before)
  <2> SUFFICES ASSUME NEW i \in 1..n, NEW j \in 1..n, NEW k \in 1..n
               PROVE  /\ <<i, i>> \notin before
                      /\ <<i, j>> \in before /\ <<j, k>> \in before => <<i, k>> \in before
                      /\ <<i, k>> \in before => <<i, j>> \in before \/ <<j, k>> \in before
    BY DEF StrictWeak
  <2> DEFINE L(u, v) == BeforeByTeamVersionRace(u, v)
  <2>1. /\ ~L(s[i], s[i])
        /\ L(s[i], s[j]) /\ L(s[j], s[k]) => L(s[i], s[k])
        /\ L(s[i], s[k]) => L(s[i], s[j]) \/ L(s[j], s[k])
    BY <1>1, TeamVersionRaceOrder
  <2> QED BY <1>2, <2>1
<1>5. PICK perm : /\ Permutation(n, perm)
                  /\ Sorting(s, before) = [p \in 1..n |-> s[perm[p]]]
                  /\ \A p, q \in 1..n : p < q => <<perm[q], perm[p]>> \notin before
  BY <1>1, <1>4, SortingSorts
<1>6. \A p \in 1..n : perm[p] \in 1..n
  BY <1>5 DEF Permutation
<1> QED BY <1>2, <1>3, <1>5, <1>6

\* A ladder is ranked in the order of the key.
LEMMA WorldOrderSorts ==
  ASSUME NEW n \in Nat, NEW s \in [1..n -> TeamRank]
  PROVE  \E perm : /\ Permutation(n, perm)
                   /\ StableSort(s, LAMBDA x, y : Before(World, x, y)) = [p \in 1..n |-> s[perm[p]]]
                   /\ \A p, q \in 1..n : p < q
                        => ~Before(World, s[perm[q]], s[perm[p]])
<1> DEFINE before == {p \in (DOMAIN s) \X (DOMAIN s) : Before(World, s[p[1]], s[p[2]])}
<1>1. DOMAIN s = 1..n /\ \A i \in 1..n : s[i] \in TeamRank
  OBVIOUS
<1>2. \A i, j \in 1..n : <<i, j>> \in before <=> Before(World, s[i], s[j])
  BY <1>1
<1>3. StableSort(s, LAMBDA x, y : Before(World, x, y)) = Sorting(s, before)
  BY DEF StableSort
<1> HIDE DEF before
<1>4. StrictWeak(n, before)
  <2> SUFFICES ASSUME NEW i \in 1..n, NEW j \in 1..n, NEW k \in 1..n
               PROVE  /\ <<i, i>> \notin before
                      /\ <<i, j>> \in before /\ <<j, k>> \in before => <<i, k>> \in before
                      /\ <<i, k>> \in before => <<i, j>> \in before \/ <<j, k>> \in before
    BY DEF StrictWeak
  <2> DEFINE L(u, v) == Before(World, u, v)
  <2>1. /\ ~L(s[i], s[i])
        /\ L(s[i], s[j]) /\ L(s[j], s[k]) => L(s[i], s[k])
        /\ L(s[i], s[k]) => L(s[i], s[j]) \/ L(s[j], s[k])
    BY <1>1, BetterOrder, WorldByKey
  <2> QED BY <1>2, <2>1
<1>5. PICK perm : /\ Permutation(n, perm)
                  /\ Sorting(s, before) = [p \in 1..n |-> s[perm[p]]]
                  /\ \A p, q \in 1..n : p < q => <<perm[q], perm[p]>> \notin before
  BY <1>1, <1>4, SortingSorts
<1>6. \A p \in 1..n : perm[p] \in 1..n
  BY <1>5 DEF Permutation
<1> QED BY <1>2, <1>3, <1>5, <1>6

\* A ladder is merged in the order of the merge.
LEMMA MergeOrderSorts ==
  ASSUME NEW n \in Nat, NEW s \in [1..n -> TeamRank], NEW mode
  PROVE  \E perm : /\ Permutation(n, perm)
                   /\ StableSort(s, LAMBDA x, y : MergeBefore(mode, x, y)) = [p \in 1..n |-> s[perm[p]]]
                   /\ \A p, q \in 1..n : p < q
                        => ~MergeBefore(mode, s[perm[q]], s[perm[p]])
<1> DEFINE before == {p \in (DOMAIN s) \X (DOMAIN s) : MergeBefore(mode, s[p[1]], s[p[2]])}
<1>1. DOMAIN s = 1..n /\ \A i \in 1..n : s[i] \in TeamRank
  OBVIOUS
<1>2. \A i, j \in 1..n : <<i, j>> \in before <=> MergeBefore(mode, s[i], s[j])
  BY <1>1
<1>3. StableSort(s, LAMBDA x, y : MergeBefore(mode, x, y)) = Sorting(s, before)
  BY DEF StableSort
<1> HIDE DEF before
<1>4. StrictWeak(n, before)
  <2> SUFFICES ASSUME NEW i \in 1..n, NEW j \in 1..n, NEW k \in 1..n
               PROVE  /\ <<i, i>> \notin before
                      /\ <<i, j>> \in before /\ <<j, k>> \in before => <<i, k>> \in before
                      /\ <<i, k>> \in before => <<i, j>> \in before \/ <<j, k>> \in before
    BY DEF StrictWeak
  <2> DEFINE L(u, v) == MergeBefore(mode, u, v)
  <2>1. /\ ~L(s[i], s[i])
        /\ L(s[i], s[j]) /\ L(s[j], s[k]) => L(s[i], s[k])
        /\ L(s[i], s[k]) => L(s[i], s[j]) \/ L(s[j], s[k])
    BY <1>1, MergeOrder
  <2> QED BY <1>2, <2>1
<1>5. PICK perm : /\ Permutation(n, perm)
                  /\ Sorting(s, before) = [p \in 1..n |-> s[perm[p]]]
                  /\ \A p, q \in 1..n : p < q => <<perm[q], perm[p]>> \notin before
  BY <1>1, <1>4, SortingSorts
<1>6. \A p \in 1..n : perm[p] \in 1..n
  BY <1>5 DEF Permutation
<1> QED BY <1>2, <1>3, <1>5, <1>6

\* All are ranked in global order.
LEMMA GlobalOrderSorts ==
  ASSUME NEW n \in Nat, NEW s \in [1..n -> TeamRank]
  PROVE  \E perm : /\ Permutation(n, perm)
                   /\ InGlobalOrder(s) = [p \in 1..n |-> s[perm[p]]]
                   /\ \A p, q \in 1..n : p < q
                        => ~BeforeInVersionMode(World, s[perm[q]], s[perm[p]])
<1> DEFINE before == {p \in (DOMAIN s) \X (DOMAIN s) : BeforeInVersionMode(World, s[p[1]], s[p[2]])}
<1>1. DOMAIN s = 1..n /\ \A i \in 1..n : s[i] \in TeamRank
  OBVIOUS
<1>2. \A i, j \in 1..n : <<i, j>> \in before <=> BeforeInVersionMode(World, s[i], s[j])
  BY <1>1
<1>3. InGlobalOrder(s) = Sorting(s, before)
  BY DEF InGlobalOrder, StableSort
<1> HIDE DEF before
<1>4. StrictWeak(n, before)
  <2> SUFFICES ASSUME NEW i \in 1..n, NEW j \in 1..n, NEW k \in 1..n
               PROVE  /\ <<i, i>> \notin before
                      /\ <<i, j>> \in before /\ <<j, k>> \in before => <<i, k>> \in before
                      /\ <<i, k>> \in before => <<i, j>> \in before \/ <<j, k>> \in before
    BY DEF StrictWeak
  <2> DEFINE L(u, v) == BeforeInVersionMode(World, u, v)
  <2>1. /\ ~L(s[i], s[i])
        /\ L(s[i], s[j]) /\ L(s[j], s[k]) => L(s[i], s[k])
        /\ L(s[i], s[k]) => L(s[i], s[j]) \/ L(s[j], s[k])
    BY <1>1, GlobalOrderOrders
  <2> QED BY <1>2, <2>1
<1>5. PICK perm : /\ Permutation(n, perm)
                  /\ Sorting(s, before) = [p \in 1..n |-> s[perm[p]]]
                  /\ \A p, q \in 1..n : p < q => <<perm[q], perm[p]>> \notin before
  BY <1>1, <1>4, SortingSorts
<1>6. \A p \in 1..n : perm[p] \in 1..n
  BY <1>5 DEF Permutation
<1> QED BY <1>2, <1>3, <1>5, <1>6

\* The statistics are summed up in the order of their places.
LEMMA StatsOrderSorts ==
  ASSUME NEW n \in Nat, NEW s \in [1..n -> TeamRank]
  PROVE  \E perm : /\ Permutation(n, perm)
                   /\ StableSort(s, StatsOrder) = [p \in 1..n |-> s[perm[p]]]
                   /\ \A p, q \in 1..n : p < q
                        => ~StatsOrder(s[perm[q]], s[perm[p]])
<1> DEFINE before == {p \in (DOMAIN s) \X (DOMAIN s) : StatsOrder(s[p[1]], s[p[2]])}
<1>1. DOMAIN s = 1..n /\ \A i \in 1..n : s[i] \in TeamRank
  OBVIOUS
<1>2. \A i, j \in 1..n : <<i, j>> \in before <=> StatsOrder(s[i], s[j])
  BY <1>1
<1>3. StableSort(s, StatsOrder) = Sorting(s, before)
  BY DEF StableSort
<1> HIDE DEF before
<1>4. StrictWeak(n, before)
  <2> SUFFICES ASSUME NEW i \in 1..n, NEW j \in 1..n, NEW k \in 1..n
               PROVE  /\ <<i, i>> \notin before
                      /\ <<i, j>> \in before /\ <<j, k>> \in before => <<i, k>> \in before
                      /\ <<i, k>> \in before => <<i, j>> \in before \/ <<j, k>> \in before
    BY DEF StrictWeak
  <2> DEFINE L(u, v) == StatsOrder(u, v)
  <2>1. /\ ~L(s[i], s[i])
        /\ L(s[i], s[j]) /\ L(s[j], s[k]) => L(s[i], s[k])
        /\ L(s[i], s[k]) => L(s[i], s[j]) \/ L(s[j], s[k])
    BY <1>1, StatsOrderOrders
  <2> QED BY <1>2, <2>1
<1>5. PICK perm : /\ Permutation(n, perm)
                  /\ Sorting(s, before) = [p \in 1..n |-> s[perm[p]]]
                  /\ \A p, q \in 1..n : p < q => <<perm[q], perm[p]>> \notin before
  BY <1>1, <1>4, SortingSorts
<1>6. \A p \in 1..n : perm[p] \in 1..n
  BY <1>5 DEF Permutation
<1> QED BY <1>2, <1>3, <1>5, <1>6

-----------------------------------------------------------------------------
(* What a ladder brings to the merge. *)

\* A team rank is of the region, mode and league of its ladder, in which its team was.
Listed(x) ==
  \E a \in Answers(x.ladder_id, season) : \E k \in DOMAIN a : a[k].team_id = x.team_id

Row(x) ==
  /\ x \in TeamRank
  /\ x.mode = LadderInfo[x.ladder_id].mode
  /\ x.region = LadderInfo[x.ladder_id].region /\ x.league = LadderInfo[x.ladder_id].league
  /\ x.version \in StatVersions
  /\ x.ladder_rank \in 1..x.ladder_count
  /\ Listed(x)

LEMMA LadderFields ==
  ASSUME NEW l \in Ladders
  PROVE  /\ LadderInfo[l].region \in Nat /\ LadderInfo[l].mode \in Nat
         /\ LadderInfo[l].league \in Nat /\ LadderInfo[l].tier \in Nat
         /\ LadderInfo[l].version \in 0..2
<1>1. LadderInfo[l] \in
        [region : Nat, mode : Nat, league : Nat, tier : Nat, version : 0..(VERSION_COUNT - 1)]
  BY RankingDataAssumption
<1>2. 0..(VERSION_COUNT - 1) = 0..2
  BY DEF VERSION_COUNT
<1> QED BY <1>1, <1>2

LEMMA AnswerFields ==
  ASSUME season \in Seasons, NEW l \in Ladders, NEW a \in Answers(l, season)
  PROVE  /\ Len(a) \in Nat /\ DOMAIN a = 1..Len(a)
         /\ \A i \in 1..Len(a) :
              /\ a[i].team_id \in Teams /\ a[i].race \in Races /\ a[i].standing.mmr \in Int
              /\ a[i].standing.mmr >= NO_MMR /\ a[i].standing.points \in Nat
         /\ \A i, j \in 1..Len(a) : i # j /\ a[i].team_id = a[j].team_id
              => PerRace(LadderInfo[l].mode, season) /\ a[i].race # a[j].race
<1>1. /\ a \in Seq(LadderMember)
      /\ \A i \in DOMAIN a : a[i].standing.mmr >= NO_MMR
      /\ \A i, j \in DOMAIN a : i # j /\ a[i].team_id = a[j].team_id
           => PerRace(LadderInfo[l].mode, season) /\ a[i].race # a[j].race
  BY RankingDataAssumption
<1>2. Len(a) \in Nat /\ DOMAIN a = 1..Len(a) /\ \A i \in DOMAIN a : a[i] \in LadderMember
  BY <1>1
<1> QED BY <1>1, <1>2 DEF LadderMember

\* A team is of one mode.
LEMMA OneMode ==
  ASSUME season \in Seasons, NEW x, Row(x), NEW y, Row(y), x.team_id = y.team_id
  PROVE  x.mode = y.mode
<1>1. x.ladder_id \in Ladders /\ y.ladder_id \in Ladders
  BY RowFields DEF Row
<1>2. PICK a \in Answers(x.ladder_id, season) : \E k \in DOMAIN a : a[k].team_id = x.team_id
  BY DEF Row, Listed
<1>3. PICK b \in Answers(y.ladder_id, season) : \E k \in DOMAIN b : b[k].team_id = y.team_id
  BY DEF Row, Listed
<1>4. \A i \in DOMAIN a, j \in DOMAIN b : a[i].team_id = b[j].team_id
        => LadderInfo[x.ladder_id].mode = LadderInfo[y.ladder_id].mode
  <2>1. \A s \in Seasons, k, l \in Ladders : \A c \in Answers(k, s), d \in Answers(l, s) :
          \A i \in DOMAIN c, j \in DOMAIN d :
            c[i].team_id = d[j].team_id => LadderInfo[k].mode = LadderInfo[l].mode
    BY RankingDataAssumption
  <2> QED BY <1>1, <2>1
<1> QED BY <1>2, <1>3, <1>4 DEF Row

LEMMA VersionIsKnown ==
  ASSUME NEW l \in Ladders
  PROVE  /\ Version(l) \in 0..2 /\ Version(l) \in StatVersions
         /\ SeasonVersion \in 0..2 /\ \A k \in Ladders : LadderInfo[k].version <= SeasonVersion
<1>1. /\ SeasonVersion \in 0..2 /\ SeasonVersion \in StatVersions
      /\ \A k \in Ladders : LadderInfo[k].version <= SeasonVersion
  <2> DEFINE V == {LadderInfo[k].version : k \in Ladders}
  <2>1. V \in SUBSET (0..2) /\ LadderInfo[l].version \in V
    BY LadderFields
  <2>2. \E v \in V : \A k \in Ladders : LadderInfo[k].version <= v
    <3>1. \A k \in Ladders : LadderInfo[k].version \in V
      OBVIOUS
    <3>2. \E v \in V : \A u \in V : u <= v
      <4> HIDE DEF V
      <4>1. CASE 2 \in V
        BY <2>1, <4>1
      <4>2. CASE 2 \notin V /\ 1 \in V
        BY <2>1, <4>2
      <4>3. CASE 2 \notin V /\ 1 \notin V
        BY <2>1, <4>3
      <4> QED BY <4>1, <4>2, <4>3
    <3> HIDE DEF V
    <3> QED BY <3>1, <3>2
  <2>3. SeasonVersion \in V /\ \A k \in Ladders : LadderInfo[k].version <= SeasonVersion
    <3> HIDE DEF V
    <3>1. SeasonVersion = CHOOSE v \in V : \A k \in Ladders : LadderInfo[k].version <= v
      BY DEF SeasonVersion, V
    <3> QED BY <2>2, <3>1
  <2>4. V = StatVersions
    BY DEF StatVersions
  <2> HIDE DEF V
  <2> QED BY <2>1, <2>3, <2>4
<1>2. LadderInfo[l].version \in StatVersions
  BY DEF StatVersions
<1> QED BY <1>1, <1>2, LadderFields DEF Version

\* The ladder as it is extracted.
LEMMA ExtractedIs ==
  ASSUME season \in Seasons, NEW l \in Ladders, NEW members \in Answers(l, season),
         NEW n, n = Len(members), NEW ladder, ladder = Extracted(l, members)
  PROVE  /\ n \in Nat /\ ladder \in [1..n -> TeamRank]
         /\ \A i \in 1..n :
              /\ ladder[i].team_id = members[i].team_id /\ ladder[i].race0 = members[i].race
              /\ ladder[i].ladder_id = l /\ ladder[i].ladder_count = n
              /\ ladder[i].mode = LadderInfo[l].mode /\ ladder[i].league = LadderInfo[l].league
              /\ ladder[i].region = LadderInfo[l].region
              /\ ladder[i].version = Version(l)
<1>1. n \in Nat /\ DOMAIN members = 1..n
  BY AnswerFields
<1>2. /\ ladder = [i \in 1..n |-> ladder[i]]
      /\ \A i \in 1..n : ladder[i] =
           [team_id |-> members[i].team_id, race0 |-> members[i].race, race3 |-> RACE_LO,
            mmr |-> members[i].standing.mmr, points |-> members[i].standing.points,
            region |-> LadderInfo[l].region, mode |-> LadderInfo[l].mode,
            league |-> LadderInfo[l].league, tier |-> LadderInfo[l].tier,
            version |-> Version(l), ladder_id |-> l,
            ladder_rank |-> 0, ladder_count |-> n,
            league_rank |-> 0, league_count |-> 0, region_rank |-> 0, region_count |-> 0,
            world_rank |-> 0, world_count |-> 0]
  BY <1>1 DEF Extracted
<1>3. ASSUME NEW i \in 1..n
      PROVE  /\ ladder[i] \in TeamRank
             /\ ladder[i].team_id = members[i].team_id /\ ladder[i].race0 = members[i].race
             /\ ladder[i].ladder_id = l /\ ladder[i].ladder_count = n
             /\ ladder[i].mode = LadderInfo[l].mode /\ ladder[i].league = LadderInfo[l].league
             /\ ladder[i].region = LadderInfo[l].region
             /\ ladder[i].version = Version(l)
  <2>1. /\ members[i].team_id \in Teams /\ members[i].race \in Races
        /\ members[i].standing.mmr \in {m \in Int : m >= NO_MMR}
        /\ members[i].standing.points \in Nat
    BY AnswerFields
  <2>2. Version(l) \in 0..(VERSION_COUNT - 1)
    BY VersionIsKnown, IdsAreNumbers
  <2>3. /\ LadderInfo[l].region \in Nat /\ LadderInfo[l].mode \in Nat
        /\ LadderInfo[l].league \in Nat /\ LadderInfo[l].tier \in Nat
    BY LadderFields
  <2>4. /\ ladder[i] \in TeamRank
        /\ ladder[i].team_id = members[i].team_id /\ ladder[i].race0 = members[i].race
        /\ ladder[i].ladder_id = l /\ ladder[i].ladder_count = n
        /\ ladder[i].mode = LadderInfo[l].mode /\ ladder[i].league = LadderInfo[l].league
        /\ ladder[i].region = LadderInfo[l].region
        /\ ladder[i].version = Version(l)
    <3> DEFINE m == members[i]
               o == m.standing
               f == LadderInfo[l]
               v == Version(l)
    <3>1. ladder[i] =
            [team_id |-> m.team_id, race0 |-> m.race, race3 |-> RACE_LO,
             mmr |-> o.mmr, points |-> o.points, region |-> f.region, mode |-> f.mode,
             league |-> f.league, tier |-> f.tier, version |-> v, ladder_id |-> l,
             ladder_rank |-> 0, ladder_count |-> n,
             league_rank |-> 0, league_count |-> 0, region_rank |-> 0, region_count |-> 0,
             world_rank |-> 0, world_count |-> 0]
      BY <1>2
    <3> HIDE DEF m, o, f, v
    <3>2. /\ m.team_id \in Teams /\ m.race \in Races /\ o.mmr \in {k \in Int : k >= NO_MMR}
          /\ o.points \in Nat /\ f.region \in Nat /\ f.mode \in Nat
          /\ f.league \in Nat /\ f.tier \in Nat /\ v \in 0..(VERSION_COUNT - 1)
      BY <2>1, <2>2, <2>3 DEF m, o, f, v
    <3>3. ladder[i] \in TeamRank
      BY <1>1, <3>1, <3>2 DEF TeamRank
    <3>4. /\ ladder[i].team_id = m.team_id /\ ladder[i].race0 = m.race
          /\ ladder[i].ladder_id = l /\ ladder[i].ladder_count = n
          /\ ladder[i].mode = f.mode /\ ladder[i].league = f.league /\ ladder[i].region = f.region
          /\ ladder[i].version = v
      BY <3>1
    <3> QED BY <3>3, <3>4 DEF m, f, v
  <2> QED BY <2>4
<1> QED BY <1>1, <1>2, <1>3

\* A rank among some is one of as many as there are.
LEMMA SharedRankIsARank ==
  ASSUME NEW s, NEW n \in Nat, NEW used \in SUBSET (1..n), NEW c, NEW i \in used
  PROVE  SharedRank(s, used, c, i) \in 1..Cardinality(used) /\ Cardinality(used) \in Nat
<1> DEFINE ahead == {j \in used : j < i /\ (Before(c, s[j], s[i]) \/ Before(c, s[i], s[j]))}
<1>1. IsFiniteSet(used)
  <2>1. IsFiniteSet(1..n)
    BY FS_Interval
  <2> QED BY <2>1, FS_Subset
<1>2. ahead \in SUBSET used /\ i \notin ahead
  OBVIOUS
<1>3. SharedRank(s, used, c, i) = 1 + Cardinality(ahead)
  BY Zenon DEF SharedRank
<1> HIDE DEF ahead
<1>4. /\ IsFiniteSet(ahead) /\ Cardinality(ahead) <= Cardinality(used)
      /\ Cardinality(used) = Cardinality(ahead) => used = ahead
  BY <1>1, <1>2, FS_Subset
<1>5. Cardinality(ahead) \in Nat /\ Cardinality(used) \in Nat
  BY <1>1, <1>4, FS_CardinalityType
<1> QED BY <1>2, <1>3, <1>4, <1>5

\* The ladder in the order of the key, with the ranks in it.
LEMMA RankedInLadderIs ==
  ASSUME NEW n \in Nat, NEW ladder \in [1..n -> TeamRank]
  PROVE  \E perm : /\ Permutation(n, perm)
                   /\ RankedInLadder(ladder) \in [1..n -> TeamRank]
                   /\ \A i \in 1..n :
                        /\ Agree(RankedInLadder(ladder)[i], ladder[perm[i]])
                        /\ RankedInLadder(ladder)[i].ladder_rank \in 1..n
                        /\ RankedInLadder(ladder)[i].ladder_count = ladder[perm[i]].ladder_count
<1> DEFINE sorted == StableSort(ladder, LAMBDA x, y : Before(World, x, y))
           Rank(i) == SharedRank(sorted, 1..n, World, i)
           ranked == [i \in 1..n |-> [sorted[i] EXCEPT !.ladder_rank = Rank(i)]]
<1>1. PICK perm : Permutation(n, perm) /\ sorted = [p \in 1..n |-> ladder[perm[p]]]
  BY WorldOrderSorts
<1>2. /\ DOMAIN sorted = 1..n
      /\ \A i \in 1..n : perm[i] \in 1..n /\ sorted[i] = ladder[perm[i]] /\ sorted[i] \in TeamRank
  <2> HIDE DEF sorted
  <2>1. \A i \in 1..n : perm[i] \in 1..n
    BY <1>1 DEF Permutation
  <2>2. DOMAIN sorted = 1..n /\ \A i \in 1..n : sorted[i] = ladder[perm[i]]
    BY <1>1
  <2> QED BY <2>1, <2>2
<1>3. RankedInLadder(ladder) = ranked
  BY <1>2 DEF RankedInLadder
<1> HIDE DEF sorted
<1>4. \A i \in 1..n : Rank(i) \in 1..n
  <2>1. Cardinality(1..n) = n
    BY FS_Interval
  <2> QED BY <2>1, SharedRankIsARank
<1> HIDE DEF Rank
<1>5. ASSUME NEW i \in 1..n
      PROVE  /\ ranked[i] \in TeamRank /\ Agree(ranked[i], ladder[perm[i]])
             /\ ranked[i].ladder_rank \in 1..n
             /\ ranked[i].ladder_count = ladder[perm[i]].ladder_count
  <2>1. ranked[i] = [sorted[i] EXCEPT !.ladder_rank = Rank(i)] /\ Rank(i) \in Nat
    BY <1>4
  <2> HIDE DEF ranked
  <2>2. /\ ranked[i] \in TeamRank /\ Agree(ranked[i], sorted[i])
        /\ ranked[i].ladder_rank = Rank(i) /\ ranked[i].ladder_count = sorted[i].ladder_count
    BY <1>2, <2>1, LadderRankSet
  <2> QED BY <1>2, <1>4, <2>2
<1>6. ranked \in [1..n -> TeamRank]
  <2>1. ranked = [i \in 1..n |-> ranked[i]]
    OBVIOUS
  <2> HIDE DEF ranked
  <2> QED BY <1>5, <2>1
<1> HIDE DEF ranked
<1> QED BY <1>1, <1>3, <1>5, <1>6

\* A ladder as it is merged: ranks of its teams and races, in the order of the merge
\* and none of them twice.
IsSource(source, l, members) ==
  /\ source \in [1..Len(members) -> TeamRank] /\ Len(members) \in Nat
  /\ \A i \in 1..Len(members) :
       /\ Row(source[i])
       /\ source[i].ladder_id = l /\ source[i].mode = LadderInfo[l].mode
       /\ source[i].league = LadderInfo[l].league /\ source[i].version = Version(l)
       /\ \E k \in 1..Len(members) : /\ source[i].team_id = members[k].team_id
                                     /\ source[i].race0 = members[k].race
  /\ \A k \in 1..Len(members) :
       \E i \in 1..Len(members) : source[i].team_id = members[k].team_id
  /\ \A i, j \in 1..Len(members) :
       i < j => MergeBefore(LadderInfo[l].mode, source[i], source[j])

LEMMA LadderIsSource ==
  ASSUME season \in Seasons, NEW l \in Ladders, NEW members \in Answers(l, season)
  PROVE  IsSource(Source(l, members), l, members)
<1> DEFINE n == Len(members)
           mode == LadderInfo[l].mode
           ladder == Extracted(l, members)
           ranked == RankedInLadder(ladder)
           source == Source(l, members)
<1>1. /\ n \in Nat /\ ladder \in [1..n -> TeamRank]
      /\ \A i \in 1..n :
           /\ ladder[i].team_id = members[i].team_id /\ ladder[i].race0 = members[i].race
           /\ ladder[i].ladder_id = l /\ ladder[i].ladder_count = n
           /\ ladder[i].mode = mode /\ ladder[i].league = LadderInfo[l].league
           /\ ladder[i].region = LadderInfo[l].region
           /\ ladder[i].version = Version(l)
  BY ExtractedIs
<1>2. source = StableSort(ranked, LAMBDA x, y : MergeBefore(mode, x, y))
  BY DEF Source
<1> HIDE DEF n, ladder
<1>3. PICK f : /\ Permutation(n, f)
               /\ ranked \in [1..n -> TeamRank]
               /\ \A i \in 1..n : /\ Agree(ranked[i], ladder[f[i]])
                                  /\ ranked[i].ladder_rank \in 1..n
                                  /\ ranked[i].ladder_count = ladder[f[i]].ladder_count
  BY <1>1, RankedInLadderIs
<1> HIDE DEF ranked
<1>4. PICK g : /\ Permutation(n, g)
               /\ StableSort(ranked, LAMBDA x, y : MergeBefore(mode, x, y))
                    = [p \in 1..n |-> ranked[g[p]]]
               /\ \A p, q \in 1..n : p < q => ~MergeBefore(mode, ranked[g[q]], ranked[g[p]])
  BY <1>1, <1>3, MergeOrderSorts
<1> HIDE DEF source
<1>5. source = [p \in 1..n |-> ranked[g[p]]]
  BY <1>2, <1>4
<1>6. ASSUME NEW i \in 1..n
      PROVE  /\ g[i] \in 1..n /\ f[g[i]] \in 1..n /\ source[i] \in TeamRank
             /\ source[i] = ranked[g[i]]
             /\ source[i].team_id = members[f[g[i]]].team_id
             /\ source[i].race0 = members[f[g[i]]].race
             /\ source[i].ladder_id = l /\ source[i].mode = mode
             /\ source[i].league = LadderInfo[l].league /\ source[i].version = Version(l)
             /\ source[i].region = LadderInfo[l].region
             /\ source[i].ladder_rank \in 1..source[i].ladder_count
  <2>1. g[i] \in 1..n /\ f[g[i]] \in 1..n
    BY <1>3, <1>4 DEF Permutation
  <2>2. source[i] = ranked[g[i]]
    BY <1>5
  <2>3. /\ ranked[g[i]] \in TeamRank /\ Agree(ranked[g[i]], ladder[f[g[i]]])
        /\ ranked[g[i]].ladder_rank \in 1..n
        /\ ranked[g[i]].ladder_count = ladder[f[g[i]]].ladder_count
    BY <1>3, <2>1
  <2>4. ladder[f[g[i]]].ladder_count = n
    BY <1>1, <2>1
  <2> QED BY <1>1, <2>1, <2>2, <2>3, <2>4 DEF Agree
<1>7. source \in [1..n -> TeamRank]
  BY <1>5, <1>6
<1>8. ASSUME NEW i \in 1..n PROVE Row(source[i])
  <2>1. members[f[g[i]]].team_id = source[i].team_id /\ f[g[i]] \in DOMAIN members
    BY <1>6, AnswerFields DEF n
  <2>2. source[i].version \in StatVersions
    BY <1>6, VersionIsKnown
  <2> QED BY <1>6, <2>1, <2>2 DEF Row, Listed
<1>9. ASSUME NEW k \in 1..n PROVE \E i \in 1..n : source[i].team_id = members[k].team_id
  <2>1. PICK j \in 1..n : f[j] = k
    BY <1>3 DEF Permutation
  <2>2. PICK i \in 1..n : g[i] = j
    BY <1>4 DEF Permutation
  <2> QED BY <1>6, <2>1, <2>2
<1>10. ASSUME NEW i \in 1..n, NEW j \in 1..n, i < j
       PROVE  MergeBefore(mode, source[i], source[j])
  <2>1. ~MergeBefore(mode, source[j], source[i])
    BY <1>4, <1>6, <1>10
  <2>2. f[g[i]] # f[g[j]]
    <3>1. i # j
      BY <1>1, <1>10
    <3>2. g[i] # g[j]
      BY <1>4, <3>1 DEF Permutation
    <3> QED BY <1>3, <1>6, <3>2 DEF Permutation
  <2>3. source[i].team_id = source[j].team_id
        => PerRace(mode, season) /\ source[i].race0 # source[j].race0
    <3>1. \A a, b \in 1..n : a # b /\ members[a].team_id = members[b].team_id
            => PerRace(mode, season) /\ members[a].race # members[b].race
      BY AnswerFields DEF n
    <3> QED BY <1>6, <2>2, <3>1
  <2>4. /\ source[i].team_id \in Int /\ source[j].team_id \in Int
        /\ source[i].race0 \in Int /\ source[j].race0 \in Int
        /\ source[i].version = source[j].version
    BY <1>6, RowFields
  <2> QED BY <2>1, <2>3, <2>4, TeamVersionRace DEF MergeBefore
<1> QED BY <1>1, <1>6, <1>7, <1>8, <1>9, <1>10 DEF IsSource, n, source

-----------------------------------------------------------------------------
(* The key of a team rank, and what the orders make of it. *)

LEMMA EqualKeys ==
  ASSUME season \in Seasons, NEW x, Row(x), NEW y, Row(y)
  PROVE  KeyOf(x) = KeyOf(y)
           <=> /\ x.team_id = y.team_id /\ x.version = y.version
               /\ PerRace(x.mode, season) => x.race0 = y.race0
<1>1. KeyOf(x)[1] = x.team_id /\ KeyOf(y)[1] = y.team_id
  BY DEF KeyOf
<1>2. x.team_id = y.team_id => x.mode = y.mode
  BY OneMode
<1>3. CASE x.mode = y.mode
  <2>1. CASE PerRace(x.mode, season)
    BY <1>3, <2>1 DEF KeyOf
  <2>2. CASE ~PerRace(x.mode, season)
    BY <1>3, <2>2 DEF KeyOf
  <2> QED BY <2>1, <2>2
<1>4. CASE x.mode # y.mode
  BY <1>1, <1>2, <1>4
<1> QED BY <1>3, <1>4

LEMMA TiedInMerge ==
  ASSUME season \in Seasons, NEW x, Row(x), NEW y, Row(y)
  PROVE  ~MergeBefore(x.mode, x, y) /\ ~MergeBefore(x.mode, y, x) <=> KeyOf(x) = KeyOf(y)
<1>1. /\ x.team_id \in Int /\ x.version \in Int /\ x.race0 \in Int
      /\ y.team_id \in Int /\ y.version \in Int /\ y.race0 \in Int
  BY RowFields DEF Row
<1> QED BY <1>1, EqualKeys, TeamVersionRace DEF MergeBefore

LEMMA MergeIsCoarser ==
  ASSUME NEW mode, NEW x, NEW y, MergeBefore(mode, x, y)
  PROVE  BeforeByTeamVersionRace(x, y)
BY TeamVersionRace DEF MergeBefore

LEMMA KeysAreOrdered ==
  ASSUME season \in Seasons, NEW x, Row(x), NEW y, Row(y), KeyOf(x) # KeyOf(y)
  PROVE  BeforeByTeamVersionRace(x, y) \/ BeforeByTeamVersionRace(y, x)
<1>1. /\ x.team_id \in Int /\ x.version \in Int /\ x.race0 \in Int
      /\ y.team_id \in Int /\ y.version \in Int /\ y.race0 \in Int
  BY RowFields DEF Row
<1> QED BY <1>1, EqualKeys, TeamVersionRace

\* The order of two ranks is that of their keys.
LEMMA OrderedByKeys ==
  ASSUME season \in Seasons, NEW x, Row(x), NEW y, Row(y), NEW u, Row(u), NEW v, Row(v),
         KeyOf(u) = KeyOf(x), KeyOf(v) = KeyOf(y), KeyOf(x) # KeyOf(y),
         BeforeByTeamVersionRace(x, y)
  PROVE  BeforeByTeamVersionRace(u, v)
<1>1. /\ x.team_id \in Int /\ x.version \in Int /\ x.race0 \in Int
      /\ y.team_id \in Int /\ y.version \in Int /\ y.race0 \in Int
  BY RowFields DEF Row
<1>2. /\ u.team_id = x.team_id /\ u.version = x.version
      /\ v.team_id = y.team_id /\ v.version = y.version
      /\ PerRace(x.mode, season) => u.race0 = x.race0
      /\ PerRace(y.mode, season) => v.race0 = y.race0
  <2>1. /\ KeyOf(x) = KeyOf(u) => u.team_id = x.team_id /\ u.version = x.version
                                  /\ (PerRace(x.mode, season) => u.race0 = x.race0)
        /\ KeyOf(y) = KeyOf(v) => v.team_id = y.team_id /\ v.version = y.version
                                  /\ (PerRace(y.mode, season) => v.race0 = y.race0)
    BY EqualKeys
  <2> QED BY <2>1
<1>3. x.team_id = y.team_id => x.mode = y.mode
  BY OneMode
<1>4. ~(/\ x.team_id = y.team_id /\ x.version = y.version
        /\ PerRace(x.mode, season) => x.race0 = y.race0)
  BY EqualKeys
<1>5. \/ x.team_id < y.team_id
      \/ x.team_id = y.team_id /\ x.version < y.version
      \/ x.team_id = y.team_id /\ x.version = y.version /\ x.race0 < y.race0
  BY TeamVersionRace
<1>6. \/ u.team_id < v.team_id
      \/ u.team_id = v.team_id /\ u.version < v.version
      \/ u.team_id = v.team_id /\ u.version = v.version /\ u.race0 < v.race0
  BY <1>1, <1>2, <1>3, <1>4, <1>5
<1> QED BY <1>6, TeamVersionRace

-----------------------------------------------------------------------------
(* The merge. *)

IsConcatenation(c, a, p, b, q, S) ==
  /\ c \in [1..(p + q) -> S]
  /\ \A i \in 1..p : c[i] = a[i]
  /\ \A i \in 1..q : c[p + i] = b[i]

LEMMA Concatenation ==
  ASSUME NEW S, NEW p \in Nat, NEW q \in Nat, NEW a \in [1..p -> S], NEW b \in [1..q -> S]
  PROVE  IsConcatenation(a \o b, a, p, b, q, S)
<1>1. a \in Seq(S) /\ b \in Seq(S) /\ Len(a) = p /\ Len(b) = q
  OBVIOUS
<1>2. a \o b \in Seq(S) /\ Len(a \o b) = p + q
  BY <1>1
<1>3. a \o b \in [1..(p + q) -> S]
  BY <1>2, LenProperties
<1>4. ASSUME NEW i \in 1..p PROVE (a \o b)[i] = a[i]
  BY <1>1
<1>5. ASSUME NEW i \in 1..q PROVE (a \o b)[p + i] = b[i]
  <2>1. p + i \in 1..(p + q) /\ ~(p + i <= p) /\ (p + i) - p = i
    OBVIOUS
  <2> QED BY <1>1, <2>1
<1> QED BY <1>3, <1>4, <1>5 DEF IsConcatenation

\* What merging gives: for every key one rank, in order, that of the ladder if it has one.
IsMergeOf(N, merged, target, n, source, m) ==
  /\ merged \in [1..N -> TeamRank]
  /\ \A i \in 1..N : Row(merged[i])
  /\ \A i, j \in 1..N : i < j => BeforeByTeamVersionRace(merged[i], merged[j])
  /\ \A i, j \in 1..N : KeyOf(merged[i]) = KeyOf(merged[j]) => i = j
  /\ \A i \in 1..N : \/ \E k \in 1..m : merged[i] = source[k]
                     \/ \E k \in 1..n : /\ merged[i] = target[k]
                                        /\ \A j \in 1..m : KeyOf(target[k]) # KeyOf(source[j])
  /\ \A k \in 1..m : \E i \in 1..N : merged[i] = source[k]
  /\ \A k \in 1..n : (\A j \in 1..m : KeyOf(target[k]) # KeyOf(source[j]))
                       => \E i \in 1..N : merged[i] = target[k]

IsMerge(merged, target, n, source, m) ==
  \E N \in Nat : IsMergeOf(N, merged, target, n, source, m)

LEMMA MergeMerges ==
  ASSUME season \in Seasons, NEW mode,
         NEW n \in Nat, NEW target \in [1..n -> TeamRank],
         \A i \in 1..n : Row(target[i]),
         \A i, j \in 1..n : i < j => BeforeByTeamVersionRace(target[i], target[j]),
         \A i, j \in 1..n : KeyOf(target[i]) = KeyOf(target[j]) => i = j,
         NEW m \in Nat, NEW source \in [1..m -> TeamRank],
         \A i \in 1..m : Row(source[i]) /\ source[i].mode = mode,
         \A i, j \in 1..m : i < j => MergeBefore(mode, source[i], source[j])
  PROVE  IsMerge(Merged(mode, target, source), target, n, source, m)
<1> DEFINE Same(x, y) == ~MergeBefore(mode, x, y) /\ ~MergeBefore(mode, y, x)
           Nth(s, i) == Cardinality({j \in 1..i : Same(s[j], s[i])})
           Match(i, k) == Same(source[i], target[k]) /\ Nth(source, i) = Nth(target, k)
           replaced == [k \in DOMAIN target |->
                          IF \E i \in DOMAIN source : Match(i, k)
                          THEN source[CHOOSE i \in DOMAIN source : Match(i, k)]
                          ELSE target[k]]
           added == {i \in DOMAIN source : ~(\E k \in DOMAIN target : Match(i, k))}
           between == {i \in added : \E k \in DOMAIN target : MergeBefore(mode, source[i], target[k])}
           all == replaced \o Selection(source, added \ between) \o Selection(source, between)
<1>1. Merged(mode, target, source) = IF between = {} THEN all ELSE InTeamOrder(all)
  BY DEF Merged
<1>2. DOMAIN target = 1..n /\ DOMAIN source = 1..m
  OBVIOUS
\* Nobody is twice in the ladder.
<1>3. ASSUME NEW i \in 1..m, NEW j \in 1..m, KeyOf(source[i]) = KeyOf(source[j])
      PROVE  i = j
  <2>1. ~MergeBefore(mode, source[i], source[j]) /\ ~MergeBefore(mode, source[j], source[i])
    BY <1>3, TiedInMerge
  <2>2. i < j \/ j < i \/ i = j
    OBVIOUS
  <2> QED BY <2>1, <2>2
\* So what matches is what has the same key.
<1>4. ASSUME NEW i \in 1..m, NEW k \in 1..n
      PROVE  Match(i, k) <=> KeyOf(source[i]) = KeyOf(target[k])
  <2>1. Same(source[i], target[k]) <=> KeyOf(source[i]) = KeyOf(target[k])
    BY TiedInMerge
  <2>2. ASSUME KeyOf(source[i]) = KeyOf(target[k])
        PROVE  Nth(source, i) = 1 /\ Nth(target, k) = 1
    <3>1. target[k].mode = mode
      <4>1. source[i].team_id = target[k].team_id
        BY <2>2, EqualKeys
      <4> QED BY <4>1, OneMode
    <3>2. {j \in 1..i : Same(source[j], source[i])} = {i}
      <4>1. \A j \in 1..i : j \in 1..m /\ (Same(source[j], source[i])
                                           <=> KeyOf(source[j]) = KeyOf(source[i]))
        BY TiedInMerge
      <4> HIDE DEF Same
      <4> QED BY <1>3, <4>1
    <3>3. {j \in 1..k : Same(target[j], target[k])} = {k}
      <4>1. \A j \in 1..k : j \in 1..n /\ (Same(target[j], target[k])
                                           <=> KeyOf(target[k]) = KeyOf(target[j]))
        BY <3>1, TiedInMerge
      <4> HIDE DEF Same
      <4> QED BY <4>1
    <3> HIDE DEF Same
    <3> QED BY <3>2, <3>3, FS_Singleton
  <2> HIDE DEF Same, Nth
  <2> QED BY <2>1, <2>2 DEF Match
<1>5. /\ replaced = [k \in 1..n |-> replaced[k]]
      /\ \A k \in 1..n : \/ /\ \A i \in 1..m : KeyOf(source[i]) # KeyOf(target[k])
                            /\ replaced[k] = target[k]
                         \/ \E i \in 1..m : /\ KeyOf(source[i]) = KeyOf(target[k])
                                            /\ replaced[k] = source[i]
  <2> HIDE DEF Match
  <2>1. ASSUME NEW k \in 1..n
        PROVE  \/ /\ \A i \in 1..m : KeyOf(source[i]) # KeyOf(target[k])
                  /\ replaced[k] = target[k]
               \/ \E i \in 1..m : /\ KeyOf(source[i]) = KeyOf(target[k])
                                  /\ replaced[k] = source[i]
    <3>1. CASE \E i \in 1..m : Match(i, k)
      <4> DEFINE i == CHOOSE i \in 1..m : Match(i, k)
      <4>1. i \in 1..m /\ Match(i, k)
        BY <3>1
      <4>2. replaced[k] = source[i]
        BY <1>2, <3>1
      <4> HIDE DEF i, replaced
      <4> QED BY <1>4, <4>1, <4>2
    <3>2. CASE ~(\E i \in 1..m : Match(i, k))
      <4>1. replaced[k] = target[k]
        BY <1>2, <3>2
      <4> HIDE DEF replaced
      <4> QED BY <1>4, <3>2, <4>1
    <3> QED BY <3>1, <3>2
  <2>2. replaced = [k \in 1..n |-> replaced[k]]
    BY <1>2
  <2> HIDE DEF replaced
  <2> QED BY <2>1, <2>2
<1>6. /\ added \in SUBSET (1..m) /\ between \in SUBSET added
      /\ \A i \in 1..m : i \in added <=> \A k \in 1..n : KeyOf(source[i]) # KeyOf(target[k])
  <2> HIDE DEF Match
  <2> QED BY <1>2, <1>4
<1>7. between = {} => \A i \in added, k \in 1..n : ~MergeBefore(mode, source[i], target[k])
  <2> HIDE DEF added
  <2> QED BY <1>2
<1> HIDE DEF Match, Same, Nth, replaced, added, between
<1>8. /\ replaced \in [1..n -> TeamRank]
      /\ \A k \in 1..n : Row(replaced[k]) /\ KeyOf(replaced[k]) = KeyOf(target[k])
  <2>1. \A k \in 1..n : /\ replaced[k] \in TeamRank /\ Row(replaced[k])
                        /\ KeyOf(replaced[k]) = KeyOf(target[k])
    BY <1>5
  <2> QED BY <1>5, <2>1
\* What is new is appended, and what is in between comes last.
<1>9. PICK b, h :
        /\ b \in Nat /\ h \in [1..b -> added]
        /\ all \in [1..(n + b) -> TeamRank]
        /\ \A i \in 1..n : all[i] = replaced[i]
        /\ \A i \in 1..b : all[n + i] = source[h[i]]
        /\ \A i, j \in 1..b : h[i] = h[j] => i = j
        /\ \A k \in added : \E i \in 1..b : h[i] = k
        /\ between = {} => \A i, j \in 1..b : i < j => h[i] < h[j]
  <2> DEFINE u == Cardinality(added \ between)
             v == Cardinality(between)
  <2>1. IsFiniteSet(1..m)
    BY FS_Interval
  <2>2. /\ added \ between \in SUBSET Int /\ IsFiniteSet(added \ between)
        /\ between \in SUBSET Int /\ IsFiniteSet(between)
    <3>1. added \ between \in SUBSET (1..m) /\ between \in SUBSET (1..m)
      BY <1>6
    <3>2. IsFiniteSet(added \ between) /\ IsFiniteSet(between)
      BY <2>1, <3>1, FS_Subset
    <3>3. added \ between \in SUBSET Int /\ between \in SUBSET Int
      BY <3>1
    <3> QED BY <3>2, <3>3
  <2>0. u = Cardinality(added \ between) /\ v = Cardinality(between)
    OBVIOUS
  <2>5. between = {} => v = 0
    BY FS_EmptySet
  <2> HIDE DEF u, v
  <2>3. u \in Nat /\ \E f : Selects(f, source, added \ between, u)
    BY <2>2, <2>0, SelectionSelects
  <2>4. v \in Nat /\ \E g : Selects(g, source, between, v)
    BY <2>2, <2>0, SelectionSelects
  <2>6. PICK f : /\ f \in [1..u -> added \ between]
                 /\ \A p, q \in 1..u : p < q <=> f[p] < f[q]
                 /\ \A i \in added \ between : \E p \in 1..u : f[p] = i
                 /\ Selection(source, added \ between) = [p \in 1..u |-> source[f[p]]]
    BY <2>3 DEF Selects
  <2>7. PICK g : /\ g \in [1..v -> between]
                 /\ \A p, q \in 1..v : p < q <=> g[p] < g[q]
                 /\ \A i \in between : \E p \in 1..v : g[p] = i
                 /\ Selection(source, between) = [p \in 1..v |-> source[g[p]]]
    BY <2>4 DEF Selects
  <2> DEFINE a1 == Selection(source, added \ between)
             a2 == Selection(source, between)
             h == [i \in 1..(u + v) |-> IF i <= u THEN f[i] ELSE g[i - u]]
  <2>8. a1 \in [1..u -> TeamRank] /\ a2 \in [1..v -> TeamRank]
    <3>1. \A i \in 1..u : source[f[i]] \in TeamRank
      BY <1>6, <2>6
    <3>2. \A i \in 1..v : source[g[i]] \in TeamRank
      BY <1>6, <2>7
    <3>3. a1 = [p \in 1..u |-> source[f[p]]] /\ a2 = [p \in 1..v |-> source[g[p]]]
      BY <2>6, <2>7
    <3> HIDE DEF a1, a2
    <3>4. a1 \in [1..u -> TeamRank]
      BY <3>1, <3>3
    <3>5. a2 \in [1..v -> TeamRank]
      BY <3>2, <3>3
    <3> QED BY <3>4, <3>5
  <2>9. /\ \A i \in 1..u : a1[i] = source[f[i]] /\ f[i] \in 1..m /\ f[i] \in added /\ f[i] \notin between
        /\ \A i \in 1..v : a2[i] = source[g[i]] /\ g[i] \in 1..m /\ g[i] \in added /\ g[i] \in between
    BY <1>6, <2>6, <2>7
  <2> HIDE DEF a1, a2
  <2>10. /\ replaced \o a1 \in [1..(n + u) -> TeamRank]
         /\ \A i \in 1..n : (replaced \o a1)[i] = replaced[i]
         /\ \A i \in 1..u : (replaced \o a1)[n + i] = a1[i]
    <3>1. IsConcatenation(replaced \o a1, replaced, n, a1, u, TeamRank)
      BY <1>8, <2>3, <2>8, Concatenation
    <3> QED BY <3>1 DEF IsConcatenation
  <2> DEFINE r == replaced \o a1
  <2>11. n + u \in Nat
    BY <2>3
  <2> HIDE DEF r
  <2>12. /\ r \o a2 \in [1..((n + u) + v) -> TeamRank]
         /\ \A i \in 1..(n + u) : (r \o a2)[i] = r[i]
         /\ \A i \in 1..v : (r \o a2)[(n + u) + i] = a2[i]
    <3>1. IsConcatenation(r \o a2, r, n + u, a2, v, TeamRank)
      BY <2>4, <2>8, <2>10, <2>11, Concatenation DEF r
    <3> QED BY <3>1 DEF IsConcatenation
  <2>13. all = r \o a2
    BY DEF r, a1, a2
  <2> HIDE DEF all
  <2>14. h = [i \in 1..(u + v) |-> h[i]]
         /\ \A i \in 1..(u + v) : \/ i \in 1..u /\ h[i] = f[i]
                                  \/ i - u \in 1..v /\ i > u /\ h[i] = g[i - u]
    BY <2>3, <2>4
  <2>15. \A i \in 1..v : u + i \in 1..(u + v) /\ h[u + i] = g[i]
    BY <2>3, <2>4
  <2>16. \A i \in 1..u : i \in 1..(u + v) /\ h[i] = f[i]
    BY <2>3, <2>4
  <2> HIDE DEF h
  <2>17. h \in [1..(u + v) -> added]
    BY <2>9, <2>14
  <2>18. \A i \in 1..n : all[i] = replaced[i]
    BY <2>3, <2>10, <2>12, <2>13 DEF r
  <2>19. ASSUME NEW i \in 1..(u + v)
         PROVE  all[n + i] = source[h[i]]
    <3>1. CASE i \in 1..u
      <4>1. n + i \in 1..(n + u)
        BY <2>3, <3>1
      <4>2. r[n + i] = a1[i]
        BY <2>10, <3>1 DEF r
      <4>3. all[n + i] = r[n + i]
        <5> DEFINE c == r \o a2
        <5>1. \A k \in 1..(n + u) : c[k] = r[k]
          BY <2>12
        <5>2. all = c
          BY <2>13
        <5> HIDE DEF c
        <5> QED BY <4>1, <5>1, <5>2
      <4> QED BY <2>9, <2>16, <3>1, <4>2, <4>3
    <3>2. CASE i - u \in 1..v
      <4>1. n + i = (n + u) + (i - u) /\ i = u + (i - u)
        BY <2>3
      <4>2. all[(n + u) + (i - u)] = a2[i - u]
        <5> DEFINE c == r \o a2
        <5>1. \A k \in 1..v : c[(n + u) + k] = a2[k]
          BY <2>12
        <5>2. all = c
          BY <2>13
        <5> HIDE DEF c
        <5> QED BY <3>2, <5>1, <5>2
      <4>3. h[i] = g[i - u]
        BY <2>15, <3>2, <4>1
      <4> QED BY <2>9, <3>2, <4>1, <4>2, <4>3
    <3> QED BY <2>14, <3>1, <3>2
  <2>20. \A i, j \in 1..(u + v) : h[i] = h[j] => i = j
    <3>1. \A i, j \in 1..u : f[i] = f[j] => i = j
      BY <2>3, <2>6, <1>6
    <3>2. \A i, j \in 1..v : g[i] = g[j] => i = j
      BY <2>4, <2>7, <1>6
    <3>3. \A i \in 1..(u + v) : IF i \in 1..u THEN h[i] = f[i] /\ h[i] \notin between
                               ELSE i - u \in 1..v /\ h[i] = g[i - u] /\ h[i] \in between
      <4>1. \A i \in 1..(u + v) : /\ i \in 1..u <=> i <= u
                                 /\ i \notin 1..u => i - u \in 1..v
        BY <2>3, <2>4
      <4>2. ASSUME NEW i \in 1..(u + v), i \in 1..u PROVE h[i] = f[i] /\ h[i] \notin between
        BY <2>9, <2>16, <4>2
      <4>3. ASSUME NEW i \in 1..(u + v), i \notin 1..u
            PROVE  i - u \in 1..v /\ h[i] = g[i - u] /\ h[i] \in between
        <5>1. i - u \in 1..v /\ h[i] = g[i - u]
          BY <2>14, <4>3
        <5> QED BY <2>9, <5>1
      <4> QED BY <4>2, <4>3
    <3> HIDE DEF h
    <3>4. ASSUME NEW i \in 1..(u + v), NEW j \in 1..(u + v), h[i] = h[j] PROVE i = j
      <4>1. CASE i \in 1..u
        BY <3>1, <3>3, <3>4, <4>1
      <4>2. CASE i \notin 1..u
        <5>1. j \notin 1..u /\ i - u \in 1..v /\ j - u \in 1..v /\ g[i - u] = g[j - u]
          BY <3>3, <3>4, <4>2
        <5>2. i - u = j - u
          BY <3>2, <5>1
        <5> QED BY <2>3, <5>2
      <4> QED BY <4>1, <4>2
    <3> QED BY <3>4
  <2>21. \A k \in added : \E i \in 1..(u + v) : h[i] = k
    BY <2>6, <2>7, <2>15, <2>16
  <2>22. between = {} => \A i, j \in 1..(u + v) : i < j => h[i] < h[j]
    <3> SUFFICES ASSUME between = {}
                 PROVE  \A i, j \in 1..(u + v) : i < j => h[i] < h[j]
      OBVIOUS
    <3>1. u + v = u
      BY <2>3, <2>5
    <3> QED BY <2>6, <2>16, <3>1
  <2>23. u + v \in Nat /\ n + (u + v) = (n + u) + v
    BY <2>3, <2>4
  <2> QED BY <2>12, <2>13, <2>17, <2>18, <2>19, <2>20, <2>21, <2>22, <2>23
<1> HIDE DEF all
<1> DEFINE N == n + b
<1>10. N \in Nat /\ \A i \in 1..N : i \in 1..n \/ (i - n \in 1..b /\ i = n + (i - n))
  BY <1>9
<1>11. ASSUME NEW i \in 1..b
       PROVE  /\ h[i] \in added /\ h[i] \in 1..m /\ n + i \in 1..N
              /\ all[n + i] = source[h[i]] /\ Row(all[n + i])
              /\ \A k \in 1..n : KeyOf(all[n + i]) # KeyOf(target[k])
  <2>1. n + i \in 1..N
    BY <1>9
  <2>2. h[i] \in added /\ h[i] \in 1..m /\ all[n + i] = source[h[i]]
    BY <1>6, <1>9
  <2> QED BY <1>6, <2>1, <2>2
<1>12. ASSUME NEW i \in 1..n
       PROVE  /\ i \in 1..N /\ Row(all[i]) /\ all[i] = replaced[i]
              /\ KeyOf(all[i]) = KeyOf(target[i])
  BY <1>8, <1>9
<1>13. \A i \in 1..N : Row(all[i])
  BY <1>10, <1>11, <1>12
<1>14. ASSUME NEW i \in 1..N, NEW j \in 1..N, KeyOf(all[i]) = KeyOf(all[j])
       PROVE  i = j
  <2>1. CASE i \in 1..n /\ j \in 1..n
    BY <1>12, <1>14, <2>1
  <2>2. CASE i \in 1..n /\ j - n \in 1..b /\ j = n + (j - n)
    BY <1>11, <1>12, <1>14, <2>2
  <2>3. CASE j \in 1..n /\ i - n \in 1..b /\ i = n + (i - n)
    BY <1>11, <1>12, <1>14, <2>3
  <2>4. CASE i - n \in 1..b /\ i = n + (i - n) /\ j - n \in 1..b /\ j = n + (j - n)
    <3>1. KeyOf(source[h[i - n]]) = KeyOf(source[h[j - n]])
      BY <1>11, <1>14, <2>4
    <3>2. h[i - n] = h[j - n]
      BY <1>3, <1>11, <2>4, <3>1
    <3>3. i - n = j - n
      BY <1>9, <2>4, <3>2
    <3> QED BY <2>4, <3>3
  <2> QED BY <1>10, <2>1, <2>2, <2>3, <2>4
<1>15. ASSUME NEW i \in 1..N
       PROVE  \/ \E k \in 1..m : all[i] = source[k]
              \/ \E k \in 1..n : /\ all[i] = target[k]
                                 /\ \A j \in 1..m : KeyOf(target[k]) # KeyOf(source[j])
  <2>1. CASE i \in 1..n
    BY <1>5, <1>12, <2>1
  <2>2. CASE i - n \in 1..b /\ i = n + (i - n)
    BY <1>11, <2>2
  <2> QED BY <1>10, <2>1, <2>2
<1>16. ASSUME NEW k \in 1..m
       PROVE  \E i \in 1..N : all[i] = source[k]
  <2>1. CASE k \in added
    BY <1>9, <1>11, <2>1
  <2>2. CASE k \notin added
    <3>1. PICK i \in 1..n : KeyOf(source[k]) = KeyOf(target[i])
      BY <1>6, <2>2
    <3>2. PICK j \in 1..m : KeyOf(source[j]) = KeyOf(target[i]) /\ replaced[i] = source[j]
      BY <1>5, <3>1
    <3>3. j = k
      BY <1>3, <3>1, <3>2
    <3> QED BY <1>12, <3>2, <3>3
  <2> QED BY <2>1, <2>2
<1>17. ASSUME NEW k \in 1..n, \A j \in 1..m : KeyOf(target[k]) # KeyOf(source[j])
       PROVE  \E i \in 1..N : all[i] = target[k]
  <2>1. replaced[k] = target[k]
    BY <1>5, <1>17
  <2> QED BY <1>12, <2>1
\* Appended, the new ones are in order.
<1>18. CASE between = {}
  <2>1. ASSUME NEW i \in 1..N, NEW j \in 1..N, i < j
        PROVE  BeforeByTeamVersionRace(all[i], all[j])
    <3>1. CASE i \in 1..n /\ j \in 1..n
      <4>1. BeforeByTeamVersionRace(target[i], target[j]) /\ KeyOf(target[i]) # KeyOf(target[j])
        BY <2>1, <3>1
      <4> QED BY <1>12, <3>1, <4>1, OrderedByKeys
    <3>2. CASE i \in 1..n /\ j - n \in 1..b /\ j = n + (j - n)
      <4> DEFINE k == h[j - n]
      <4>1. /\ k \in added /\ k \in 1..m /\ all[j] = source[k]
            /\ KeyOf(all[j]) # KeyOf(target[i])
        BY <1>11, <3>2
      <4>2. ~MergeBefore(mode, source[k], target[i])
        BY <1>7, <1>18, <3>2, <4>1
      <4>3. MergeBefore(mode, target[i], source[k])
        BY <3>2, <4>1, <4>2, TiedInMerge
      <4>4. BeforeByTeamVersionRace(target[i], source[k])
        BY <4>3, MergeIsCoarser
      <4> HIDE DEF k
      <4> QED BY <1>12, <3>2, <4>1, <4>4, OrderedByKeys
    <3>3. CASE j \in 1..n /\ i - n \in 1..b
      BY <2>1, <3>3
    <3>4. CASE i - n \in 1..b /\ i = n + (i - n) /\ j - n \in 1..b /\ j = n + (j - n)
      <4>1. h[i - n] < h[j - n]
        BY <1>9, <1>18, <2>1, <3>4
      <4>2. MergeBefore(mode, source[h[i - n]], source[h[j - n]])
        BY <1>11, <3>4, <4>1
      <4>3. BeforeByTeamVersionRace(source[h[i - n]], source[h[j - n]])
        BY <4>2, MergeIsCoarser
      <4> QED BY <1>11, <3>4, <4>3
    <3> QED BY <1>10, <3>1, <3>2, <3>3, <3>4
  <2>2. Merged(mode, target, source) = all
    BY <1>1, <1>18
  <2> HIDE DEF N
  <2>3. all \in [1..N -> TeamRank]
    BY <1>9 DEF N
  <2>4. IsMergeOf(N, all, target, n, source, m)
    BY <1>13, <1>14, <1>15, <1>16, <1>17, <2>1, <2>3 DEF IsMergeOf
  <2> QED BY <1>10, <2>2, <2>4 DEF IsMerge
\* Sorted, all are.
<1>19. CASE between # {}
  <2> DEFINE sorted == InTeamOrder(all)
  <2>1. all \in [1..N -> TeamRank]
    BY <1>9
  <2> HIDE DEF N
  <2>2. PICK perm : /\ Permutation(N, perm)
                    /\ sorted = [p \in 1..N |-> all[perm[p]]]
                    /\ \A p, q \in 1..N : p < q
                         => ~BeforeByTeamVersionRace(all[perm[q]], all[perm[p]])
    BY <1>10, <2>1, TeamOrderSorts
  <2> HIDE DEF sorted
  <2>3. /\ \A i \in 1..N : perm[i] \in 1..N /\ sorted[i] = all[perm[i]]
        /\ \A i, j \in 1..N : perm[i] = perm[j] => i = j
        /\ \A i \in 1..N : \E p \in 1..N : perm[p] = i
    BY <2>2 DEF Permutation
  <2>4. sorted \in [1..N -> TeamRank]
    BY <2>1, <2>2, <2>3
  <2>5. ASSUME NEW i \in 1..N, NEW j \in 1..N, KeyOf(sorted[i]) = KeyOf(sorted[j])
        PROVE  i = j
    <3>1. KeyOf(all[perm[i]]) = KeyOf(all[perm[j]])
      BY <2>3, <2>5
    <3>2. perm[i] = perm[j]
      BY <1>14, <2>3, <3>1
    <3> QED BY <2>3, <3>2
  <2>6. ASSUME NEW i \in 1..N, NEW j \in 1..N, i < j
        PROVE  BeforeByTeamVersionRace(sorted[i], sorted[j])
    <3>1. ~BeforeByTeamVersionRace(sorted[j], sorted[i])
      BY <2>2, <2>3, <2>6
    <3>2. KeyOf(sorted[i]) # KeyOf(sorted[j])
      BY <1>10, <2>5, <2>6
    <3>3. Row(sorted[i]) /\ Row(sorted[j])
      BY <1>13, <2>3
    <3> QED BY <3>1, <3>2, <3>3, KeysAreOrdered
  <2>7. Merged(mode, target, source) = sorted
    BY <1>1, <1>19 DEF sorted
  <2>8. \A i \in 1..N : Row(sorted[i])
    BY <1>13, <2>3
  <2>9. ASSUME NEW i \in 1..N
        PROVE  \/ \E k \in 1..m : sorted[i] = source[k]
               \/ \E k \in 1..n : /\ sorted[i] = target[k]
                                  /\ \A j \in 1..m : KeyOf(target[k]) # KeyOf(source[j])
    <3>1. perm[i] \in 1..N /\ sorted[i] = all[perm[i]]
      BY <2>3
    <3> QED BY <1>15, <3>1
  <2>10. ASSUME NEW k \in 1..m PROVE \E i \in 1..N : sorted[i] = source[k]
    <3>1. PICK i \in 1..N : all[i] = source[k]
      BY <1>16
    <3>2. PICK p \in 1..N : perm[p] = i
      BY <2>3
    <3> QED BY <2>3, <3>1, <3>2
  <2>11. ASSUME NEW k \in 1..n, \A j \in 1..m : KeyOf(target[k]) # KeyOf(source[j])
         PROVE  \E i \in 1..N : sorted[i] = target[k]
    <3>1. PICK i \in 1..N : all[i] = target[k]
      BY <1>17, <2>11
    <3>2. PICK p \in 1..N : perm[p] = i
      BY <2>3
    <3> QED BY <2>3, <3>1, <3>2
  <2>12. IsMergeOf(N, sorted, target, n, source, m)
    BY <2>4, <2>5, <2>6, <2>8, <2>9, <2>10, <2>11 DEF IsMergeOf
  <2> QED BY <1>10, <2>7, <2>12 DEF IsMerge
<1> QED BY <1>18, <1>19

-----------------------------------------------------------------------------
(* The team ranks between two calls. *)

RowsOf(s, n) ==
  /\ s \in [1..n -> TeamRank]
  /\ \A i \in 1..n : Row(s[i])
  /\ \A i, j \in 1..n : i < j => BeforeByTeamVersionRace(s[i], s[j])
  /\ \A i, j \in 1..n : KeyOf(s[i]) = KeyOf(s[j]) => i = j

\* A rank is of a ladder that had its team, and nothing is there twice.
RowsInv == season \in Seasons /\ \E n \in Nat : RowsOf(team_ranks, n)

LEMMA LadderMerges ==
  ASSUME NEW n \in Nat, RowsOf(team_ranks, n), season \in Seasons,
         NEW l \in Ladders, NEW members \in Answers(l, season)
  PROVE  IsMerge(Merged(LadderInfo[l].mode, team_ranks, Source(l, members)),
                 team_ranks, n, Source(l, members), Len(members))
<1> DEFINE source == Source(l, members)
           m == Len(members)
           mode == LadderInfo[l].mode
<1>1. /\ m \in Nat /\ source \in [1..m -> TeamRank]
      /\ \A i \in 1..m : Row(source[i]) /\ source[i].mode = mode
      /\ \A i, j \in 1..m : i < j => MergeBefore(mode, source[i], source[j])
  BY LadderIsSource DEF IsSource
<1>2. /\ team_ranks \in [1..n -> TeamRank]
      /\ \A i \in 1..n : Row(team_ranks[i])
      /\ \A i, j \in 1..n : i < j => BeforeByTeamVersionRace(team_ranks[i], team_ranks[j])
      /\ \A i, j \in 1..n : KeyOf(team_ranks[i]) = KeyOf(team_ranks[j]) => i = j
  BY DEF RowsOf
<1> HIDE DEF source, m, mode
<1>3. IsMerge(Merged(mode, team_ranks, source), team_ranks, n, source, m)
  BY <1>1, <1>2, MergeMerges
<1> QED BY <1>3 DEF source, m, mode

\* What saving does to the team ranks: other ranks, in another order.
LEMMA SameKeysInOrder ==
  ASSUME season \in Seasons, NEW n \in Nat, NEW s, RowsOf(s, n),
         NEW perm, Permutation(n, perm), NEW t \in [1..n -> TeamRank],
         \A i \in 1..n : /\ Agree(t[i], s[perm[i]])
                         /\ t[i].ladder_rank = s[perm[i]].ladder_rank
                         /\ t[i].ladder_count = s[perm[i]].ladder_count,
         \A i, j \in 1..n : i < j => ~BeforeByTeamVersionRace(t[j], t[i])
  PROVE  RowsOf(t, n)
<1>1. ASSUME NEW i \in 1..n
      PROVE  /\ perm[i] \in 1..n /\ Row(t[i]) /\ KeyOf(t[i]) = KeyOf(s[perm[i]])
  <2>1. perm[i] \in 1..n
    BY DEF Permutation
  <2>2. Row(s[perm[i]]) /\ Agree(t[i], s[perm[i]]) /\ t[i] \in TeamRank
    BY <2>1 DEF RowsOf
  <2>3. KeyOf(t[i]) = KeyOf(s[perm[i]])
    BY <2>2 DEF KeyOf, Agree
  <2>4. Row(t[i])
    BY <2>2 DEF Row, Listed, Agree
  <2> QED BY <2>1, <2>3, <2>4
<1>2. ASSUME NEW i \in 1..n, NEW j \in 1..n, KeyOf(t[i]) = KeyOf(t[j])
      PROVE  i = j
  <2>1. perm[i] = perm[j]
    BY <1>1, <1>2 DEF RowsOf
  <2> QED BY <2>1 DEF Permutation
<1>3. ASSUME NEW i \in 1..n, NEW j \in 1..n, i < j
      PROVE  BeforeByTeamVersionRace(t[i], t[j])
  <2>1. KeyOf(t[i]) # KeyOf(t[j])
    BY <1>2, <1>3
  <2>2. ~BeforeByTeamVersionRace(t[j], t[i]) /\ Row(t[i]) /\ Row(t[j])
    BY <1>1, <1>3
  <2> QED BY <2>1, <2>2, KeysAreOrdered
<1> QED BY <1>1, <1>2, <1>3 DEF RowsOf

-----------------------------------------------------------------------------
(* Ranks. *)

\* The ranks of a version and mode, of all or of one region, and of all or of one
\* league of it.
Beside(s, x, region, league) ==
  {j \in DOMAIN s : /\ SameGroup(s[j], x)
                    /\ region = NOT_SET \/ s[j].region = region
                    /\ league = NOT_SET \/ s[j].league = league}

Ahead1(s, x, region, league) == {j \in Beside(s, x, region, league) : Better(s[j], x)}

RankRight(rank, count, s, x, region, league) ==
  /\ rank = 1 + Cardinality(Ahead1(s, x, region, league))
  /\ count = Cardinality(Beside(s, x, region, league))

\* A sequence in global order gets the right ranks.
RankedRight(s, i, region, league) ==
  LET c == StrictOrder(region, league)
      group == {j \in DOMAIN s : SameGroup(s[j], s[i])}
  IN  /\ Use(c, s[i])
      /\ SharedRank(s, {j \in group : Use(c, s[j])}, c, i)
           = 1 + Cardinality(Ahead1(s, s[i], region, league))

LEMMA GlobalRanks ==
  ASSUME NEW n \in Nat, NEW s \in [1..n -> TeamRank],
         \A i, j \in 1..n : i < j => ~BeforeInVersionMode(World, s[j], s[i]),
         NEW i \in 1..n, Use(World, s[i]),
         NEW region \in {NOT_SET, s[i].region}, NEW league \in {NOT_SET, s[i].league}
  PROVE  RankedRight(s, i, region, league)
<1> DEFINE c == StrictOrder(region, league)
           group == {j \in DOMAIN s : SameGroup(s[j], s[i])}
           used == {j \in group : Use(c, s[j])}
           x == s[i]
<1>1. /\ c.region = region /\ c.league = league /\ c.race = NOT_SET /\ c.key = SortKey(season)
      /\ World.key = SortKey(season)
  BY DEF StrictOrder, World
<1>0. c = StrictOrder(region, league)
  OBVIOUS
<1> HIDE DEF c
<1>2. \A j \in 1..n : /\ s[j] \in TeamRank /\ s[j].region # NOT_SET /\ s[j].league # NOT_SET
                      /\ s[j].region \in Nat /\ s[j].league \in Nat
  BY RowFields DEF NOT_SET
<1>3. \A j \in 1..n : Use(c, s[j]) <=> /\ SortKey(season) = "MMR" => s[j].mmr # NO_MMR
                                       /\ region \in {NOT_SET, s[j].region}
                                       /\ league \in {NOT_SET, s[j].league}
  BY <1>1 DEF Use
<1>4. SortKey(season) = "MMR" => x.mmr # NO_MMR
  BY <1>1 DEF Use
<1>5. Use(c, x)
  BY <1>3, <1>4
<1>6. \A j \in used : /\ j \in 1..n /\ SameGroup(s[j], x)
                      /\ region = NOT_SET \/ (s[j].region = region /\ x.region = region)
                      /\ league = NOT_SET \/ (s[j].league = league /\ x.league = league)
  <2>1. \A j \in used : j \in 1..n /\ SameGroup(s[j], x) /\ Use(c, s[j])
    OBVIOUS
  <2> HIDE DEF used
  <2> QED BY <1>2, <1>3, <2>1
<1>7. ASSUME NEW j \in used
      PROVE  /\ Before(c, s[j], x) <=> Better(s[j], x)
             /\ Before(c, x, s[j]) <=> Better(x, s[j])
             /\ j < i => ~Better(x, s[j])
             /\ ~(j < i) => ~Better(s[j], x)
  <2>1. /\ j \in 1..n /\ SameGroup(s[j], x)
        /\ region = NOT_SET \/ (s[j].region = region /\ x.region = region)
        /\ league = NOT_SET \/ (s[j].league = league /\ x.league = league)
    BY <1>6
  <2>2. /\ Better(s[j], x) => ~Better(x, s[j])
        /\ ~Better(x, x)
    BY <2>1, BetterOrder
  <2>3. /\ region = NOT_SET \/ s[j].region = x.region
        /\ league = NOT_SET \/ s[j].league = x.league
    BY <2>1
  <2>4. Before(c, s[j], x) <=> Better(s[j], x)
    BY <1>0, <2>2, <2>3, StrictIsByKey
  <2>5. Before(c, x, s[j]) <=> Better(x, s[j])
    BY <1>0, <2>2, <2>3, StrictIsByKey
  <2>6. j < i => ~Better(x, s[j])
    <3>1. j < i => ~BeforeInVersionMode(World, x, s[j])
      BY <2>1
    <3> QED BY <2>1, <3>1, GlobalByKey DEF SameGroup
  <2>7. i < j => ~Better(s[j], x)
    <3>1. i < j => ~BeforeInVersionMode(World, s[j], x)
      BY <2>1
    <3> QED BY <2>1, <3>1, GlobalByKey DEF SameGroup
  <2>8. j < i \/ i < j \/ i = j
    BY <2>1
  <2> QED BY <2>2, <2>4, <2>5, <2>6, <2>7, <2>8
<1>8. SharedRank(s, used, c, i)
        = 1 + Cardinality({j \in used : j < i /\ (Before(c, s[j], x) \/ Before(c, x, s[j]))})
  <2> HIDE DEF used
  <2> QED BY DEF SharedRank
<1>9. {j \in used : j < i /\ (Before(c, s[j], x) \/ Before(c, x, s[j]))}
        = {j \in used : Better(s[j], x)}
  <2> HIDE DEF used, x
  <2> QED BY <1>7
<1>10. {j \in used : Better(s[j], x)} = Ahead1(s, x, region, league)
  <2>1. ASSUME NEW j \in used
        PROVE  j \in Beside(s, x, region, league)
    <3>1. j \in DOMAIN s
      BY <1>6
    <3> HIDE DEF used
    <3> QED BY <1>6, <3>1 DEF Beside
  <2>2. ASSUME NEW j \in Beside(s, x, region, league), Better(s[j], x)
        PROVE  j \in used
    <3>1. /\ j \in 1..n /\ SameGroup(s[j], x)
          /\ region = NOT_SET \/ s[j].region = region
          /\ league = NOT_SET \/ s[j].league = league
      BY DEF Beside
    <3>2. SortKey(season) = "MMR" => s[j].mmr # NO_MMR
      BY <2>2, <3>1, NobodyIsBelowNoMmr
    <3>3. Use(c, s[j])
      BY <1>3, <3>1, <3>2
    <3> QED BY <3>1, <3>3
  <2> HIDE DEF used
  <2> QED BY <2>1, <2>2 DEF Ahead1
<1> QED BY <1>5, <1>8, <1>9, <1>10 DEF RankedRight, c

RanksRight(s) ==
  \A i \in DOMAIN s : Use(World, s[i]) =>
    /\ RankRight(s[i].world_rank, s[i].world_count, s, s[i], NOT_SET, NOT_SET)
    /\ RankRight(s[i].region_rank, s[i].region_count, s, s[i], s[i].region, NOT_SET)
    /\ RankRight(s[i].league_rank, s[i].league_count, s, s[i], s[i].region, s[i].league)

LEMMA RankedIs ==
  ASSUME NEW n \in Nat, NEW s \in [1..n -> TeamRank],
         \A i, j \in 1..n : i < j => ~BeforeInVersionMode(World, s[j], s[i])
  PROVE  /\ Ranked(s) \in [1..n -> TeamRank]
         /\ \A i \in 1..n : /\ Agree(Ranked(s)[i], s[i])
                            /\ Ranked(s)[i].ladder_rank = s[i].ladder_rank
                            /\ Ranked(s)[i].ladder_count = s[i].ladder_count
         /\ RanksRight(Ranked(s))
<1> DEFINE group(i) == {j \in DOMAIN s : SameGroup(s[j], s[i])}
           region(i) == {j \in group(i) : s[j].region = s[i].region}
           league(i) == {j \in region(i) : s[j].league = s[i].league}
           inRegion(i) == StrictOrder(s[i].region, NOT_SET)
           inLeague(i) == StrictOrder(s[i].region, s[i].league)
           Rank(i, c, old) == IF Use(c, s[i])
                              THEN SharedRank(s, {j \in group(i) : Use(c, s[j])}, c, i)
                              ELSE old
           Count(i, c, of, old) == IF Use(c, s[i]) THEN Cardinality(of) ELSE old
           t == Ranked(s)
           a1(i) == Rank(i, inLeague(i), s[i].league_rank)
           a2(i) == Count(i, inLeague(i), league(i), s[i].league_count)
           a3(i) == Rank(i, inRegion(i), s[i].region_rank)
           a4(i) == Count(i, inRegion(i), region(i), s[i].region_count)
           a5(i) == Rank(i, World, s[i].world_rank)
           a6(i) == Count(i, World, group(i), s[i].world_count)
<1>1. /\ t = [i \in 1..n |-> t[i]]
      /\ \A i \in 1..n : t[i] =
           [s[i] EXCEPT !.league_rank = a1(i), !.league_count = a2(i),
                        !.region_rank = a3(i), !.region_count = a4(i),
                        !.world_rank = a5(i), !.world_count = a6(i)]
  <2>1. DOMAIN s = 1..n
    OBVIOUS
  <2>2. t = [i \in 1..n |->
           [s[i] EXCEPT !.league_rank = a1(i), !.league_count = a2(i),
                        !.region_rank = a3(i), !.region_count = a4(i),
                        !.world_rank = a5(i), !.world_count = a6(i)]]
    BY <2>1, Zenon DEF Ranked
  <2> HIDE DEF t, a1, a2, a3, a4, a5, a6
  <2> QED BY <2>2
<1>2. ASSUME NEW i \in 1..n
      PROVE  /\ group(i) \in SUBSET (1..n) /\ i \in group(i)
             /\ i \in region(i) /\ i \in league(i)
             /\ IsFiniteSet(group(i)) /\ IsFiniteSet(region(i)) /\ IsFiniteSet(league(i))
  <2>1. IsFiniteSet(1..n)
    BY FS_Interval
  <2>2. /\ group(i) \in SUBSET (1..n) /\ region(i) \in SUBSET (1..n)
        /\ league(i) \in SUBSET (1..n)
    OBVIOUS
  <2>3. i \in group(i) /\ i \in region(i) /\ i \in league(i)
    BY DEF SameGroup
  <2> HIDE DEF group, region, league
  <2> QED BY <2>1, <2>2, <2>3, FS_Subset
<1>3. ASSUME NEW i \in 1..n
      PROVE  /\ Beside(s, s[i], NOT_SET, NOT_SET) = group(i)
             /\ Beside(s, s[i], s[i].region, NOT_SET) = region(i)
             /\ Beside(s, s[i], s[i].region, s[i].league) = league(i)
  <2>1. s[i].region # NOT_SET /\ s[i].league # NOT_SET
    BY RowFields DEF NOT_SET
  <2> QED BY <2>1 DEF Beside
<1>4. ASSUME NEW i \in 1..n, Use(World, s[i])
      PROVE  /\ Use(inRegion(i), s[i]) /\ Use(inLeague(i), s[i])
             /\ a5(i) = 1 + Cardinality(Ahead1(s, s[i], NOT_SET, NOT_SET))
             /\ a3(i) = 1 + Cardinality(Ahead1(s, s[i], s[i].region, NOT_SET))
             /\ a1(i) = 1 + Cardinality(Ahead1(s, s[i], s[i].region, s[i].league))
             /\ a6(i) = Cardinality(group(i)) /\ a4(i) = Cardinality(region(i))
             /\ a2(i) = Cardinality(league(i))
  <2>1. /\ RankedRight(s, i, NOT_SET, NOT_SET)
        /\ RankedRight(s, i, s[i].region, NOT_SET)
        /\ RankedRight(s, i, s[i].region, s[i].league)
    BY <1>4, GlobalRanks
  <2> QED BY <1>4, <2>1 DEF RankedRight, World
<1>5. ASSUME NEW i \in 1..n
      PROVE  /\ a1(i) \in Nat /\ a2(i) \in Nat /\ a3(i) \in Nat
             /\ a4(i) \in Nat /\ a5(i) \in Nat /\ a6(i) \in Nat
  <2>1. ASSUME NEW c, NEW old \in Nat
        PROVE  Rank(i, c, old) \in Nat
    <3>1. CASE Use(c, s[i])
      <4> DEFINE used == {j \in group(i) : Use(c, s[j])}
      <4>1. used \in SUBSET (1..n) /\ i \in used
        BY <1>2, <3>1
      <4>2. Rank(i, c, old) = SharedRank(s, used, c, i)
        BY <3>1
      <4> HIDE DEF used, Rank
      <4>3. SharedRank(s, used, c, i) \in 1..Cardinality(used) /\ Cardinality(used) \in Nat
        BY <4>1, SharedRankIsARank
      <4> QED BY <4>2, <4>3
    <3>2. CASE ~Use(c, s[i])
      BY <3>2
    <3> QED BY <3>1, <3>2
  <2>2. /\ Cardinality(group(i)) \in Nat /\ Cardinality(region(i)) \in Nat
        /\ Cardinality(league(i)) \in Nat
    <3> HIDE DEF group, region, league
    <3> QED BY <1>2, FS_CardinalityType
  <2>3. /\ s[i].league_rank \in Nat /\ s[i].league_count \in Nat /\ s[i].region_rank \in Nat
        /\ s[i].region_count \in Nat /\ s[i].world_rank \in Nat /\ s[i].world_count \in Nat
    BY DEF TeamRank
  <2> HIDE DEF Rank, group, region, league, inRegion, inLeague
  <2> QED BY <2>1, <2>2, <2>3
<1> HIDE DEF t, a1, a2, a3, a4, a5, a6
<1>6. ASSUME NEW i \in 1..n
      PROVE  /\ t[i] \in TeamRank /\ Agree(t[i], s[i])
             /\ t[i].league_rank = a1(i) /\ t[i].league_count = a2(i)
             /\ t[i].region_rank = a3(i) /\ t[i].region_count = a4(i)
             /\ t[i].world_rank = a5(i) /\ t[i].world_count = a6(i)
             /\ t[i].ladder_rank = s[i].ladder_rank /\ t[i].ladder_count = s[i].ladder_count
  <2>1. s[i] \in TeamRank
    OBVIOUS
  <2> DEFINE x == s[i]
             b1 == a1(i)  b2 == a2(i)  b3 == a3(i)  b4 == a4(i)  b5 == a5(i)  b6 == a6(i)
             y == [x EXCEPT !.league_rank = b1, !.league_count = b2, !.region_rank = b3,
                            !.region_count = b4, !.world_rank = b5, !.world_count = b6]
  <2>2. t[i] = y
    BY <1>1
  <2>3. /\ x \in TeamRank /\ b1 \in Nat /\ b2 \in Nat /\ b3 \in Nat
        /\ b4 \in Nat /\ b5 \in Nat /\ b6 \in Nat
    BY <1>5, <2>1
  <2> HIDE DEF x, b1, b2, b3, b4, b5, b6
  <2>4. HasRanks(y, x, b1, b2, b3, b4, b5, b6)
    BY <2>3, RanksSet
  <2> HIDE DEF y
  <2> QED BY <2>2, <2>4 DEF HasRanks, x, b1, b2, b3, b4, b5, b6
<1>7. t \in [1..n -> TeamRank]
  BY <1>1, <1>6
<1>8. ASSUME NEW i \in 1..n, NEW r, NEW l
      PROVE  /\ Beside(t, t[i], r, l) = Beside(s, s[i], r, l)
             /\ Ahead1(t, t[i], r, l) = Ahead1(s, s[i], r, l)
  <2>1. DOMAIN t = 1..n /\ DOMAIN s = 1..n
    BY <1>7
  <2>2. \A j \in 1..n : /\ SameGroup(t[j], t[i]) <=> SameGroup(s[j], s[i])
                        /\ t[j].region = s[j].region /\ t[j].league = s[j].league
                        /\ Better(t[j], t[i]) <=> Better(s[j], s[i])
    BY <1>6, BetterIsByNumbers DEF Agree, SameGroup
  <2>3. Beside(t, t[i], r, l) = Beside(s, s[i], r, l)
    BY <2>1, <2>2 DEF Beside
  <2>4. \A j \in Beside(s, s[i], r, l) : j \in 1..n
    BY <2>1 DEF Beside
  <2> QED BY <2>2, <2>3, <2>4 DEF Ahead1
<1>9. RanksRight(t)
  <2> SUFFICES ASSUME NEW i \in 1..n, Use(World, t[i])
               PROVE  /\ RankRight(t[i].world_rank, t[i].world_count, t, t[i], NOT_SET, NOT_SET)
                      /\ RankRight(t[i].region_rank, t[i].region_count, t, t[i], t[i].region, NOT_SET)
                      /\ RankRight(t[i].league_rank, t[i].league_count, t, t[i],
                                   t[i].region, t[i].league)
    BY <1>7 DEF RanksRight
  <2>1. Use(World, s[i])
    BY <1>6 DEF Use, Agree
  <2>2. t[i].region = s[i].region /\ t[i].league = s[i].league
    BY <1>6 DEF Agree
  <2> HIDE DEF group, region, league, inRegion, inLeague
  <2> QED BY <1>3, <1>4, <1>6, <1>8, <2>1, <2>2 DEF RankRight
<1> QED BY <1>6, <1>7, <1>9 DEF t

\* The ranks of a sequence in another order are as right as they were.
RanksEqual(x, y) ==
  /\ x.world_rank = y.world_rank /\ x.world_count = y.world_count
  /\ x.region_rank = y.region_rank /\ x.region_count = y.region_count
  /\ x.league_rank = y.league_rank /\ x.league_count = y.league_count

LEMMA RanksMove ==
  ASSUME NEW n \in Nat, NEW s \in [1..n -> TeamRank], NEW t \in [1..n -> TeamRank],
         NEW perm, Permutation(n, perm),
         \A i \in 1..n : Agree(t[i], s[perm[i]]) /\ RanksEqual(t[i], s[perm[i]]),
         RanksRight(s)
  PROVE  RanksRight(t)
<1>1. DOMAIN s = 1..n /\ DOMAIN t = 1..n /\ \A i \in 1..n : perm[i] \in 1..n
  BY DEF Permutation
<1>2. ASSUME NEW i \in 1..n, NEW r, NEW l
      PROVE  /\ Cardinality(Beside(t, t[i], r, l)) = Cardinality(Beside(s, s[perm[i]], r, l))
             /\ Cardinality(Ahead1(t, t[i], r, l)) = Cardinality(Ahead1(s, s[perm[i]], r, l))
  <2> DEFINE x == t[i]
             y == s[perm[i]]
  <2>1. Agree(x, y)
    OBVIOUS
  <2> HIDE DEF x, y
  <2>2. /\ Beside(t, x, r, l) \in SUBSET (1..n) /\ Beside(s, y, r, l) \in SUBSET (1..n)
        /\ Ahead1(t, x, r, l) \in SUBSET (1..n) /\ Ahead1(s, y, r, l) \in SUBSET (1..n)
    BY <1>1 DEF Beside, Ahead1
  <2>3. ASSUME NEW j \in 1..n
        PROVE  /\ j \in Beside(t, x, r, l) <=> perm[j] \in Beside(s, y, r, l)
               /\ j \in Ahead1(t, x, r, l) <=> perm[j] \in Ahead1(s, y, r, l)
    <3>1. Agree(t[j], s[perm[j]]) /\ perm[j] \in 1..n
      BY <1>1
    <3>2. /\ SameGroup(t[j], x) <=> SameGroup(s[perm[j]], y)
          /\ t[j].region = s[perm[j]].region /\ t[j].league = s[perm[j]].league
          /\ Better(t[j], x) <=> Better(s[perm[j]], y)
      BY <2>1, <3>1, BetterIsByNumbers DEF Agree, SameGroup
    <3>3. j \in Beside(t, x, r, l) <=> perm[j] \in Beside(s, y, r, l)
      BY <1>1, <3>1, <3>2 DEF Beside
    <3> QED BY <3>2, <3>3 DEF Ahead1
  <2>4. /\ Cardinality(Beside(t, x, r, l)) = Cardinality(Beside(s, y, r, l))
        /\ Cardinality(Ahead1(t, x, r, l)) = Cardinality(Ahead1(s, y, r, l))
    BY <2>2, <2>3, SameCount
  <2> QED BY <2>4 DEF x, y
<1>3. ASSUME NEW i \in 1..n, Use(World, t[i])
      PROVE  /\ RankRight(t[i].world_rank, t[i].world_count, t, t[i], NOT_SET, NOT_SET)
             /\ RankRight(t[i].region_rank, t[i].region_count, t, t[i], t[i].region, NOT_SET)
             /\ RankRight(t[i].league_rank, t[i].league_count, t, t[i],
                          t[i].region, t[i].league)
  <2> DEFINE y == s[perm[i]]
  <2>1. Agree(t[i], y) /\ RanksEqual(t[i], y) /\ perm[i] \in 1..n
    BY <1>1
  <2>2. Use(World, y)
    BY <1>3, <2>1 DEF Use, Agree
  <2>3. /\ RankRight(y.world_rank, y.world_count, s, y, NOT_SET, NOT_SET)
        /\ RankRight(y.region_rank, y.region_count, s, y, y.region, NOT_SET)
        /\ RankRight(y.league_rank, y.league_count, s, y, y.region, y.league)
    BY <1>1, <2>1, <2>2 DEF RanksRight
  <2> QED BY <1>2, <2>1, <2>3 DEF RankRight, RanksEqual, Agree
<1> QED BY <1>1, <1>3 DEF RanksRight

-----------------------------------------------------------------------------
(* Best races. *)

Marked(s, x) ==
  {j \in DOMAIN s : /\ s[j].team_id = x.team_id /\ s[j].version = x.version
                    /\ s[j].race3 = RACE_BEST}

BestRight(s) ==
  \A i \in DOMAIN s : s[i].mode = TEAM_1V1 =>
    /\ s[i].race3 \in {RACE_BEST, RACE_ANY}
    /\ \E b \in DOMAIN s : Marked(s, s[i]) = {b} /\ ~Better(s[i], s[b])

LEMMA BestMarkedIs ==
  ASSUME season \in Seasons, NEW n \in Nat, NEW s \in [1..n -> TeamRank],
         \A i \in 1..n : Row(s[i]),
         \A i, j \in 1..n : i < j => ~BeforeInVersionMode(World, s[j], s[i])
  PROVE  /\ BestMarked(s) \in [1..n -> TeamRank]
         /\ \A i \in 1..n : /\ Agree(BestMarked(s)[i], s[i]) /\ RanksEqual(BestMarked(s)[i], s[i])
                            /\ BestMarked(s)[i].ladder_rank = s[i].ladder_rank
                            /\ BestMarked(s)[i].ladder_count = s[i].ladder_count
         /\ BestRight(BestMarked(s))
<1> DEFINE t == BestMarked(s)
           Sooner(i) == \E j \in 1..(i - 1) : /\ s[j].mode = TEAM_1V1
                                              /\ s[j].team_id = s[i].team_id
                                              /\ s[j].version = s[i].version
<1>1. t = [i \in 1..n |->
             IF s[i].mode = TEAM_1V1
             THEN [s[i] EXCEPT !.race3 = IF Sooner(i) THEN RACE_ANY ELSE RACE_BEST]
             ELSE s[i]]
  BY DEF BestMarked
<1> HIDE DEF t, Sooner
<1>2. ASSUME NEW i \in 1..n
      PROVE  /\ t[i] \in TeamRank /\ Agree(t[i], s[i]) /\ RanksEqual(t[i], s[i])
             /\ t[i].ladder_rank = s[i].ladder_rank /\ t[i].ladder_count = s[i].ladder_count
             /\ s[i].mode = TEAM_1V1 => /\ t[i].race3 = RACE_BEST <=> ~Sooner(i)
                                        /\ t[i].race3 \in {RACE_BEST, RACE_ANY}
  <2>1. CASE s[i].mode = TEAM_1V1
    <3> DEFINE r == IF Sooner(i) THEN RACE_ANY ELSE RACE_BEST
               x == s[i]
    <3>1. r \in {RACE_ANY, RACE_BEST} /\ (r = RACE_BEST <=> ~Sooner(i)) /\ x \in TeamRank
      BY DEF RACE_ANY, RACE_BEST
    <3>2. t[i] = [x EXCEPT !.race3 = r]
      BY <1>1, <2>1
    <3> HIDE DEF r, x
    <3>3. IsMarked(t[i], x, r)
      BY <3>1, <3>2, RaceSet
    <3> QED BY <3>1, <3>3 DEF IsMarked, RanksEqual, x
  <2>2. CASE s[i].mode # TEAM_1V1
    <3>1. t[i] = s[i] /\ s[i] \in TeamRank
      BY <1>1, <2>2
    <3> QED BY <2>2, <3>1 DEF Agree, RanksEqual
  <2> QED BY <2>1, <2>2
<1>3. t \in [1..n -> TeamRank]
  BY <1>1, <1>2
<1>4. ASSUME NEW i \in 1..n, t[i].mode = TEAM_1V1
      PROVE  \E b \in 1..n : Marked(t, t[i]) = {b} /\ ~Better(t[i], t[b])
  <2> DEFINE own == {j \in 1..n : s[j].team_id = s[i].team_id /\ s[j].version = s[i].version}
  <2>1. \A j \in own : s[j].mode = TEAM_1V1
    <3>1. \A j \in own : Row(s[j]) /\ Row(s[i]) /\ s[j].team_id = s[i].team_id
      OBVIOUS
    <3>2. s[i].mode = TEAM_1V1
      BY <1>2, <1>4 DEF Agree
    <3> QED BY <3>1, <3>2, OneMode
  <2>2. PICK b \in own : \A k \in own : b <= k
    <3>1. own \in SUBSET Nat /\ i \in own
      OBVIOUS
    <3> HIDE DEF own
    <3> QED BY <3>1, Smallest
  <2>3. ASSUME NEW k \in own
        PROVE  ~Sooner(k) <=> k = b
    <3>1. Sooner(k) <=> \E j \in own : j < k
      <4>1. ASSUME NEW j \in 1..n
            PROVE  j \in own <=> s[j].team_id = s[k].team_id /\ s[j].version = s[k].version
        OBVIOUS
      <4>2. k \in 1..n
        OBVIOUS
      <4>3. ASSUME NEW j \in 1..(k - 1) PROVE j \in 1..n /\ j < k
        BY <4>2
      <4>4. ASSUME NEW j \in own, j < k PROVE j \in 1..(k - 1)
        BY <4>2, <4>4
      <4>5. own \in SUBSET (1..n)
        OBVIOUS
      <4> HIDE DEF own
      <4> QED BY <2>1, <4>1, <4>3, <4>4, <4>5 DEF Sooner
    <3>2. k \in Int /\ b \in Int /\ \A j \in own : j \in Int
      OBVIOUS
    <3> HIDE DEF own
    <3> QED BY <2>2, <3>1, <3>2
  <2>4. ASSUME NEW j \in 1..n
        PROVE  j \in Marked(t, t[i]) <=> j = b
    <3>1. j \in Marked(t, t[i]) <=> j \in own /\ t[j].race3 = RACE_BEST
      BY <1>2, <1>3 DEF Marked, Agree
    <3>2. b \in own
      BY <2>2
    <3> HIDE DEF own
    <3> QED BY <1>2, <2>1, <2>3, <3>1, <3>2
  <2>5. Marked(t, t[i]) = {b} /\ b \in 1..n
    BY <1>3, <2>4 DEF Marked
  <2>6. ~Better(t[i], t[b])
    <3>1. ~Better(s[i], s[b])
      <4>1. b <= i /\ s[b].mode = s[i].mode /\ s[b].version = s[i].version /\ b \in 1..n
        BY <2>1, <2>2
      <4>2. CASE b = i
        BY <4>2, BetterOrder
      <4>3. CASE b < i
        <5>1. ~BeforeInVersionMode(World, s[i], s[b])
          BY <4>1, <4>3
        <5> QED BY <4>1, <5>1, GlobalByKey
      <4> QED BY <4>1, <4>2, <4>3
    <3> QED BY <1>2, <2>5, <3>1, BetterIsByNumbers DEF Agree
  <2> QED BY <2>5, <2>6
<1>5. BestRight(t)
  <2>1. \A i \in 1..n : t[i].mode = TEAM_1V1 => t[i].race3 \in {RACE_BEST, RACE_ANY}
    BY <1>2 DEF Agree
  <2> QED BY <1>3, <1>4, <2>1 DEF BestRight
<1> QED BY <1>2, <1>3, <1>5 DEF t

LEMMA BestMoves ==
  ASSUME NEW n \in Nat, NEW s \in [1..n -> TeamRank], NEW t \in [1..n -> TeamRank],
         NEW perm, Permutation(n, perm), \A i \in 1..n : t[i] = s[perm[i]], BestRight(s)
  PROVE  BestRight(t)
<1>1. /\ DOMAIN s = 1..n /\ DOMAIN t = 1..n
      /\ \A i \in 1..n : perm[i] \in 1..n
      /\ \A i, j \in 1..n : perm[i] = perm[j] => i = j
      /\ \A i \in 1..n : \E p \in 1..n : perm[p] = i
  BY DEF Permutation
<1>2. ASSUME NEW i \in 1..n, t[i].mode = TEAM_1V1
      PROVE  \E b \in 1..n : Marked(t, t[i]) = {b} /\ ~Better(t[i], t[b])
  <2>1. PICK c \in 1..n : Marked(s, t[i]) = {c} /\ ~Better(t[i], s[c])
    <3> DEFINE y == s[perm[i]]
    <3>1. perm[i] \in DOMAIN s /\ t[i] = y /\ y.mode = TEAM_1V1
      BY <1>1, <1>2
    <3>2. \E c \in DOMAIN s : Marked(s, y) = {c} /\ ~Better(y, s[c])
      BY <3>1 DEF BestRight
    <3> HIDE DEF y
    <3> QED BY <1>1, <3>1, <3>2
  <2>2. PICK b \in 1..n : perm[b] = c
    BY <1>1
  <2>3. \A j \in 1..n : j \in Marked(t, t[i]) <=> perm[j] \in Marked(s, t[i])
    BY <1>1 DEF Marked
  <2>4. \A j \in Marked(t, t[i]) : j \in 1..n
    BY <1>1 DEF Marked
  <2>5. Marked(t, t[i]) = {b}
    <3>1. ASSUME NEW j \in 1..n PROVE j \in Marked(t, t[i]) <=> j = b
      <4>1. j \in Marked(t, t[i]) <=> perm[j] = c
        BY <2>1, <2>3
      <4> QED BY <1>1, <2>2, <4>1
    <3> QED BY <2>4, <3>1
  <2> QED BY <2>1, <2>2, <2>5
<1>3. ASSUME NEW i \in 1..n, t[i].mode = TEAM_1V1
      PROVE  t[i].race3 \in {RACE_BEST, RACE_ANY}
  <2> DEFINE y == s[perm[i]]
  <2>1. perm[i] \in DOMAIN s /\ t[i] = y /\ y.mode = TEAM_1V1
    BY <1>1, <1>3
  <2>2. y.race3 \in {RACE_BEST, RACE_ANY}
    BY <2>1 DEF BestRight
  <2> HIDE DEF y
  <2> QED BY <2>1, <2>2
<1> QED BY <1>1, <1>2, <1>3 DEF BestRight

-----------------------------------------------------------------------------
(* Saving. *)

LEMMA Composition ==
  ASSUME NEW n \in Nat, NEW f, Permutation(n, f), NEW g, Permutation(n, g),
         NEW h, h = [i \in 1..n |-> f[g[i]]]
  PROVE  Permutation(n, h)
<1>1. /\ \A i \in 1..n : g[i] \in 1..n /\ f[i] \in 1..n
      /\ \A i, j \in 1..n : f[i] = f[j] => i = j
      /\ \A i, j \in 1..n : g[i] = g[j] => i = j
      /\ \A i \in 1..n : \E p \in 1..n : f[p] = i
      /\ \A i \in 1..n : \E p \in 1..n : g[p] = i
  BY DEF Permutation
<1>2. h \in [1..n -> 1..n] /\ \A i \in 1..n : h[i] = f[g[i]]
  BY <1>1
<1>3. \A i, j \in 1..n : h[i] = h[j] => i = j
  BY <1>1, <1>2
<1>4. ASSUME NEW i \in 1..n PROVE \E p \in 1..n : h[p] = i
  <2>1. PICK j \in 1..n : f[j] = i
    BY <1>1
  <2>2. PICK p \in 1..n : g[p] = j
    BY <1>1
  <2> QED BY <1>2, <2>1, <2>2
<1> QED BY <1>2, <1>3, <1>4 DEF Permutation

\* The same team ranks, but for what saving sets.
SameRows(t, s, n) ==
  \E perm : Permutation(n, perm) /\ \A i \in 1..n : Agree(t[i], s[perm[i]])

LEMMA SavedIs ==
  ASSUME season \in Seasons, NEW n \in Nat, NEW s, RowsOf(s, n),
         NEW t, t = InTeamOrder(BestMarked(Ranked(InGlobalOrder(s))))
  PROVE  RowsOf(t, n) /\ SameRows(t, s, n) /\ RanksRight(t) /\ BestRight(t)
<1> DEFINE g == InGlobalOrder(s)
           r == Ranked(g)
           b == BestMarked(r)
<1>1. s \in [1..n -> TeamRank] /\ \A i \in 1..n : Row(s[i])
  BY DEF RowsOf
<1>2. PICK p : /\ Permutation(n, p)
               /\ g = [i \in 1..n |-> s[p[i]]]
               /\ \A i, j \in 1..n : i < j => ~BeforeInVersionMode(World, s[p[j]], s[p[i]])
  BY <1>1, GlobalOrderSorts
<1> HIDE DEF g
<1>3. \A i \in 1..n : p[i] \in 1..n /\ g[i] = s[p[i]] /\ g[i] \in TeamRank /\ Row(g[i])
  BY <1>1, <1>2 DEF Permutation
<1>4. /\ g \in [1..n -> TeamRank]
      /\ \A i, j \in 1..n : i < j => ~BeforeInVersionMode(World, g[j], g[i])
  BY <1>2, <1>3
<1>5. /\ r \in [1..n -> TeamRank]
      /\ \A i \in 1..n : /\ Agree(r[i], g[i])
                         /\ r[i].ladder_rank = g[i].ladder_rank
                         /\ r[i].ladder_count = g[i].ladder_count
      /\ RanksRight(r)
  BY <1>4, RankedIs
<1> HIDE DEF r
<1>6. \A i \in 1..n : Row(r[i])
  <2> SUFFICES ASSUME NEW i \in 1..n PROVE Row(r[i])
    OBVIOUS
  <2>1. /\ Agree(r[i], g[i]) /\ r[i].ladder_rank = g[i].ladder_rank
        /\ r[i].ladder_count = g[i].ladder_count /\ Row(g[i]) /\ r[i] \in TeamRank
    BY <1>3, <1>5
  <2> QED BY <2>1 DEF Row, Listed, Agree
<1>7. \A i, j \in 1..n : i < j => ~BeforeInVersionMode(World, r[j], r[i])
  <2> SUFFICES ASSUME NEW i \in 1..n, NEW j \in 1..n, i < j
               PROVE  ~BeforeInVersionMode(World, r[j], r[i])
    OBVIOUS
  <2>1. ~BeforeInVersionMode(World, g[j], g[i])
    BY <1>4
  <2>2. /\ Agree(r[i], g[i]) /\ Agree(r[j], g[j])
        /\ r[i] \in TeamRank /\ r[j] \in TeamRank /\ g[i] \in TeamRank /\ g[j] \in TeamRank
    BY <1>3, <1>5
  <2> QED BY <2>1, <2>2, GlobalByKey, BetterIsByNumbers DEF Agree
<1>8. /\ b \in [1..n -> TeamRank]
      /\ \A i \in 1..n : /\ Agree(b[i], r[i]) /\ RanksEqual(b[i], r[i])
                         /\ b[i].ladder_rank = r[i].ladder_rank
                         /\ b[i].ladder_count = r[i].ladder_count
      /\ BestRight(b)
  BY <1>5, <1>6, <1>7, BestMarkedIs
<1> HIDE DEF b
<1>9. PICK q : /\ Permutation(n, q)
               /\ InTeamOrder(b) = [i \in 1..n |-> b[q[i]]]
               /\ \A i, j \in 1..n : i < j => ~BeforeByTeamVersionRace(b[q[j]], b[q[i]])
  BY <1>8, TeamOrderSorts
<1>10. t = [i \in 1..n |-> b[q[i]]]
  BY <1>9 DEF b, r, g
<1>11. \A i \in 1..n : q[i] \in 1..n /\ t[i] = b[q[i]] /\ t[i] \in TeamRank
  BY <1>8, <1>9, <1>10 DEF Permutation
<1>12. t \in [1..n -> TeamRank]
  BY <1>10, <1>11
<1> DEFINE perm == [i \in 1..n |-> p[q[i]]]
<1>13. Permutation(n, perm)
  BY <1>2, <1>9, Composition
<1>14. ASSUME NEW i \in 1..n
       PROVE  /\ Agree(t[i], s[perm[i]])
              /\ t[i].ladder_rank = s[perm[i]].ladder_rank
              /\ t[i].ladder_count = s[perm[i]].ladder_count
  <2> DEFINE k == q[i]
  <2>1. k \in 1..n /\ t[i] = b[k] /\ perm[i] = p[k]
    BY <1>11
  <2> HIDE DEF k, perm
  <2>2. /\ Agree(b[k], r[k]) /\ Agree(r[k], g[k]) /\ g[k] = s[p[k]]
        /\ b[k].ladder_rank = r[k].ladder_rank /\ r[k].ladder_rank = g[k].ladder_rank
        /\ b[k].ladder_count = r[k].ladder_count /\ r[k].ladder_count = g[k].ladder_count
    BY <1>3, <1>5, <1>8, <2>1
  <2> QED BY <2>1, <2>2 DEF Agree
<1>15. \A i, j \in 1..n : i < j => ~BeforeByTeamVersionRace(t[j], t[i])
  BY <1>9, <1>11
<1> HIDE DEF perm
<1>16. RowsOf(t, n)
  BY <1>12, <1>13, <1>14, <1>15, SameKeysInOrder
<1>17. RanksRight(t)
  <2>1. \A i \in 1..n : Agree(t[i], r[q[i]]) /\ RanksEqual(t[i], r[q[i]])
    BY <1>8, <1>11
  <2> QED BY <1>5, <1>9, <1>12, <2>1, RanksMove
<1>18. BestRight(t)
  BY <1>8, <1>9, <1>11, <1>12, BestMoves
<1>19. SameRows(t, s, n)
  BY <1>13, <1>14 DEF SameRows
<1> QED BY <1>16, <1>17, <1>18, <1>19

\* Summing up takes the team ranks out of their order and back.
LEMMA SortedBackIs ==
  ASSUME season \in Seasons, NEW n \in Nat, NEW s, RowsOf(s, n),
         NEW t, t = InTeamOrder(StableSort(s, StatsOrder))
  PROVE  /\ RowsOf(t, n) /\ SameRows(t, s, n)
         /\ RanksRight(s) => RanksRight(t)
         /\ BestRight(s) => BestRight(t)
<1> DEFINE u == StableSort(s, StatsOrder)
<1>1. s \in [1..n -> TeamRank]
  BY DEF RowsOf
<1>2. PICK p : Permutation(n, p) /\ u = [i \in 1..n |-> s[p[i]]]
  BY <1>1, StatsOrderSorts
<1>3. t = InTeamOrder(u)
  OBVIOUS
<1> HIDE DEF u
<1>4. \A i \in 1..n : p[i] \in 1..n /\ u[i] = s[p[i]] /\ u[i] \in TeamRank
  BY <1>1, <1>2 DEF Permutation
<1>5. u \in [1..n -> TeamRank]
  BY <1>2, <1>4
<1>6. PICK q : /\ Permutation(n, q)
               /\ InTeamOrder(u) = [i \in 1..n |-> u[q[i]]]
               /\ \A i, j \in 1..n : i < j => ~BeforeByTeamVersionRace(u[q[j]], u[q[i]])
  BY <1>5, TeamOrderSorts
<1> DEFINE perm == [i \in 1..n |-> p[q[i]]]
<1>7. Permutation(n, perm)
  BY <1>2, <1>6, Composition
<1>8. \A i \in 1..n : q[i] \in 1..n /\ t[i] = u[q[i]] /\ perm[i] = p[q[i]]
  BY <1>3, <1>6 DEF Permutation
<1> HIDE DEF perm
<1>9. \A i \in 1..n : t[i] = s[perm[i]] /\ t[i] \in TeamRank
  BY <1>4, <1>8
<1>10. t \in [1..n -> TeamRank]
  BY <1>3, <1>6, <1>9
<1>11. \A i, j \in 1..n : i < j => ~BeforeByTeamVersionRace(t[j], t[i])
  BY <1>6, <1>8
<1>12. \A i \in 1..n : /\ Agree(t[i], s[perm[i]]) /\ RanksEqual(t[i], s[perm[i]])
                       /\ t[i].ladder_rank = s[perm[i]].ladder_rank
                       /\ t[i].ladder_count = s[perm[i]].ladder_count
  BY <1>9 DEF Agree, RanksEqual
<1>13. RowsOf(t, n)
  BY <1>7, <1>10, <1>11, <1>12, SameKeysInOrder
<1>14. RanksRight(s) => RanksRight(t)
  BY <1>1, <1>7, <1>10, <1>12, RanksMove
<1>15. BestRight(s) => BestRight(t)
  BY <1>1, <1>7, <1>9, <1>10, BestMoves
<1>16. SameRows(t, s, n)
  BY <1>7, <1>12 DEF SameRows
<1> QED BY <1>13, <1>14, <1>15, <1>16

-----------------------------------------------------------------------------
(* The invariants of the team ranks. *)

DataInv ==
  /\ RowsInv
  /\ stored \in BOOLEAN
  /\ stored => RanksRight(team_ranks) /\ BestRight(team_ranks)

\* The season of a ranking stays.
LEMMA SameSeason ==
  ASSUME season' = season
  PROVE  /\ \A n : RowsOf(team_ranks, n)' <=> RowsOf(team_ranks', n)
         /\ RanksRight(team_ranks)' <=> RanksRight(team_ranks')
         /\ BestRight(team_ranks)' <=> BestRight(team_ranks')
<1>1. \A n : RowsOf(team_ranks, n)' <=> RowsOf(team_ranks', n)
  BY DEF RowsOf, Row, Listed, KeyOf
<1>2. RanksRight(team_ranks)' <=> RanksRight(team_ranks')
  BY DEF RanksRight, RankRight, Ahead1, Beside, Better, SortKey, World, StrictOrder
<1>3. BestRight(team_ranks)' <=> BestRight(team_ranks')
  BY DEF BestRight, Marked, Better, SortKey
<1> QED BY <1>1, <1>2, <1>3

LEMMA DataInit == Init => DataInv
<1> SUFFICES ASSUME Init PROVE DataInv
  OBVIOUS
<1>1. RowsOf(team_ranks, 0)
  BY DEF Init, RowsOf
<1> QED BY <1>1 DEF Init, DataInv, RowsInv

LEMMA MergeKeepsRows ==
  ASSUME RowsInv, NEW l \in Ladders, NEW members \in Answers(l, season)
  PROVE  \E n \in Nat : RowsOf(Merged(LadderInfo[l].mode, team_ranks, Source(l, members)), n)
<1>1. PICK n \in Nat : RowsOf(team_ranks, n)
  BY DEF RowsInv
<1>2. PICK N \in Nat : IsMergeOf(N, Merged(LadderInfo[l].mode, team_ranks, Source(l, members)),
                                 team_ranks, n, Source(l, members), Len(members))
  BY <1>1, LadderMerges DEF RowsInv, IsMerge
<1> QED BY <1>2 DEF IsMergeOf, RowsOf

LEMMA DataStep == DataInv /\ [Next]_vars => DataInv'
<1> SUFFICES ASSUME DataInv, [Next]_vars PROVE DataInv'
  OBVIOUS
<1> USE DEF DataInv
<1>1. ASSUME NEW l \in Ladders, NEW members \in Answers(l, season), UpdateWithLadder(l, members)
      PROVE  DataInv'
  <2>1. /\ season' = season /\ stored' = FALSE
        /\ team_ranks' = Merged(LadderInfo[l].mode, team_ranks, Source(l, members))
    BY <1>1 DEF UpdateWithLadder
  <2>2. \E n \in Nat : RowsOf(team_ranks', n)
    BY <2>1, MergeKeepsRows
  <2> QED BY <2>1, <2>2, SameSeason DEF RowsInv
<1>2. CASE SaveData
  <2>1. /\ season' = season /\ stored' = TRUE
        /\ team_ranks' = InTeamOrder(BestMarked(Ranked(InGlobalOrder(team_ranks))))
    BY <1>2 DEF SaveData
  <2>2. PICK n \in Nat : RowsOf(team_ranks, n)
    BY DEF RowsInv
  <2>3. RowsOf(team_ranks', n) /\ RanksRight(team_ranks') /\ BestRight(team_ranks')
    BY <2>1, <2>2, SavedIs DEF RowsInv
  <2> QED BY <2>1, <2>3, SameSeason DEF RowsInv
<1>3. CASE SaveStats
  <2>1. /\ season' = season /\ stored' = stored /\ stored
        /\ team_ranks' = InTeamOrder(StableSort(team_ranks, StatsOrder))
    BY <1>3 DEF SaveStats
  <2>2. PICK n \in Nat : RowsOf(team_ranks, n)
    BY DEF RowsInv
  <2>3. RowsOf(team_ranks', n) /\ RanksRight(team_ranks') /\ BestRight(team_ranks')
    BY <2>1, <2>2, SortedBackIs DEF RowsInv
  <2> QED BY <2>1, <2>3, SameSeason DEF RowsInv
<1>4. CASE UNCHANGED vars
  <2>1. season' = season /\ stored' = stored /\ team_ranks' = team_ranks
    BY <1>4 DEF vars
  <2> QED BY <2>1, SameSeason DEF RowsInv
<1> QED BY <1>1, <1>2, <1>3, <1>4 DEF Next

\* Whatever ladders come and whenever it is saved, the team ranks are of known ladders
\* and teams, none is there twice, and what is stored is ranked.
THEOREM DataInvariance == Spec => []DataInv
BY DataInit, DataStep, PTL DEF Spec

\* ranking_data.cpp: the next merge and find_team_rank may rely on the order of the team
\* ranks, in which no team is twice with one version and race.
THEOREM InOrderOnceHolds == Spec => []InOrderOnce
<1>1. DataInv => InOrderOnce
  BY DEF DataInv, RowsInv, RowsOf, InOrderOnce
<1> QED BY <1>1, DataInvariance, PTL

\* ranking_data.cpp: "Rely on the later data is the correct one" loses nothing else.
THEOREM LaterDataReplacesHolds == Spec => []LaterDataReplaces
<1>1. DataInv => LaterDataReplaces
  <2> SUFFICES ASSUME DataInv, NEW l \in Ladders, NEW members \in Answers(l, season)
               PROVE  LET source == Source(l, members)
                          new == {source[i] : i \in DOMAIN source}
                          old == {team_ranks[i] : i \in DOMAIN team_ranks}
                          merged == Merged(LadderInfo[l].mode, team_ranks, source)
                      IN  {merged[i] : i \in DOMAIN merged}
                            = new \cup {x \in old : \A y \in new : KeyOf(x) # KeyOf(y)}
    BY DEF LaterDataReplaces
  <2> DEFINE source == Source(l, members)
             m == Len(members)
             merged == Merged(LadderInfo[l].mode, team_ranks, source)
             new == {source[i] : i \in DOMAIN source}
             old == {team_ranks[i] : i \in DOMAIN team_ranks}
  <2>1. PICK n \in Nat : RowsOf(team_ranks, n)
    BY DEF DataInv, RowsInv
  <2>2. PICK N \in Nat : IsMergeOf(N, merged, team_ranks, n, source, m)
    BY <2>1, LadderMerges DEF DataInv, RowsInv, IsMerge
  <2>3. DOMAIN source = 1..m
    BY LadderIsSource DEF IsSource, DataInv, RowsInv
  <2>4. DOMAIN team_ranks = 1..n
    BY <2>1 DEF RowsOf
  <2> HIDE DEF source, m, merged
  <2>5. DOMAIN merged = 1..N
    BY <2>2 DEF IsMergeOf
  <2>6. \A x : x \in new <=> \E k \in 1..m : x = source[k]
    BY <2>3
  <2>7. \A x : x \in old <=> \E k \in 1..n : x = team_ranks[k]
    BY <2>4
  <2> HIDE DEF new, old
  <2>8. ASSUME NEW i \in 1..N
        PROVE  \/ merged[i] \in new
               \/ merged[i] \in old /\ \A y \in new : KeyOf(merged[i]) # KeyOf(y)
    <3>1. \/ \E k \in 1..m : merged[i] = source[k]
          \/ \E k \in 1..n : /\ merged[i] = team_ranks[k]
                             /\ \A j \in 1..m : KeyOf(team_ranks[k]) # KeyOf(source[j])
      BY <2>2 DEF IsMergeOf
    <3> QED BY <2>6, <2>7, <3>1
  <2>9. ASSUME NEW x \in new
        PROVE  \E i \in 1..N : merged[i] = x
    BY <2>2, <2>6 DEF IsMergeOf
  <2>10. ASSUME NEW x \in old, \A y \in new : KeyOf(x) # KeyOf(y)
         PROVE  \E i \in 1..N : merged[i] = x
    <3>1. PICK k \in 1..n : x = team_ranks[k]
      BY <2>7
    <3>2. \A j \in 1..m : KeyOf(team_ranks[k]) # KeyOf(source[j])
      BY <2>6, <2>10, <3>1
    <3> QED BY <2>2, <3>1, <3>2 DEF IsMergeOf
  <2>11. {merged[i] : i \in DOMAIN merged}
           = new \cup {x \in old : \A y \in new : KeyOf(x) # KeyOf(y)}
    BY <2>5, <2>8, <2>9, <2>10
  <2> QED BY <2>11 DEF source, merged, new, old
<1> QED BY <1>1, DataInvariance, PTL

\* save_data: the ranks stored count the better ones, for any number of teams.
THEOREM RanksCountTheBetterHolds == Spec => []RanksCountTheBetter
<1>1. DataInv => RanksCountTheBetter
  <2> SUFFICES ASSUME DataInv, stored, NEW i \in DOMAIN team_ranks, Use(World, team_ranks[i])
               PROVE
      LET x == team_ranks[i]
          All(Same(_)) == {j \in DOMAIN team_ranks :
                             SameGroup(team_ranks[j], x) /\ Same(team_ranks[j])}
          Right(rank, count, Same(_)) ==
            /\ rank = 1 + Cardinality({j \in All(Same) : Ahead(SortKey(season), team_ranks[j], x)})
            /\ count = Cardinality(All(Same))
      IN  /\ Right(x.world_rank, x.world_count, LAMBDA y : TRUE)
          /\ Right(x.region_rank, x.region_count, LAMBDA y : y.region = x.region)
          /\ Right(x.league_rank, x.league_count,
                   LAMBDA y : y.region = x.region /\ y.league = x.league)
    BY DEF RanksCountTheBetter
  <2> DEFINE x == team_ranks[i]
             W == {j \in DOMAIN team_ranks : SameGroup(team_ranks[j], x) /\ TRUE}
             R == {j \in DOMAIN team_ranks : SameGroup(team_ranks[j], x)
                                             /\ team_ranks[j].region = x.region}
             L == {j \in DOMAIN team_ranks : SameGroup(team_ranks[j], x)
                                             /\ (team_ranks[j].region = x.region
                                                 /\ team_ranks[j].league = x.league)}
  <2>1. /\ RankRight(x.world_rank, x.world_count, team_ranks, x, NOT_SET, NOT_SET)
        /\ RankRight(x.region_rank, x.region_count, team_ranks, x, x.region, NOT_SET)
        /\ RankRight(x.league_rank, x.league_count, team_ranks, x, x.region, x.league)
    BY DEF DataInv, RanksRight
  <2>2. x.region # NOT_SET /\ x.league # NOT_SET
    <3>1. x \in TeamRank
      BY DEF DataInv, RowsInv, RowsOf
    <3> HIDE DEF x
    <3> QED BY <3>1, RowFields DEF NOT_SET
  <2>3. /\ Beside(team_ranks, x, NOT_SET, NOT_SET) = W
        /\ Beside(team_ranks, x, x.region, NOT_SET) = R
        /\ Beside(team_ranks, x, x.region, x.league) = L
    <3> HIDE DEF x
    <3> QED BY <2>2 DEF Beside
  <2> HIDE DEF W, R, L
  <2>4. /\ x.world_rank = 1 + Cardinality({j \in W : Ahead(SortKey(season), team_ranks[j], x)})
        /\ x.world_count = Cardinality(W)
        /\ x.region_rank = 1 + Cardinality({j \in R : Ahead(SortKey(season), team_ranks[j], x)})
        /\ x.region_count = Cardinality(R)
        /\ x.league_rank = 1 + Cardinality({j \in L : Ahead(SortKey(season), team_ranks[j], x)})
        /\ x.league_count = Cardinality(L)
    BY <2>1, <2>3 DEF RankRight, Ahead1, Better
  <2> QED BY <2>4, Zenon DEF W, R, L
<1> QED BY <1>1, DataInvariance, PTL

\* save_data: a 1v1 team has one best race, and none that is better.
THEOREM OneBestRaceHolds == Spec => []OneBestRace
<1>1. DataInv => OneBestRace
  <2> SUFFICES ASSUME DataInv, stored, NEW i \in DOMAIN team_ranks,
                      team_ranks[i].mode = TEAM_1V1
               PROVE
      LET x == team_ranks[i]
          own == {j \in DOMAIN team_ranks : /\ team_ranks[j].team_id = x.team_id
                                            /\ team_ranks[j].version = x.version}
          best == {j \in own : team_ranks[j].race3 = RACE_BEST}
      IN  /\ Cardinality(best) = 1
          /\ \A b \in best : ~Ahead(SortKey(season), x, team_ranks[b])
    BY DEF OneBestRace
  <2> DEFINE x == team_ranks[i]
             own == {j \in DOMAIN team_ranks : /\ team_ranks[j].team_id = x.team_id
                                               /\ team_ranks[j].version = x.version}
             best == {j \in own : team_ranks[j].race3 = RACE_BEST}
  <2>1. PICK b \in DOMAIN team_ranks : Marked(team_ranks, x) = {b} /\ ~Better(x, team_ranks[b])
    BY DEF DataInv, BestRight
  <2>2. best = Marked(team_ranks, x)
    <3> HIDE DEF x
    <3> QED BY DEF Marked
  <2> HIDE DEF best
  <2>3. Cardinality(best) = 1
    BY <2>1, <2>2, FS_Singleton
  <2>4. \A c \in best : ~Ahead(SortKey(season), x, team_ranks[c])
    BY <2>1, <2>2 DEF Better
  <2> QED BY <2>3, <2>4 DEF best
<1> QED BY <1>1, DataInvariance, PTL

-----------------------------------------------------------------------------
(* The tables of teams and players. *)

LEMMA DisplayFields ==
  ASSUME season \in Seasons, NEW d \in Display \cup {Unknown}
  PROVE  /\ season \in Int /\ d.season \in Int /\ d.version \in Int
         /\ d.mode \in Int /\ d.league \in Int
<1>1. season \in Nat
  BY RankingDataAssumption
<1>2. CASE d \in Display
  BY <1>1, <1>2 DEF Display
<1>3. CASE d = Unknown
  BY <1>1, <1>3 DEF Unknown
<1> QED BY <1>2, <1>3

\* The race that a ladder says of some teams is that of one of theirs.
LEMMA FirstRaceIs ==
  ASSUME season \in Seasons, NEW l \in Ladders, NEW members \in Answers(l, season),
         NEW ids, NEW k \in DOMAIN members, members[k].team_id \in ids
  PROVE  \E i \in DOMAIN members : /\ members[i].team_id \in ids
                                   /\ FirstRace(members, ids) = members[i].race
<1>1. Len(members) \in Nat /\ DOMAIN members = 1..Len(members)
  BY AnswerFields
<1> DEFINE S == {i \in DOMAIN members : members[i].team_id \in ids}
           Earliest(i) == /\ members[i].team_id \in ids
                       /\ \A j \in 1..(i - 1) : members[j].team_id \notin ids
<1>2. S \in SUBSET Nat /\ k \in S
  BY <1>1
<1> HIDE DEF S
<1>3. PICK i \in S : \A j \in S : i <= j
  BY <1>2, Smallest
<1>4. i \in DOMAIN members /\ Earliest(i)
  <2>1. i \in DOMAIN members /\ members[i].team_id \in ids
    BY DEF S
  <2>2. ASSUME NEW j \in 1..(i - 1) PROVE members[j].team_id \notin ids
    <3>1. j \in DOMAIN members /\ ~(i <= j)
      BY <1>1, <2>1
    <3> QED BY <1>3, <3>1 DEF S
  <2> QED BY <2>1, <2>2
<1> DEFINE c == CHOOSE j \in DOMAIN members : Earliest(j)
<1>5. c \in DOMAIN members /\ Earliest(c)
  <2> HIDE DEF Earliest
  <2> QED BY <1>4
<1>6. FirstRace(members, ids) = members[c].race
  BY DEF FirstRace
<1> HIDE DEF c
<1> QED BY <1>5, <1>6

LEMMA ToldIsShown ==
  ASSUME season \in Seasons, NEW l \in Ladders, NEW race \in Races
  PROVE  Told(l, race) \in Display
<1>1. season \in Int /\ Version(l) \in Nat
  BY RankingDataAssumption, VersionIsKnown
<1> QED BY <1>1, LadderFields DEF Told, Display

TablesInv ==
  /\ season \in Seasons
  /\ teams \in [Teams -> Display \cup {Unknown}]
  /\ players \in [Players -> Display \cup {Unknown}]

LEMMA TablesInit == Init => TablesInv
<1> SUFFICES ASSUME Init PROVE TablesInv
  OBVIOUS
<1>1. PICK t \in Teams, s \in {season - 1, season + 1} :
        /\ teams = [u \in Teams |-> IF u = t THEN Known(t, s) ELSE Unknown]
        /\ players = [p \in Players |-> IF p \in MembersOf[t] THEN Known(t, s) ELSE Unknown]
  BY DEF Init
<1>2. Known(t, s) \in Display
  BY DEF Known, Display, TEAM_1V1
<1> HIDE DEF Display, Known, Unknown
<1> QED BY <1>1, <1>2 DEF Init, TablesInv

LEMMA TablesStep == TablesInv /\ [Next]_vars => TablesInv'
<1> SUFFICES ASSUME TablesInv, [Next]_vars PROVE TablesInv'
  OBVIOUS
<1> USE DEF TablesInv
<1>1. ASSUME season' = season PROVE Display' = Display
  BY <1>1 DEF Display
<1>2. ASSUME NEW l \in Ladders, NEW members \in Answers(l, season), UpdateWithLadder(l, members)
      PROVE  TablesInv'
  <2>1. season' = season /\ teams' = TeamsAfter(l, members) /\ players' = PlayersAfter(l, members)
    BY <1>2 DEF UpdateWithLadder
  <2>2. ASSUME NEW ids, \E i \in DOMAIN members : members[i].team_id \in ids
        PROVE  Told(l, FirstRace(members, ids)) \in Display
    <3>1. FirstRace(members, ids) \in Races
      <4>1. PICK k \in DOMAIN members : members[k].team_id \in ids
        BY <2>2
      <4>2. season \in Seasons
        OBVIOUS
      <4>3. PICK i \in DOMAIN members : FirstRace(members, ids) = members[i].race
        BY <4>1, <4>2, FirstRaceIs
      <4> QED BY <4>2, <4>3, AnswerFields
    <3> QED BY <3>1, ToldIsShown
  <2> DEFINE T(t) == IF \E i \in DOMAIN members : members[i].team_id = t
                     THEN UpdatedTeam(teams[t], Told(l, FirstRace(members, {t})))
                     ELSE teams[t]
             own(p) == {t \in Teams : p \in MembersOf[t]}
             P(p) == IF \E i \in DOMAIN members : members[i].team_id \in own(p)
                     THEN UpdatedPlayer(players[p], Told(l, FirstRace(members, own(p))))
                     ELSE players[p]
  <2>3. TeamsAfter(l, members) = [t \in Teams |-> T(t)]
    BY DEF TeamsAfter
  <2>4. PlayersAfter(l, members) = [p \in Players |-> P(p)]
    BY DEF PlayersAfter
  <2>5. ASSUME NEW t \in Teams PROVE T(t) \in Display \cup {Unknown}
    <3>1. CASE \E i \in DOMAIN members : members[i].team_id = t
      <4>1. Told(l, FirstRace(members, {t})) \in Display
        BY <2>2, <3>1
      <4> HIDE DEF Display, Unknown
      <4> QED BY <3>1, <4>1 DEF UpdatedTeam
    <3>2. CASE ~\E i \in DOMAIN members : members[i].team_id = t
      BY <3>2
    <3> QED BY <3>1, <3>2
  <2>6. ASSUME NEW p \in Players PROVE P(p) \in Display \cup {Unknown}
    <3> HIDE DEF own
    <3>1. CASE \E i \in DOMAIN members : members[i].team_id \in own(p)
      <4>1. Told(l, FirstRace(members, own(p))) \in Display
        BY <2>2, <3>1
      <4> HIDE DEF Display, Unknown
      <4> QED BY <3>1, <4>1 DEF UpdatedPlayer
    <3>2. CASE ~\E i \in DOMAIN members : members[i].team_id \in own(p)
      BY <3>2
    <3> QED BY <3>1, <3>2
  <2> HIDE DEF T, P
  <2>7. TeamsAfter(l, members) \in [Teams -> Display \cup {Unknown}]
    BY <2>3, <2>5
  <2>8. PlayersAfter(l, members) \in [Players -> Display \cup {Unknown}]
    BY <2>4, <2>6
  <2>9. Display' = Display /\ Unknown' = Unknown
    BY <1>1, <2>1 DEF Unknown
  <2> QED BY <2>1, <2>7, <2>8, <2>9
<1>3. CASE season' = season /\ teams' = teams /\ players' = players
  BY <1>1, <1>3 DEF Unknown
<1>4. CASE SaveData
  BY <1>3, <1>4 DEF SaveData
<1>5. CASE SaveStats
  BY <1>3, <1>5 DEF SaveStats
<1>6. CASE UNCHANGED vars
  BY <1>3, <1>6 DEF vars
<1> QED BY <1>2, <1>4, <1>5, <1>6 DEF Next

-----------------------------------------------------------------------------
(* What is shown. *)

ShownTeam(tm, x) ==
  /\ tm.season >= season
  /\ tm.season = season =>
       /\ tm.version >= x.version
       /\ tm.version = x.version =>
            IF x.mode = TEAM_1V1 THEN tm.league >= x.league
                                 ELSE tm.league = x.league /\ tm.race = x.race0

ShownPlayer(pl, x) ==
  /\ pl.season >= season
  /\ pl.season = season /\ x.mode = TEAM_1V1 => pl.mode = TEAM_1V1 /\ pl.league >= x.league

HasRow(s, t, v) == \E i \in DOMAIN s : s[i].team_id = t /\ s[i].version = v

\* Shown where they are ranked, the season being that of the ranking only if they are.
ShownInv ==
  /\ \A i \in DOMAIN team_ranks :
       /\ ShownTeam(teams[team_ranks[i].team_id], team_ranks[i])
       /\ \A p \in MembersOf[team_ranks[i].team_id] : ShownPlayer(players[p], team_ranks[i])
  /\ \A t \in Teams : teams[t].season = season => HasRow(team_ranks, t, teams[t].version)

\* What the ladder of a rank says of its team and its players is shown, or better.
LEMMA ToldTeamIsShown ==
  ASSUME season \in Seasons, NEW x \in TeamRank,
         NEW old \in Display \cup {Unknown}, NEW new \in Display, new.season = season,
         new.version = x.version, new.mode = x.mode, new.league = x.league,
         x.mode # TEAM_1V1 => new.race = x.race0
  PROVE  /\ ShownTeam(UpdatedTeam(old, new), x)
         /\ UpdatedTeam(old, new).version = x.version \/ UpdatedTeam(old, new) = old
<1>1. /\ season \in Int /\ old.season \in Int /\ old.version \in Int /\ old.league \in Int
      /\ x.version \in Int /\ x.league \in Int
  BY DisplayFields, RowFields
<1>2. CASE UpdatedTeam(old, new) = new
  BY <1>1, <1>2 DEF ShownTeam
<1>3. CASE UpdatedTeam(old, new) = old /\ ~(UpdatedTeam(old, new) = new)
  <2>1. ~(\/ old.season < new.season
          \/ old.season = new.season /\ old.version < new.version
          \/ /\ old.season = new.season /\ old.version = new.version
             /\ new.mode = TEAM_1V1 => old.league < new.league)
    BY <1>3 DEF UpdatedTeam
  <2> QED BY <1>1, <1>3, <2>1 DEF ShownTeam
<1> QED BY <1>2, <1>3 DEF UpdatedTeam

LEMMA ToldPlayerIsShown ==
  ASSUME season \in Seasons, NEW x \in TeamRank,
         NEW old \in Display \cup {Unknown}, NEW new \in Display, new.season = season,
         new.mode = x.mode, new.league = x.league
  PROVE  ShownPlayer(UpdatedPlayer(old, new), x)
<1>1. /\ season \in Int /\ old.season \in Int /\ old.league \in Int /\ x.league \in Int
  BY DisplayFields, RowFields
<1>2. CASE UpdatedPlayer(old, new) = new
  BY <1>1, <1>2 DEF ShownPlayer
<1>3. CASE UpdatedPlayer(old, new) = old /\ ~(UpdatedPlayer(old, new) = new)
  <2>1. ~(\/ old.season < new.season
          \/ /\ old.season = new.season
             /\ IF TEAM_1V1 \in {old.mode, new.mode}
                THEN new.mode = TEAM_1V1 /\ (old.mode # TEAM_1V1 \/ old.league < new.league)
                ELSE old.league < new.league \/ old.mode = new.mode)
    BY <1>3 DEF UpdatedPlayer
  <2> QED BY <1>1, <1>3, <2>1 DEF ShownPlayer
<1> QED BY <1>2, <1>3 DEF UpdatedPlayer

\* What another ladder says leaves it as good: of the team only if it is of another
\* version, or of another race of a 1v1 team.
LEMMA TeamStaysShown ==
  ASSUME season \in Seasons, NEW x \in TeamRank,
         NEW old \in Display \cup {Unknown}, NEW new \in Display, new.season = season,
         ShownTeam(old, x), new.mode = x.mode,
         new.version = x.version => x.mode = TEAM_1V1
  PROVE  ShownTeam(UpdatedTeam(old, new), x)
<1>1. /\ season \in Int /\ old.season \in Int /\ old.version \in Int /\ old.league \in Int
      /\ new.version \in Int /\ new.league \in Int /\ x.version \in Int /\ x.league \in Int
  BY DisplayFields, RowFields
<1>2. CASE UpdatedTeam(old, new) = old
  BY <1>2
<1>3. CASE UpdatedTeam(old, new) = new /\ ~(UpdatedTeam(old, new) = old)
  <2>1. \/ old.season < new.season
        \/ old.season = new.season /\ old.version < new.version
        \/ /\ old.season = new.season /\ old.version = new.version
           /\ new.mode = TEAM_1V1 => old.league < new.league
    BY <1>3 DEF UpdatedTeam
  <2> QED BY <1>1, <1>3, <2>1 DEF ShownTeam
<1> QED BY <1>2, <1>3 DEF UpdatedTeam

LEMMA PlayerStaysShown ==
  ASSUME season \in Seasons, NEW x \in TeamRank,
         NEW old \in Display \cup {Unknown}, NEW new \in Display, new.season = season,
         ShownPlayer(old, x)
  PROVE  ShownPlayer(UpdatedPlayer(old, new), x)
<1>1. /\ season \in Int /\ old.season \in Int /\ old.league \in Int
      /\ new.league \in Int /\ x.league \in Int
  BY DisplayFields, RowFields
<1>2. CASE UpdatedPlayer(old, new) = old
  BY <1>2
<1>3. CASE UpdatedPlayer(old, new) = new /\ ~(UpdatedPlayer(old, new) = old)
  <2>1. \/ old.season < new.season
        \/ /\ old.season = new.season
           /\ IF TEAM_1V1 \in {old.mode, new.mode}
              THEN new.mode = TEAM_1V1 /\ (old.mode # TEAM_1V1 \/ old.league < new.league)
              ELSE old.league < new.league \/ old.mode = new.mode
    BY <1>3 DEF UpdatedPlayer
  <2> QED BY <1>1, <1>3, <2>1 DEF ShownPlayer
<1> QED BY <1>2, <1>3 DEF UpdatedPlayer

LEMMA ShownInit == Init => ShownInv
<1> SUFFICES ASSUME Init PROVE ShownInv
  OBVIOUS
<1>1. team_ranks = <<>> /\ season \in Nat
  BY RankingDataAssumption DEF Init
<1>2. PICK t \in Teams, s \in {season - 1, season + 1} :
        teams = [u \in Teams |-> IF u = t THEN Known(t, s) ELSE Unknown]
  BY DEF Init
<1>3. \A u \in Teams : teams[u].season # season
  BY <1>1, <1>2 DEF Known, Unknown
<1> QED BY <1>1, <1>3 DEF ShownInv

LEMMA ShownAfterLadder ==
  ASSUME RowsInv, TablesInv, ShownInv, NEW l \in Ladders, NEW members \in Answers(l, season),
         UpdateWithLadder(l, members)
  PROVE  ShownInv'
<1> DEFINE source == Source(l, members)
           m == Len(members)
           mode == LadderInfo[l].mode
           merged == Merged(mode, team_ranks, source)
           In(ids) == \E k \in DOMAIN members : members[k].team_id \in ids
           NewOf(ids) == Told(l, FirstRace(members, ids))
           own(p) == {t \in Teams : p \in MembersOf[t]}
           after == TeamsAfter(l, members)
           afterwards == PlayersAfter(l, members)
<1>1. /\ season' = season /\ team_ranks' = merged
      /\ teams' = after /\ players' = afterwards
  BY DEF UpdateWithLadder
<1>2. /\ season \in Seasons
      /\ \A t \in Teams : teams[t] \in Display \cup {Unknown}
      /\ \A p \in Players : players[p] \in Display \cup {Unknown}
  BY DEF TablesInv
<1>3. PICK n \in Nat : RowsOf(team_ranks, n)
  BY DEF RowsInv
<1>4. PICK N \in Nat : IsMergeOf(N, merged, team_ranks, n, source, m)
  BY <1>2, <1>3, LadderMerges DEF IsMerge
<1>5. DOMAIN team_ranks = 1..n /\ DOMAIN merged = 1..N /\ DOMAIN members = 1..m
  BY <1>2, <1>3, <1>4, AnswerFields DEF IsMergeOf, RowsOf
<1>6. IsSource(source, l, members)
  BY <1>2, LadderIsSource
<1>7. \A t \in Teams : after[t] = IF In({t}) THEN UpdatedTeam(teams[t], NewOf({t})) ELSE teams[t]
  BY Zenon DEF TeamsAfter
<1>8. \A p \in Players : afterwards[p] =
        IF In(own(p)) THEN UpdatedPlayer(players[p], NewOf(own(p))) ELSE players[p]
  BY DEF PlayersAfter
<1>9. ASSUME NEW ids, In(ids)
      PROVE  /\ NewOf(ids) \in Display /\ NewOf(ids).season = season
             /\ NewOf(ids).version = Version(l) /\ NewOf(ids).mode = mode
             /\ NewOf(ids).league = LadderInfo[l].league
             /\ \E k \in 1..m : members[k].team_id \in ids /\ NewOf(ids).race = members[k].race
  <2>1. PICK k \in DOMAIN members :
          members[k].team_id \in ids /\ FirstRace(members, ids) = members[k].race
    BY <1>2, <1>9, FirstRaceIs
  <2>2. members[k].race \in Races
    BY <1>2, <1>5, <2>1, AnswerFields
  <2>3. NewOf(ids) \in Display
    BY <1>2, <2>1, <2>2, ToldIsShown
  <2> QED BY <1>5, <2>1, <2>3 DEF Told
<1> HIDE DEF source, m, mode, merged, NewOf, after, afterwards
\* A rank of the ladder.
<1>10. ASSUME NEW i \in 1..m, NEW x, x = source[i]
       PROVE  /\ x \in TeamRank /\ x.mode = mode /\ x.league = LadderInfo[l].league
              /\ x.version = Version(l) /\ Row(x) /\ x.team_id \in Teams
              /\ In({x.team_id})
              /\ x.mode # TEAM_1V1 => NewOf({x.team_id}).race = x.race0
  <2>1. PICK k \in 1..m : x.team_id = members[k].team_id /\ x.race0 = members[k].race
    BY <1>6, <1>10 DEF IsSource, m
  <2>2. /\ x \in TeamRank /\ x.mode = mode /\ x.league = LadderInfo[l].league
        /\ x.version = Version(l) /\ Row(x)
    BY <1>6, <1>10 DEF IsSource, m, mode
  <2>3. In({x.team_id})
    BY <1>5, <2>1
  <2>4. PICK j \in 1..m : /\ members[j].team_id \in {x.team_id}
                          /\ NewOf({x.team_id}).race = members[j].race
    BY <1>9, <2>3
  <2>5. ASSUME x.mode # TEAM_1V1 PROVE j = k
    <3>1. ~PerRace(mode, season)
      BY <2>2, <2>5 DEF PerRace
    <3> QED BY <1>2, <2>1, <2>4, <3>1, AnswerFields DEF m, mode
  <2> QED BY <2>1, <2>2, <2>3, <2>4, <2>5, RowFields
\* A rank that the ladder says nothing of.
<1>11. ASSUME NEW i \in 1..n, NEW x, x = team_ranks[i],
              \A j \in 1..m : KeyOf(x) # KeyOf(source[j])
       PROVE  /\ x \in TeamRank /\ Row(x) /\ x.team_id \in Teams
              /\ In({x.team_id}) =>
                   mode = x.mode /\ (Version(l) = x.version => x.mode = TEAM_1V1)
  <2>1. x \in TeamRank /\ Row(x) /\ x.team_id \in Teams
    BY <1>3, <1>11, RowFields DEF RowsOf
  <2>2. ASSUME In({x.team_id})
        PROVE  mode = x.mode /\ (Version(l) = x.version => x.mode = TEAM_1V1)
    <3>1. PICK k \in 1..m : members[k].team_id = x.team_id
      BY <1>5, <2>2
    <3>2. PICK j \in 1..m : source[j].team_id = x.team_id
      BY <1>6, <3>1 DEF IsSource, m
    <3>3. Row(source[j]) /\ source[j].mode = mode /\ source[j].version = Version(l)
      BY <1>10
    <3>4. mode = x.mode
      BY <1>2, <2>1, <3>2, <3>3, OneMode
    <3>5. ASSUME Version(l) = x.version PROVE PerRace(x.mode, season)
      BY <1>2, <1>11, <2>1, <3>2, <3>3, <3>5, EqualKeys
    <3> QED BY <3>4, <3>5 DEF PerRace
  <2> QED BY <2>1, <2>2
<1>12. ASSUME NEW i \in 1..m, NEW x, x = source[i]
       PROVE  /\ ShownTeam(after[x.team_id], x)
              /\ \A p \in MembersOf[x.team_id] : ShownPlayer(afterwards[p], x)
  <2>1. /\ x \in TeamRank /\ x.mode = mode /\ x.league = LadderInfo[l].league
        /\ x.version = Version(l) /\ x.team_id \in Teams /\ In({x.team_id})
        /\ x.mode # TEAM_1V1 => NewOf({x.team_id}).race = x.race0
    BY <1>10, <1>12
  <2>2. ShownTeam(after[x.team_id], x)
    <3>1. ShownTeam(UpdatedTeam(teams[x.team_id], NewOf({x.team_id})), x)
      <4> DEFINE new == NewOf({x.team_id})
      <4>1. /\ new \in Display /\ new.season = season /\ new.version = x.version
            /\ new.mode = x.mode /\ new.league = x.league
            /\ x.mode # TEAM_1V1 => new.race = x.race0
        BY <1>9, <2>1
      <4> HIDE DEF new
      <4>2. ShownTeam(UpdatedTeam(teams[x.team_id], new), x)
        BY <1>2, <2>1, <4>1, ToldTeamIsShown
      <4> QED BY <4>2 DEF new
    <3> QED BY <1>7, <2>1, <3>1
  <2>3. ASSUME NEW p \in MembersOf[x.team_id] PROVE ShownPlayer(afterwards[p], x)
    <3>1. p \in Players /\ x.team_id \in own(p)
      BY <2>1, <2>3, RankingDataAssumption
    <3> HIDE DEF own
    <3>2. In(own(p))
      BY <2>1, <3>1
    <3> DEFINE new == NewOf(own(p))
    <3>3. /\ new \in Display /\ new.season = season
          /\ new.mode = x.mode /\ new.league = x.league
      BY <1>9, <2>1, <3>2
    <3>4. afterwards[p] = UpdatedPlayer(players[p], new)
      BY <1>8, <3>1, <3>2
    <3> HIDE DEF new
    <3> QED BY <1>2, <2>1, <3>1, <3>3, <3>4, ToldPlayerIsShown
  <2> QED BY <2>2, <2>3
<1>13. ASSUME NEW i \in 1..n, NEW x, x = team_ranks[i],
              \A j \in 1..m : KeyOf(x) # KeyOf(source[j])
       PROVE  /\ ShownTeam(after[x.team_id], x)
              /\ \A p \in MembersOf[x.team_id] : ShownPlayer(afterwards[p], x)
  <2>1. /\ x \in TeamRank /\ x.team_id \in Teams
        /\ In({x.team_id}) => mode = x.mode /\ (Version(l) = x.version => x.mode = TEAM_1V1)
    BY <1>11, <1>13
  <2>2. /\ ShownTeam(teams[x.team_id], x)
        /\ \A p \in MembersOf[x.team_id] : ShownPlayer(players[p], x)
    BY <1>5, <1>13 DEF ShownInv
  <2>3. ShownTeam(after[x.team_id], x)
    <3>1. CASE In({x.team_id})
      <4> DEFINE new == NewOf({x.team_id})
      <4>1. /\ new \in Display /\ new.season = season /\ new.mode = x.mode
            /\ new.version = x.version => x.mode = TEAM_1V1
        BY <1>9, <2>1, <3>1
      <4>2. after[x.team_id] = UpdatedTeam(teams[x.team_id], new)
        BY <1>7, <2>1, <3>1
      <4> HIDE DEF new
      <4> QED BY <1>2, <2>1, <2>2, <4>1, <4>2, TeamStaysShown
    <3>2. CASE ~In({x.team_id})
      BY <1>7, <2>1, <2>2, <3>2
    <3> QED BY <3>1, <3>2
  <2>4. ASSUME NEW p \in MembersOf[x.team_id] PROVE ShownPlayer(afterwards[p], x)
    <3>1. p \in Players /\ ShownPlayer(players[p], x)
      BY <2>1, <2>2, <2>4, RankingDataAssumption
    <3> HIDE DEF own
    <3>2. CASE In(own(p))
      <4> DEFINE new == NewOf(own(p))
      <4>1. new \in Display /\ new.season = season
        BY <1>9, <3>2
      <4>2. afterwards[p] = UpdatedPlayer(players[p], new)
        BY <1>8, <3>1, <3>2
      <4> HIDE DEF new
      <4> QED BY <1>2, <2>1, <3>1, <4>1, <4>2, PlayerStaysShown
    <3>3. CASE ~In(own(p))
      BY <1>8, <3>1, <3>3
    <3> QED BY <3>2, <3>3
  <2> QED BY <2>3, <2>4
<1>14. ASSUME NEW i \in 1..N
       PROVE  /\ ShownTeam(after[merged[i].team_id], merged[i])
              /\ \A p \in MembersOf[merged[i].team_id] : ShownPlayer(afterwards[p], merged[i])
  <2>1. CASE \E k \in 1..m : merged[i] = source[k]
    BY <1>12, <2>1
  <2>2. CASE \E k \in 1..n : /\ merged[i] = team_ranks[k]
                             /\ \A j \in 1..m : KeyOf(team_ranks[k]) # KeyOf(source[j])
    BY <1>13, <2>2
  <2> QED BY <1>4, <2>1, <2>2 DEF IsMergeOf
\* No rank is gone without another of its team and version.
<1>15. ASSUME NEW t \in Teams, NEW v, HasRow(team_ranks, t, v) PROVE HasRow(merged, t, v)
  <2>1. PICK k \in 1..n : team_ranks[k].team_id = t /\ team_ranks[k].version = v
    BY <1>5, <1>15 DEF HasRow
  <2>2. CASE \E j \in 1..m : KeyOf(team_ranks[k]) = KeyOf(source[j])
    <3>1. PICK j \in 1..m : KeyOf(team_ranks[k]) = KeyOf(source[j])
      BY <2>2
    <3>2. Row(source[j]) /\ Row(team_ranks[k])
      BY <1>3, <1>10 DEF RowsOf
    <3>3. source[j].team_id = t /\ source[j].version = v
      BY <1>2, <2>1, <3>1, <3>2, EqualKeys
    <3>4. PICK i \in 1..N : merged[i] = source[j]
      BY <1>4 DEF IsMergeOf
    <3> QED BY <1>5, <3>3, <3>4 DEF HasRow
  <2>3. CASE ~\E j \in 1..m : KeyOf(team_ranks[k]) = KeyOf(source[j])
    <3>1. PICK i \in 1..N : merged[i] = team_ranks[k]
      BY <1>4, <2>3 DEF IsMergeOf
    <3> QED BY <1>5, <2>1, <3>1 DEF HasRow
  <2> QED BY <2>2, <2>3
<1>16. ASSUME NEW t \in Teams, after[t].season = season
       PROVE  HasRow(merged, t, after[t].version)
  <2>1. CASE after[t] = teams[t]
    <3>1. HasRow(team_ranks, t, teams[t].version)
      BY <1>16, <2>1 DEF ShownInv
    <3> QED BY <1>15, <2>1, <3>1
  <2>2. CASE after[t] # teams[t]
    <3>1. In({t}) /\ after[t] = UpdatedTeam(teams[t], NewOf({t}))
      BY <1>7, <2>2
    <3>2. after[t] = NewOf({t}) /\ NewOf({t}).version = Version(l)
      BY <1>9, <2>2, <3>1 DEF UpdatedTeam
    <3>3. PICK k \in 1..m : members[k].team_id = t
      BY <1>5, <3>1
    <3>4. PICK j \in 1..m : source[j].team_id = t
      BY <1>6, <3>3 DEF IsSource, m
    <3>5. source[j].version = Version(l)
      BY <1>10
    <3>6. PICK i \in 1..N : merged[i] = source[j]
      BY <1>4 DEF IsMergeOf
    <3> QED BY <1>5, <3>2, <3>4, <3>5, <3>6 DEF HasRow
  <2> QED BY <2>1, <2>2
<1>17. \A i \in DOMAIN team_ranks' :
         /\ ShownTeam(teams[team_ranks[i].team_id], team_ranks[i])'
         /\ \A p \in MembersOf[team_ranks'[i].team_id] : ShownPlayer(players[p], team_ranks[i])'
  BY <1>1, <1>5, <1>14 DEF ShownTeam, ShownPlayer
<1>18. \A t \in Teams : teams'[t].season = season' => HasRow(team_ranks', t, teams'[t].version)
  BY <1>1, <1>16
<1> QED BY <1>17, <1>18 DEF ShownInv, HasRow

LEMMA SameRowsShown ==
  ASSUME NEW n \in Nat, RowsOf(team_ranks, n), season' = season, teams' = teams,
         players' = players, RowsOf(team_ranks', n), SameRows(team_ranks', team_ranks, n),
         ShownInv
  PROVE  ShownInv'
<1>1. DOMAIN team_ranks = 1..n /\ DOMAIN team_ranks' = 1..n
  BY DEF RowsOf
<1>2. PICK perm : Permutation(n, perm) /\ \A i \in 1..n : Agree(team_ranks'[i], team_ranks[perm[i]])
  BY DEF SameRows
<1>3. /\ \A i \in 1..n : perm[i] \in 1..n
      /\ \A i \in 1..n : \E j \in 1..n : perm[j] = i
  BY <1>2 DEF Permutation
<1>4. ASSUME NEW i \in 1..n
      PROVE  /\ ShownTeam(teams[team_ranks[i].team_id], team_ranks[i])'
             /\ \A p \in MembersOf[team_ranks'[i].team_id] : ShownPlayer(players[p], team_ranks[i])'
  <2> DEFINE x == team_ranks[perm[i]]
             y == team_ranks'[i]
  <2>1. /\ ShownTeam(teams[x.team_id], x)
        /\ \A p \in MembersOf[x.team_id] : ShownPlayer(players[p], x)
    BY <1>1, <1>3 DEF ShownInv
  <2>2. /\ y.team_id = x.team_id /\ y.version = x.version /\ y.mode = x.mode
        /\ y.league = x.league /\ y.race0 = x.race0
    BY <1>2 DEF Agree
  <2>3. /\ ShownTeam(teams[y.team_id], y)
        /\ \A p \in MembersOf[y.team_id] : ShownPlayer(players[p], y)
    <3> HIDE DEF x, y
    <3> QED BY <2>1, <2>2 DEF ShownTeam, ShownPlayer
  <2> QED BY <2>3 DEF ShownTeam, ShownPlayer
<1>5. ASSUME NEW t \in Teams, teams[t].season = season
      PROVE  HasRow(team_ranks', t, teams[t].version)
  <2>1. PICK i \in 1..n : team_ranks[i].team_id = t /\ team_ranks[i].version = teams[t].version
    BY <1>1, <1>5 DEF ShownInv, HasRow
  <2>2. PICK j \in 1..n : perm[j] = i
    BY <1>3
  <2>3. Agree(team_ranks'[j], team_ranks[i])
    BY <1>2, <2>2
  <2>4. team_ranks'[j].team_id = t /\ team_ranks'[j].version = teams[t].version
    BY <2>1, <2>3 DEF Agree
  <2> QED BY <1>1, <2>4 DEF HasRow
<1>6. \A t \in Teams : teams'[t].season = season' => HasRow(team_ranks', t, teams'[t].version)
  BY <1>5
<1> QED BY <1>1, <1>4, <1>6 DEF ShownInv, HasRow

LEMMA ShownStep == DataInv /\ TablesInv /\ ShownInv /\ [Next]_vars => ShownInv'
<1> SUFFICES ASSUME DataInv, TablesInv, ShownInv, [Next]_vars PROVE ShownInv'
  OBVIOUS
<1>1. season \in Seasons /\ RowsInv
  BY DEF TablesInv, DataInv
<1>2. PICK n \in Nat : RowsOf(team_ranks, n)
  BY <1>1 DEF RowsInv
<1>3. CASE \E l \in Ladders : \E members \in Answers(l, season) : UpdateWithLadder(l, members)
  BY <1>1, <1>3, ShownAfterLadder
<1>4. CASE SaveData
  <2>1. /\ season' = season /\ teams' = teams /\ players' = players
        /\ team_ranks' = InTeamOrder(BestMarked(Ranked(InGlobalOrder(team_ranks))))
    BY <1>4 DEF SaveData
  <2>2. RowsOf(team_ranks', n) /\ SameRows(team_ranks', team_ranks, n)
    BY <1>1, <1>2, <2>1, SavedIs
  <2> QED BY <1>2, <2>1, <2>2, SameRowsShown
<1>5. CASE SaveStats
  <2>1. /\ season' = season /\ teams' = teams /\ players' = players
        /\ team_ranks' = InTeamOrder(StableSort(team_ranks, StatsOrder))
    BY <1>5 DEF SaveStats
  <2>2. RowsOf(team_ranks', n) /\ SameRows(team_ranks', team_ranks, n)
    BY <1>1, <1>2, <2>1, SortedBackIs
  <2> QED BY <1>2, <2>1, <2>2, SameRowsShown
<1>6. CASE UNCHANGED vars
  BY <1>6 DEF vars, ShownInv, ShownTeam, ShownPlayer, HasRow
<1> QED BY <1>3, <1>4, <1>5, <1>6 DEF Next

LEMMA TablesInvariance == Spec => [](TablesInv /\ ShownInv)
<1>1. Init => TablesInv /\ ShownInv
  BY TablesInit, ShownInit
<1>2. DataInv /\ TablesInv /\ ShownInv /\ [Next]_vars => (TablesInv /\ ShownInv)'
  BY TablesStep, ShownStep
<1> QED BY <1>1, <1>2, DataInvariance, PTL DEF Spec

\* teams.cpp, players.cpp: in whatever order the ladders come, the tables show nobody
\* below where they are ranked.
THEOREM ShownAtTheirBestHolds == Spec => []ShownAtTheirBest
<1>1. DataInv /\ TablesInv /\ ShownInv => ShownAtTheirBest
  <2> SUFFICES ASSUME DataInv, TablesInv, ShownInv, NEW i \in DOMAIN team_ranks
               PROVE
      LET x == team_ranks[i]
          team == teams[x.team_id]
          last == \A j \in DOMAIN team_ranks :
                    team_ranks[j].team_id = x.team_id => team_ranks[j].version <= x.version
      IN  /\ team.season >= season
          /\ team.season = season /\ last =>
               IF x.mode = TEAM_1V1 THEN team.league >= x.league
                                    ELSE team.league = x.league /\ team.race = x.race0
          /\ \A p \in MembersOf[x.team_id] :
               /\ players[p].season >= season
               /\ players[p].season = season /\ x.mode = TEAM_1V1 =>
                    players[p].mode = TEAM_1V1 /\ players[p].league >= x.league
    BY DEF ShownAtTheirBest
  <2> DEFINE x == team_ranks[i]
             team == teams[x.team_id]
             last == \A j \in DOMAIN team_ranks :
                       team_ranks[j].team_id = x.team_id => team_ranks[j].version <= x.version
  <2>1. ShownTeam(team, x) /\ \A p \in MembersOf[x.team_id] : ShownPlayer(players[p], x)
    BY DEF ShownInv
  <2>2. x \in TeamRank /\ x.team_id \in Teams /\ x.version \in Int
    BY RowFields DEF DataInv, RowsInv, RowsOf
  <2>3. team \in Display \cup {Unknown} /\ team.version \in Int
    BY <2>2, DisplayFields DEF TablesInv
  <2>4. ASSUME team.season = season, last PROVE team.version = x.version
    <3>1. HasRow(team_ranks, x.team_id, team.version)
      BY <2>2, <2>4 DEF ShownInv
    <3>2. team.version <= x.version
      BY <2>4, <3>1 DEF HasRow
    <3> QED BY <2>1, <2>2, <2>3, <2>4, <3>2 DEF ShownTeam
  <2> HIDE DEF x, team, last
  <2>5. /\ team.season >= season
        /\ team.season = season /\ last =>
             IF x.mode = TEAM_1V1 THEN team.league >= x.league
                                  ELSE team.league = x.league /\ team.race = x.race0
    BY <2>1, <2>4 DEF ShownTeam
  <2>6. \A p \in MembersOf[x.team_id] :
          /\ players[p].season >= season
          /\ players[p].season = season /\ x.mode = TEAM_1V1 =>
               players[p].mode = TEAM_1V1 /\ players[p].league >= x.league
    BY <2>1 DEF ShownPlayer
  <2> QED BY <2>5, <2>6 DEF x, team, last
<1> QED BY <1>1, DataInvariance, TablesInvariance, PTL

-----------------------------------------------------------------------------
(* What the variables hold. *)

\* Once a team is counted among some, as many are as good as it as there are ranks left.
LEMMA RightIsARank ==
  ASSUME season \in Seasons, NEW n \in Nat, NEW s \in [1..n -> TeamRank], NEW i \in 1..n,
         NEW region \in {NOT_SET, s[i].region}, NEW league \in {NOT_SET, s[i].league},
         NEW rank, NEW count, RankRight(rank, count, s, s[i], region, league)
  PROVE  rank \in 1..count
<1> DEFINE B == Beside(s, s[i], region, league)
           A == Ahead1(s, s[i], region, league)
<1>1. i \in B /\ B \in SUBSET (1..n)
  BY DEF Beside, SameGroup
<1>2. A \in SUBSET B /\ i \notin A
  BY BetterOrder DEF Ahead1
<1>3. rank = 1 + Cardinality(A) /\ count = Cardinality(B)
  BY DEF RankRight
<1> HIDE DEF A, B
<1>4. IsFiniteSet(B)
  <2>1. IsFiniteSet(1..n)
    BY FS_Interval
  <2> QED BY <1>1, <2>1, FS_Subset
<1>5. /\ IsFiniteSet(A) /\ Cardinality(A) <= Cardinality(B)
      /\ Cardinality(B) = Cardinality(A) => B = A
  BY <1>2, <1>4, FS_Subset
<1>6. Cardinality(A) \in Nat /\ Cardinality(B) \in Nat
  BY <1>4, <1>5, FS_CardinalityType
<1> QED BY <1>1, <1>2, <1>3, <1>5, <1>6

CountsInv ==
  /\ updates \in 0..MaxUpdates
  /\ stats # <<>> => stored

LEMMA CountsInvariance == Spec => []CountsInv
<1>1. Init => CountsInv
  BY RankingDataAssumption DEF Init, CountsInv
<1>2. CountsInv /\ [Next]_vars => CountsInv'
  <2> SUFFICES ASSUME CountsInv, [Next]_vars PROVE CountsInv'
    OBVIOUS
  <2>1. ASSUME NEW l \in Ladders, NEW members \in Answers(l, season), UpdateWithLadder(l, members)
        PROVE  CountsInv'
    BY <2>1, RankingDataAssumption DEF UpdateWithLadder, CountsInv
  <2>2. CASE SaveData
    BY <2>2 DEF SaveData, CountsInv
  <2>3. CASE SaveStats
    BY <2>3 DEF SaveStats, CountsInv
  <2>4. CASE UNCHANGED vars
    BY <2>4 DEF vars, CountsInv
  <2> QED BY <2>1, <2>2, <2>3, <2>4 DEF Next
<1> QED BY <1>1, <1>2, PTL DEF Spec

\* ranking_data.cpp: whatever is ranked is one of as many as it is counted among.
THEOREM TypeCorrectness == Spec => []TypeOK
<1>1. DataInv /\ TablesInv /\ CountsInv => TypeOK
  <2> SUFFICES ASSUME DataInv, TablesInv, CountsInv PROVE TypeOK
    OBVIOUS
  <2>1. PICK n \in Nat : RowsOf(team_ranks, n)
    BY DEF DataInv, RowsInv
  <2>2. team_ranks \in [1..n -> TeamRank] /\ DOMAIN team_ranks = 1..n
    BY <2>1 DEF RowsOf
  <2>3. ASSUME NEW i \in 1..n, NEW x, x = team_ranks[i]
        PROVE  /\ x.team_id \in Teams /\ x.ladder_id \in Ladders /\ x.race0 \in Races
               /\ x.ladder_rank \in 1..x.ladder_count
               /\ x.race3 \in {RACE_LO, RACE_ANY, RACE_BEST}
               /\ stored /\ Use(World, x) =>
                    /\ x.league_rank \in 1..x.league_count
                    /\ x.region_rank \in 1..x.region_count
                    /\ x.world_rank \in 1..x.world_count
    <3>1. x \in TeamRank /\ x.ladder_rank \in 1..x.ladder_count
      BY <2>1, <2>3 DEF RowsOf, Row
    <3>2. ASSUME stored, Use(World, x)
          PROVE  /\ x.league_rank \in 1..x.league_count
                 /\ x.region_rank \in 1..x.region_count
                 /\ x.world_rank \in 1..x.world_count
      <4>1. /\ RankRight(x.world_rank, x.world_count, team_ranks, x, NOT_SET, NOT_SET)
            /\ RankRight(x.region_rank, x.region_count, team_ranks, x, x.region, NOT_SET)
            /\ RankRight(x.league_rank, x.league_count, team_ranks, x, x.region, x.league)
        BY <2>2, <2>3, <3>2 DEF DataInv, RanksRight
      <4>2. season \in Seasons /\ x = team_ranks[i]
        BY <2>3 DEF TablesInv
      <4>3. x.world_rank \in 1..x.world_count
        BY <2>2, <4>1, <4>2, RightIsARank
      <4>4. x.region_rank \in 1..x.region_count
        BY <2>2, <4>1, <4>2, RightIsARank
      <4>5. x.league_rank \in 1..x.league_count
        BY <2>2, <4>1, <4>2, RightIsARank
      <4> QED BY <4>3, <4>4, <4>5
    <3> QED BY <3>1, <3>2, RowFields
  <2> QED BY <2>2, <2>3 DEF TypeOK, TablesInv, CountsInv
<1> QED BY <1>1, DataInvariance, TablesInvariance, CountsInvariance, PTL

-----------------------------------------------------------------------------
(* Sums over sets of places, however they are folded. *)

\* f is the sum of w over every set of places.
IsSum(f, w, n) ==
  /\ f \in [SUBSET (1..n) -> Nat]
  /\ f[{}] = 0
  /\ \A t \in SUBSET (1..n) : t # {}
       => f[t] = w[CHOOSE x \in t : TRUE] + f[t \ {CHOOSE x \in t : TRUE}]

LEMMA SmallerByOne ==
  ASSUME NEW n \in Nat, NEW t \in SUBSET (1..n), NEW x \in t
  PROVE  /\ IsFiniteSet(t) /\ Cardinality(t) \in Nat /\ t \ {x} \in SUBSET (1..n)
         /\ Cardinality(t \ {x}) \in Nat /\ Cardinality(t \ {x}) = Cardinality(t) - 1
<1>1. IsFiniteSet(t)
  <2>1. IsFiniteSet(1..n)
    BY FS_Interval
  <2> QED BY <2>1, FS_Subset
<1>2. Cardinality(t) \in Nat
  BY <1>1, FS_CardinalityType
<1>3. IsFiniteSet(t \ {x}) /\ Cardinality(t \ {x}) = Cardinality(t) - 1
  BY <1>1, FS_RemoveElement
<1>4. Cardinality(t \ {x}) \in Nat
  BY <1>3, FS_CardinalityType
<1> QED BY <1>1, <1>2, <1>3, <1>4

LEMMA SizesOfSets ==
  ASSUME NEW n \in Nat, NEW t \in SUBSET (1..n)
  PROVE  /\ Cardinality(t) \in Nat /\ Cardinality(t) <= n /\ Cardinality({}) = 0
         /\ Cardinality(t) = 0 <=> t = {}
<1>1. IsFiniteSet(1..n) /\ Cardinality(1..n) = n
  BY FS_Interval
<1>2. IsFiniteSet(t) /\ Cardinality(t) <= n
  BY <1>1, FS_Subset
<1>3. Cardinality(t) \in Nat
  BY <1>2, FS_CardinalityType
<1>4. Cardinality({}) = 0 /\ (Cardinality(t) = 0 <=> t = {})
  BY <1>2, FS_EmptySet
<1> QED BY <1>2, <1>3, <1>4

\* A sum up to sets of some size can be continued to the next, so there is one over all.
LEMMA SumExists ==
  ASSUME NEW n \in Nat, NEW w \in [1..n -> Nat]
  PROVE  \E f : IsSum(f, w, n)
<1> DEFINE D == SUBSET (1..n)
           Up(f, m) == /\ f \in [D -> Nat] /\ f[{}] = 0
                       /\ \A t \in D : t # {} /\ Cardinality(t) <= m
                            => f[t] = w[CHOOSE x \in t : TRUE] + f[t \ {CHOOSE x \in t : TRUE}]
           Bad == {m \in 0..n : ~\E f : Up(f, m)}
<1>1. {} \in D
  OBVIOUS
<1>2. \A t \in D : t # {} =>
        /\ (CHOOSE x \in t : TRUE) \in t /\ (CHOOSE x \in t : TRUE) \in 1..n
        /\ t \ {CHOOSE x \in t : TRUE} \in D
  OBVIOUS
<1>3. Bad = {}
  <2> SUFFICES ASSUME NEW b \in Bad PROVE FALSE
    OBVIOUS
  <2>1. Bad \in SUBSET Nat
    OBVIOUS
  <2> HIDE DEF Bad
  <2>2. PICK m \in Bad : \A k \in Bad : m <= k
    BY <2>1, Smallest
  <2>3. m \in 0..n /\ ~\E f : Up(f, m)
    BY DEF Bad
  <2>4. CASE m = 0
    <3> DEFINE f == [t \in D |-> 0]
    <3>1. f \in [D -> Nat] /\ f[{}] = 0
      OBVIOUS
    <3>2. ASSUME NEW t \in D, t # {}, Cardinality(t) <= m PROVE FALSE
      <4>1. Cardinality(t) \in Nat /\ Cardinality(t) # 0
        BY <3>2, SizesOfSets
      <4> QED BY <2>4, <3>2, <4>1
    <3> HIDE DEF f
    <3>3. Up(f, m)
      BY <3>1, <3>2
    <3> HIDE DEF Up
    <3> QED BY <2>3, <3>3
  <2>5. CASE m # 0
    <3>1. m - 1 \in 0..n /\ ~(m <= m - 1)
      BY <2>3, <2>5
    <3>2. PICK g : Up(g, m - 1)
      BY <2>2, <3>1 DEF Bad
    <3> DEFINE c(t) == CHOOSE x \in t : TRUE
               f == [t \in D |-> IF Cardinality(t) <= m - 1 THEN g[t] ELSE w[c(t)] + g[t \ {c(t)}]]
    <3>3. \A t \in D : g[t] \in Nat
      BY <3>2
    <3>4. ASSUME NEW t \in D, t # {}
          PROVE  /\ c(t) \in 1..n /\ t \ {c(t)} \in D /\ w[c(t)] \in Nat
                 /\ Cardinality(t) \in Nat /\ Cardinality(t \ {c(t)}) = Cardinality(t) - 1
      <4>1. c(t) \in t /\ c(t) \in 1..n
        BY <1>2, <3>4
      <4> HIDE DEF c
      <4>2. Cardinality(t) \in Nat /\ Cardinality(t \ {c(t)}) = Cardinality(t) - 1
        BY <4>1, SmallerByOne
      <4> QED BY <4>1, <4>2
    <3>5. \A t \in D : Cardinality(t) \in Nat /\ Cardinality({}) = 0 /\ (Cardinality(t) = 0 <=> t = {})
      BY SizesOfSets
    <3> HIDE DEF c
    <3>6. f \in [D -> Nat]
      <4>1. ASSUME NEW t \in D
            PROVE  (IF Cardinality(t) <= m - 1 THEN g[t] ELSE w[c(t)] + g[t \ {c(t)}]) \in Nat
        <5>1. CASE Cardinality(t) <= m - 1
          BY <3>3, <5>1
        <5>2. CASE ~(Cardinality(t) <= m - 1)
          <6>1. t # {}
            BY <2>3, <2>5, <3>5, <5>2
          <6>2. t \ {c(t)} \in D /\ w[c(t)] \in Nat
            BY <3>4, <6>1
          <6>3. g[t \ {c(t)}] \in Nat
            BY <3>3, <6>2
          <6> QED BY <5>2, <6>2, <6>3
        <5> QED BY <5>1, <5>2
      <4> QED BY <4>1
    <3>7. \A t \in D : f[t] = IF Cardinality(t) <= m - 1 THEN g[t] ELSE w[c(t)] + g[t \ {c(t)}]
      OBVIOUS
    <3> HIDE DEF f
    <3>8. f[{}] = 0
      <4>1. Cardinality({}) <= m - 1
        BY <1>1, <2>3, <2>5, <3>5
      <4> QED BY <1>1, <3>2, <3>7, <4>1
    <3>9. ASSUME NEW t \in D, t # {}, Cardinality(t) <= m
          PROVE  f[t] = w[c(t)] + f[t \ {c(t)}]
      <4>1. f[t \ {c(t)}] = g[t \ {c(t)}]
        <5> DEFINE u == t \ {c(t)}
        <5>1. u \in D /\ Cardinality(u) <= m - 1
          <6>1. /\ u \in D /\ Cardinality(t) \in Nat
                /\ Cardinality(u) = Cardinality(t) - 1
            BY <3>4, <3>9
          <6> HIDE DEF u
          <6> QED BY <2>3, <3>9, <6>1
        <5> HIDE DEF u
        <5>2. f[u] = g[u]
          BY <3>7, <5>1
        <5> QED BY <5>2 DEF u
      <4>2. CASE Cardinality(t) <= m - 1
        <5>1. g[t] = w[c(t)] + g[t \ {c(t)}]
          BY <3>2, <3>9, <4>2 DEF c
        <5> QED BY <3>7, <4>1, <4>2, <5>1
      <4>3. CASE ~(Cardinality(t) <= m - 1)
        BY <3>7, <4>1, <4>3
      <4> QED BY <4>2, <4>3
    <3>10. Up(f, m)
      BY <3>6, <3>8, <3>9 DEF c
    <3> HIDE DEF Up
    <3> QED BY <2>3, <3>10
  <2> QED BY <2>4, <2>5
<1>4. n \in 0..n
  OBVIOUS
<1>5. PICK f : Up(f, n)
  BY <1>3, <1>4
<1>6. \A t \in D : Cardinality(t) <= n
  BY SizesOfSets
<1> QED BY <1>5, <1>6 DEF IsSum

TakenFirst(f, w, t, x) == f[t] = w[x] + f[t \ {x}]

\* Any element may be taken first.
LEMMA SumTakesAny ==
  ASSUME NEW n \in Nat, NEW w \in [1..n -> Nat], NEW f, IsSum(f, w, n),
         NEW t \in SUBSET (1..n), NEW x \in t
  PROVE  TakenFirst(f, w, t, x)
<1> DEFINE D == SUBSET (1..n)
           Wrong(u) == \E y \in u : f[u] # w[y] + f[u \ {y}]
           Bad == {m \in Nat : \E u \in D : Cardinality(u) = m /\ Wrong(u)}
<1>1. \A u \in D : f[u] \in Nat
  BY DEF IsSum
<1>2. \A u \in D : ~Wrong(u)
  <2> SUFFICES ASSUME NEW v \in D, Wrong(v) PROVE FALSE
    OBVIOUS
  <2>1. Cardinality(v) \in Bad /\ Bad \in SUBSET Nat
    <3>1. Cardinality(v) \in Nat
      BY SizesOfSets
    <3> QED BY <3>1
  <2> HIDE DEF Bad
  <2>2. PICK m \in Bad : \A k \in Bad : m <= k
    BY <2>1, Smallest
  <2>3. PICK u \in D : Cardinality(u) = m /\ Wrong(u) /\ m \in Nat
    BY DEF Bad
  <2>4. PICK y \in u : f[u] # w[y] + f[u \ {y}]
    BY <2>3
  <2> DEFINE c == CHOOSE z \in u : TRUE
  <2>5. c \in u /\ f[u] = w[c] + f[u \ {c}]
    BY DEF IsSum
  <2> HIDE DEF c
  <2>6. c # y
    BY <2>4, <2>5
  <2>7. ASSUME NEW p \in D, Cardinality(p) \in Nat, Cardinality(p) = m - 1, NEW z \in p
        PROVE  f[p] = w[z] + f[p \ {z}]
    <3>1. ~Wrong(p)
      <4> SUFFICES ASSUME Wrong(p) PROVE FALSE
        OBVIOUS
      <4>1. Cardinality(p) \in Bad
        BY <2>7 DEF Bad
      <4>2. m <= Cardinality(p)
        BY <2>2, <4>1
      <4> QED BY <2>3, <2>7, <4>2
    <3> QED BY <3>1
  <2>8. /\ u \ {c} \in D /\ Cardinality(u \ {c}) \in Nat /\ Cardinality(u \ {c}) = m - 1
        /\ u \ {y} \in D /\ Cardinality(u \ {y}) \in Nat /\ Cardinality(u \ {y}) = m - 1
    BY <2>3, <2>4, <2>5, SmallerByOne
  <2>9. f[u \ {c}] = w[y] + f[(u \ {c}) \ {y}]
    BY <2>4, <2>6, <2>7, <2>8
  <2>10. f[u \ {y}] = w[c] + f[(u \ {y}) \ {c}]
    BY <2>5, <2>6, <2>7, <2>8
  <2>11. (u \ {c}) \ {y} = (u \ {y}) \ {c} /\ (u \ {c}) \ {y} \in D
    OBVIOUS
  <2>12. c \in 1..n /\ y \in 1..n
    BY <2>4, <2>5
  <2>13. w[c] \in Nat /\ w[y] \in Nat
    BY <2>12
  <2>14. f[(u \ {c}) \ {y}] \in Nat /\ f[u \ {y}] \in Nat /\ f[u \ {c}] \in Nat
    BY <1>1, <2>8, <2>11
  <2>15. f[(u \ {c}) \ {y}] = f[(u \ {y}) \ {c}]
    BY <2>11
  <2>16. \A a, b, i, j, k, o \in Nat : o = a + i /\ i = b + k /\ j = a + k => o = b + j
    OBVIOUS
  <2>17. f[u] \in Nat
    BY <1>1
  <2>18. f[u] = w[y] + f[u \ {y}]
    <3> DEFINE a == w[c]
               b == w[y]
               i == f[u \ {c}]
               j == f[u \ {y}]
               k == f[(u \ {c}) \ {y}]
               o == f[u]
    <3>1. a \in Nat /\ b \in Nat /\ i \in Nat /\ j \in Nat /\ k \in Nat /\ o \in Nat
      BY <2>13, <2>14, <2>17
    <3>2. o = a + i /\ i = b + k /\ j = a + k
      BY <2>5, <2>9, <2>10, <2>15
    <3> HIDE DEF a, b, i, j, k, o
    <3>3. o = b + j
      BY <2>16, <3>1, <3>2
    <3> QED BY <3>3 DEF b, j, o
  <2> QED BY <2>4, <2>18
<1> QED BY <1>2 DEF TakenFirst

SumsEqual(f, t, g, perm) == f[t] = g[{perm[i] : i \in t}]

\* What is put in another order has the same sums.
LEMMA SumsMove ==
  ASSUME NEW n \in Nat, NEW v \in [1..n -> Nat], NEW w \in [1..n -> Nat],
         NEW perm, Permutation(n, perm), \A i \in 1..n : v[i] = w[perm[i]],
         NEW f, IsSum(f, v, n), NEW g, IsSum(g, w, n), NEW t \in SUBSET (1..n)
  PROVE  SumsEqual(f, t, g, perm)
<1> DEFINE D == SUBSET (1..n)
           Im(u) == {perm[i] : i \in u}
           Wrong(u) == f[u] # g[Im(u)]
           Bad == {m \in Nat : \E u \in D : Cardinality(u) = m /\ Wrong(u)}
<1>1. /\ \A i \in 1..n : perm[i] \in 1..n
      /\ \A i, j \in 1..n : perm[i] = perm[j] => i = j
  BY DEF Permutation
<1>2. \A u \in D : ~Wrong(u)
  <2> SUFFICES ASSUME NEW u0 \in D, Wrong(u0) PROVE FALSE
    OBVIOUS
  <2>1. Cardinality(u0) \in Bad /\ Bad \in SUBSET Nat
    <3>1. Cardinality(u0) \in Nat
      BY SizesOfSets
    <3> QED BY <3>1
  <2> HIDE DEF Bad
  <2>2. PICK m \in Bad : \A k \in Bad : m <= k
    BY <2>1, Smallest
  <2>3. PICK u \in D : Cardinality(u) = m /\ Wrong(u) /\ m \in Nat
    BY DEF Bad
  <2>4. u # {}
    <3>1. Im({}) = {} /\ f[{}] = 0 /\ g[{}] = 0
      BY DEF IsSum
    <3> QED BY <2>3, <3>1
  <2>5. PICK x \in u : TRUE
    BY <2>4
  <2>6. /\ u \ {x} \in D /\ Cardinality(u \ {x}) \in Nat /\ Cardinality(u \ {x}) = m - 1
    BY <2>3, SmallerByOne
  <2>7. f[u \ {x}] = g[Im(u \ {x})]
    <3> DEFINE p == u \ {x}
    <3> HIDE DEF p, Wrong
    <3>1. ~(m <= Cardinality(p))
      BY <2>3, <2>6 DEF p
    <3>2. Cardinality(p) \notin Bad
      BY <2>2, <3>1
    <3>3. ~Wrong(p)
      BY <2>6, <3>2 DEF Bad, p
    <3> QED BY <3>3 DEF Wrong, p
  <2>8. Im(u \ {x}) = Im(u) \ {perm[x]} /\ Im(u) \in D /\ perm[x] \in Im(u)
    <3>1. Im(u) \in D /\ perm[x] \in Im(u)
      <4>1. \A i \in u : perm[i] \in 1..n
        BY <1>1
      <4> QED BY <4>1
    <3>2. \A i \in u : perm[i] = perm[x] <=> i = x
      <4>1. \A i \in u : i \in 1..n
        OBVIOUS
      <4>2. x \in 1..n
        OBVIOUS
      <4> QED BY <1>1, <4>1, <4>2
    <3>3. Im(u \ {x}) = Im(u) \ {perm[x]}
      BY <3>2
    <3> QED BY <3>1, <3>3
  <2>9. f[u] = v[x] + f[u \ {x}]
    <3>1. TakenFirst(f, v, u, x)
      BY SumTakesAny
    <3> QED BY <3>1 DEF TakenFirst
  <2>10. g[Im(u)] = w[perm[x]] + g[Im(u) \ {perm[x]}]
    <3> HIDE DEF Im
    <3> DEFINE to == Im(u)
               y == perm[x]
    <3>1. to \in SUBSET (1..n) /\ y \in to
      BY <2>8
    <3> HIDE DEF to, y
    <3>2. TakenFirst(g, w, to, y)
      BY <3>1, SumTakesAny
    <3> QED BY <3>2 DEF TakenFirst, to, y
  <2>11. v[x] = w[perm[x]]
    OBVIOUS
  <2>12. f[u] = g[Im(u)]
    <3> HIDE DEF Im
    <3> QED BY <2>7, <2>8, <2>9, <2>10, <2>11
  <2> QED BY <2>3, <2>12
<1> QED BY <1>2 DEF SumsEqual

PointsSummed(s, at, f) == Points(s, at) = f[at]

\* However a set is folded, its points are their sum.
LEMMA PointsAreSums ==
  ASSUME NEW n \in Nat, NEW s \in [1..n -> TeamRank], NEW at \in SUBSET (1..n),
         NEW w, \A i \in 1..n : w[i] = s[i].points, NEW f, IsSum(f, w, n)
  PROVE  PointsSummed(s, at, f)
<1> DEFINE c(t) == CHOOSE x \in t : TRUE
           G(h) == [t \in SUBSET at |-> IF t = {} THEN 0 ELSE s[c(t)].points + h[t \ {c(t)}]]
           iter == CHOOSE h : h = G(h)
<1>1. Points(s, at) = iter[at]
  BY DEF Points, FoldSet, MapThenFoldSet
<1>2. \A t \in SUBSET at : /\ t \in SUBSET (1..n)
                           /\ t # {} => c(t) \in t /\ c(t) \in 1..n /\ t \ {c(t)} \in SUBSET at
  OBVIOUS
<1>3. /\ f[{}] = 0
      /\ \A t \in SUBSET (1..n) : t # {} => f[t] = w[c(t)] + f[t \ {c(t)}]
  BY DEF IsSum
<1> HIDE DEF c
<1>4. \E h : h = G(h)
  <2> DEFINE h == [t \in SUBSET at |-> f[t]]
  <2>1. ASSUME NEW t \in SUBSET at
        PROVE  h[t] = IF t = {} THEN 0 ELSE s[c(t)].points + h[t \ {c(t)}]
    <3>1. CASE t = {}
      BY <1>3, <3>1
    <3>2. CASE t # {}
      <4>1. /\ c(t) \in 1..n /\ t \ {c(t)} \in SUBSET at /\ t \in SUBSET (1..n)
        BY <1>2, <3>2
      <4>2. f[t] = w[c(t)] + f[t \ {c(t)}] /\ w[c(t)] = s[c(t)].points
        BY <1>3, <3>2, <4>1
      <4> QED BY <3>2, <4>1, <4>2
    <3> QED BY <3>1, <3>2
  <2>2. h = [t \in SUBSET at |-> h[t]]
    OBVIOUS
  <2> HIDE DEF h
  <2>3. h = G(h)
    BY <2>1, <2>2
  <2> QED BY <2>3
<1>5. iter = G(iter)
  <2> HIDE DEF G
  <2> QED BY <1>4
<1> HIDE DEF iter
<1>6. \A t \in SUBSET at : iter[t] = IF t = {} THEN 0 ELSE s[c(t)].points + iter[t \ {c(t)}]
  <2> DEFINE R(t) == IF t = {} THEN 0 ELSE s[c(t)].points + iter[t \ {c(t)}]
  <2>1. iter = [t \in SUBSET at |-> R(t)]
    BY <1>5
  <2> HIDE DEF R
  <2>2. \A t \in SUBSET at : iter[t] = R(t)
    BY <2>1
  <2> QED BY <2>2 DEF R
<1> DEFINE Bad == {m \in Nat : \E u \in SUBSET at : Cardinality(u) = m /\ iter[u] # f[u]}
<1>7. \A t \in SUBSET at : iter[t] = f[t]
  <2> SUFFICES ASSUME NEW u0 \in SUBSET at, iter[u0] # f[u0] PROVE FALSE
    OBVIOUS
  <2>1. Cardinality(u0) \in Bad /\ Bad \in SUBSET Nat
    <3>1. Cardinality(u0) \in Nat
      BY <1>2, SizesOfSets
    <3> QED BY <3>1
  <2> HIDE DEF Bad
  <2>2. PICK m \in Bad : \A k \in Bad : m <= k
    BY <2>1, Smallest
  <2>3. PICK u \in SUBSET at : Cardinality(u) = m /\ iter[u] # f[u] /\ m \in Nat
    BY DEF Bad
  <2>4. u # {} /\ u \in SUBSET (1..n)
    BY <1>3, <1>6, <2>3
  <2>5. c(u) \in u /\ c(u) \in 1..n /\ u \ {c(u)} \in SUBSET at
    BY <1>2, <2>4
  <2> DEFINE p == u \ {c(u)}
  <2>6. Cardinality(p) \in Nat /\ Cardinality(p) = m - 1
    BY <2>3, <2>4, <2>5, SmallerByOne
  <2> HIDE DEF p
  <2>7. iter[p] = f[p]
    <3>1. ~(m <= Cardinality(p))
      BY <2>3, <2>6
    <3>2. Cardinality(p) \notin Bad
      BY <2>2, <3>1
    <3>3. p \in SUBSET at
      BY <2>5 DEF p
    <3> QED BY <2>6, <3>2, <3>3 DEF Bad
  <2>8. iter[u] = s[c(u)].points + iter[p]
    BY <1>6, <2>4 DEF p
  <2>9. f[u] = w[c(u)] + f[p] /\ w[c(u)] = s[c(u)].points
    BY <1>3, <2>4, <2>5 DEF p
  <2> QED BY <2>3, <2>7, <2>8, <2>9
<1>8. at \in SUBSET at
  OBVIOUS
<1> QED BY <1>1, <1>7, <1>8 DEF PointsSummed

\* Moved ranks have the same points where they are.
LEMMA PointsMove ==
  ASSUME NEW n \in Nat, NEW s \in [1..n -> TeamRank], NEW t \in [1..n -> TeamRank],
         NEW perm, Permutation(n, perm), \A i \in 1..n : t[i].points = s[perm[i]].points,
         NEW at \in SUBSET (1..n)
  PROVE  Points(t, at) = Points(s, {perm[i] : i \in at})
<1> DEFINE v == [i \in 1..n |-> t[i].points]
           w == [i \in 1..n |-> s[i].points]
           to == {perm[i] : i \in at}
<1>1. v \in [1..n -> Nat] /\ w \in [1..n -> Nat]
  BY RowFields
<1>2. \A i \in 1..n : perm[i] \in 1..n
  BY DEF Permutation
<1>3. /\ \A i \in 1..n : v[i] = t[i].points /\ w[i] = s[i].points
      /\ \A i \in 1..n : v[i] = w[perm[i]]
  BY <1>2
<1>4. to \in SUBSET (1..n)
  BY <1>2
<1> HIDE DEF v, w
<1>5. PICK f : IsSum(f, v, n)
  BY <1>1, SumExists
<1>6. PICK g : IsSum(g, w, n)
  BY <1>1, SumExists
<1>7. Points(t, at) = f[at]
  <2>1. \A i \in 1..n : v[i] = t[i].points
    BY <1>3
  <2>2. n \in Nat /\ t \in [1..n -> TeamRank] /\ at \in SUBSET (1..n)
    OBVIOUS
  <2> HIDE DEF to
  <2>3. PointsSummed(t, at, f)
    BY <1>5, <2>1, <2>2, PointsAreSums
  <2> QED BY <2>3 DEF PointsSummed
<1> HIDE DEF to
<1>8. Points(s, to) = g[to]
  <2>1. \A i \in 1..n : w[i] = s[i].points
    BY <1>3
  <2>2. n \in Nat /\ s \in [1..n -> TeamRank]
    OBVIOUS
  <2>3. PointsSummed(s, to, g)
    BY <1>4, <1>6, <2>1, <2>2, PointsAreSums
  <2> QED BY <2>3 DEF PointsSummed
<1>9. f[at] = g[to]
  <2>1. SumsEqual(f, at, g, perm)
    BY <1>1, <1>3, <1>5, <1>6, SumsMove
  <2> QED BY <2>1 DEF SumsEqual, to
<1> QED BY <1>7, <1>8, <1>9 DEF to

-----------------------------------------------------------------------------
(* The statistics. *)

Cells == [mode : StatModes, version : StatVersions, region : StatRegions,
          league : StatLeagues, race0 : Races]

CellFields(c) == /\ c.mode \in Int /\ c.version \in Int /\ c.region \in Int
                 /\ c.league \in Int /\ c.race0 \in Int

LEMMA CellsAreNumbers ==
  ASSUME NEW c \in Cells
  PROVE  CellFields(c)
<1>1. /\ StatModes \subseteq Int /\ StatVersions \subseteq Int
      /\ StatRegions \subseteq Int /\ StatLeagues \subseteq Int
  BY LadderFields DEF StatModes, StatVersions, StatRegions, StatLeagues
<1>2. Races \subseteq Int
  BY IdsAreNumbers
<1>3. /\ c.mode \in StatModes /\ c.version \in StatVersions /\ c.region \in StatRegions
      /\ c.league \in StatLeagues /\ c.race0 \in Races
  BY DEF Cells
<1> QED BY <1>1, <1>2, <1>3 DEF CellFields

LEMMA CellsAreFinite == IsFiniteSet(Cells)
<1>1. /\ IsFiniteSet(StatModes) /\ IsFiniteSet(StatVersions)
      /\ IsFiniteSet(StatRegions) /\ IsFiniteSet(StatLeagues)
  <2>1. IsFiniteSet(Ladders)
    BY RankingDataAssumption
  <2> DEFINE f1 == [l \in Ladders |-> LadderInfo[l].mode]
             f2 == [l \in Ladders |-> LadderInfo[l].version]
             f3 == [l \in Ladders |-> LadderInfo[l].region]
             f4 == [l \in Ladders |-> LadderInfo[l].league]
  <2>2. f1 \in Surjection(Ladders, StatModes)
    BY DEF Surjection, StatModes
  <2>3. f2 \in Surjection(Ladders, StatVersions)
    BY DEF Surjection, StatVersions
  <2>4. f3 \in Surjection(Ladders, StatRegions)
    BY DEF Surjection, StatRegions
  <2>5. f4 \in Surjection(Ladders, StatLeagues)
    BY DEF Surjection, StatLeagues
  <2> HIDE DEF f1, f2, f3, f4
  <2>6. ASSUME NEW T, NEW f, f \in Surjection(Ladders, T) PROVE IsFiniteSet(T)
    BY <2>1, <2>6, FS_Surjection
  <2> QED BY <2>2, <2>3, <2>4, <2>5, <2>6
<1>2. IsFiniteSet(Races)
  <2>1. Races \subseteq RACE_LO..RACE_HI
    BY RankingDataAssumption
  <2>2. RACE_LO \in Int /\ RACE_HI \in Int
    BY DEF RACE_LO, RACE_HI
  <2>3. IsFiniteSet(RACE_LO..RACE_HI)
    BY <2>2, FS_Interval
  <2> QED BY <2>1, <2>3, FS_Subset
<1>3. IsFiniteSet((((StatModes \X StatVersions) \X StatRegions) \X StatLeagues) \X Races)
  BY <1>1, <1>2, FS_Product
<1> DEFINE P == (((StatModes \X StatVersions) \X StatRegions) \X StatLeagues) \X Races
           f == [p \in P |-> [mode |-> p[1][1][1][1], version |-> p[1][1][1][2],
                              region |-> p[1][1][2], league |-> p[1][2], race0 |-> p[2]]]
<1>4. f \in [P -> Cells]
  <2>1. ASSUME NEW p \in P
        PROVE  /\ p[1][1][1][1] \in StatModes /\ p[1][1][1][2] \in StatVersions
               /\ p[1][1][2] \in StatRegions /\ p[1][2] \in StatLeagues /\ p[2] \in Races
    OBVIOUS
  <2> HIDE DEF P
  <2> QED BY <2>1 DEF Cells
<1>5. ASSUME NEW c \in Cells PROVE \E p \in P : f[p] = c
  <2> DEFINE p == <<<<<<<<c.mode, c.version>>, c.region>>, c.league>>, c.race0>>
  <2>1. p \in P
    BY DEF Cells
  <2>2. /\ p[1][1][1][1] = c.mode /\ p[1][1][1][2] = c.version /\ p[1][1][2] = c.region
        /\ p[1][2] = c.league /\ p[2] = c.race0
    OBVIOUS
  <2> HIDE DEF P, p
  <2>3. f[p] = [mode |-> c.mode, version |-> c.version, region |-> c.region,
                league |-> c.league, race0 |-> c.race0]
    BY <2>1, <2>2
  <2>4. c = [mode |-> c.mode, version |-> c.version, region |-> c.region,
             league |-> c.league, race0 |-> c.race0]
    BY DEF Cells
  <2> HIDE DEF f
  <2> QED BY <2>1, <2>3, <2>4
<1> HIDE DEF f
<1>6. f \in Surjection(P, Cells)
  <2> HIDE DEF P
  <2> QED BY <1>4, <1>5 DEF Surjection
<1>7. IsFiniteSet(P)
  BY <1>3
<1> HIDE DEF P
<1> QED BY <1>6, <1>7, FS_Surjection

LEMMA CellsOrder ==
  ASSUME NEW x, CellFields(x), NEW y, CellFields(y)
  PROVE  BeforeForStats(x, y)
           <=> \/ x.mode < y.mode \/ (x.mode = y.mode /\ x.version < y.version)
               \/ x.mode = y.mode /\ x.version = y.version /\ x.region < y.region
               \/ x.mode = y.mode /\ x.version = y.version /\ x.region = y.region
                    /\ x.league < y.league
               \/ x.mode = y.mode /\ x.version = y.version /\ x.region = y.region
                    /\ x.league = y.league /\ x.race0 < y.race0
BY LexFive DEF BeforeForStats

\* The places are all there are, each after those before it.
IsCells(n) ==
  /\ n \in Nat /\ StatCells \in [1..n -> Cells] /\ DOMAIN StatCells = 1..n
  /\ \A p, q \in 1..n : p < q => BeforeForStats(StatCells[p], StatCells[q])
  /\ \A c \in Cells : \E p \in 1..n : StatCells[p] = c

LEMMA StatCellsAre == IsCells(Cardinality(Cells))
<1> DEFINE n == Cardinality(Cells)
           T == {p \in Cells \X Cells : BeforeForStats(p[1], p[2])}
           place == PlaceIn(Cells, T)
           Nth(k) == CHOOSE c \in Cells : Cardinality({d \in Cells : BeforeForStats(d, c)}) = k - 1
<1>1. n \in Nat
  BY CellsAreFinite, FS_CardinalityType
<1>2. \A c, d \in Cells : <<c, d>> \in T <=> BeforeForStats(c, d)
  OBVIOUS
<1>3. TotalOrder(Cells, T)
  <2> SUFFICES ASSUME NEW x \in Cells, NEW y \in Cells, NEW z \in Cells
               PROVE  /\ <<x, x>> \notin T
                      /\ <<x, y>> \in T /\ <<y, z>> \in T => <<x, z>> \in T
                      /\ x = y \/ <<x, y>> \in T \/ <<y, x>> \in T
    BY DEF TotalOrder
  <2>1. \A u \in {x, y, z} : /\ u.mode \in Int /\ u.version \in Int /\ u.region \in Int
                             /\ u.league \in Int /\ u.race0 \in Int
    BY CellsAreNumbers DEF CellFields
  <2>2. \A u, v \in {x, y, z} :
          BeforeForStats(u, v)
            <=> \/ u.mode < v.mode \/ (u.mode = v.mode /\ u.version < v.version)
                \/ u.mode = v.mode /\ u.version = v.version /\ u.region < v.region
                \/ u.mode = v.mode /\ u.version = v.version /\ u.region = v.region
                     /\ u.league < v.league
                \/ u.mode = v.mode /\ u.version = v.version /\ u.region = v.region
                     /\ u.league = v.league /\ u.race0 < v.race0
    BY CellsAreNumbers, CellsOrder
  <2>3. x = y \/ BeforeForStats(x, y) \/ BeforeForStats(y, x)
    <3>1. CASE /\ x.mode = y.mode /\ x.version = y.version /\ x.region = y.region
               /\ x.league = y.league /\ x.race0 = y.race0
      BY <3>1 DEF Cells
    <3>2. CASE ~(/\ x.mode = y.mode /\ x.version = y.version /\ x.region = y.region
                 /\ x.league = y.league /\ x.race0 = y.race0)
      BY <2>1, <2>2, <3>2
    <3> QED BY <3>1, <3>2
  <2>4. ~BeforeForStats(x, x)
    BY <2>1, <2>2
  <2>5. BeforeForStats(x, y) /\ BeforeForStats(y, z) => BeforeForStats(x, z)
    BY <2>1, <2>2
  <2> QED BY <1>2, <2>3, <2>4, <2>5
<1>4. IsPlacing(place, n, Cells, T)
  BY <1>3, CellsAreFinite, Places
<1>5. \A c \in Cells : place[c] = 1 + Cardinality({d \in Cells : BeforeForStats(d, c)})
  <2>1. ASSUME NEW c \in Cells
        PROVE  {d \in Cells : <<d, c>> \in T} = {d \in Cells : BeforeForStats(d, c)}
    BY <1>2
  <2> HIDE DEF T
  <2>2. \A c \in Cells : place[c] = 1 + Cardinality({d \in Cells : <<d, c>> \in T})
    BY DEF PlaceIn
  <2> QED BY <2>1, <2>2
<1>6. StatCells = [k \in 1..n |-> Nth(k)]
  BY DEF StatCells, Cells
<1> HIDE DEF T, place, n
<1>7. /\ place \in [Cells -> 1..n]
      /\ \A c, d \in Cells : place[c] < place[d] <=> BeforeForStats(c, d)
      /\ \A c, d \in Cells : place[c] = place[d] => c = d
      /\ \A p \in 1..n : \E c \in Cells : place[c] = p
  BY <1>2, <1>4 DEF IsPlacing
<1>8. ASSUME NEW k \in 1..n PROVE Nth(k) \in Cells /\ place[Nth(k)] = k
  <2>1. PICK c \in Cells : place[c] = k
    BY <1>7
  <2>2. \A d \in Cells : Cardinality({e \in Cells : BeforeForStats(e, d)}) = k - 1 <=> place[d] = k
    <3>1. ASSUME NEW d \in Cells PROVE Cardinality({e \in Cells : BeforeForStats(e, d)}) \in Int
      <4>1. IsFiniteSet({e \in Cells : BeforeForStats(e, d)})
        BY CellsAreFinite, FS_Subset
      <4> QED BY <4>1, FS_CardinalityType
    <3> QED BY <1>1, <1>5, <3>1
  <2>3. Nth(k) \in Cells /\ Cardinality({e \in Cells : BeforeForStats(e, Nth(k))}) = k - 1
    <3> DEFINE C(d) == Cardinality({e \in Cells : BeforeForStats(e, d)}) = k - 1
    <3>1. C(c)
      BY <2>1, <2>2
    <3>2. Nth(k) = CHOOSE d \in Cells : C(d)
      OBVIOUS
    <3> HIDE DEF C, Nth
    <3>3. Nth(k) \in Cells /\ C(Nth(k))
      BY <3>1, <3>2
    <3> QED BY <3>3 DEF C
  <2> HIDE DEF Nth
  <2> QED BY <2>2, <2>3
<1> HIDE DEF Nth
<1>9. StatCells \in [1..n -> Cells] /\ DOMAIN StatCells = 1..n /\ \A k \in 1..n : StatCells[k] = Nth(k)
  BY <1>6, <1>8
<1>10. ASSUME NEW p \in 1..n, NEW q \in 1..n, p < q
       PROVE  BeforeForStats(StatCells[p], StatCells[q])
  BY <1>7, <1>8, <1>9, <1>10
<1>11. ASSUME NEW c \in Cells PROVE \E p \in 1..n : StatCells[p] = c
  <2>1. place[c] \in 1..n
    BY <1>7
  <2>2. place[Nth(place[c])] = place[c] /\ Nth(place[c]) \in Cells
    BY <1>8, <2>1
  <2> QED BY <1>7, <1>9, <2>1, <2>2
<1>12. IsCells(n)
  BY <1>1, <1>9, <1>10, <1>11 DEF IsCells, n
<1> QED BY <1>12 DEF n

LEMMA RunIsCounted ==
  ASSUME NEW m \in Nat, NEW s \in [1..m -> TeamRank], NEW i \in Nat, NEW c
  PROVE  /\ Cardinality(RunFrom(s, i, c)) \in Nat
         /\ \A j : j \in RunFrom(s, i, c) <=> j \in i..m /\ \A k \in i..j : InCell(s[k], c)
<1>1. Len(s) = m
  OBVIOUS
<1>2. \A j : j \in RunFrom(s, i, c) <=> j \in i..m /\ \A k \in i..j : InCell(s[k], c)
  BY <1>1 DEF RunFrom
<1>3. RunFrom(s, i, c) \in SUBSET (i..m)
  BY <1>2
<1>4. IsFiniteSet(RunFrom(s, i, c))
  <2>1. IsFiniteSet(i..m)
    BY FS_Interval
  <2> QED BY <1>3, <2>1, FS_Subset
<1> QED BY <1>2, <1>4, FS_CardinalityType

IsStarts(h, s, n) ==
  /\ h \in [1..n -> Nat]
  /\ \A k \in 1..n : h[k] = IF k = 1 THEN 1
                            ELSE h[k - 1] + Cardinality(RunFrom(s, h[k - 1], StatCells[k - 1]))

\* What begins the places can be continued from one to the next, so it is for all.
LEMMA StartsAre ==
  ASSUME NEW n, IsCells(n), NEW m \in Nat, NEW s \in [1..m -> TeamRank]
  PROVE  IsStarts(Starts(s), s, n)
<1> DEFINE Next1(h, k) == IF k = 1 THEN 1
                          ELSE h[k - 1] + Cardinality(RunFrom(s, h[k - 1], StatCells[k - 1]))
           G(h) == [k \in 1..n |-> Next1(h, k)]
           index == CHOOSE h : h = G(h)
           Up(h, q) == h \in [1..n -> Nat] /\ \A k \in 1..n : k <= q => h[k] = Next1(h, k)
           Bad == {q \in 0..n : ~\E h : Up(h, q)}
<1>1. n \in Nat /\ DOMAIN StatCells = 1..n
  BY DEF IsCells
<1>2. Starts(s) = index
  BY <1>1 DEF Starts
<1>3. Bad = {}
  <2> SUFFICES ASSUME NEW b \in Bad PROVE FALSE
    OBVIOUS
  <2>1. Bad \in SUBSET Nat
    BY <1>1
  <2> HIDE DEF Bad
  <2>2. PICK q \in Bad : \A k \in Bad : q <= k
    BY <2>1, Smallest
  <2>3. q \in 0..n /\ ~\E h : Up(h, q)
    BY DEF Bad
  <2>4. CASE q = 0
    <3> DEFINE h == [k \in 1..n |-> 1]
    <3>1. Up(h, q)
      BY <2>4
    <3> QED BY <2>3, <3>1
  <2>5. CASE q # 0
    <3>1. q - 1 \in 0..n /\ ~(q <= q - 1) /\ q \in 1..n
      BY <1>1, <2>3, <2>5
    <3>2. PICK g : Up(g, q - 1)
      BY <2>2, <3>1 DEF Bad
    <3> DEFINE h == [g EXCEPT ![q] = Next1(g, q)]
    <3>3. Next1(g, q) \in Nat
      <4>1. CASE q = 1
        BY <4>1
      <4>2. CASE q # 1
        <5>1. q - 1 \in 1..n
          BY <1>1, <3>1, <4>2
        <5>2. g[q - 1] \in Nat
          BY <3>2, <5>1
        <5>3. Cardinality(RunFrom(s, g[q - 1], StatCells[q - 1])) \in Nat
          BY <5>2, RunIsCounted
        <5> QED BY <4>2, <5>2, <5>3
      <4> QED BY <4>1, <4>2
    <3>4. \A k \in 1..n : k # q => h[k] = g[k]
      BY <3>2
    <3>5. h[q] = Next1(g, q)
      BY <3>1, <3>2
    <3> HIDE DEF Next1
    <3>6. h \in [1..n -> Nat]
      BY <3>2, <3>3
    <3> HIDE DEF h
    <3>7. ASSUME NEW k \in 1..n, k <= q PROVE Next1(h, k) = Next1(g, k)
      <4>1. CASE k = 1
        BY <4>1 DEF Next1
      <4>2. CASE k # 1
        <5>1. k - 1 \in 1..n /\ k - 1 # q
          BY <1>1, <3>1, <3>7, <4>2
        <5>2. h[k - 1] = g[k - 1]
          BY <3>4, <5>1
        <5> QED BY <5>2 DEF Next1
      <4> QED BY <4>1, <4>2
    <3>8. ASSUME NEW k \in 1..n, k <= q PROVE h[k] = Next1(h, k)
      <4>1. CASE k = q
        BY <3>5, <3>7, <3>8, <4>1
      <4>2. CASE k # q
        <5>1. k <= q - 1
          BY <1>1, <3>1, <3>8, <4>2
        <5>2. g[k] = Next1(g, k)
          BY <3>2, <5>1
        <5> QED BY <3>4, <3>7, <3>8, <4>2, <5>2
      <4> QED BY <4>1, <4>2
    <3> QED BY <2>3, <3>6, <3>8
  <2> QED BY <2>4, <2>5
<1>4. PICK f : Up(f, n)
  <2>1. n \in 0..n
    BY <1>1
  <2>2. n \notin Bad
    <3> HIDE DEF Bad
    <3> QED BY <1>3
  <2> QED BY <2>1, <2>2
<1>5. f = G(f)
  <2>1. f = [k \in 1..n |-> f[k]] /\ \A k \in 1..n : f[k] = Next1(f, k)
    <3>1. \A k \in 1..n : k <= n
      BY <1>1
    <3> HIDE DEF Next1
    <3> QED BY <1>4, <3>1
  <2> HIDE DEF Next1
  <2> QED BY <2>1
<1>6. index = G(index)
  <2> HIDE DEF G
  <2> QED BY <1>5
<1> HIDE DEF index
<1>7. \A k \in 1..n : index[k] = Next1(index, k)
  <2> HIDE DEF Next1
  <2> QED BY <1>6
\* There is no other.
<1> DEFINE Other == {k \in 1..n : index[k] # f[k]}
<1>8. Other = {}
  <2> SUFFICES ASSUME NEW b \in Other PROVE FALSE
    OBVIOUS
  <2>1. Other \in SUBSET Nat
    BY <1>1
  <2> HIDE DEF Other
  <2>2. PICK k \in Other : \A j \in Other : k <= j
    BY <2>1, Smallest
  <2>3. k \in 1..n /\ index[k] # f[k]
    BY DEF Other
  <2>4. f[k] = Next1(f, k) /\ index[k] = Next1(index, k)
    <3>1. k <= n
      BY <1>1, <2>3
    <3> HIDE DEF Next1
    <3> QED BY <1>4, <1>7, <2>3, <3>1
  <2>5. CASE k = 1
    BY <2>3, <2>4, <2>5
  <2>6. CASE k # 1
    <3>1. k - 1 \in 1..n /\ ~(k <= k - 1)
      BY <1>1, <2>3, <2>6
    <3>2. index[k - 1] = f[k - 1]
      BY <2>2, <3>1 DEF Other
    <3> QED BY <2>3, <2>4, <2>6, <3>2
  <2> QED BY <2>5, <2>6
<1>9. index = f
  <2>1. index = [k \in 1..n |-> index[k]]
    BY <1>6
  <2>2. f = [k \in 1..n |-> f[k]]
    BY <1>4
  <2>3. \A k \in 1..n : index[k] = f[k]
    BY <1>8
  <2> QED BY <2>1, <2>2, <2>3
<1>10. IsStarts(f, s, n)
  <2>1. \A k \in 1..n : k <= n
    BY <1>1
  <2>2. f \in [1..n -> Nat] /\ \A k \in 1..n : f[k] = Next1(f, k)
    <3> HIDE DEF Next1
    <3> QED BY <1>4, <2>1
  <2> QED BY <2>2 DEF IsStarts
<1> QED BY <1>2, <1>9, <1>10

\* A set of places that has all places below any of its own is all up to one.
LEMMA InitialPart ==
  ASSUME NEW m \in Nat, NEW S \in SUBSET (1..m), \A i \in S, j \in 1..m : j < i => j \in S
  PROVE  S = 1..Cardinality(S) /\ Cardinality(S) \in 0..m
<1>1. \E q \in 0..m : S = 1..q
  <2>1. CASE S = 1..m
    BY <2>1
  <2>2. CASE S # 1..m
    <3> DEFINE R == (1..m) \ S
    <3>1. R \in SUBSET Nat /\ \E x : x \in R
      <4>1. R \in SUBSET Nat
        OBVIOUS
      <4>2. ASSUME \A x \in 1..m : x \in S PROVE S = 1..m
        BY <4>2
      <4>3. \E x \in 1..m : x \notin S
        BY <2>2, <4>2
      <4> QED BY <4>1, <4>3
    <3> HIDE DEF R
    <3>2. PICK x \in R : \A k \in R : x <= k
      BY <3>1, Smallest
    <3>3. x \in 1..m /\ x \notin S
      BY DEF R
    <3>4. \A k \in 1..m : k \in S <=> k < x
      <4>1. ASSUME NEW k \in 1..m, k < x PROVE k \in S
        BY <3>2, <3>3, <4>1 DEF R
      <4>2. ASSUME NEW k \in 1..m, ~(k < x) PROVE k \notin S
        BY <3>3, <4>2
      <4> QED BY <4>1, <4>2
    <3>5. S = 1..(x - 1)
      <4>1. \A k : k \in 1..(x - 1) <=> k \in 1..m /\ k < x
        BY <3>3
      <4>2. \A k : k \in S <=> k \in 1..(x - 1)
        BY <3>4, <4>1
      <4> QED BY <4>2
    <3> QED BY <3>3, <3>5
  <2> QED BY <2>1, <2>2
<1>2. PICK q \in 0..m : S = 1..q
  BY <1>1
<1>3. Cardinality(1..q) = q
  BY FS_Interval
<1> QED BY <1>2, <1>3

\* Whoever is anywhere in a sequence in the order of the places is counted for his own.
LEMMA EveryRun ==
  ASSUME NEW n, IsCells(n), NEW m \in Nat, NEW s \in [1..m -> TeamRank],
         \A i, j \in 1..m : i < j => ~StatsOrder(s[j], s[i]),
         \A j \in 1..m : \E c \in Cells : InCell(s[j], c),
         NEW k \in 1..n
  PROVE  RunFrom(s, Starts(s)[k], StatCells[k]) = {j \in 1..m : InCell(s[j], StatCells[k])}
<1> DEFINE pos == [j \in 1..m |-> CHOOSE q \in 1..n : InCell(s[j], StatCells[q])]
           h == Starts(s)
<1>1. /\ n \in Nat /\ \A q \in 1..n : StatCells[q] \in Cells
      /\ \A p, q \in 1..n : p < q => BeforeForStats(StatCells[p], StatCells[q])
      /\ \A c \in Cells : \E p \in 1..n : StatCells[p] = c
  BY DEF IsCells
<1>2. /\ \A q \in 1..n : h[q] \in Nat
      /\ \A q \in 1..n : h[q] = IF q = 1 THEN 1
                                ELSE h[q - 1] + Cardinality(RunFrom(s, h[q - 1], StatCells[q - 1]))
  <2>1. IsStarts(h, s, n)
    BY StartsAre
  <2> HIDE DEF h
  <2> QED BY <2>1 DEF IsStarts
<1> HIDE DEF h
<1>3. ASSUME NEW j \in 1..m PROVE pos[j] \in 1..n /\ InCell(s[j], StatCells[pos[j]])
  <2>1. PICK c \in Cells : InCell(s[j], c)
    OBVIOUS
  <2>2. PICK q \in 1..n : StatCells[q] = c
    BY <1>1
  <2>3. pos[j] = CHOOSE p \in 1..n : InCell(s[j], StatCells[p])
    OBVIOUS
  <2> HIDE DEF pos
  <2> QED BY <2>1, <2>2, <2>3
<1> HIDE DEF pos
<1>4. ASSUME NEW p \in 1..n, NEW q \in 1..n, NEW x \in TeamRank, NEW y \in TeamRank,
             p < q, InCell(x, StatCells[p]), InCell(y, StatCells[q])
      PROVE  StatsOrder(x, y) /\ ~InCell(x, StatCells[q])
  <2> DEFINE c == StatCells[p]
             d == StatCells[q]
  <2>1. CellFields(c) /\ CellFields(d) /\ BeforeForStats(c, d)
    BY <1>1, <1>4, CellsAreNumbers
  <2> HIDE DEF c, d
  <2>2. /\ x.mode = c.mode /\ x.version = c.version /\ x.region = c.region
        /\ x.league = c.league /\ x.race0 = c.race0
        /\ y.mode = d.mode /\ y.version = d.version /\ y.region = d.region
        /\ y.league = d.league /\ y.race0 = d.race0
    BY <1>4 DEF InCell, c, d
  <2>3. CellFields(x) /\ CellFields(y)
    BY <2>1, <2>2 DEF CellFields
  <2>4. BeforeForStats(x, y)
    BY <2>1, <2>2, <2>3, CellsOrder
  <2>5. ~InCell(x, d)
    <3> SUFFICES ASSUME InCell(x, d) PROVE FALSE
      OBVIOUS
    <3>1. /\ c.mode = d.mode /\ c.version = d.version /\ c.region = d.region
          /\ c.league = d.league /\ c.race0 = d.race0
      BY <2>2 DEF InCell
    <3>2. \/ c.mode < d.mode \/ c.version < d.version \/ c.region < d.region
          \/ c.league < d.league \/ c.race0 < d.race0
      BY <2>1, CellsOrder
    <3>3. c.mode \in Int /\ c.version \in Int /\ c.region \in Int /\ c.league \in Int
          /\ c.race0 \in Int
      BY <2>1 DEF CellFields
    <3> QED BY <3>1, <3>2, <3>3
  <2> QED BY <2>4, <2>5 DEF StatsOrder, d
<1>5. \A i, j \in 1..m : i < j => pos[i] <= pos[j]
  <2> SUFFICES ASSUME NEW i \in 1..m, NEW j \in 1..m, i < j, ~(pos[i] <= pos[j]) PROVE FALSE
    OBVIOUS
  <2>1. pos[j] < pos[i] /\ pos[i] \in 1..n /\ pos[j] \in 1..n
    BY <1>1, <1>3
  <2>2. StatsOrder(s[j], s[i])
    BY <1>3, <1>4, <2>1
  <2> QED BY <2>2
<1>6. ASSUME NEW j \in 1..m, NEW q \in 1..n
      PROVE  InCell(s[j], StatCells[q]) <=> pos[j] = q
  <2>1. pos[j] \in 1..n /\ InCell(s[j], StatCells[pos[j]])
    BY <1>3
  <2>2. CASE pos[j] = q
    BY <2>1, <2>2
  <2>3. CASE pos[j] < q
    <3> SUFFICES ASSUME InCell(s[j], StatCells[q]) PROVE FALSE
      BY <2>1, <2>3
    <3>1. s[j] \in TeamRank
      OBVIOUS
    <3> QED BY <1>4, <2>1, <2>3, <3>1
  <2>4. CASE q < pos[j]
    <3> SUFFICES ASSUME InCell(s[j], StatCells[q]) PROVE FALSE
      BY <2>1, <2>4
    <3>1. s[j] \in TeamRank
      OBVIOUS
    <3> QED BY <1>4, <2>1, <2>4, <3>1
  <2>5. pos[j] = q \/ pos[j] < q \/ q < pos[j]
    BY <1>1, <2>1
  <2> QED BY <2>2, <2>3, <2>4, <2>5
\* Where a place begins, all of the places before it have passed, and none else.
<1> DEFINE Passed(q) == h[q] \in 1..(m + 1) /\ \A j \in 1..m : j < h[q] <=> pos[j] < q
           Own(q) == {j \in 1..m : pos[j] = q}
<1>7. ASSUME NEW q \in 1..n, Passed(q)
      PROVE  RunFrom(s, h[q], StatCells[q]) = Own(q)
  <2>1. \A j : j \in RunFrom(s, h[q], StatCells[q])
           <=> j \in h[q]..m /\ \A i \in h[q]..j : InCell(s[i], StatCells[q])
    BY <1>2, RunIsCounted
  <2>2. ASSUME NEW j, j \in RunFrom(s, h[q], StatCells[q]) PROVE j \in Own(q)
    <3>1. j \in h[q]..m /\ j \in h[q]..j /\ j \in 1..m
      BY <1>7, <2>1, <2>2
    <3>2. InCell(s[j], StatCells[q])
      BY <2>1, <2>2, <3>1
    <3> QED BY <1>6, <3>1, <3>2
  <2>3. ASSUME NEW j \in Own(q) PROVE j \in RunFrom(s, h[q], StatCells[q])
    <3>1. j \in 1..m /\ pos[j] = q /\ j \in h[q]..m
      BY <1>1, <1>7
    <3>2. ASSUME NEW i \in h[q]..j PROVE InCell(s[i], StatCells[q])
      <4>1. i \in 1..m /\ ~(i < h[q]) /\ (i = j \/ i < j)
        BY <1>7, <3>1
      <4>2. pos[i] \in 1..n /\ ~(pos[i] < q) /\ pos[i] <= q
        BY <1>1, <1>3, <1>5, <1>7, <3>1, <4>1
      <4>3. pos[i] = q
        BY <1>1, <4>2
      <4> QED BY <1>6, <4>1, <4>3
    <3> QED BY <2>1, <3>1, <3>2
  <2> HIDE DEF Own
  <2> QED BY <2>2, <2>3
<1>8. ASSUME NEW q \in 1..n, q # 1, Passed(q - 1)
      PROVE  Passed(q)
  <2>1. q - 1 \in 1..n
    BY <1>1, <1>8
  <2> DEFINE R == Own(q - 1)
             L == {j \in 1..m : pos[j] < q}
             B == {j \in 1..m : pos[j] < q - 1}
  <2>2. h[q] = h[q - 1] + Cardinality(R) /\ h[q - 1] \in 1..(m + 1)
    BY <1>2, <1>7, <1>8, <2>1
  <2>3. L = B \cup R /\ B \cap R = {} /\ B = 1..(h[q - 1] - 1)
    <3>1. \A j \in 1..m : pos[j] \in Int
      BY <1>1, <1>3
    <3>2. B = 1..(h[q - 1] - 1)
      <4>1. \A j : j \in 1..(h[q - 1] - 1) <=> j \in 1..m /\ j < h[q - 1]
        BY <2>2
      <4>2. \A j : j \in B <=> j \in 1..(h[q - 1] - 1)
        BY <1>8, <4>1
      <4> HIDE DEF B
      <4> QED BY <4>2
    <3>3. \A j \in 1..m : /\ pos[j] < q <=> pos[j] < q - 1 \/ pos[j] = q - 1
                          /\ pos[j] < q - 1 => pos[j] # q - 1
      <4>1. ASSUME NEW u \in Int
            PROVE  /\ u < q <=> u < q - 1 \/ u = q - 1
                   /\ u < q - 1 => u # q - 1
        <5>1. q \in Int
          BY <1>1
        <5> QED BY <5>1
      <4> QED BY <3>1, <4>1
    <3>4. L = B \cup R /\ B \cap R = {}
      BY <3>3
    <3> QED BY <3>2, <3>4
  <2>4. IsFiniteSet(B) /\ IsFiniteSet(R) /\ Cardinality(R) \in Nat
    <3>1. IsFiniteSet(1..m) /\ B \in SUBSET (1..m) /\ R \in SUBSET (1..m)
      BY FS_Interval
    <3>2. R \in SUBSET (1..m)
      BY <3>1
    <3> HIDE DEF R, B
    <3>3. IsFiniteSet(B) /\ IsFiniteSet(R)
      BY <3>1, FS_Subset
    <3> QED BY <3>3, FS_CardinalityType
  <2>5. Cardinality(B) = h[q - 1] - 1
    <3> DEFINE e == h[q - 1] - 1
    <3>1. e \in Nat /\ B = 1..e
      BY <2>2, <2>3
    <3> HIDE DEF e, B
    <3>2. Cardinality(B) = e
      BY <3>1, FS_Interval
    <3> QED BY <3>2 DEF e
  <2>6. L \in SUBSET (1..m) /\ \A i \in L, j \in 1..m : j < i => j \in L
    <3>1. ASSUME NEW i \in L, NEW j \in 1..m, j < i PROVE j \in L
      <4>1. i \in 1..m /\ pos[i] \in 1..n /\ pos[j] \in 1..n /\ pos[j] <= pos[i] /\ pos[i] < q
        BY <1>3, <1>5, <3>1
      <4> QED BY <1>1, <4>1
    <3> QED BY <3>1
  <2>7. L = 1..Cardinality(L) /\ Cardinality(L) \in 0..m
    <3> HIDE DEF L
    <3> QED BY <2>6, InitialPart
  <2>8. Cardinality(L) = Cardinality(B) + Cardinality(R)
    <3> HIDE DEF L, B, R
    <3>1. Cardinality(B \cup R) = Cardinality(B) + Cardinality(R) - Cardinality({})
      BY <2>3, <2>4, FS_Union
    <3>2. Cardinality({}) = 0
      BY FS_EmptySet
    <3>3. Cardinality(B) \in Nat
      BY <2>4, FS_CardinalityType
    <3> QED BY <2>3, <2>4, <3>1, <3>2, <3>3
  <2> DEFINE z == Cardinality(L)
  <2>9. z \in 0..m /\ L = 1..z
    BY <2>7
  <2> HIDE DEF z
  <2>10. h[q] = z + 1
    BY <2>2, <2>4, <2>5, <2>8 DEF z
  <2>11. \A j \in 1..m : j \in L <=> j < h[q]
    BY <2>9, <2>10
  <2> QED BY <2>9, <2>10, <2>11
<1>9. ASSUME 1 \in 1..n PROVE Passed(1)
  <2>1. h[1] = 1
    BY <1>2, <1>9
  <2>2. \A j \in 1..m : ~(j < 1) /\ ~(pos[j] < 1)
    BY <1>1, <1>3
  <2> QED BY <2>1, <2>2
<1> DEFINE Bad == {q \in 1..n : ~Passed(q)}
<1>10. Bad = {}
  <2> SUFFICES ASSUME NEW b \in Bad PROVE FALSE
    OBVIOUS
  <2>1. Bad \in SUBSET Nat
    BY <1>1
  <2> HIDE DEF Bad
  <2>2. PICK q \in Bad : \A p \in Bad : q <= p
    BY <2>1, Smallest
  <2>3. q \in 1..n /\ ~Passed(q)
    BY DEF Bad
  <2> HIDE DEF Passed
  <2>4. q # 1
    BY <1>9, <2>3
  <2>5. q - 1 \in 1..n /\ ~(q <= q - 1)
    BY <1>1, <2>3, <2>4
  <2>6. Passed(q - 1)
    BY <2>2, <2>5 DEF Bad
  <2> QED BY <1>8, <2>3, <2>4, <2>6
<1>11. Passed(k)
  <2> HIDE DEF Passed
  <2> QED BY <1>10
<1>12. RunFrom(s, h[k], StatCells[k]) = Own(k)
  <2> HIDE DEF Passed, Own
  <2> QED BY <1>7, <1>11
<1>13. Own(k) = {j \in 1..m : InCell(s[j], StatCells[k])}
  BY <1>6
<1> HIDE DEF Own
<1> QED BY <1>12, <1>13 DEF h

OwnOf(s, c) == {i \in DOMAIN s : InCell(s[i], c)}

\* Every place has the number and the points of all its ranks.
Counted(st, s) ==
  \A k \in DOMAIN StatCells :
    st[k] = [count |-> Cardinality(OwnOf(s, StatCells[k])),
             points |-> Points(s, OwnOf(s, StatCells[k]))]

LEMMA CountedMoves ==
  ASSUME NEW n \in Nat, NEW s \in [1..n -> TeamRank], NEW t \in [1..n -> TeamRank],
         NEW perm, Permutation(n, perm), \A i \in 1..n : Agree(t[i], s[perm[i]]),
         NEW st, Counted(st, s)
  PROVE  Counted(st, t)
<1> SUFFICES ASSUME NEW k \in DOMAIN StatCells
             PROVE  st[k] = [count |-> Cardinality(OwnOf(t, StatCells[k])),
                             points |-> Points(t, OwnOf(t, StatCells[k]))]
  BY DEF Counted
<1> DEFINE A == OwnOf(t, StatCells[k])
           B == OwnOf(s, StatCells[k])
<1>1. /\ DOMAIN s = 1..n /\ DOMAIN t = 1..n
      /\ \A i \in 1..n : perm[i] \in 1..n
      /\ \A i \in 1..n : \E j \in 1..n : perm[j] = i
  BY DEF Permutation
<1>2. A \in SUBSET (1..n) /\ B \in SUBSET (1..n)
  BY <1>1 DEF OwnOf
<1>3. ASSUME NEW i \in 1..n
      PROVE  (i \in A <=> perm[i] \in B) /\ t[i].points = s[perm[i]].points
  <2>1. Agree(t[i], s[perm[i]]) /\ perm[i] \in 1..n
    BY <1>1
  <2> QED BY <1>1, <2>1 DEF Agree, InCell, OwnOf
<1>4. st[k] = [count |-> Cardinality(B), points |-> Points(s, B)]
  BY DEF Counted
<1> HIDE DEF A, B
<1>5. Cardinality(A) = Cardinality(B)
  BY <1>2, <1>3, SameCount
<1>6. {perm[i] : i \in A} = B
  <2>1. \A i \in A : perm[i] \in B
    BY <1>2, <1>3
  <2>2. ASSUME NEW j \in B PROVE \E i \in A : perm[i] = j
    <3>1. PICK i \in 1..n : perm[i] = j
      BY <1>1, <1>2
    <3> QED BY <1>3, <3>1
  <2> QED BY <2>1, <2>2
<1>7. Points(t, A) = Points(s, {perm[i] : i \in A})
  BY <1>2, <1>3, PointsMove
<1>8. st[k] = [count |-> Cardinality(A), points |-> Points(t, A)]
  BY <1>4, <1>5, <1>6, <1>7
<1> QED BY <1>8 DEF A

LEMMA RowHasCell ==
  ASSUME NEW x, Row(x)
  PROVE  \E c \in Cells : InCell(x, c)
<1> DEFINE c == [mode |-> x.mode, version |-> x.version, region |-> x.region,
                 league |-> x.league, race0 |-> x.race0]
<1>1. x \in TeamRank /\ x.ladder_id \in Ladders /\ x.race0 \in Races
  BY RowFields DEF Row
<1>2. /\ x.mode \in StatModes /\ x.version \in StatVersions
      /\ x.region \in StatRegions /\ x.league \in StatLeagues
  BY <1>1 DEF Row, StatModes, StatRegions, StatLeagues
<1>3. c \in Cells
  BY <1>1, <1>2 DEF Cells
<1>4. InCell(x, c)
  BY DEF InCell
<1> QED BY <1>3, <1>4

LEMMA SummedCounts ==
  ASSUME NEW m \in Nat, NEW s \in [1..m -> TeamRank], \A i \in 1..m : Row(s[i]),
         \A i, j \in 1..m : i < j => ~StatsOrder(s[j], s[i])
  PROVE  Counted(Summed(s), s)
<1> DEFINE n == Cardinality(Cells)
<1>1. IsCells(n)
  BY StatCellsAre
<1> HIDE DEF n
<1>2. DOMAIN StatCells = 1..n /\ DOMAIN s = 1..m
  BY <1>1 DEF IsCells
<1>3. \A j \in 1..m : \E c \in Cells : InCell(s[j], c)
  BY RowHasCell
<1>4. ASSUME NEW k \in DOMAIN StatCells
      PROVE  Summed(s)[k] = [count |-> Cardinality(OwnOf(s, StatCells[k])),
                             points |-> Points(s, OwnOf(s, StatCells[k]))]
  <2> DEFINE run == RunFrom(s, Starts(s)[k], StatCells[k])
  <2>1. Summed(s)[k] = [count |-> Cardinality(run), points |-> Points(s, run)]
    BY DEF Summed
  <2>2. run = {j \in 1..m : InCell(s[j], StatCells[k])}
    BY <1>1, <1>2, <1>3, EveryRun
  <2>3. run = OwnOf(s, StatCells[k])
    BY <1>2, <2>2 DEF OwnOf
  <2> HIDE DEF run
  <2> QED BY <2>1, <2>3
<1> QED BY <1>4 DEF Counted

StatsInv == stats # <<>> => Counted(stats, team_ranks)

LEMMA StatsStep == DataInv /\ StatsInv /\ [Next]_vars => StatsInv'
<1> SUFFICES ASSUME DataInv, StatsInv, [Next]_vars PROVE StatsInv'
  OBVIOUS
<1>1. season \in Seasons
  BY DEF DataInv, RowsInv
<1>2. PICK n \in Nat : RowsOf(team_ranks, n)
  BY DEF DataInv, RowsInv
<1>3. team_ranks \in [1..n -> TeamRank] /\ \A i \in 1..n : Row(team_ranks[i])
  BY <1>2 DEF RowsOf
<1>4. CASE \E l \in Ladders : \E members \in Answers(l, season) : UpdateWithLadder(l, members)
  BY <1>4 DEF UpdateWithLadder, StatsInv
<1>5. CASE SaveData
  <2>1. stats' = stats /\ team_ranks' = InTeamOrder(BestMarked(Ranked(InGlobalOrder(team_ranks))))
    BY <1>5 DEF SaveData
  <2>2. RowsOf(team_ranks', n) /\ SameRows(team_ranks', team_ranks, n)
    BY <1>1, <1>2, <2>1, SavedIs
  <2>3. PICK perm : /\ Permutation(n, perm)
                    /\ \A i \in 1..n : Agree(team_ranks'[i], team_ranks[perm[i]])
    BY <2>2 DEF SameRows
  <2>4. team_ranks' \in [1..n -> TeamRank]
    BY <2>2 DEF RowsOf
  <2>5. Counted(stats, team_ranks) => Counted(stats, team_ranks')
    BY <1>3, <2>3, <2>4, CountedMoves
  <2> QED BY <2>1, <2>5 DEF StatsInv, Counted, OwnOf
<1>6. CASE SaveStats
  <2> DEFINE u == StableSort(team_ranks, StatsOrder)
  <2>1. stats' = Summed(u) /\ team_ranks' = InTeamOrder(u)
    BY <1>6 DEF SaveStats
  <2>2. PICK p : /\ Permutation(n, p) /\ u = [i \in 1..n |-> team_ranks[p[i]]]
                 /\ \A i, j \in 1..n : i < j => ~StatsOrder(team_ranks[p[j]], team_ranks[p[i]])
    BY <1>3, StatsOrderSorts
  <2> HIDE DEF u
  <2>3. \A i \in 1..n : p[i] \in 1..n /\ u[i] = team_ranks[p[i]] /\ u[i] \in TeamRank /\ Row(u[i])
    BY <1>3, <2>2 DEF Permutation
  <2>4. u \in [1..n -> TeamRank] /\ \A i, j \in 1..n : i < j => ~StatsOrder(u[j], u[i])
    BY <2>2, <2>3
  <2>5. Counted(Summed(u), u)
    BY <2>3, <2>4, SummedCounts
  <2>6. PICK q : /\ Permutation(n, q) /\ team_ranks' = [i \in 1..n |-> u[q[i]]]
    BY <2>1, <2>4, TeamOrderSorts
  <2>7. \A i \in 1..n : q[i] \in 1..n /\ team_ranks'[i] = u[q[i]] /\ team_ranks'[i] \in TeamRank
    BY <2>3, <2>6 DEF Permutation
  <2>8. team_ranks' \in [1..n -> TeamRank] /\ \A i \in 1..n : Agree(team_ranks'[i], u[q[i]])
    BY <2>6, <2>7 DEF Agree
  <2>9. Counted(Summed(u), team_ranks')
    BY <2>4, <2>5, <2>6, <2>8, CountedMoves
  <2> QED BY <2>1, <2>9 DEF StatsInv, Counted, OwnOf
<1>7. CASE UNCHANGED vars
  BY <1>7 DEF vars, StatsInv, Counted, OwnOf
<1> QED BY <1>4, <1>5, <1>6, <1>7 DEF Next

\* ranking_data.cpp: one index through the sorted ranks counts all of them, in the place
\* they belong to.
THEOREM StatsCountEveryRankHolds == Spec => []StatsCountEveryRank
<1>1. Init => StatsInv
  BY DEF Init, StatsInv
<1>2. DataInv /\ StatsInv /\ [Next]_vars => StatsInv'
  BY StatsStep
<1>3. StatsInv => StatsCountEveryRank
  BY DEF StatsInv, StatsCountEveryRank, Counted, OwnOf
<1> QED BY <1>1, <1>2, <1>3, DataInvariance, PTL DEF Spec

-----------------------------------------------------------------------------
(* Places and the elements there. *)

LEMMA OfTwo ==
  ASSUME NEW a \in Int, NEW b \in Int
  PROVE  /\ Max({a, b}) = IF a >= b THEN a ELSE b
         /\ Min({a, b}) = IF a <= b THEN a ELSE b
<1> DEFINE hi == IF a >= b THEN a ELSE b
           lo == IF a <= b THEN a ELSE b
<1>1. hi \in {a, b} /\ lo \in {a, b} /\ \A x \in {a, b} : hi >= x /\ lo <= x
  OBVIOUS
<1>2. \A x \in {a, b} : /\ (\A y \in {a, b} : x >= y) => x = hi
                        /\ (\A y \in {a, b} : x <= y) => x = lo
  OBVIOUS
<1> HIDE DEF hi, lo
<1>3. Max({a, b}) = hi
  <2>1. (CHOOSE x \in {a, b} : \A y \in {a, b} : x >= y) = hi
    BY <1>1, <1>2
  <2> QED BY <2>1 DEF Max
<1>4. Min({a, b}) = lo
  <2>1. (CHOOSE x \in {a, b} : \A y \in {a, b} : x <= y) = lo
    BY <1>1, <1>2
  <2> QED BY <2>1 DEF Min
<1> QED BY <1>3, <1>4 DEF hi, lo

\* A finite set of numbers has a greatest: one with the fewest above it.
LEMMA Greatest ==
  ASSUME NEW S \in SUBSET Nat, IsFiniteSet(S), NEW x \in S
  PROVE  \E g \in S : \A k \in S : k <= g
<1> DEFINE Above(k) == {j \in S : j > k}
           Sizes == {Cardinality(Above(k)) : k \in S}
<1>1. ASSUME NEW k \in S
      PROVE  IsFiniteSet(Above(k)) /\ Cardinality(Above(k)) \in Nat
  <2>1. IsFiniteSet(Above(k))
    BY FS_Subset
  <2> QED BY <2>1, FS_CardinalityType
<1>2. Sizes \in SUBSET Nat /\ Cardinality(Above(x)) \in Sizes
  BY <1>1
<1>3. PICK c \in Sizes : \A d \in Sizes : c <= d
  <2> HIDE DEF Sizes
  <2> QED BY <1>2, Smallest
<1>4. PICK g \in S : c = Cardinality(Above(g))
  OBVIOUS
<1>5. ASSUME NEW k \in S, k > g PROVE FALSE
  <2>1. k \in Above(g) /\ Above(k) \subseteq Above(g) \ {k}
    <3>1. g \in Nat /\ k \in Nat /\ \A j \in S : j \in Nat
      OBVIOUS
    <3>2. \A j \in S : j > k => j > g /\ j # k
      BY <1>5, <3>1
    <3> QED BY <1>5, <3>2
  <2>2. /\ IsFiniteSet(Above(g) \ {k})
        /\ Cardinality(Above(g) \ {k}) = Cardinality(Above(g)) - 1
    <3> HIDE DEF Above
    <3> QED BY <1>1, <2>1, FS_RemoveElement
  <2>3. Cardinality(Above(k)) <= Cardinality(Above(g) \ {k})
    <3> HIDE DEF Above
    <3> QED BY <2>1, <2>2, FS_Subset
  <2>4. Cardinality(Above(g)) <= Cardinality(Above(k))
    BY <1>3, <1>4
  <2>5. Cardinality(Above(g)) \in Nat /\ Cardinality(Above(k)) \in Nat
    BY <1>1
  <2> HIDE DEF Above
  <2> QED BY <2>2, <2>3, <2>4, <2>5
<1>6. \A k \in S : k <= g
  <2>1. g \in Nat /\ \A k \in S : k \in Nat
    OBVIOUS
  <2> QED BY <1>5, <2>1
<1> QED BY <1>6

LEMMA EndsOf ==
  ASSUME NEW S \in SUBSET Nat, IsFiniteSet(S), NEW x \in S
  PROVE  /\ Min(S) \in S /\ \A k \in S : Min(S) <= k
         /\ Max(S) \in S /\ \A k \in S : k <= Max(S)
<1>1. \E m \in S : \A k \in S : m <= k
  BY Smallest
<1>2. \E g \in S : \A k \in S : g >= k
  <2>1. PICK g \in S : \A k \in S : k <= g
    BY Greatest
  <2>2. \A k \in S : g >= k
    BY <2>1
  <2> QED BY <2>2
<1>3. Max(S) \in S /\ \A k \in S : Max(S) >= k
  BY <1>2 DEF Max
<1>4. Min(S) \in S /\ \A k \in S : Min(S) <= k
  BY <1>1 DEF Min
<1>5. \A k \in S : k <= Max(S)
  BY <1>3
<1> QED BY <1>3, <1>4, <1>5

\* Numbers that ascend from place to place are no nearer to each other than the places.
LEMMA AtLeastAsFar ==
  ASSUME NEW a \in Int, NEW b \in Int, a <= b, NEW f, \A i \in a..b : f[i] \in Int,
         \A i, j \in a..b : i < j => f[i] < f[j]
  PROVE  f[b] - f[a] >= b - a
<1> DEFINE Bad == {k \in 0..(b - a) : f[a + k] < f[a] + k}
<1>1. Bad = {}
  <2> SUFFICES ASSUME NEW x \in Bad PROVE FALSE
    OBVIOUS
  <2>1. Bad \in SUBSET Nat
    OBVIOUS
  <2> HIDE DEF Bad
  <2>2. PICK k \in Bad : \A j \in Bad : k <= j
    BY <2>1, Smallest
  <2>3. k \in 0..(b - a) /\ f[a + k] < f[a] + k
    BY DEF Bad
  <2>4. k # 0
    <3>1. a + 0 = a /\ f[a] \in Int
      OBVIOUS
    <3> QED BY <2>3, <3>1
  <2>5. /\ k - 1 \in 0..(b - a) /\ ~(k <= k - 1)
        /\ a + (k - 1) \in a..b /\ a + k \in a..b /\ a + (k - 1) < a + k /\ a \in a..b
    BY <2>3, <2>4
  <2>6. f[a + (k - 1)] >= f[a] + (k - 1)
    <3>1. ~(f[a + (k - 1)] < f[a] + (k - 1))
      BY <2>2, <2>5 DEF Bad
    <3>2. f[a + (k - 1)] \in Int /\ f[a] \in Int
      BY <2>5
    <3> QED BY <2>5, <3>1, <3>2
  <2>7. f[a + (k - 1)] < f[a + k] /\ f[a + k] \in Int /\ f[a + (k - 1)] \in Int /\ f[a] \in Int
    BY <2>5
  <2> QED BY <2>3, <2>6, <2>7
<1>2. b - a \in 0..(b - a) /\ a + (b - a) = b /\ a \in a..b /\ b \in a..b
  OBVIOUS
<1>3. ~(f[b] < f[a] + (b - a))
  BY <1>1, <1>2
<1>4. f[b] \in Int /\ f[a] \in Int
  BY <1>2
<1> QED BY <1>3, <1>4

\* Only one function enumerates a set of places in their order.
Enumerates(f, n, at) ==
  /\ f \in [1..n -> at]
  /\ \A p, q \in 1..n : p < q <=> f[p] < f[q]
  /\ \A i \in at : \E p \in 1..n : f[p] = i

LEMMA OneEnumeration ==
  ASSUME NEW n \in Nat, NEW at \in SUBSET Int, NEW f, Enumerates(f, n, at),
         NEW g, Enumerates(g, n, at), NEW p \in 1..n
  PROVE  f[p] = g[p]
<1> DEFINE Other == {q \in 1..n : f[q] # g[q]}
<1>1. ASSUME NEW x \in Other PROVE FALSE
  <2>1. Other \in SUBSET Nat
    OBVIOUS
  <2> HIDE DEF Other
  <2>2. PICK k \in Other : \A j \in Other : k <= j
    BY <1>1, <2>1, Smallest
  <2>3. k \in 1..n /\ f[k] # g[k] /\ \A j \in 1..n : j < k => f[j] = g[j]
    BY <2>2 DEF Other
  <2>4. f[k] \in Int /\ g[k] \in Int /\ f[k] \in at /\ g[k] \in at
    BY <2>3 DEF Enumerates
  <2>5. ASSUME f[k] < g[k] PROVE FALSE
    <3>1. PICK q \in 1..n : g[q] = f[k]
      BY <2>4 DEF Enumerates
    <3>2. q < k
      BY <2>3, <2>5, <3>1 DEF Enumerates
    <3>3. f[q] = f[k] /\ f[q] < f[k]
      BY <2>3, <3>1, <3>2 DEF Enumerates
    <3> QED BY <2>4, <3>3
  <2>6. ASSUME g[k] < f[k] PROVE FALSE
    <3>1. PICK q \in 1..n : f[q] = g[k]
      BY <2>4 DEF Enumerates
    <3>2. q < k
      BY <2>3, <2>6, <3>1 DEF Enumerates
    <3>3. g[q] = g[k] /\ g[q] < g[k]
      BY <2>3, <3>1, <3>2 DEF Enumerates
    <3> QED BY <2>4, <3>3
  <2> QED BY <2>3, <2>4, <2>5, <2>6
<1> QED BY <1>1

\* A selection out of a piece is the one out of the whole at the places there.
IsMoved(t, k, at, s, d, there) ==
  /\ d \in Nat /\ k \in Nat /\ at \in SUBSET (1..k) /\ there \in SUBSET Nat
  /\ \A i \in at : t[i] = s[d + i]
  /\ \A i \in Int : i \in there <=> (i - d) \in at

LEMMA SelectionOfPiece ==
  ASSUME NEW s, NEW t, NEW d, NEW k, NEW at, NEW there, IsMoved(t, k, at, s, d, there)
  PROVE  Selection(t, at) = Selection(s, there)
<1> USE DEF IsMoved
<1> DEFINE move == [i \in at |-> d + i]
           n == Cardinality(at)
<1>1. IsFiniteSet(at)
  <2>1. IsFiniteSet(1..k)
    BY FS_Interval
  <2> QED BY <2>1, FS_Subset
<1>2. move \in Bijection(at, there)
  <2>1. \A i \in at : i \in Int /\ d + i \in Int /\ (d + i) - d = i
    OBVIOUS
  <2>2. move \in [at -> there]
    BY <2>1
  <2>3. \A i, j \in at : move[i] = move[j] => i = j
    BY <2>1
  <2>4. ASSUME NEW j \in there PROVE \E i \in at : move[i] = j
    <3>1. j \in Int /\ j - d \in at /\ d + (j - d) = j
      OBVIOUS
    <3> QED BY <3>1
  <2> HIDE DEF move
  <2> QED BY <2>2, <2>3, <2>4 DEF Bijection, Injection, Surjection, IsInjective
<1>3. IsFiniteSet(there) /\ Cardinality(there) = n
  <2>1. ExistsBijection(at, there)
    BY <1>2 DEF ExistsBijection
  <2> QED BY <1>1, <2>1, FS_Bijection
<1> HIDE DEF n
<1>4. at \in SUBSET Int /\ there \in SUBSET Int
  OBVIOUS
<1>5. n \in Nat /\ \E f : Selects(f, t, at, n)
  BY <1>1, <1>4, SelectionSelects DEF n
<1>6. PICK f : Selects(f, t, at, n)
  BY <1>5
<1>7. PICK g : Selects(g, s, there, n)
  BY <1>3, <1>4, SelectionSelects
<1> DEFINE h == [p \in 1..n |-> g[p] - d]
<1>8. Enumerates(f, n, at)
  BY <1>6 DEF Selects, Enumerates
<1>9. Enumerates(h, n, at)
  <2>1. ASSUME NEW p \in 1..n PROVE g[p] \in Int /\ g[p] \in there /\ h[p] = g[p] - d /\ h[p] \in at
    <3>1. g[p] \in there
      BY <1>7 DEF Selects
    <3>2. g[p] \in Int
      BY <1>4, <3>1
    <3>3. g[p] - d \in at
      BY <3>1, <3>2
    <3> QED BY <3>1, <3>2, <3>3
  <2>2. h \in [1..n -> at]
    BY <2>1
  <2> HIDE DEF h
  <2>3. \A p, q \in 1..n : p < q <=> h[p] < h[q]
    <3>1. \A p, q \in 1..n : p < q <=> g[p] < g[q]
      BY <1>7 DEF Selects
    <3> QED BY <2>1, <3>1
  <2>4. ASSUME NEW i \in at PROVE \E p \in 1..n : h[p] = i
    <3>1. i \in Int /\ d + i \in Int /\ (d + i) - d = i
      BY <1>4
    <3>2. d + i \in there
      BY <3>1
    <3>3. PICK p \in 1..n : g[p] = d + i
      BY <1>7, <3>2 DEF Selects
    <3> QED BY <2>1, <3>1, <3>3
  <2> QED BY <2>2, <2>3, <2>4 DEF Enumerates
<1>10. ASSUME NEW p \in 1..n PROVE t[f[p]] = s[g[p]]
  <2>1. f[p] = g[p] - d
    <3>1. h[p] = g[p] - d
      OBVIOUS
    <3> HIDE DEF h
    <3> QED BY <1>4, <1>5, <1>8, <1>9, <3>1, OneEnumeration
  <2>2. f[p] \in at /\ g[p] \in there
    BY <1>6, <1>7 DEF Selects
  <2>3. g[p] \in Int
    BY <1>4, <2>2
  <2>4. d + f[p] = g[p]
    BY <2>1, <2>3
  <2> QED BY <2>2, <2>4
<1>11. Selection(t, at) = [p \in 1..n |-> t[f[p]]] /\ Selection(s, there) = [p \in 1..n |-> s[g[p]]]
  BY <1>6, <1>7 DEF Selects
<1> QED BY <1>10, <1>11

LEMMA SelectionOfNone ==
  ASSUME NEW s
  PROVE  Selection(s, {}) = <<>>
<1>1. Cardinality({}) = 0
  BY FS_EmptySet
<1>2. 1..0 = {}
  OBVIOUS
<1> QED BY <1>1, <1>2 DEF Selection

-----------------------------------------------------------------------------
(* Finding a team by binary search. *)

\* Rows that may be searched for versions up to v: in order, and those of a team that
\* are not marked by race have one version each.
Searchable(s, m, v) ==
  /\ m \in Nat /\ s \in [1..m -> {s[i] : i \in 1..m}] /\ v \in 0..(VERSION_COUNT - 1)
  /\ \A i \in 1..m : /\ s[i].team_id \in Int /\ s[i].version \in 0..v
                     /\ s[i].race0 \in RACE_LO..RACE_HI
  /\ \A i, j \in 1..m : i < j =>
       \/ s[i].team_id < s[j].team_id
       \/ s[i].team_id = s[j].team_id /\ s[i].version < s[j].version
       \/ /\ s[i].team_id = s[j].team_id /\ s[i].version = s[j].version
          /\ s[i].race0 < s[j].race0
  /\ \A i, j, q \in 1..m :
       /\ s[q].race3 \notin {RACE_BEST, RACE_ANY}
       /\ s[i].team_id = s[q].team_id /\ s[j].team_id = s[q].team_id
       /\ s[i].version = s[j].version
       => i = j

\* The window is a piece that begins where it is asked for.
IsPiece(w, s, m, e, k) ==
  /\ k \in Nat /\ e \in Nat /\ e + k <= m
  /\ w \in [1..k -> {s[i] : i \in 1..m}] /\ Len(w) = k
  /\ \A j \in 1..k : w[j] = s[e + j]

LEMMA FunctionIsSeq ==
  ASSUME NEW S, NEW m \in Nat, NEW s \in [1..m -> S]
  PROVE  s \in Seq(S) /\ Len(s) = m
OBVIOUS

LEMMA WindowIs ==
  ASSUME NEW m \in Nat, NEW s, s \in [1..m -> {s[i] : i \in 1..m}],
         NEW i \in 0..(m - 1), NEW n \in Nat \ {0}
  PROVE  \E k \in 1..n : (k = n \/ i + k = m) /\ IsPiece(Window(s, i, n), s, m, i, k)
<1> DEFINE S == {s[j] : j \in 1..m}
           e == Min({i + n, m})
           k == e - i
           w == SubSeq(s, i + 1, e)
<1>1. s \in [1..m -> S] /\ s \in Seq(S) /\ Len(s) = m
  <2>1. s \in [1..m -> S]
    OBVIOUS
  <2> HIDE DEF S
  <2> QED BY <2>1, FunctionIsSeq
<1> HIDE DEF S
<1>2. e = IF i + n <= m THEN i + n ELSE m
  <2>1. i + n \in Int /\ m \in Int
    OBVIOUS
  <2> QED BY <2>1, OfTwo
<1> HIDE DEF e
<1>3. k \in 1..n /\ (k = n \/ i + k = m) /\ i + k = e /\ e <= m /\ e \in Nat
  BY <1>2
<1>4. w = [j \in 1..(e - (i + 1) + 1) |-> s[j + (i + 1) - 1]]
  BY <1>1, <1>3
<1>5. e - (i + 1) + 1 = k /\ \A j \in 1..k : j + (i + 1) - 1 = i + j /\ i + j \in 1..m
  BY <1>3
<1> HIDE DEF k, w
<1>6. w = [j \in 1..k |-> s[i + j]]
  BY <1>4, <1>5
<1>7. w \in [1..k -> S] /\ Len(w) = k /\ \A j \in 1..k : w[j] = s[i + j]
  BY <1>1, <1>3, <1>5, <1>6
<1>8. Window(s, i, n) = w
  BY <1>1 DEF Window, w, e
<1>9. IsPiece(Window(s, i, n), s, m, i, k)
  BY <1>3, <1>7, <1>8 DEF IsPiece, S
<1> QED BY <1>3, <1>9

\* The rows of a team before and after one of its rows are within what RangeAround says:
\* all later ones, and of the earlier ones those of the same version.
LEMMA RangeReaches ==
  ASSUME NEW m, NEW s, NEW v, Searchable(s, m, v), NEW q \in 1..m,
         NEW r, r = RangeAround(s[q], v)
  PROVE  /\ r.down \in Nat /\ r.up \in Nat /\ r.down + r.up + 1 <= RACE_COUNT * VERSION_COUNT
         /\ \A j \in 1..m : s[j].team_id = s[q].team_id /\ j >= q => j - q <= r.up
         /\ \A j \in 1..m : /\ s[j].team_id = s[q].team_id /\ j <= q
                            /\ s[j].version = s[q].version
                            => q - j <= r.down
<1>1. RACE_LO = -1 /\ RACE_HI = 3 /\ RACE_COUNT = 5 /\ VERSION_COUNT = 3
      /\ RACE_COUNT * VERSION_COUNT = 15
  BY DEF RACE_LO, RACE_HI, RACE_COUNT, VERSION_COUNT
<1>2. m \in Nat /\ v \in 0..2
  BY <1>1 DEF Searchable
<1>3. \A i \in 1..m : /\ s[i].team_id \in Int /\ s[i].version \in 0..v /\ s[i].version \in Int
                      /\ s[i].race0 \in -1..3
  <2>1. \A i \in 1..m : /\ s[i].team_id \in Int /\ s[i].version \in 0..v
                        /\ s[i].race0 \in RACE_LO..RACE_HI
    BY DEF Searchable
  <2>2. RACE_LO..RACE_HI = -1..3 /\ \A x \in 0..v : x \in Int
    BY <1>1, <1>2
  <2> QED BY <2>1, <2>2
<1>4. \A i, j \in 1..m : i < j =>
       \/ s[i].team_id < s[j].team_id
       \/ s[i].team_id = s[j].team_id /\ s[i].version < s[j].version
       \/ /\ s[i].team_id = s[j].team_id /\ s[i].version = s[j].version
          /\ s[i].race0 < s[j].race0
  BY DEF Searchable
\* Between two rows of a team there are only rows of it.
<1>5. ASSUME NEW a \in 1..m, NEW b \in 1..m, s[a].team_id = s[b].team_id, NEW i \in a..b
      PROVE  i \in 1..m /\ s[i].team_id = s[a].team_id
  <2>1. i \in 1..m /\ i \in Int /\ a <= i /\ i <= b
    BY <1>2
  <2>2. a = i \/ a < i
    BY <2>1
  <2>3. i = b \/ i < b
    BY <2>1
  <2>4. s[a].team_id <= s[i].team_id
    BY <1>3, <1>4, <2>1, <2>2
  <2>5. s[i].team_id <= s[b].team_id
    BY <1>3, <1>4, <2>1, <2>3
  <2> QED BY <1>3, <1>5, <2>1, <2>4, <2>5
<1>6. CASE s[q].race3 \in {RACE_BEST, RACE_ANY}
  <2>1. r = [down |-> s[q].race0 - RACE_LO,
             up |-> (v - s[q].version) * RACE_COUNT + RACE_HI - s[q].race0]
    BY <1>6 DEF RangeAround
  <2>2. r.down = s[q].race0 + 1 /\ r.up = (v - s[q].version) * 5 + 3 - s[q].race0
    BY <1>1, <1>3, <2>1
  <2>3. r.down \in Nat /\ r.up \in Nat /\ r.down + r.up + 1 <= 15
    BY <1>2, <1>3, <2>2
  <2> DEFINE f == [i \in 1..m |-> s[i].version * 5 + s[i].race0]
  <2>4. \A i \in 1..m : f[i] = s[i].version * 5 + s[i].race0 /\ f[i] \in Int
    BY <1>3
  <2> HIDE DEF f
  <2>5. ASSUME NEW a \in 1..m, NEW b \in 1..m, s[a].team_id = s[b].team_id, a <= b
        PROVE  f[b] - f[a] >= b - a
    <3>1. \A i \in a..b : i \in 1..m /\ f[i] \in Int
      BY <1>5, <2>4, <2>5
    <3>2. ASSUME NEW i \in a..b, NEW j \in a..b, i < j PROVE f[i] < f[j]
      <4>1. i \in 1..m /\ j \in 1..m /\ s[i].team_id = s[j].team_id /\ s[i].team_id \in Int
        BY <1>3, <1>5, <2>5
      <4>2. \/ s[i].version < s[j].version
            \/ s[i].version = s[j].version /\ s[i].race0 < s[j].race0
        BY <1>4, <3>2, <4>1
      <4>3. /\ s[i].version \in Int /\ s[j].version \in Int
            /\ s[i].race0 \in -1..3 /\ s[j].race0 \in -1..3
        BY <1>3, <4>1
      <4>4. s[i].version * 5 + s[i].race0 < s[j].version * 5 + s[j].race0
        BY <4>2, <4>3
      <4> QED BY <2>4, <4>1, <4>4
    <3>3. a \in Int /\ b \in Int
      BY <1>2
    <3> QED BY <2>5, <3>1, <3>2, <3>3, AtLeastAsFar
  <2>6. ASSUME NEW j \in 1..m, s[j].team_id = s[q].team_id, j >= q PROVE j - q <= r.up
    <3>1. f[j] - f[q] >= j - q
      BY <1>2, <2>5, <2>6
    <3>2. /\ f[j] = s[j].version * 5 + s[j].race0 /\ s[j].version <= v /\ s[j].race0 <= 3
          /\ s[j].version \in Int /\ s[j].race0 \in Int
      BY <1>2, <1>3, <2>4
    <3>3. /\ f[q] = s[q].version * 5 + s[q].race0
          /\ s[q].version \in Int /\ s[q].race0 \in Int
      BY <1>3, <2>4
    <3> QED BY <1>2, <2>2, <3>1, <3>2, <3>3
  <2>7. ASSUME NEW j \in 1..m, s[j].team_id = s[q].team_id, j <= q, s[j].version = s[q].version
        PROVE  q - j <= r.down
    <3>1. f[q] - f[j] >= q - j
      BY <1>2, <2>5, <2>7
    <3>2. /\ f[j] = s[j].version * 5 + s[j].race0 /\ s[j].race0 >= -1
          /\ s[j].version \in Int /\ s[j].race0 \in Int
      BY <1>3, <2>4
    <3>3. /\ f[q] = s[q].version * 5 + s[q].race0
          /\ s[q].version \in Int /\ s[q].race0 \in Int
      BY <1>3, <2>4
    <3> QED BY <1>2, <2>2, <2>7, <3>1, <3>2, <3>3
  <2>8. RACE_COUNT * VERSION_COUNT = 15
    BY <1>1
  <2> QED BY <2>3, <2>6, <2>7, <2>8
<1>7. CASE s[q].race3 \notin {RACE_BEST, RACE_ANY}
  <2>1. r = [down |-> 0, up |-> v - s[q].version]
    BY <1>7 DEF RangeAround
  <2>2. r.down = 0 /\ r.up = v - s[q].version
    BY <2>1
  <2>3. r.down \in Nat /\ r.up \in Nat /\ r.down + r.up + 1 <= 15
    BY <1>2, <1>3, <2>2
  <2>4. \A i, j \in 1..m : /\ s[i].team_id = s[q].team_id /\ s[j].team_id = s[q].team_id
                           /\ s[i].version = s[j].version
                           => i = j
    BY <1>7 DEF Searchable
  <2> DEFINE f == [i \in 1..m |-> s[i].version]
  <2>5. \A i \in 1..m : f[i] = s[i].version /\ f[i] \in Int
    BY <1>3
  <2> HIDE DEF f
  <2>6. ASSUME NEW j \in 1..m, s[j].team_id = s[q].team_id, j >= q PROVE j - q <= r.up
    <3>1. \A i \in q..j : i \in 1..m /\ f[i] \in Int
      BY <1>5, <2>5, <2>6
    <3>2. ASSUME NEW a \in q..j, NEW b \in q..j, a < b PROVE f[a] < f[b]
      <4>1. a \in 1..m /\ b \in 1..m /\ s[a].team_id = s[q].team_id /\ s[b].team_id = s[q].team_id
        BY <1>5, <2>6
      <4>2. s[a].version # s[b].version
        BY <2>4, <3>2, <4>1
      <4>3. s[a].version < s[b].version
        BY <1>3, <1>4, <3>2, <4>1, <4>2
      <4> QED BY <2>5, <4>1, <4>3
    <3>3. q \in Int /\ j \in Int /\ q <= j
      BY <1>2, <2>6
    <3>4. f[j] - f[q] >= j - q
      BY <3>1, <3>2, <3>3, AtLeastAsFar
    <3>5. f[j] <= v
      BY <1>2, <1>3, <2>5
    <3> QED BY <1>2, <1>3, <2>2, <2>5, <3>3, <3>4, <3>5
  <2>7. ASSUME NEW j \in 1..m, s[j].team_id = s[q].team_id, j <= q, s[j].version = s[q].version
        PROVE  q - j <= r.down
    <3>1. j = q
      BY <2>4, <2>7
    <3> QED BY <1>2, <2>2, <3>1
  <2>8. RACE_COUNT * VERSION_COUNT = 15
    BY <1>1
  <2> QED BY <2>3, <2>6, <2>7, <2>8
<1> QED BY <1>6, <1>7

\* The rows of a team, and those of them with its last version.
RowsOfTeam(s, m, t) == {i \in 1..m : s[i].team_id = t}
LastRows(s, m, t) ==
  {i \in RowsOfTeam(s, m, t) : \A j \in RowsOfTeam(s, m, t) : s[j].version <= s[i].version}

LEMMA LastOfIs ==
  ASSUME NEW m, NEW s, NEW v, Searchable(s, m, v), NEW t
  PROVE  /\ LastOf(s, t) = Selection(s, LastRows(s, m, t))
         /\ RowsOfTeam(s, m, t) = {} => LastOf(s, t) = <<>>
<1>1. DOMAIN s = 1..m
  BY DEF Searchable
<1>2. LastRows(s, m, t) = {i \in DOMAIN s : /\ s[i].team_id = t
                                            /\ \A j \in DOMAIN s : s[j].team_id = t
                                                 => s[j].version <= s[i].version}
  BY <1>1 DEF LastRows, RowsOfTeam
<1>3. LastOf(s, t) = Selection(s, LastRows(s, m, t))
  BY <1>2 DEF LastOf
<1>4. RowsOfTeam(s, m, t) = {} => LastRows(s, m, t) = {}
  BY DEF LastRows
<1> QED BY <1>3, <1>4, SelectionOfNone

\* From row to row the team does not fall, nor does the version within a team.
LEMMA Ascending ==
  ASSUME NEW m, NEW s, NEW v, Searchable(s, m, v), NEW i \in 1..m, NEW j \in 1..m, i <= j
  PROVE  /\ s[i].team_id \in Int /\ s[j].team_id \in Int /\ s[i].team_id <= s[j].team_id
         /\ s[i].version \in Int /\ s[j].version \in Int
         /\ s[i].team_id = s[j].team_id => s[i].version <= s[j].version
<1>1. m \in Nat /\ v \in Int
  BY DEF Searchable
<1>2. /\ s[i].team_id \in Int /\ s[j].team_id \in Int
      /\ s[i].version \in 0..v /\ s[j].version \in 0..v
  BY DEF Searchable
<1>3. i = j \/ i < j
  BY <1>1
<1>4. i < j =>
       \/ s[i].team_id < s[j].team_id
       \/ s[i].team_id = s[j].team_id /\ s[i].version < s[j].version
       \/ /\ s[i].team_id = s[j].team_id /\ s[i].version = s[j].version
          /\ s[i].race0 < s[j].race0
  BY DEF Searchable
<1> QED BY <1>1, <1>2, <1>3, <1>4

\* Of the rows that are read those of the team, and those of them that are selected.
OwnOfRead(read, t) == {i \in DOMAIN read : read[i].team_id = t}
SelectedOf(read, own) == Selection(read, {i \in own : read[i].version = read[Max(own)].version})

\* The rows from the e-th on that are read have all the last ones of the team, and the
\* last of all: what is selected of them is what is selected of all.
LEMMA ReadingEnough ==
  ASSUME NEW m, NEW s, NEW v, Searchable(s, m, v), NEW t,
         NEW read, NEW e, NEW k, IsPiece(read, s, m, e, k),
         NEW top \in RowsOfTeam(s, m, t), \A i \in RowsOfTeam(s, m, t) : i <= top,
         top <= e + k, \A i \in LastRows(s, m, t) : e + 1 <= i,
         NEW own, own = OwnOfRead(read, t)
  PROVE  own # {} /\ SelectedOf(read, own) = LastOf(s, t)
<1>1. /\ m \in Nat /\ k \in Nat /\ e \in Nat /\ e + k <= m /\ DOMAIN read = 1..k
      /\ \A j \in 1..k : read[j] = s[e + j] /\ e + j \in 1..m
  BY DEF Searchable, IsPiece
<1>2. top \in 1..m /\ s[top].team_id = t
  BY DEF RowsOfTeam
<1>3. \A j : j \in own <=> j \in 1..k /\ s[e + j].team_id = t
  BY <1>1 DEF OwnOfRead
<1>4. \A i \in RowsOfTeam(s, m, t) :
        i \in 1..m /\ s[i].team_id = t /\ s[i].version <= s[top].version
  <2> SUFFICES ASSUME NEW i \in RowsOfTeam(s, m, t)
               PROVE  i \in 1..m /\ s[i].team_id = t /\ s[i].version <= s[top].version
    OBVIOUS
  <2>1. i \in 1..m /\ s[i].team_id = t /\ i <= top
    BY DEF RowsOfTeam
  <2> QED BY <1>2, <2>1, Ascending
<1>5. \A i \in RowsOfTeam(s, m, t) : i \in LastRows(s, m, t) <=> s[i].version = s[top].version
  <2> SUFFICES ASSUME NEW i \in RowsOfTeam(s, m, t)
               PROVE  i \in LastRows(s, m, t) <=> s[i].version = s[top].version
    OBVIOUS
  <2>1. i \in LastRows(s, m, t) <=> \A j \in RowsOfTeam(s, m, t) : s[j].version <= s[i].version
    BY DEF LastRows
  <2>2. s[i].version <= s[top].version /\ s[i].version \in Int /\ s[top].version \in Int
    <3>1. i \in 1..m /\ i <= top
      BY <1>4
    <3> QED BY <1>2, <1>4, <3>1, Ascending
  <2>3. ASSUME s[i].version = s[top].version PROVE i \in LastRows(s, m, t)
    BY <1>4, <2>1, <2>3
  <2>4. ASSUME i \in LastRows(s, m, t) PROVE s[i].version = s[top].version
    <3>1. s[top].version <= s[i].version
      BY <2>1, <2>4
    <3> QED BY <2>2, <3>1
  <2> QED BY <2>3, <2>4
<1>6. top \in LastRows(s, m, t)
  BY <1>5
<1>7. top - e \in 1..k /\ e + (top - e) = top
  <2>1. e + 1 <= top
    BY <1>6
  <2> QED BY <1>1, <1>2, <2>1
<1>8. top - e \in own
  BY <1>2, <1>3, <1>7
<1>9. Max(own) \in own /\ \A i \in own : i <= Max(own)
  <2>1. own \in SUBSET (1..k)
    BY <1>3
  <2>2. own \in SUBSET Nat
    BY <2>1
  <2>3. IsFiniteSet(own)
    <3>1. IsFiniteSet(1..k)
      BY <1>1, FS_Interval
    <3> QED BY <2>1, <3>1, FS_Subset
  <2> QED BY <1>8, <2>2, <2>3, EndsOf
<1>10. Max(own) = top - e
  <2> DEFINE g == Max(own)
  <2>1. g \in 1..k /\ s[e + g].team_id = t /\ top - e <= g
    BY <1>3, <1>8, <1>9
  <2> HIDE DEF g
  <2>2. e + g \in RowsOfTeam(s, m, t)
    BY <1>1, <2>1 DEF RowsOfTeam
  <2>3. e + g <= top
    BY <2>2
  <2>4. g = top - e
    BY <1>1, <1>2, <2>1, <2>3
  <2> QED BY <2>4 DEF g
<1>11. read[Max(own)] = s[top]
  BY <1>1, <1>7, <1>10
<1> DEFINE at == {i \in own : read[i].version = read[Max(own)].version}
<1>12. at = {i \in own : s[e + i].version = s[top].version}
  BY <1>1, <1>3, <1>11
<1> HIDE DEF at
<1>13. at \in SUBSET (1..k)
  BY <1>3, <1>12
<1>14. ASSUME NEW i \in Int PROVE i \in LastRows(s, m, t) <=> (i - e) \in at
  <2>1. e + (i - e) = i
    BY <1>1
  <2>2. ASSUME i \in LastRows(s, m, t) PROVE (i - e) \in at
    <3>1. i \in RowsOfTeam(s, m, t)
      BY <2>2 DEF LastRows
    <3>2. i \in 1..m /\ s[i].team_id = t /\ s[i].version = s[top].version /\ i <= top /\ e + 1 <= i
      BY <1>4, <1>5, <2>2, <3>1
    <3>3. i - e \in 1..k
      BY <1>1, <1>2, <3>2
    <3> QED BY <1>3, <1>12, <2>1, <3>2, <3>3
  <2>3. ASSUME (i - e) \in at PROVE i \in LastRows(s, m, t)
    <3>1. (i - e) \in 1..k /\ s[e + (i - e)].team_id = t /\ s[e + (i - e)].version = s[top].version
      BY <1>3, <1>12, <2>3
    <3>2. i \in RowsOfTeam(s, m, t)
      BY <1>1, <2>1, <3>1 DEF RowsOfTeam
    <3> QED BY <1>5, <2>1, <3>1, <3>2
  <2> QED BY <2>2, <2>3
<1>15. LastRows(s, m, t) \in SUBSET Nat
  <2>1. LastRows(s, m, t) \subseteq 1..m
    BY DEF LastRows, RowsOfTeam
  <2> QED BY <2>1
<1>16. \A i \in at : read[i] = s[e + i]
  BY <1>1, <1>13
<1>17. Selection(read, at) = Selection(s, LastRows(s, m, t))
  <2> DEFINE there == LastRows(s, m, t)
  <2>1. \A i \in Int : i \in there <=> (i - e) \in at
    BY <1>14
  <2>2. there \in SUBSET Nat
    BY <1>15
  <2>3. e \in Nat /\ k \in Nat
    BY <1>1
  <2> HIDE DEF there
  <2>4. Selection(read, at) = Selection(s, there)
    <3>1. IsMoved(read, k, at, s, e, there)
      BY <1>13, <1>16, <2>1, <2>2, <2>3 DEF IsMoved
    <3> QED BY <3>1, SelectionOfPiece
  <2> QED BY <2>4 DEF there
<1>18. Selection(read, at) = LastOf(s, t)
  BY <1>17, LastOfIs
<1> QED BY <1>8, <1>18 DEF at, SelectedOf

\* Outside of lo..hi, counted from 0, there are only teams before and after.
Narrowed(s, m, t, lo, hi) ==
  \A i \in 1..m : /\ i <= lo => s[i].team_id < t
                  /\ i - 1 > hi => s[i].team_id > t

\* Where the window has the place of the team, and what lies around it.
AtPlace(s, m, v, t, lo, hi, mid, w, k) ==
  /\ Searchable(s, m, v) /\ t \in Int
  /\ lo \in Nat /\ hi \in Int /\ mid \in Int /\ lo <= mid /\ mid <= hi /\ hi < m
  /\ Narrowed(s, m, t, lo, hi)
  /\ IsPiece(w, s, m, mid, k) /\ k >= 1
  /\ w[1].team_id <= t /\ t <= w[Len(w)].team_id

LEMMA NothingThere ==
  ASSUME NEW s, NEW m, NEW v, NEW t, NEW lo, NEW hi, NEW mid, NEW w, NEW k,
         AtPlace(s, m, v, t, lo, hi, mid, w, k),
         \A i \in 0..(k - 1) : w[i + 1].team_id # t
  PROVE  RowsOfTeam(s, m, t) = {}
<1> SUFFICES ASSUME NEW i \in 1..m, s[i].team_id = t PROVE FALSE
  BY DEF RowsOfTeam
<1>1. /\ m \in Nat /\ mid \in Nat /\ k \in Nat /\ mid + k <= m /\ Len(w) = k /\ k >= 1
      /\ \A j \in 1..k : w[j] = s[mid + j]
  BY DEF AtPlace, IsPiece, Searchable
<1>2. /\ mid + 1 \in 1..m /\ mid + k \in 1..m
      /\ w[1] = s[mid + 1] /\ w[Len(w)] = s[mid + k]
  BY <1>1
<1>3. w[1].team_id # t /\ w[k].team_id # t
  <2>1. 0 \in 0..(k - 1) /\ 0 + 1 = 1 /\ k - 1 \in 0..(k - 1) /\ (k - 1) + 1 = k
    BY <1>1
  <2> QED BY <2>1
<1>4. s[mid + 1].team_id < t /\ t < s[mid + k].team_id
  <2>1. s[mid + 1].team_id <= t /\ t <= s[mid + k].team_id /\ t \in Int
    BY <1>2 DEF AtPlace
  <2>2. s[mid + 1].team_id \in Int /\ s[mid + k].team_id \in Int
    BY <1>2 DEF AtPlace, Searchable
  <2> QED BY <1>1, <1>2, <1>3, <2>1, <2>2
<1>5. CASE i <= mid + 1
  <2>1. s[i].team_id <= s[mid + 1].team_id /\ s[mid + 1].team_id \in Int
    BY <1>2, <1>5, Ascending DEF AtPlace
  <2>2. t \in Int
    BY DEF AtPlace
  <2> QED BY <1>4, <2>1, <2>2
<1>6. CASE i >= mid + k
  <2>1. s[mid + k].team_id <= s[i].team_id /\ s[mid + k].team_id \in Int
    BY <1>2, <1>6, Ascending DEF AtPlace
  <2>2. t \in Int
    BY DEF AtPlace
  <2> QED BY <1>4, <2>1, <2>2
<1>7. CASE i > mid + 1 /\ i < mid + k
  <2>1. i - mid - 1 \in 0..(k - 1) /\ (i - mid - 1) + 1 = i - mid /\ i - mid \in 1..k
        /\ mid + (i - mid) = i
    BY <1>1, <1>7
  <2>2. w[i - mid].team_id # t
    BY <2>1
  <2> QED BY <1>1, <2>1, <2>2
<1>8. i \in Int /\ mid + 1 \in Int /\ mid + k \in Int
  BY <1>1
<1> QED BY <1>5, <1>6, <1>7, <1>8

LEMMA PlaceIsRead ==
  ASSUME NEW s, NEW m, NEW v, NEW t, NEW lo, NEW hi, NEW mid, NEW n \in Nat \ {0},
         NEW k, AtPlace(s, m, v, t, lo, hi, mid, Window(s, mid, n), k)
  PROVE  Collected(s, v, t, lo, hi, mid, Window(s, mid, n)) = LastOf(s, t)
<1> DEFINE w == Window(s, mid, n)
           hits == {i \in 0..(Len(w) - 1) : w[i + 1].team_id = t}
           hit_lo == Min(hits)
           hit_hi == Max(hits)
           range == RangeAround(w[hit_hi + 1], v)
           first == IF hit_lo > 0 THEN mid + hit_lo ELSE lo
           last == IF hit_hi < Len(w) - 1 THEN mid + hit_hi ELSE hi
           imin == Max({first, mid + hit_hi - range.down})
           imax == Min({last, mid + hit_hi + range.up})
           isize == imax - imin + 1
           read == IF imin < mid \/ mid + Len(w) <= imax THEN Window(s, imin, isize) ELSE w
           own == {i \in DOMAIN read : read[i].team_id = t}
           found == Selection(read, {i \in own : read[i].version = read[Max(own)].version})
<1>1. Collected(s, v, t, lo, hi, mid, Window(s, mid, n)) =
        IF hits = {} THEN <<>>
        ELSE IF isize > RACE_COUNT * VERSION_COUNT \/ own = {} THEN Bug ELSE found
  BY DEF Collected
<1>2. /\ m \in Nat /\ mid \in Nat /\ k \in Nat /\ mid + k <= m /\ Len(w) = k /\ k >= 1
      /\ \A j \in 1..k : w[j] = s[mid + j] /\ mid + j \in 1..m
  <2>1. AtPlace(s, m, v, t, lo, hi, mid, w, k)
    OBVIOUS
  <2> HIDE DEF w
  <2>2. IsPiece(w, s, m, mid, k) /\ k >= 1 /\ m \in Nat
    BY <2>1 DEF AtPlace, Searchable
  <2>3. /\ k \in Nat /\ mid \in Nat /\ mid + k <= m /\ Len(w) = k
        /\ \A j \in 1..k : w[j] = s[mid + j]
    BY <2>2 DEF IsPiece
  <2> QED BY <2>2, <2>3
<1>3. /\ Searchable(s, m, v) /\ t \in Int /\ lo \in Nat /\ hi \in Int /\ mid \in Int
      /\ lo <= mid /\ mid <= hi /\ hi < m /\ Narrowed(s, m, t, lo, hi)
  BY DEF AtPlace, Searchable
<1> HIDE DEF w
<1>4. CASE hits = {}
  <2>1. \A i \in 0..(k - 1) : w[i + 1].team_id # t
    BY <1>2, <1>4
  <2>2. RowsOfTeam(s, m, t) = {}
    BY <2>1, NothingThere DEF w
  <2>3. LastOf(s, t) = <<>>
    BY <1>3, <2>2, LastOfIs
  <2> HIDE DEF hits
  <2> QED BY <1>1, <1>4, <2>3
<1>5. CASE hits # {}
  <2>1. /\ hit_lo \in 0..(k - 1) /\ w[hit_lo + 1].team_id = t
        /\ hit_hi \in 0..(k - 1) /\ w[hit_hi + 1].team_id = t
        /\ \A i \in 0..(k - 1) : w[i + 1].team_id = t => hit_lo <= i /\ i <= hit_hi
    <3>1. PICK x : x \in hits
      BY <1>5
    <3>2. hits \in SUBSET (0..(k - 1))
      BY <1>2
    <3>3. IsFiniteSet(hits) /\ hits \in SUBSET Nat
      <4> HIDE DEF hits
      <4>1. IsFiniteSet(0..(k - 1))
        BY <1>2, FS_Interval
      <4>2. IsFiniteSet(hits)
        BY <3>2, <4>1, FS_Subset
      <4> QED BY <3>2, <4>2
    <3>4. /\ hit_lo \in hits /\ \A i \in hits : hit_lo <= i
          /\ hit_hi \in hits /\ \A i \in hits : i <= hit_hi
      <4> HIDE DEF hits
      <4> QED BY <3>1, <3>3, EndsOf
    <3> QED BY <1>2, <3>4
  <2> HIDE DEF hits, hit_lo, hit_hi
  <2> DEFINE p == mid + hit_hi
  <2>2. /\ hit_lo \in Int /\ hit_hi \in Int /\ hit_lo >= 0 /\ hit_lo <= hit_hi /\ hit_hi <= k - 1
        /\ p \in Nat /\ p = mid + hit_hi /\ p < m
        /\ p + 1 \in 1..m /\ s[p + 1].team_id = t /\ w[hit_hi + 1] = s[p + 1]
    <3>1. hit_hi + 1 \in 1..k /\ mid + (hit_hi + 1) = p + 1 /\ hit_hi \in Int
      BY <1>2, <2>1
    <3>2. w[hit_hi + 1] = s[p + 1] /\ p + 1 \in 1..m
      BY <1>2, <3>1
    <3>3. hit_lo <= hit_hi /\ hit_lo \in Int /\ hit_lo >= 0 /\ hit_hi <= k - 1
      BY <1>2, <2>1
    <3>4. p = mid + hit_hi
      OBVIOUS
    <3> HIDE DEF p
    <3>5. p \in Nat /\ p < m
      BY <1>2, <3>1, <3>3, <3>4
    <3>6. s[p + 1].team_id = t
      BY <2>1, <3>2
    <3> QED BY <3>1, <3>2, <3>3, <3>4, <3>5, <3>6
  <2>3. /\ range.down \in Nat /\ range.up \in Nat
        /\ range.down + range.up + 1 <= RACE_COUNT * VERSION_COUNT
        /\ \A j \in 1..m : s[j].team_id = t /\ j >= p + 1 => j - (p + 1) <= range.up
        /\ \A j \in 1..m : /\ s[j].team_id = t /\ j <= p + 1
                           /\ s[j].version = s[p + 1].version
                           => (p + 1) - j <= range.down
    <3>1. range = RangeAround(s[p + 1], v)
      BY <2>2
    <3> HIDE DEF range
    <3> QED BY <1>3, <2>2, <3>1, RangeReaches
  <2> HIDE DEF range, p
  <2>4. /\ imin = IF first >= p - range.down THEN first ELSE p - range.down
        /\ imax = IF last <= p + range.up THEN last ELSE p + range.up
    <3>1. first \in Int /\ last \in Int
      <4>1. mid + hit_lo \in Int /\ mid + hit_hi \in Int
        BY <1>2, <2>2
      <4>2. lo \in Int /\ hi \in Int
        BY <1>3
      <4>3. first \in {mid + hit_lo, lo} /\ last \in {mid + hit_hi, hi}
        OBVIOUS
      <4> HIDE DEF first, last
      <4> QED BY <4>1, <4>2, <4>3
    <3>2. p - range.down \in Int /\ p + range.up \in Int
      BY <2>2, <2>3
    <3> HIDE DEF first, last
    <3>3. imin = Max({first, p - range.down}) /\ imax = Min({last, p + range.up})
      <4> DEFINE down == mid + hit_hi - range.down
                 up == mid + hit_hi + range.up
      <4>1. imin = Max({first, down}) /\ imax = Min({last, up})
        OBVIOUS
      <4>2. down = p - range.down /\ up = p + range.up
        BY <1>2, <2>2, <2>3
      <4> HIDE DEF down, up, imin, imax
      <4> QED BY <4>1, <4>2
    <3> HIDE DEF imin, imax
    <3>4. Max({first, p - range.down}) = IF first >= p - range.down THEN first ELSE p - range.down
      BY <3>1, <3>2, OfTwo
    <3>5. Min({last, p + range.up}) = IF last <= p + range.up THEN last ELSE p + range.up
      BY <3>1, <3>2, OfTwo
    <3> QED BY <3>3, <3>4, <3>5
  <2> HIDE DEF imin, imax
  <2>5. first \in Nat /\ first <= p /\ last \in Int /\ p <= last /\ last < m
    <3>1. first \in Nat /\ first <= p
      <4>1. CASE hit_lo > 0
        <5>1. first = mid + hit_lo
          BY <4>1
        <5> HIDE DEF first
        <5> QED BY <1>2, <2>2, <5>1
      <4>2. CASE ~(hit_lo > 0)
        <5>1. first = lo
          BY <4>2
        <5> HIDE DEF first
        <5> QED BY <1>2, <1>3, <2>2, <5>1
      <4> QED BY <4>1, <4>2
    <3>2. last \in Int /\ p <= last /\ last < m
      <4>1. CASE hit_hi < k - 1
        BY <1>2, <2>2, <4>1
      <4>2. CASE ~(hit_hi < k - 1)
        <5>1. last = hi /\ hit_hi = k - 1
          BY <1>2, <2>2, <4>2
        <5>2. ~(p > hi)
          <6>1. (p + 1) - 1 > hi => s[p + 1].team_id > t
            BY <1>3, <2>2 DEF Narrowed
          <6> QED BY <1>3, <2>2, <6>1
        <5> QED BY <1>3, <2>2, <5>1, <5>2
      <4> QED BY <4>1, <4>2
    <3> QED BY <3>1, <3>2
  <2>6. /\ imin \in Nat /\ imax \in Nat /\ imin <= p /\ p <= imax /\ imax < m
        /\ isize \in Nat /\ isize <= range.down + range.up + 1 /\ isize >= 1
    <3> HIDE DEF first, last
    <3>2. imin \in Nat /\ imin <= p /\ p - range.down <= imin
      <4> HIDE DEF imin
      <4> QED BY <2>2, <2>3, <2>4, <2>5
    <3>3. imax \in Nat /\ p <= imax /\ imax < m /\ imax <= p + range.up
      <4>1. m \in Int /\ range.up \in Nat /\ p \in Nat
        BY <1>2, <2>2, <2>3
      <4>2. imax = IF last <= p + range.up THEN last ELSE p + range.up
        BY <2>4
      <4> HIDE DEF imax
      <4> QED BY <2>5, <4>1, <4>2
    <3>4. isize = imax - imin + 1
      OBVIOUS
    <3> HIDE DEF imin, imax, isize
    <3> QED BY <2>2, <2>3, <3>2, <3>3, <3>4
  <2>7. ~(isize > RACE_COUNT * VERSION_COUNT)
    <3>1. RACE_COUNT * VERSION_COUNT = 15
      BY DEF RACE_COUNT, VERSION_COUNT, RACE_LO, RACE_HI
    <3> HIDE DEF isize
    <3> QED BY <2>3, <2>6, <3>1
\* No row of the team comes after imax.
  <2>8. ASSUME NEW i \in RowsOfTeam(s, m, t) PROVE i \in 1..m /\ s[i].team_id = t /\ i - 1 <= imax
    <3>1. i \in 1..m /\ s[i].team_id = t /\ i \in Int
      BY DEF RowsOfTeam
    <3>2. i - 1 <= p + range.up
      <4>1. CASE i >= p + 1
        BY <2>2, <2>3, <3>1, <4>1
      <4>2. CASE i < p + 1
        BY <2>2, <2>3, <3>1, <4>2
      <4> QED BY <2>2, <3>1, <4>1, <4>2
    <3>3. i - 1 <= last
      <4>1. CASE hit_hi < k - 1
        <5> SUFFICES ASSUME i - 1 > p PROVE FALSE
          BY <1>2, <2>2, <3>1, <4>1
        <5>1. p + 2 \in 1..m /\ w[(hit_hi + 1) + 1] = s[p + 2] /\ hit_hi + 1 \in 0..(k - 1)
          <6>1. hit_hi + 2 \in 1..k /\ mid + (hit_hi + 2) = p + 2 /\ (hit_hi + 1) + 1 = hit_hi + 2
            BY <1>2, <2>2, <4>1
          <6> QED BY <1>2, <2>2, <4>1, <6>1
        <5>2. s[p + 2].team_id # t
          <6>1. ~(hit_hi + 1 <= hit_hi)
            BY <2>2
          <6> QED BY <2>1, <5>1, <6>1
        <5>3. p + 1 <= p + 2 /\ p + 2 <= i
          BY <2>2, <3>1
        <5>4. s[p + 1].team_id <= s[p + 2].team_id /\ s[p + 2].team_id \in Int
          <6> QED BY <1>3, <2>2, <5>1, <5>3, Ascending
        <5>5. s[p + 2].team_id <= s[i].team_id
          <6> QED BY <1>3, <3>1, <5>1, <5>3, Ascending
        <5> QED BY <1>3, <2>2, <3>1, <5>2, <5>4, <5>5
      <4>2. CASE ~(hit_hi < k - 1)
        <5>1. last = hi
          BY <1>2, <4>2
        <5>2. ~(i - 1 > hi)
          <6>1. i - 1 > hi => s[i].team_id > t
            BY <1>3, <3>1 DEF Narrowed
          <6> QED BY <1>3, <3>1, <6>1
        <5> QED BY <1>3, <3>1, <5>1, <5>2
      <4> QED BY <4>1, <4>2
    <3> HIDE DEF last
    <3> QED BY <2>2, <2>4, <3>1, <3>2, <3>3
  <2> DEFINE T == RowsOfTeam(s, m, t)
  <2>9. PICK top \in T : \A i \in T : i <= top
    <3>1. p + 1 \in T
      BY <2>2 DEF RowsOfTeam
    <3>2. T \subseteq 1..m
      BY <2>8
    <3>3. IsFiniteSet(T) /\ T \in SUBSET Nat
      <4>1. IsFiniteSet(1..m)
        BY <1>2, FS_Interval
      <4> HIDE DEF T
      <4>2. IsFiniteSet(T)
        BY <3>2, <4>1, FS_Subset
      <4> QED BY <3>2, <4>2
    <3> HIDE DEF T
    <3> QED BY <3>1, <3>3, Greatest
  <2>10. top \in 1..m /\ p + 1 <= top /\ top - 1 <= imax /\ s[top].team_id = t
    <3>1. p + 1 \in T
      BY <2>2 DEF RowsOfTeam
    <3> QED BY <2>8, <2>9, <3>1
\* Of the last version none comes before imin.
  <2>11. ASSUME NEW i \in LastRows(s, m, t) PROVE imin + 1 <= i
    <3>1. i \in RowsOfTeam(s, m, t) /\ i \in 1..m /\ s[i].team_id = t /\ i \in Int
      BY <2>8 DEF LastRows
    <3>2. p - range.down <= i - 1
      <4>1. CASE i <= p + 1
        <5>1. s[i].version <= s[p + 1].version /\ s[i].version \in Int /\ s[p + 1].version \in Int
          <6> QED BY <1>3, <2>2, <3>1, <4>1, Ascending
        <5>2. s[p + 1].version <= s[i].version
          <6>1. p + 1 \in RowsOfTeam(s, m, t)
            BY <2>2 DEF RowsOfTeam
          <6> QED BY <6>1 DEF LastRows
        <5>3. s[i].version = s[p + 1].version
          BY <5>1, <5>2
        <5> QED BY <2>2, <2>3, <3>1, <4>1, <5>3
      <4>2. CASE i > p + 1
        BY <2>2, <2>3, <3>1, <4>2
      <4> QED BY <2>2, <3>1, <4>1, <4>2
    <3>3. first <= i - 1
      <4>1. CASE hit_lo > 0
        <5> SUFFICES ASSUME i <= mid + hit_lo PROVE FALSE
          BY <1>2, <2>2, <3>1, <4>1
        <5>1. CASE i >= mid + 1
          <6>1. /\ (i - mid) - 1 \in 0..(k - 1) /\ ((i - mid) - 1) + 1 = i - mid
                /\ i - mid \in 1..k /\ mid + (i - mid) = i /\ ~(hit_lo <= (i - mid) - 1)
            BY <1>2, <2>2, <3>1, <5>1
          <6>2. w[((i - mid) - 1) + 1] = s[i]
            BY <1>2, <6>1
          <6> QED BY <2>1, <3>1, <6>1, <6>2
        <5>2. CASE i < mid + 1
          <6>1. mid + 1 \in 1..m /\ w[0 + 1] = s[mid + 1] /\ 0 \in 0..(k - 1) /\ i <= mid + 1
            BY <1>2, <3>1, <5>2
          <6>2. s[mid + 1].team_id <= t
            BY <6>1 DEF AtPlace, w
          <6>3. s[mid + 1].team_id # t
            <7>1. ~(hit_lo <= 0)
              BY <2>2, <4>1
            <7> QED BY <2>1, <6>1, <7>1
          <6>4. s[i].team_id <= s[mid + 1].team_id /\ s[mid + 1].team_id \in Int
            BY <1>3, <3>1, <6>1, Ascending
          <6> QED BY <1>3, <3>1, <6>2, <6>3, <6>4
        <5> QED BY <1>2, <3>1, <5>1, <5>2
      <4>2. CASE ~(hit_lo > 0)
        <5>1. first = lo
          BY <4>2
        <5>2. ~(i <= lo)
          <6>1. i <= lo => s[i].team_id < t
            BY <1>3, <3>1 DEF Narrowed
          <6> QED BY <1>3, <3>1, <6>1
        <5> QED BY <1>3, <3>1, <5>1, <5>2
      <4> QED BY <4>1, <4>2
    <3> HIDE DEF first
    <3> QED BY <2>2, <2>4, <2>6, <3>1, <3>2, <3>3
  <2>12. \E e, q \in Nat : IsPiece(read, s, m, e, q) /\ e <= imin /\ imax < e + q
    <3>1. CASE imin < mid \/ mid + Len(w) <= imax
      <4>1. imin \in 0..(m - 1) /\ isize \in Nat \ {0}
        <5> HIDE DEF isize
        <5> QED BY <1>2, <2>2, <2>6
      <4>2. PICK q \in 1..isize : /\ q = isize \/ imin + q = m
                                  /\ IsPiece(Window(s, imin, isize), s, m, imin, q)
        <5>1. s \in [1..m -> {s[i] : i \in 1..m}]
          BY <1>3 DEF Searchable
        <5> HIDE DEF isize
        <5> QED BY <1>2, <4>1, <5>1, WindowIs
      <4>3. read = Window(s, imin, isize)
        BY <3>1
      <4>4. imax < imin + q /\ q \in Nat
        BY <1>2, <2>6, <4>2
      <4> HIDE DEF read, isize
      <4> QED BY <2>6, <4>2, <4>3, <4>4
    <3>2. CASE ~(imin < mid \/ mid + Len(w) <= imax)
      <4>1. read = w /\ mid <= imin /\ imax < mid + k
        BY <1>2, <2>6, <3>2
      <4>2. IsPiece(w, s, m, mid, k)
        BY DEF AtPlace, w
      <4> HIDE DEF read
      <4> QED BY <1>2, <4>1, <4>2
    <3> QED BY <3>1, <3>2
  <2> HIDE DEF read
  <2>13. PICK e \in Nat, q \in Nat : IsPiece(read, s, m, e, q) /\ e <= imin /\ imax < e + q
    BY <2>12
  <2>14. top <= e + q /\ \A i \in LastRows(s, m, t) : e + 1 <= i
    <3>1. top <= e + q
      BY <2>6, <2>10, <2>13
    <3>2. ASSUME NEW i \in LastRows(s, m, t) PROVE e + 1 <= i
      <4>1. imin + 1 <= i /\ i \in Int
        BY <2>8, <2>11 DEF LastRows
      <4> QED BY <2>6, <2>13, <4>1
    <3> QED BY <3>1, <3>2
  <2>15. own # {} /\ found = LastOf(s, t)
    <3>1. own = OwnOfRead(read, t) /\ found = SelectedOf(read, own)
      BY DEF OwnOfRead, SelectedOf
    <3> HIDE DEF own, found, first, last, isize
    <3>2. top \in RowsOfTeam(s, m, t) /\ \A i \in RowsOfTeam(s, m, t) : i <= top
      BY <2>9
    <3>3. Searchable(s, m, v) /\ IsPiece(read, s, m, e, q)
      BY <1>3, <2>13
    <3>4. own # {} /\ SelectedOf(read, own) = LastOf(s, t)
      BY <2>14, <3>1, <3>2, <3>3, ReadingEnough
    <3> QED BY <3>1, <3>4
  <2> HIDE DEF own, found, isize
  <2> QED BY <1>1, <1>5, <2>7, <2>15 DEF hits
<1> QED BY <1>4, <1>5

\* The places a search may be at, and what it goes on with.
SearchPlaces(m, n) == (0..(m + n)) \X (-1..(m - 1))
SearchStep(f, s, n, v, t, r) ==
  LET mid == r[1] + ((r[2] - r[1]) \div 2)
      w == Window(s, mid, n)
  IN  IF r[2] < r[1] THEN <<>>
      ELSE IF w[1].team_id > t THEN f[<<r[1], mid - 1>>]
      ELSE IF w[Len(w)].team_id < t THEN f[<<mid + n, r[2]>>]
      ELSE Collected(s, v, t, r[1], r[2], mid, w)
Searches(f, s, m, n, v, t) ==
  f = [r \in SearchPlaces(m, n) |-> SearchStep(f, s, n, v, t, r)]
SizeOf(r) == r[2] - r[1] + 1

\* Every step of the search leads to fewer rows.
LEMMA SearchNarrows ==
  ASSUME NEW m \in Nat, NEW n \in Nat \ {0}, NEW r \in SearchPlaces(m, n), r[1] <= r[2],
         NEW mid, mid = r[1] + ((r[2] - r[1]) \div 2)
  PROVE  /\ mid \in Nat /\ r[1] <= mid /\ mid <= r[2] /\ r[1] \in Nat /\ r[2] \in 0..(m - 1)
         /\ SizeOf(r) \in Nat /\ SizeOf(r) >= 1
         /\ <<r[1], mid - 1>> \in SearchPlaces(m, n) /\ SizeOf(<<r[1], mid - 1>>) < SizeOf(r)
         /\ <<mid + n, r[2]>> \in SearchPlaces(m, n) /\ SizeOf(<<mid + n, r[2]>>) < SizeOf(r)
         /\ SizeOf(<<r[1], mid - 1>>) \in Int /\ SizeOf(<<mid + n, r[2]>>) \in Int
<1> DEFINE lo == r[1]
           hi == r[2]
<1>1. lo \in 0..(m + n) /\ hi \in -1..(m - 1) /\ lo <= hi
  BY DEF SearchPlaces
<1>2. mid = lo + ((hi - lo) \div 2)
  OBVIOUS
<1>3. SizeOf(r) = hi - lo + 1
  BY DEF SizeOf
<1> HIDE DEF lo, hi
<1>4. mid \in Int /\ lo <= mid /\ mid <= hi
  BY <1>1, <1>2
<1>5. SizeOf(<<lo, mid - 1>>) = (mid - 1) - lo + 1 /\ SizeOf(<<mid + n, hi>>) = hi - (mid + n) + 1
  BY DEF SizeOf
<1>6. lo \in 0..(m + n) /\ mid - 1 \in -1..(m - 1) /\ mid + n \in 0..(m + n) /\ hi \in -1..(m - 1)
  BY <1>1, <1>4
<1>7. <<lo, mid - 1>> \in SearchPlaces(m, n) /\ <<mid + n, hi>> \in SearchPlaces(m, n)
  BY <1>6 DEF SearchPlaces
<1>8. /\ SizeOf(r) \in Nat /\ SizeOf(r) >= 1
      /\ SizeOf(<<lo, mid - 1>>) < SizeOf(r) /\ SizeOf(<<mid + n, hi>>) < SizeOf(r)
      /\ SizeOf(<<lo, mid - 1>>) \in Int /\ SizeOf(<<mid + n, hi>>) \in Int
  BY <1>1, <1>3, <1>4, <1>5
<1>9. mid \in Nat /\ lo \in Nat /\ hi \in 0..(m - 1)
  BY <1>1, <1>4
<1> QED BY <1>4, <1>7, <1>8, <1>9 DEF lo, hi

\* What is a step of the search depends on smaller searches only.
LEMMA StepOfSmaller ==
  ASSUME NEW m \in Nat, NEW n \in Nat \ {0}, NEW s, NEW v, NEW t, NEW r \in SearchPlaces(m, n),
         NEW f, NEW g, \A q \in SearchPlaces(m, n) : SizeOf(q) < SizeOf(r) => f[q] = g[q]
  PROVE  SearchStep(f, s, n, v, t, r) = SearchStep(g, s, n, v, t, r)
<1> DEFINE mid == r[1] + ((r[2] - r[1]) \div 2)
<1>1. r[1] \in Int /\ r[2] \in Int
  BY DEF SearchPlaces
<1>2. CASE r[2] < r[1]
  BY <1>2 DEF SearchStep
<1>3. CASE r[1] <= r[2]
  <2>1. /\ <<r[1], mid - 1>> \in SearchPlaces(m, n) /\ SizeOf(<<r[1], mid - 1>>) < SizeOf(r)
        /\ <<mid + n, r[2]>> \in SearchPlaces(m, n) /\ SizeOf(<<mid + n, r[2]>>) < SizeOf(r)
    BY <1>3, SearchNarrows
  <2>2. f[<<r[1], mid - 1>>] = g[<<r[1], mid - 1>>] /\ f[<<mid + n, r[2]>>] = g[<<mid + n, r[2]>>]
    BY <2>1
  <2> QED BY <2>2 DEF SearchStep
<1> QED BY <1>1, <1>2, <1>3

\* A search over few rows can be continued to more, so there is one over all.
LEMMA SearchExists ==
  ASSUME NEW m \in Nat, NEW n \in Nat \ {0}, NEW s, NEW v, NEW t
  PROVE  \E f : Searches(f, s, m, n, v, t)
<1> DEFINE D == SearchPlaces(m, n)
           Up(f, q) == \A r \in D : SizeOf(r) <= q => f[r] = SearchStep(f, s, n, v, t, r)
           Bad == {q \in 0..m : ~\E f : Up(f, q)}
<1>1. \A r \in D : r[1] \in Nat /\ r[2] \in Int /\ SizeOf(r) \in Int /\ SizeOf(r) <= m
  <2> SUFFICES ASSUME NEW r \in D
               PROVE  r[1] \in Nat /\ r[2] \in Int /\ SizeOf(r) \in Int /\ SizeOf(r) <= m
    OBVIOUS
  <2>1. r[1] \in 0..(m + n) /\ r[2] \in -1..(m - 1)
    BY DEF SearchPlaces
  <2>2. r[1] \in Nat /\ r[2] \in Int /\ r[2] - r[1] + 1 <= m
    BY <2>1
  <2> QED BY <2>2 DEF SizeOf
<1> HIDE DEF D
<1>2. Bad = {}
  <2> SUFFICES ASSUME NEW b \in Bad PROVE FALSE
    OBVIOUS
  <2>1. Bad \in SUBSET Nat
    OBVIOUS
  <2> HIDE DEF Bad
  <2>2. PICK q \in Bad : \A k \in Bad : q <= k
    BY <2>1, Smallest
  <2>3. q \in 0..m /\ ~\E f : Up(f, q)
    BY DEF Bad
  <2>4. CASE q = 0
    <3> DEFINE f == [r \in D |-> <<>>]
    <3>1. ASSUME NEW r \in D, SizeOf(r) <= q PROVE f[r] = SearchStep(f, s, n, v, t, r)
      <4>1. r[2] < r[1]
        BY <1>1, <2>4, <3>1 DEF SizeOf
      <4>2. f[r] = <<>>
        OBVIOUS
      <4> HIDE DEF f
      <4> QED BY <4>1, <4>2 DEF SearchStep
    <3> HIDE DEF f
    <3>2. Up(f, q)
      BY <3>1
    <3> QED BY <2>3, <3>2
  <2>5. CASE q # 0
    <3>1. q - 1 \in 0..m /\ ~(q <= q - 1) /\ q \in Int
      BY <2>3, <2>5
    <3>2. PICK f : Up(f, q - 1)
      BY <2>2, <3>1 DEF Bad
    <3> DEFINE g == [r \in D |-> SearchStep(f, s, n, v, t, r)]
    <3>3. \A r \in D : g[r] = SearchStep(f, s, n, v, t, r)
      OBVIOUS
    <3> HIDE DEF g
    <3>4. ASSUME NEW r \in D, SizeOf(r) <= q PROVE g[r] = SearchStep(g, s, n, v, t, r)
      <4>1. ASSUME NEW p \in D, SizeOf(p) < SizeOf(r) PROVE f[p] = g[p]
        <5>1. SizeOf(p) <= q - 1
          BY <1>1, <3>1, <3>4, <4>1
        <5> QED BY <3>2, <3>3, <5>1
      <4>2. SearchStep(f, s, n, v, t, r) = SearchStep(g, s, n, v, t, r)
        BY <4>1, StepOfSmaller DEF D
      <4> QED BY <3>3, <4>2
    <3>5. Up(g, q)
      BY <3>4
    <3> QED BY <2>3, <3>5
  <2> QED BY <2>4, <2>5
<1>3. PICK f : Up(f, m)
  <2>1. m \in 0..m /\ m \notin Bad
    <3> HIDE DEF Bad
    <3> QED BY <1>2
  <2> QED BY <2>1
<1> DEFINE g == [r \in D |-> f[r]]
<1>4. \A r \in D : f[r] = SearchStep(f, s, n, v, t, r)
  BY <1>1, <1>3
<1>5. \A r \in D : g[r] = f[r]
  OBVIOUS
<1>6. g = [r \in D |-> g[r]]
  OBVIOUS
<1> HIDE DEF g
<1>7. \A r \in D : g[r] = SearchStep(g, s, n, v, t, r)
  <2> SUFFICES ASSUME NEW r \in D PROVE g[r] = SearchStep(g, s, n, v, t, r)
    OBVIOUS
  <2>1. SearchStep(f, s, n, v, t, r) = SearchStep(g, s, n, v, t, r)
    BY <1>5, StepOfSmaller DEF D
  <2> QED BY <1>4, <1>5, <2>1
<1>8. Searches(g, s, m, n, v, t)
  BY <1>6, <1>7 DEF Searches, D
<1> QED BY <1>8

\* The search finds at any place what reading all would, if it is narrowed to there.
LEMMA SearchFinds ==
  ASSUME NEW m, NEW s, NEW v, Searchable(s, m, v), NEW n \in Nat \ {0}, NEW t \in Int,
         NEW f, Searches(f, s, m, n, v, t),
         NEW r \in SearchPlaces(m, n), Narrowed(s, m, t, r[1], r[2])
  PROVE  f[r] = LastOf(s, t)
<1> DEFINE D == SearchPlaces(m, n)
           Wrong(p) == Narrowed(s, m, t, p[1], p[2]) /\ f[p] # LastOf(s, t)
           Bad == {q \in Nat : \E p \in D : Wrong(p) /\ SizeOf(p) <= q}
<1>1. m \in Nat
  BY DEF Searchable
<1>2. \A p \in D : p[1] \in Nat /\ p[2] \in Int /\ SizeOf(p) \in Int /\ p[2] < m
  <2> SUFFICES ASSUME NEW p \in D
               PROVE  p[1] \in Nat /\ p[2] \in Int /\ SizeOf(p) \in Int /\ p[2] < m
    OBVIOUS
  <2>1. p[1] \in 0..(m + n) /\ p[2] \in -1..(m - 1)
    BY DEF SearchPlaces
  <2>2. p[1] \in Nat /\ p[2] \in Int /\ p[2] < m
    BY <1>1, <2>1
  <2> QED BY <2>2 DEF SizeOf
<1>3. \A p \in D : f[p] = SearchStep(f, s, n, v, t, p)
  BY DEF Searches
<1> HIDE DEF D
<1>4. Bad = {}
  <2> SUFFICES ASSUME NEW b \in Bad PROVE FALSE
    OBVIOUS
  <2>1. Bad \in SUBSET Nat
    OBVIOUS
  <2> HIDE DEF Bad
  <2>2. PICK q \in Bad : \A k \in Bad : q <= k
    BY <2>1, Smallest
  <2>3. PICK p \in D : Wrong(p) /\ SizeOf(p) <= q
    BY DEF Bad
  <2>4. q \in Nat /\ f[p] = SearchStep(f, s, n, v, t, p) /\ Narrowed(s, m, t, p[1], p[2])
        /\ f[p] # LastOf(s, t)
    BY <1>3, <2>1, <2>3
  <2>5. CASE p[2] < p[1]
    <3>1. RowsOfTeam(s, m, t) = {}
      <4> SUFFICES ASSUME NEW i \in 1..m, s[i].team_id = t PROVE FALSE
        BY DEF RowsOfTeam
      <4>1. s[i].team_id \in Int
        BY DEF Searchable
      <4>2. /\ i <= p[1] => s[i].team_id < t
            /\ i - 1 > p[2] => s[i].team_id > t
        BY <2>4 DEF Narrowed
      <4>3. i <= p[1] \/ i - 1 > p[2]
        BY <1>1, <1>2, <2>5
      <4> QED BY <4>1, <4>2, <4>3
    <3>2. f[p] = <<>>
      BY <2>4, <2>5 DEF SearchStep
    <3> QED BY <2>4, <3>1, <3>2, LastOfIs
  <2>6. CASE p[1] <= p[2]
    <3> DEFINE lo == p[1]
               hi == p[2]
               mid == lo + ((hi - lo) \div 2)
               w == Window(s, mid, n)
               left == <<lo, mid - 1>>
               right == <<mid + n, hi>>
    <3>1. /\ mid \in Nat /\ lo <= mid /\ mid <= hi /\ lo \in Nat /\ hi \in 0..(m - 1)
          /\ SizeOf(p) \in Nat /\ SizeOf(p) >= 1
          /\ left \in D /\ SizeOf(left) < SizeOf(p) /\ right \in D /\ SizeOf(right) < SizeOf(p)
          /\ SizeOf(left) \in Int /\ SizeOf(right) \in Int
      BY <1>1, <2>6, SearchNarrows DEF D
    <3>2. f[p] = IF w[1].team_id > t THEN f[left]
                 ELSE IF w[Len(w)].team_id < t THEN f[right]
                 ELSE Collected(s, v, t, lo, hi, mid, w)
      <4>1. ~(p[2] < p[1])
        BY <1>2, <2>6
      <4> QED BY <2>4, <4>1 DEF SearchStep
    <3>3. /\ left[1] = lo /\ left[2] = mid - 1 /\ right[1] = mid + n /\ right[2] = hi
      OBVIOUS
    <3>4. Narrowed(s, m, t, lo, hi)
      BY <2>4
    <3> HIDE DEF lo, hi, mid, w, left, right
    <3>5. PICK k \in 1..n : (k = n \/ mid + k = m) /\ IsPiece(w, s, m, mid, k)
      <4>1. mid \in 0..(m - 1)
        BY <1>1, <3>1
      <4>2. s \in [1..m -> {s[i] : i \in 1..m}]
        BY DEF Searchable
      <4> QED BY <1>1, <4>1, <4>2, WindowIs DEF w
    <3>6. /\ k \in Nat /\ k >= 1 /\ mid + k <= m /\ Len(w) = k
          /\ w[1] = s[mid + 1] /\ w[Len(w)] = s[mid + k]
          /\ mid + 1 \in 1..m /\ mid + k \in 1..m
      <4>1. k \in Nat /\ k >= 1 /\ 1 \in 1..k /\ k \in 1..k
        OBVIOUS
      <4>2. mid + k <= m /\ Len(w) = k /\ \A j \in 1..k : w[j] = s[mid + j]
        BY <3>5 DEF IsPiece
      <4> QED BY <1>1, <3>1, <4>1, <4>2
    <3>7. \A i \in 1..m : s[i].team_id \in Int
      BY DEF Searchable
\* Nothing smaller is wrong.
    <3>8. ASSUME NEW c \in D, SizeOf(c) < SizeOf(p), SizeOf(c) \in Int, Narrowed(s, m, t, c[1], c[2])
          PROVE  f[c] = LastOf(s, t)
      <4>1. q - 1 \in Nat /\ SizeOf(c) <= q - 1 /\ ~(q <= q - 1)
        BY <2>3, <2>4, <3>1, <3>8
      <4>2. q - 1 \notin Bad
        BY <2>2, <4>1
      <4> QED BY <3>8, <4>1, <4>2 DEF Bad
    <3>9. CASE w[1].team_id > t
      <4>1. Narrowed(s, m, t, lo, mid - 1)
        <5> SUFFICES ASSUME NEW i \in 1..m
                     PROVE  /\ i <= lo => s[i].team_id < t
                            /\ i - 1 > mid - 1 => s[i].team_id > t
          BY DEF Narrowed
        <5>1. i <= lo => s[i].team_id < t
          BY <3>4 DEF Narrowed
        <5>2. ASSUME i - 1 > mid - 1 PROVE s[i].team_id > t
          <6>1. mid + 1 <= i
            BY <3>1, <5>2
          <6>2. s[mid + 1].team_id <= s[i].team_id
            BY <3>6, <6>1, Ascending
          <6> QED BY <3>6, <3>7, <3>9, <6>2
        <5> QED BY <5>1, <5>2
      <4>2. f[left] = LastOf(s, t)
        BY <3>1, <3>3, <3>8, <4>1
      <4> QED BY <2>4, <3>2, <3>9, <4>2
    <3>10. CASE ~(w[1].team_id > t) /\ w[Len(w)].team_id < t
      <4>1. Narrowed(s, m, t, mid + n, hi)
        <5> SUFFICES ASSUME NEW i \in 1..m
                     PROVE  /\ i <= mid + n => s[i].team_id < t
                            /\ i - 1 > hi => s[i].team_id > t
          BY DEF Narrowed
        <5>1. i - 1 > hi => s[i].team_id > t
          BY <3>4 DEF Narrowed
        <5>2. ASSUME i <= mid + n PROVE s[i].team_id < t
          <6>1. i <= mid + k
            BY <1>1, <3>1, <3>5, <3>6, <5>2
          <6>2. s[i].team_id <= s[mid + k].team_id
            BY <3>6, <6>1, Ascending
          <6> QED BY <3>6, <3>7, <3>10, <6>2
        <5> QED BY <5>1, <5>2
      <4>2. f[right] = LastOf(s, t)
        BY <3>1, <3>3, <3>8, <4>1
      <4> QED BY <2>4, <3>2, <3>10, <4>2
    <3>11. CASE ~(w[1].team_id > t) /\ ~(w[Len(w)].team_id < t)
      <4>1. w[1].team_id <= t /\ t <= w[Len(w)].team_id
        BY <3>6, <3>7, <3>11
      <4>2. AtPlace(s, m, v, t, lo, hi, mid, w, k)
        BY <1>1, <3>1, <3>4, <3>5, <3>6, <4>1 DEF AtPlace
      <4>3. Collected(s, v, t, lo, hi, mid, w) = LastOf(s, t)
        BY <4>2, PlaceIsRead DEF w
      <4> QED BY <2>4, <3>2, <3>11, <4>3
    <3> QED BY <3>9, <3>10, <3>11
  <2> QED BY <1>2, <2>5, <2>6
<1>5. ASSUME f[r] # LastOf(s, t) PROVE FALSE
  <2>1. r \in D /\ SizeOf(r) \in Int
    BY <1>2 DEF D
  <2>2. \E q \in Nat : SizeOf(r) <= q
    <3>1. CASE SizeOf(r) >= 0
      BY <2>1, <3>1
    <3>2. CASE SizeOf(r) < 0
      BY <2>1, <3>2
    <3> QED BY <2>1, <3>1, <3>2
  <2> QED BY <1>4, <1>5, <2>1, <2>2
<1> QED BY <1>5

LEMMA FoundIs ==
  ASSUME NEW m, NEW s, NEW v, Searchable(s, m, v), NEW n \in Nat \ {0}, NEW t \in Int
  PROVE  Found(s, n, v, t) = LastOf(s, t)
<1>1. m \in Nat /\ Len(s) = m
  <2>1. m \in Nat /\ s \in [1..m -> {s[i] : i \in 1..m}]
    BY DEF Searchable
  <2> QED BY <2>1, FunctionIsSeq
<1> DEFINE G(f) == [r \in SearchPlaces(m, n) |-> SearchStep(f, s, n, v, t, r)]
           search == CHOOSE f : f = G(f)
<1>2. Found(s, n, v, t) = search[<<0, m - 1>>]
  BY <1>1 DEF Found, SearchPlaces, SearchStep
<1>3. Searches(search, s, m, n, v, t)
  <2>1. PICK f : Searches(f, s, m, n, v, t)
    BY <1>1, SearchExists
  <2>2. f = G(f)
    BY <2>1 DEF Searches
  <2>3. search = G(search)
    <3> HIDE DEF G
    <3> QED BY <2>2
  <2> HIDE DEF search
  <2> QED BY <2>3 DEF Searches
<1> HIDE DEF search
<1>4. <<0, m - 1>> \in SearchPlaces(m, n)
  BY <1>1 DEF SearchPlaces
<1>5. Narrowed(s, m, t, 0, m - 1)
  <2> SUFFICES ASSUME NEW i \in 1..m
               PROVE  /\ i <= 0 => s[i].team_id < t
                      /\ i - 1 > m - 1 => s[i].team_id > t
    BY DEF Narrowed
  <2> QED BY <1>1
<1> DEFINE r == <<0, m - 1>>
<1>6. r[1] = 0 /\ r[2] = m - 1
  OBVIOUS
<1> HIDE DEF r
<1>7. search[r] = LastOf(s, t)
  BY <1>3, <1>4, <1>5, <1>6, SearchFinds DEF r
<1> QED BY <1>2, <1>7 DEF r

\* The team ranks between some of other teams: of teams before lo and after hi.
IsAmong(s, p, n, q, lo, hi) ==
  /\ s \in [1..(p + n + q) -> {s[i] : i \in 1..(p + n + q)}]
  /\ \A i \in 1..(p + n + q) :
       \/ /\ i <= p /\ s[i].team_id = lo - p - 1 + i
          /\ s[i].version = team_ranks[1].version /\ s[i].race0 = team_ranks[1].race0
          /\ s[i].race3 = RACE_BEST
       \/ i - p \in 1..n /\ s[i] = team_ranks[i - p]
       \/ /\ i > p + n /\ s[i].team_id = hi + (i - p - n)
          /\ s[i].version = team_ranks[1].version /\ s[i].race0 = team_ranks[1].race0
          /\ s[i].race3 = RACE_BEST

LEMMA AmongIs ==
  ASSUME NEW n \in Nat, team_ranks \in [1..n -> TeamRank], 1 <= n,
         NEW around, around[1] \in Nat, around[2] \in Nat,
         Min(Teams) \in Int, Max(Teams) \in Int
  PROVE  IsAmong(Among(around), around[1], n, around[2], Min(Teams), Max(Teams))
<1> DEFINE p == around[1]
           q == around[2]
           lo == Min(Teams)
           hi == Max(Teams)
           S == TeamRank \cup {OfOther(t) : t \in Int}
           before == [i \in 1..p |-> OfOther(lo - p - 1 + i)]
           after == [i \in 1..q |-> OfOther(hi + i)]
           most == before \o team_ranks
           s == Among(around)
<1>1. ASSUME NEW t \in Int
      PROVE  /\ OfOther(t) \in S /\ OfOther(t).team_id = t /\ OfOther(t).race3 = RACE_BEST
             /\ OfOther(t).version = team_ranks[1].version
             /\ OfOther(t).race0 = team_ranks[1].race0
  <2>1. team_ranks[1] \in TeamRank
    OBVIOUS
  <2>2. /\ OfOther(t).team_id = t /\ OfOther(t).race3 = RACE_BEST
        /\ OfOther(t).version = team_ranks[1].version
        /\ OfOther(t).race0 = team_ranks[1].race0
    <3> DEFINE y == team_ranks[1]
    <3>1. OfOther(t) = [y EXCEPT !.team_id = t, !.mode = TEAM_1V1, !.race3 = RACE_BEST]
      BY DEF OfOther
    <3>2. y \in TeamRank
      BY <2>1
    <3> HIDE DEF y
    <3>3. /\ OfOther(t).team_id = t /\ OfOther(t).race3 = RACE_BEST
          /\ OfOther(t).version = y.version /\ OfOther(t).race0 = y.race0
      BY <3>1, <3>2 DEF TeamRank
    <3> QED BY <3>3 DEF y
  <2> QED BY <2>2
<1>2. p \in Nat /\ q \in Nat /\ lo \in Int /\ hi \in Int /\ s = most \o after
  BY DEF Among
<1>3. ASSUME NEW i \in Nat PROVE lo - p - 1 + i \in Int /\ hi + i \in Int
  BY <1>2
<1>4. /\ before \in [1..p -> S] /\ \A i \in 1..p : before[i] = OfOther(lo - p - 1 + i)
      /\ after \in [1..q -> S] /\ \A i \in 1..q : after[i] = OfOther(hi + i)
      /\ team_ranks \in [1..n -> S]
  <2> HIDE DEF lo, hi, p, q
  <2>1. \A i \in 1..p : OfOther(lo - p - 1 + i) \in S
    <3> SUFFICES ASSUME NEW i \in 1..p PROVE OfOther(lo - p - 1 + i) \in S
      OBVIOUS
    <3> HIDE DEF S
    <3>1. lo - p - 1 + i \in Int
      BY <1>2
    <3> QED BY <1>1, <3>1
  <2>2. \A i \in 1..q : OfOther(hi + i) \in S
    <3> SUFFICES ASSUME NEW i \in 1..q PROVE OfOther(hi + i) \in S
      OBVIOUS
    <3> HIDE DEF S
    <3>1. hi + i \in Int
      BY <1>2
    <3> QED BY <1>1, <3>1
  <2>3. TeamRank \subseteq S
    OBVIOUS
  <2> HIDE DEF S
  <2> QED BY <2>1, <2>2, <2>3
<1> HIDE DEF p, q, lo, hi, S, before, after
<1>5. /\ most \in [1..(p + n) -> S]
      /\ \A i \in 1..p : most[i] = before[i]
      /\ \A i \in 1..n : most[p + i] = team_ranks[i]
  <2>1. IsConcatenation(most, before, p, team_ranks, n, S)
    BY <1>2, <1>4, Concatenation
  <2> HIDE DEF most
  <2> QED BY <2>1 DEF IsConcatenation
<1> HIDE DEF most, s
<1>6. /\ s \in [1..(p + n + q) -> S]
      /\ \A i \in 1..(p + n) : s[i] = most[i]
      /\ \A i \in 1..q : s[(p + n) + i] = after[i]
  <2>1. p + n \in Nat
    BY <1>2
  <2>2. IsConcatenation(most \o after, most, p + n, after, q, S)
    BY <1>2, <1>4, <1>5, <2>1, Concatenation
  <2>3. IsConcatenation(s, most, p + n, after, q, S)
    BY <1>2, <2>2
  <2> QED BY <2>3 DEF IsConcatenation
<1>7. ASSUME NEW i \in 1..(p + n + q)
      PROVE  \/ /\ i <= p /\ s[i].team_id = lo - p - 1 + i
                /\ s[i].version = team_ranks[1].version /\ s[i].race0 = team_ranks[1].race0
                /\ s[i].race3 = RACE_BEST
             \/ i - p \in 1..n /\ s[i] = team_ranks[i - p]
             \/ /\ i > p + n /\ s[i].team_id = hi + (i - p - n)
                /\ s[i].version = team_ranks[1].version /\ s[i].race0 = team_ranks[1].race0
                /\ s[i].race3 = RACE_BEST
  <2>1. CASE i <= p
    <3>1. i \in 1..p /\ i \in 1..(p + n) /\ lo - p - 1 + i \in Int
      BY <1>2, <2>1
    <3>2. s[i] = OfOther(lo - p - 1 + i)
      BY <1>4, <1>5, <1>6, <3>1
    <3> QED BY <1>1, <2>1, <3>1, <3>2
  <2>2. CASE i > p /\ i <= p + n
    <3>1. i - p \in 1..n /\ i \in 1..(p + n) /\ p + (i - p) = i
      BY <1>2, <2>2
    <3>2. s[i] = team_ranks[i - p]
      BY <1>5, <1>6, <3>1
    <3> QED BY <3>1, <3>2
  <2>3. CASE i > p + n
    <3>1. i - p - n \in 1..q /\ (p + n) + (i - p - n) = i /\ hi + (i - p - n) \in Int
      BY <1>2, <2>3
    <3>2. s[i] = OfOther(hi + (i - p - n))
      <4>1. s[(p + n) + (i - p - n)] = after[i - p - n]
        BY <1>6, <3>1
      <4> QED BY <1>4, <3>1, <4>1
    <3> QED BY <1>1, <2>3, <3>1, <3>2
  <2>4. i <= p \/ (i > p /\ i <= p + n) \/ i > p + n
    BY <1>2
  <2> QED BY <2>1, <2>2, <2>3, <2>4
<1>8. s \in [1..(p + n + q) -> {s[i] : i \in 1..(p + n + q)}]
  BY <1>6
<1>9. IsAmong(s, p, n, q, lo, hi)
  BY <1>7, <1>8 DEF IsAmong
<1> QED BY <1>9 DEF s, p, q, lo, hi

\* What is stored may be searched, whatever lies around it.
LEMMA StoredIsSearchable ==
  ASSUME DataInv, stored, team_ranks # <<>>, NEW around \in Neighbours
  PROVE  \E m : Searchable(Among(around), m, SeasonVersion)
<1>1. PICK n \in Nat : RowsOf(team_ranks, n)
  BY DEF DataInv, RowsInv
<1>2. /\ season \in Seasons /\ team_ranks \in [1..n -> TeamRank]
      /\ \A i \in 1..n : Row(team_ranks[i]) /\ team_ranks[i] \in TeamRank
      /\ \A i, j \in 1..n : i < j => BeforeByTeamVersionRace(team_ranks[i], team_ranks[j])
      /\ \A i, j \in 1..n : KeyOf(team_ranks[i]) = KeyOf(team_ranks[j]) => i = j
  BY <1>1 DEF DataInv, RowsInv, RowsOf
<1>3. 1 <= n /\ 1 \in 1..n
  <2>1. n # 0
    <3> SUFFICES ASSUME n = 0 PROVE FALSE
      OBVIOUS
    <3>1. 1..0 = {}
      OBVIOUS
    <3> QED BY <1>2, <3>1
  <2> QED BY <2>1
<1> DEFINE lo == Min(Teams)
           hi == Max(Teams)
           p == around[1]
           q == around[2]
           m == p + n + q
           s == Among(around)
           v == SeasonVersion
<1>4. p \in Nat /\ q \in Nat
  BY FindTeamRankAssumption
<1>5. lo \in Int /\ hi \in Int /\ lo <= hi /\ \A t \in Teams : t \in Int /\ lo <= t /\ t <= hi
  <2>1. team_ranks[1].team_id \in Teams
    BY <1>2, <1>3, RowFields
  <2>2. Teams \in SUBSET Nat /\ IsFiniteSet(Teams)
    BY IdsAreNumbers, FindTeamRankAssumption
  <2>3. lo \in Teams /\ hi \in Teams /\ \A t \in Teams : lo <= t /\ t <= hi
    BY <2>1, <2>2, EndsOf
  <2> HIDE DEF lo, hi
  <2>4. lo \in Nat /\ hi \in Nat /\ \A t \in Teams : t \in Nat
    BY <2>2, <2>3
  <2> QED BY <2>3, <2>4
<1>6. IsAmong(s, p, n, q, lo, hi)
  BY <1>2, <1>3, <1>4, <1>5, AmongIs
<1> HIDE DEF lo, hi, p, q, s, v
<1>7. v \in 0..(VERSION_COUNT - 1) /\ v \in Int
      /\ \A i \in 1..n : /\ team_ranks[i].team_id \in Int /\ lo <= team_ranks[i].team_id
                         /\ team_ranks[i].team_id <= hi
                         /\ team_ranks[i].version \in 0..v
                         /\ team_ranks[i].race0 \in RACE_LO..RACE_HI
  <2>1. PICK l : l \in Ladders
    BY <1>2, <1>3, RowFields
  <2>2. v \in 0..2 /\ \A k \in Ladders : LadderInfo[k].version <= v
    BY <2>1, VersionIsKnown DEF v
  <2>3. ASSUME NEW i \in 1..n
        PROVE  /\ team_ranks[i].team_id \in Int /\ lo <= team_ranks[i].team_id
               /\ team_ranks[i].team_id <= hi
               /\ team_ranks[i].version \in 0..v
               /\ team_ranks[i].race0 \in RACE_LO..RACE_HI
    <3> DEFINE x == team_ranks[i]
    <3>1. Row(x) /\ x \in TeamRank
      BY <1>2
    <3> HIDE DEF x
    <3>2. x.team_id \in Int /\ lo <= x.team_id /\ x.team_id <= hi
      BY <1>5, <3>1, RowFields
    <3>3. x.race0 \in RACE_LO..RACE_HI
      <4>1. x.race0 \in Races
        BY <3>1, RowFields
      <4> QED BY <4>1, RankingDataAssumption
    <3>4. x.version \in 0..v
      <4>1. PICK k \in Ladders : x.version = LadderInfo[k].version
        BY <3>1 DEF Row, StatVersions
      <4>2. LadderInfo[k].version \in 0..2 /\ LadderInfo[k].version <= v
        BY <2>2, LadderFields
      <4> QED BY <2>2, <4>1, <4>2
    <3> QED BY <3>2, <3>3, <3>4 DEF x
  <2> QED BY <2>2, <2>3 DEF VERSION_COUNT
\* Of each row by where it is.
<1>8. ASSUME NEW i \in 1..m
      PROVE  /\ \/ i <= p /\ s[i].team_id = lo - p - 1 + i /\ s[i].race3 = RACE_BEST
                \/ i - p \in 1..n /\ s[i] = team_ranks[i - p]
                \/ i > p + n /\ s[i].team_id = hi + (i - p - n) /\ s[i].race3 = RACE_BEST
             /\ s[i].version \in 0..v /\ s[i].race0 \in RACE_LO..RACE_HI
  BY <1>3, <1>6, <1>7 DEF IsAmong
<1>9. ASSUME NEW i \in 1..m
      PROVE  /\ s[i].team_id \in Int
             /\ i <= p <=> s[i].team_id < lo
             /\ i > p + n <=> s[i].team_id > hi
             /\ i > p /\ i <= p + n => i - p \in 1..n /\ s[i] = team_ranks[i - p]
  <2>1. i \in Int /\ m \in Nat
    BY <1>4
  <2>2. CASE i <= p /\ s[i].team_id = lo - p - 1 + i
    BY <1>4, <1>5, <2>1, <2>2
  <2>3. CASE i - p \in 1..n /\ s[i] = team_ranks[i - p]
    <3>1. s[i].team_id \in Int /\ lo <= s[i].team_id /\ s[i].team_id <= hi
      BY <1>7, <2>3
    <3> QED BY <1>4, <1>5, <2>1, <2>3, <3>1
  <2>4. CASE i > p + n /\ s[i].team_id = hi + (i - p - n)
    BY <1>4, <1>5, <2>1, <2>4
  <2> QED BY <1>8, <2>2, <2>3, <2>4
<1>10. ASSUME NEW i \in 1..m, NEW j \in 1..m, i < j
       PROVE  \/ s[i].team_id < s[j].team_id
              \/ s[i].team_id = s[j].team_id /\ s[i].version < s[j].version
              \/ /\ s[i].team_id = s[j].team_id /\ s[i].version = s[j].version
                 /\ s[i].race0 < s[j].race0
  <2>1. i \in Int /\ j \in Int
    BY <1>4
  <2>2. CASE i > p /\ j <= p + n
    <3>1. /\ i - p \in 1..n /\ s[i] = team_ranks[i - p]
          /\ j - p \in 1..n /\ s[j] = team_ranks[j - p] /\ i - p < j - p
      BY <1>4, <1>9, <1>10, <2>1, <2>2
    <3>2. BeforeByTeamVersionRace(team_ranks[i - p], team_ranks[j - p])
      BY <1>2, <3>1
    <3> QED BY <3>1, <3>2, TeamVersionRace
  <2>3. CASE i <= p /\ j <= p
    <3>1. s[i].team_id = lo - p - 1 + i /\ s[j].team_id = lo - p - 1 + j
      BY <1>4, <1>8, <2>1, <2>3
    <3> QED BY <1>4, <1>5, <1>10, <2>1, <3>1
  <2>4. CASE i <= p /\ j > p
    <3>1. s[i].team_id < lo /\ ~(j <= p)
      BY <1>4, <1>9, <2>1, <2>4
    <3>2. ~(s[j].team_id < lo) /\ s[i].team_id \in Int /\ s[j].team_id \in Int
      BY <1>9, <3>1
    <3> QED BY <1>5, <3>1, <3>2
  <2>5. CASE i > p /\ i <= p + n /\ j > p + n
    <3>1. s[j].team_id > hi /\ ~(i > p + n)
      BY <1>4, <1>9, <2>1, <2>5
    <3>2. ~(s[i].team_id > hi) /\ s[i].team_id \in Int /\ s[j].team_id \in Int
      BY <1>9, <3>1
    <3> QED BY <1>5, <3>1, <3>2
  <2>6. CASE i > p + n
    <3>1. s[i].team_id = hi + (i - p - n) /\ s[j].team_id = hi + (j - p - n)
      BY <1>4, <1>8, <1>10, <2>1, <2>6
    <3> QED BY <1>4, <1>5, <1>10, <2>1, <3>1
  <2> QED BY <1>4, <2>1, <2>2, <2>3, <2>4, <2>5, <2>6
\* A team not marked by race is not 1v1, nor is any other rank of it.
<1>11. ASSUME NEW i \in 1..m, NEW j \in 1..m, NEW k \in 1..m,
              s[k].race3 \notin {RACE_BEST, RACE_ANY},
              s[i].team_id = s[k].team_id, s[j].team_id = s[k].team_id,
              s[i].version = s[j].version
       PROVE  i = j
  <2>1. k > p /\ k <= p + n /\ k - p \in 1..n /\ s[k] = team_ranks[k - p]
    <3>1. k - p \in 1..n /\ s[k] = team_ranks[k - p]
      BY <1>8, <1>11
    <3> QED BY <1>4, <3>1
  <2>2. ASSUME NEW x \in 1..m, s[x].team_id = s[k].team_id
        PROVE  x - p \in 1..n /\ s[x] = team_ranks[x - p]
    <3>1. ~(x <= p) /\ ~(x > p + n)
      <4>1. ~(k <= p) /\ ~(k > p + n)
        BY <1>4, <2>1
      <4> QED BY <1>9, <2>2, <4>1
    <3>2. x > p /\ x <= p + n
      BY <1>4, <3>1
    <3> QED BY <1>9, <3>2
  <2> DEFINE a == team_ranks[i - p]
             b == team_ranks[j - p]
             c == team_ranks[k - p]
  <2>3. /\ i - p \in 1..n /\ s[i] = a /\ j - p \in 1..n /\ s[j] = b /\ s[k] = c
        /\ Row(a) /\ Row(b) /\ Row(c)
    BY <1>2, <1>11, <2>1, <2>2
  <2>4. c.mode # TEAM_1V1
    <3>1. \A x \in DOMAIN team_ranks : team_ranks[x].mode = TEAM_1V1
            => team_ranks[x].race3 \in {RACE_BEST, RACE_ANY}
      BY DEF DataInv, BestRight
    <3> QED BY <1>2, <1>11, <2>1, <3>1
  <2>5. KeyOf(a) = KeyOf(b) => i - p = j - p
    BY <1>2, <2>3
  <2> HIDE DEF a, b, c
  <2>6. a.mode # TEAM_1V1
    BY <1>2, <1>11, <2>3, <2>4, OneMode
  <2>7. KeyOf(a) = KeyOf(b)
    <3>1. a.team_id = b.team_id /\ a.version = b.version /\ ~PerRace(a.mode, season)
      BY <1>11, <2>3, <2>6 DEF PerRace
    <3> QED BY <1>2, <2>3, <3>1, EqualKeys
  <2> QED BY <1>4, <2>5, <2>7
<1>12. Searchable(s, m, v)
  <2>1. m \in Nat /\ s \in [1..m -> {s[i] : i \in 1..m}]
    BY <1>4, <1>6 DEF IsAmong
  <2> HIDE DEF m
  <2> QED BY <1>7, <1>8, <1>9, <1>10, <1>11, <2>1 DEF Searchable
<1> QED BY <1>12 DEF s, v

\* get.cpp, find_team_rank: of any team the search returns exactly the ranks with the
\* last version that are stored, however many others there are and whatever it reads
\* at a time.
THEOREM FoundAsByReadingAllHolds == Spec => []FoundAsByReadingAll
<1>1. DataInv => FoundAsByReadingAll
  <2> SUFFICES ASSUME DataInv, stored, team_ranks # <<>>,
                      NEW around \in Neighbours, NEW n \in WindowSizes,
                      NEW t \in (Min(Teams) - around[1] - 1)..(Max(Teams) + around[2] + 1)
               PROVE  Found(Among(around), n, SeasonVersion, t) = LastOf(Among(around), t)
    BY DEF FoundAsByReadingAll
  <2>1. PICK m : Searchable(Among(around), m, SeasonVersion)
    BY StoredIsSearchable
  <2>2. n \in Nat \ {0} /\ t \in Int
    BY FindTeamRankAssumption
  <2> QED BY <2>1, <2>2, FoundIs
<1> QED BY <1>1, DataInvariance, PTL
=============================================================================
