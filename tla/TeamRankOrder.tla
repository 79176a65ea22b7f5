--------------------------- MODULE TeamRankOrder ---------------------------
(***************************************************************************)
(* How team ranks are compared (compare.hpp).  A team rank is a record of  *)
(* integers; a comparator is a record that says by which key, in which     *)
(* direction, within which region, league and race, and whether it is      *)
(* strict (for ranks) or breaks ties (for display).                        *)
(***************************************************************************)
EXTENDS Integers, Sequences, FiniteSets

NO_MMR == -32768
NOT_SET == -64
TEAM_1V1 == 11
RACE_LO == -1
RACE_HI == 3
RACE_COUNT == RACE_HI - RACE_LO + 1
VERSION_COUNT == 3
RACE_ANY == 8
RACE_BEST == 9
MMR_SEASON == 28
SEPARATE_RACE_MMR_SEASON == 29

SortKeys == {"LEAGUE_POINTS", "PLAYED", "WINS", "LOSSES", "WIN_RATE", "MMR"}

Comparators == [reverse : BOOLEAN, region : Int, league : Int, race : Int,
                key : SortKeys, strict : BOOLEAN]

\* Of two lists of numbers, is s the smaller at the first place they differ?
LexBefore(s, t) ==
  \E i \in DOMAIN s : s[i] < t[i] /\ \A j \in 1..(i - 1) : s[j] = t[j]

Played(x) == x.wins + x.losses

\* Is x ahead of y by the key alone?  A rate of no games is not a number, and
\* neither ahead of nor level with any other.
Ahead(key, x, y) ==
  CASE key = "MMR" -> x.mmr > y.mmr
    [] key = "LEAGUE_POINTS" -> LexBefore(<<-x.league, x.tier, -x.points>>,
                                          <<-y.league, y.tier, -y.points>>)
    [] key = "PLAYED" -> Played(x) > Played(y)
    [] key = "WINS" -> x.wins > y.wins
    [] key = "LOSSES" -> x.losses > y.losses
    [] key = "WIN_RATE" -> /\ Played(x) > 0 /\ Played(y) > 0
                           /\ x.wins * Played(y) > y.wins * Played(x)

Level(key, x, y) ==
  IF key = "WIN_RATE"
  THEN Played(x) > 0 /\ Played(y) > 0 /\ x.wins * Played(y) = y.wins * Played(x)
  ELSE ~Ahead(key, x, y) /\ ~Ahead(key, y, x)

\* What decides between two that are level, smallest first.
TieBreakers(key, x) ==
  CASE key \in {"MMR", "LEAGUE_POINTS"} -> <<-x.wins, x.losses, x.team_id>>
    [] key = "PLAYED" -> <<-x.mmr, -x.wins, x.team_id>>
    [] key = "WINS" -> <<-x.mmr, x.losses, x.team_id>>
    [] key = "LOSSES" -> <<x.wins, x.team_id>>
    [] key = "WIN_RATE" -> <<-x.wins, x.losses, -x.mmr, x.team_id>>

\* Every key but MMR leaves two elements alone that agree in all of it.
LeftAlone(key, x, y) == key # "MMR" /\ TieBreakers(key, x) = TieBreakers(key, y)

ByKey(c, x, y) ==
  IF Level(c.key, x, y)
  THEN /\ ~c.strict
       /\ ~LeftAlone(c.key, x, y)
       /\ c.reverse # LexBefore(TieBreakers(c.key, x), TieBreakers(c.key, y))
  ELSE c.reverse # Ahead(c.key, x, y)

\* cmp_tr: is x before y?  What the comparator is set to comes first.
Before(c, x, y) ==
  IF c.region # NOT_SET /\ x.region # y.region THEN x.region < y.region
  ELSE IF c.league # NOT_SET /\ x.league # y.league THEN x.league > y.league
  ELSE IF c.race # NOT_SET /\ x.race0 # y.race0 THEN x.race0 < y.race0
  ELSE ByKey(c, x, y)

\* cmp_tr::use: ranks without mmr are no good to a comparison by mmr.
Use(c, x) ==
  /\ c.key = "MMR" => x.mmr # NO_MMR
  /\ c.region \in {NOT_SET, x.region}
  /\ c.league \in {NOT_SET, x.league}
  /\ c.race \in {NOT_SET, x.race0}

\* cmp_tr_version_mode
BeforeInVersionMode(c, x, y) ==
  \/ LexBefore(<<x.version, x.mode>>, <<y.version, y.mode>>)
  \/ x.version = y.version /\ x.mode = y.mode /\ Before(c, x, y)

BeforeByWorldRank(x, y) ==
  LexBefore(<<x.version, x.mode, x.world_rank>>, <<y.version, y.mode, y.world_rank>>)

BeforeByTeamVersion(x, y) ==
  LexBefore(<<x.team_id, x.version>>, <<y.team_id, y.version>>)

BeforeByTeamVersionRace(x, y) ==
  LexBefore(<<x.team_id, x.version, x.race0>>, <<y.team_id, y.version, y.race0>>)

BeforeForStats(x, y) ==
  LexBefore(<<x.mode, x.version, x.region, x.league, x.race0>>,
            <<y.mode, y.version, y.region, y.league, y.race0>>)

\* The elements of s at a set of places, in the order of s.
Selection(s, at) ==
  [n \in 1..Cardinality(at) |-> s[CHOOSE i \in at : Cardinality({j \in at : j <= i}) = n]]

\* s sorted, given the pairs of places of which the first has to come before the second:
\* a strict weak order, in which elements that are tied stay as they are.
Sorting(s, before) ==
  LET place == [i \in DOMAIN s |->
        1 + Cardinality({j \in DOMAIN s : \/ <<j, i>> \in before
                                          \/ j < i /\ <<i, j>> \notin before})]
  IN  [p \in DOMAIN s |-> s[CHOOSE i \in DOMAIN s : place[i] = p]]

\* std::stable_sort by a comparison that is a strict weak order.
StableSort(s, Less(_, _)) ==
  Sorting(s, {p \in (DOMAIN s) \X (DOMAIN s) : Less(s[p[1]], s[p[2]])})

PlaceRank(s, used, c, i) == 1 + Cardinality({j \in used : j < i})       \* mutant
\* The rank the i-th of s gets among those at the places used, s being in the
\* order of c: all that are level by c share the place of their first.
SharedRank(s, used, c, i) ==
  1 + Cardinality({j \in used : j < i /\ (Before(c, s[j], s[i]) \/ Before(c, s[i], s[j]))})
=============================================================================
