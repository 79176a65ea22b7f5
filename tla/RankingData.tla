---------------------------- MODULE RankingData ----------------------------
(***************************************************************************)
(* ranking_data: the team ranks of one ranking, and the teams and players  *)
(* they belong to.  Ladders are merged into the team ranks one at a time;  *)
(* saving ranks them in their ladder, league, region and the world, marks  *)
(* the best race of every team and sums up the statistics.                 *)
(***************************************************************************)
EXTENDS TeamRankOrder, FiniteSetsExt

CONSTANTS
  Ladders,      \* ids of ladders
  LadderInfo,   \* per ladder its region, mode, league, tier and version
  Seasons,      \* the seasons a ranking may be of
  Teams, Players,
  MembersOf,    \* per team its players
  Races,
  Answers(_, _),\* what Battle.net may answer for a ladder of a season: a sequence
                \* of [team_id, race, standing]
  MaxUpdates    \* bound: ladders merged

Unknown == [season |-> -1, version |-> -1, mode |-> -1, league |-> -1, race |-> -1]

LadderMember == [team_id : Teams, race : Races, standing : [mmr : Int, points : Nat]]

\* Where mmr is separate per race a 1v1 team is ranked once for each of its races.
PerRace(mode, s) == mode = TEAM_1V1 /\ s >= SEPARATE_RACE_MMR_SEASON

\* Ladders are rows of a table, versions and races enums.  mmr is a 16 bit integer of
\* which the least says that there is none.  A team is of one mode, and nobody is twice
\* in an answer.
ASSUME RankingDataAssumption ==
  /\ Seasons \subseteq Nat
  /\ Teams \subseteq Nat \ {0}
  /\ MembersOf \in [Teams -> SUBSET Players]
  /\ Races \subseteq RACE_LO..RACE_HI
  /\ MaxUpdates \in Nat
  /\ IsFiniteSet(Ladders)
  /\ \A l \in Ladders : LadderInfo[l] \in
       [region : Nat, mode : Nat, league : Nat, tier : Nat, version : 0..(VERSION_COUNT - 1)]
  /\ \A s \in Seasons, l \in Ladders : \A a \in Answers(l, s) :
       /\ a \in Seq(LadderMember)
       /\ \A i \in DOMAIN a : a[i].standing.mmr >= NO_MMR
       /\ \A i, j \in DOMAIN a : i # j /\ a[i].team_id = a[j].team_id
            => PerRace(LadderInfo[l].mode, s) /\ a[i].race # a[j].race
  /\ \A s \in Seasons, k, l \in Ladders : \A a \in Answers(k, s), b \in Answers(l, s) :
       \A i \in DOMAIN a, j \in DOMAIN b :
         a[i].team_id = b[j].team_id => LadderInfo[k].mode = LadderInfo[l].mode

VARIABLES
  season,      \* season of the ranking
  team_ranks,  \* _team_ranks
  teams,       \* the team table, and _team_cache of what it holds
  players,     \* the player table, and _player_cache
  stats,       \* ranking_stats of what was saved last, as long as it is up to date
  stored,      \* has the database the team ranks as they are in memory?
  updates      \* ladders merged so far

vars == <<season, team_ranks, teams, players, stats, stored, updates>>

-----------------------------------------------------------------------------
(* update_with_ladder *)

SortKey(s) == IF s >= MMR_SEASON THEN "MMR" ELSE "LEAGUE_POINTS"

StrictOrder(region, league) ==
  [reverse |-> FALSE, region |-> region, league |-> league, race |-> NOT_SET,
   key |-> SortKey(season), strict |-> TRUE]

World == StrictOrder(NOT_SET, NOT_SET)

\* The version of the season, and the one that a ladder is of: ladders of two
\* versions side by side are a matter of the seasons before mmr.
SeasonVersion == CHOOSE v \in {LadderInfo[l].version : l \in Ladders} :
                   \A l \in Ladders : LadderInfo[l].version <= v
Version(l) == IF season < MMR_SEASON THEN LadderInfo[l].version ELSE SeasonVersion

\* The ladder extracted from its members, no rank being set yet.
Extracted(l, members) ==
  [i \in DOMAIN members |->
     [team_id |-> members[i].team_id, race0 |-> members[i].race, race3 |-> RACE_LO,
      mmr |-> members[i].standing.mmr, points |-> members[i].standing.points,
      region |-> LadderInfo[l].region, mode |-> LadderInfo[l].mode,
      league |-> LadderInfo[l].league, tier |-> LadderInfo[l].tier,
      version |-> Version(l), ladder_id |-> l,
      ladder_rank |-> 0, ladder_count |-> Len(members),
      league_rank |-> 0, league_count |-> 0, region_rank |-> 0, region_count |-> 0,
      world_rank |-> 0, world_count |-> 0]]

\* Sort the ladder and assign the ranks in it.
RankedInLadder(ladder) ==
  LET sorted == StableSort(ladder, LAMBDA x, y : Before(World, x, y))
  IN  [i \in DOMAIN sorted |->
         [sorted[i] EXCEPT !.ladder_rank = SharedRank(sorted, DOMAIN sorted, World, i)]]

\* The order of the team ranks between two calls.
InTeamOrder(s) == StableSort(s, BeforeByTeamVersionRace)

MergeWithoutRace(mode, x, y) == BeforeByTeamVersion(x, y)              \* mutant
MergeBefore(mode, x, y) ==
  IF PerRace(mode, season)
  THEN BeforeByTeamVersionRace(x, y)
  ELSE BeforeByTeamVersion(x, y)

\* Both being in order, one walk through them replaces in target what source has
\* too.  What source has beyond the end of target is appended in order, what it
\* has in between is appended after that, and then all is sorted.
Merged(mode, target, source) ==
  LET Same(x, y) == ~MergeBefore(mode, x, y) /\ ~MergeBefore(mode, y, x)
      Nth(s, i) == Cardinality({j \in 1..i : Same(s[j], s[i])})
      Match(i, k) == Same(source[i], target[k]) /\ Nth(source, i) = Nth(target, k)
      replaced == [k \in DOMAIN target |->
                     IF \E i \in DOMAIN source : Match(i, k)
                     THEN source[CHOOSE i \in DOMAIN source : Match(i, k)]
                     ELSE target[k]]
      added == {i \in DOMAIN source : ~(\E k \in DOMAIN target : Match(i, k))}
      between == {i \in added : \E k \in DOMAIN target : MergeBefore(mode, source[i], target[k])}
      all == replaced \o Selection(source, added \ between) \o Selection(source, between)
  IN  IF between = {} THEN all ELSE InTeamOrder(all)

\* The ladder as it is merged.
Source(l, members) ==
  StableSort(RankedInLadder(Extracted(l, members)),
             LAMBDA x, y : MergeBefore(LadderInfo[l].mode, x, y))

\* update_team: a later season or version is always shown; within them the best
\* league of a 1v1 team, which may be in several, and the last of any other.
UpdatedTeam(old, new) ==
  IF \/ old.season < new.season
     \/ old.season = new.season /\ old.version < new.version
     \/ /\ old.season = new.season /\ old.version = new.version
        /\ new.mode = TEAM_1V1 => old.league < new.league
  THEN new ELSE old

PlayerByLeague(old, new) ==                                            \* mutant
  IF LexBefore(<<old.season, old.league>>, <<new.season, new.league>>)
  THEN new ELSE old
\* update_player: 1v1 is shown if played, in the best league; any other mode is
\* left for a better league, and follows what happens within the mode.
UpdatedPlayer(old, new) ==
  IF \/ old.season < new.season
     \/ /\ old.season = new.season
        /\ IF TEAM_1V1 \in {old.mode, new.mode}
           THEN new.mode = TEAM_1V1 /\ (old.mode # TEAM_1V1 \/ old.league < new.league)
           ELSE old.league < new.league \/ old.mode = new.mode
  THEN new ELSE old

\* What a ladder says of one of its team ranks.
Told(l, race) ==
  [season |-> season, version |-> Version(l), mode |-> LadderInfo[l].mode,
   league |-> LadderInfo[l].league, race |-> race]

\* What the ladder says of a team and of a player is what it says where it has one of
\* their teams first.
FirstRace(members, ids) ==
  members[CHOOSE i \in DOMAIN members :
            /\ members[i].team_id \in ids
            /\ \A j \in 1..(i - 1) : members[j].team_id \notin ids].race

\* The tables after a ladder: an unknown team or player is inserted as the ladder has
\* it, the others are updated with that.
TeamsAfter(l, members) ==
  [t \in Teams |->
     IF \E i \in DOMAIN members : members[i].team_id = t
     THEN UpdatedTeam(teams[t], Told(l, FirstRace(members, {t})))
     ELSE teams[t]]
PlayersAfter(l, members) ==
  [p \in Players |->
     LET own == {t \in Teams : p \in MembersOf[t]}
     IN  IF \E i \in DOMAIN members : members[i].team_id \in own
         THEN UpdatedPlayer(players[p], Told(l, FirstRace(members, own)))
         ELSE players[p]]

UpdateWithLadder(l, members) ==
  /\ updates < MaxUpdates
  /\ updates' = updates + 1
  /\ team_ranks' = Merged(LadderInfo[l].mode, team_ranks, Source(l, members))
  /\ teams' = TeamsAfter(l, members)
  /\ players' = PlayersAfter(l, members)
  /\ stored' = FALSE
  /\ stats' = <<>>
  /\ UNCHANGED season

-----------------------------------------------------------------------------
(* save_data *)

SameGroup(x, y) == x.version = y.version /\ x.mode = y.mode

WorldRanked(s) ==                                                      \* mutant
  [i \in DOMAIN s |-> [s[i] EXCEPT !.world_rank = i, !.world_count = Len(s)]]
\* Ranks and counts of ranks in global order.  The counts have those without mmr,
\* the ranks do not: they keep the ranks they have.
Ranked(s) ==
  [i \in DOMAIN s |->
     LET group == {j \in DOMAIN s : SameGroup(s[j], s[i])}
         region == {j \in group : s[j].region = s[i].region}
         league == {j \in region : s[j].league = s[i].league}
         Rank(c, old) == IF Use(c, s[i])
                         THEN SharedRank(s, {j \in group : Use(c, s[j])}, c, i)
                         ELSE old
         Count(c, of, old) == IF Use(c, s[i]) THEN Cardinality(of) ELSE old
         inRegion == StrictOrder(s[i].region, NOT_SET)
         inLeague == StrictOrder(s[i].region, s[i].league)
     IN  [s[i] EXCEPT
            !.league_rank = Rank(inLeague, @), !.league_count = Count(inLeague, league, @),
            !.region_rank = Rank(inRegion, @), !.region_count = Count(inRegion, region, @),
            !.world_rank = Rank(World, @), !.world_count = Count(World, group, @)]]

BestMarkedByVersion(s) ==                                              \* mutant
  [i \in DOMAIN s |-> IF s[i].mode = TEAM_1V1
                      THEN [s[i] EXCEPT !.race3 = IF \E j \in 1..(i - 1) : s[j].version = s[i].version
                                                  THEN RACE_ANY ELSE RACE_BEST]
                      ELSE s[i]]
\* The first of a 1v1 team and version in global order is its best race.
BestMarked(s) ==
  [i \in DOMAIN s |->
     IF s[i].mode = TEAM_1V1
     THEN [s[i] EXCEPT !.race3 = IF \E j \in 1..(i - 1) : /\ s[j].mode = TEAM_1V1
                                                          /\ s[j].team_id = s[i].team_id
                                                          /\ s[j].version = s[i].version
                                 THEN RACE_ANY ELSE RACE_BEST]
     ELSE s[i]]

InGlobalOrder(s) == StableSort(s, LAMBDA x, y : BeforeInVersionMode(World, x, y))

SaveData ==
  /\ team_ranks' = InTeamOrder(BestMarked(Ranked(InGlobalOrder(team_ranks))))
  /\ stored' = TRUE
  /\ UNCHANGED <<season, teams, players, stats, updates>>

-----------------------------------------------------------------------------
(* save_stats *)

\* The ids that statistics have a place for, of every enum in ascending order.
StatModes == {LadderInfo[l].mode : l \in Ladders}
StatVersions == {LadderInfo[l].version : l \in Ladders}
StatRegions == {LadderInfo[l].region : l \in Ladders}
StatLeagues == {LadderInfo[l].league : l \in Ladders}

\* The places in the order the loops of save_stats pass them.
StatCells ==
  LET Cell == [mode : StatModes, version : StatVersions, region : StatRegions,
               league : StatLeagues, race0 : Races]
      n == Cardinality(Cell)
      Nth(k) == CHOOSE c \in Cell : Cardinality({d \in Cell : BeforeForStats(d, c)}) = k - 1
  IN  [k \in 1..n |-> Nth(k)]

InCell(x, c) == /\ x.mode = c.mode /\ x.version = c.version /\ x.region = c.region
                /\ x.league = c.league /\ x.race0 = c.race0

\* The points of the ranks at some places of s.
Points(s, at) == FoldSet(LAMBDA i, sum : s[i].points + sum, 0, at)

\* From the i-th on, the ranks of s that belong in place c.
RunFrom(s, i, c) == {j \in i..Len(s) : \A k \in i..j : InCell(s[k], c)}

\* Every place takes as many of the ranks at hand as are its own, one index
\* running through them all: where it is when each place begins.
Starts(s) ==
  LET index[k \in DOMAIN StatCells] ==
        IF k = 1 THEN 1
        ELSE LET i == index[k - 1] IN i + Cardinality(RunFrom(s, i, StatCells[k - 1]))
  IN  index

Summed(s) ==
  LET index == Starts(s)
  IN  [k \in DOMAIN StatCells |->
         LET run == RunFrom(s, index[k], StatCells[k])
         IN  [count |-> Cardinality(run), points |-> Points(s, run)]]

StatsOrderWithoutRegion(x, y) ==                                       \* mutant
  LexBefore(<<x.mode, x.version, x.league, x.race0>>, <<y.mode, y.version, y.league, y.race0>>)
StatsOrder(x, y) == BeforeForStats(x, y)

SaveStats ==
  /\ stored
  /\ stats = <<>>
  /\ LET sorted == StableSort(team_ranks, StatsOrder) IN
       /\ stats' = Summed(sorted)
       /\ team_ranks' = InTeamOrder(sorted)
  /\ UNCHANGED <<season, teams, players, stored, updates>>

-----------------------------------------------------------------------------

\* The tables may know a team and its players already: from an earlier season, or
\* from a later one when this ranking is of the past.
Known(t, s) == [season |-> s, version |-> 0, mode |-> TEAM_1V1, league |-> 0, race |-> RACE_LO]

Init ==
  /\ season \in Seasons
  /\ team_ranks = <<>>
  /\ \E t \in Teams, s \in {season - 1, season + 1} :
       /\ teams = [u \in Teams |-> IF u = t THEN Known(t, s) ELSE Unknown]
       /\ players = [p \in Players |-> IF p \in MembersOf[t] THEN Known(t, s) ELSE Unknown]
  /\ stats = <<>>
  /\ stored = FALSE
  /\ updates = 0

Next ==
  \/ \E l \in Ladders : \E members \in Answers(l, season) : UpdateWithLadder(l, members)
  \/ SaveData
  \/ SaveStats

Spec == Init /\ [][Next]_vars

-----------------------------------------------------------------------------
(* Properties *)

Display == [season : {season - 1, season, season + 1}, version : Nat, mode : Nat,
            league : Nat, race : Races \cup {RACE_LO}]

\* What the variables hold: records of the known enums, a rank and a count for
\* whatever can be ranked once stored.
TypeOK ==
  /\ season \in Seasons
  /\ \A i \in DOMAIN team_ranks :
       LET x == team_ranks[i] IN
         /\ x.team_id \in Teams /\ x.ladder_id \in Ladders /\ x.race0 \in Races
         /\ x.ladder_rank \in 1..x.ladder_count
         /\ x.race3 \in {RACE_LO, RACE_ANY, RACE_BEST}
         /\ stored /\ Use(World, x) =>
              /\ x.league_rank \in 1..x.league_count
              /\ x.region_rank \in 1..x.region_count
              /\ x.world_rank \in 1..x.world_count
  /\ teams \in [Teams -> Display \cup {Unknown}]
  /\ players \in [Players -> Display \cup {Unknown}]
  /\ stats # <<>> => stored
  /\ updates \in 0..MaxUpdates

\* Whatever has been merged, replaced, ranked and summed up, between two calls the
\* team ranks are in the order that the next merge and find_team_rank walk them
\* in, and no team is there twice with one version and race.
InOrderOnce ==
  \A i, j \in DOMAIN team_ranks :
    i < j => BeforeByTeamVersionRace(team_ranks[i], team_ranks[j])

\* What identifies a team rank.
KeyOf(x) ==
  IF PerRace(x.mode, season)
  THEN <<x.team_id, x.version, x.race0>> ELSE <<x.team_id, x.version>>

\* "Rely on the later data is the correct one": whatever ladder comes next, every
\* rank it has is in the team ranks afterwards, every rank that it says nothing of
\* is still there and as it was, and there is nothing else.
LaterDataReplaces ==
  updates < MaxUpdates =>
    \A l \in Ladders : \A members \in Answers(l, season) :
      LET source == Source(l, members)
          new == {source[i] : i \in DOMAIN source}
          old == {team_ranks[i] : i \in DOMAIN team_ranks}
          merged == Merged(LadderInfo[l].mode, team_ranks, source)
      IN  {merged[i] : i \in DOMAIN merged}
            = new \cup {x \in old : \A y \in new : KeyOf(x) # KeyOf(y)}

\* What is stored ranks every team, within its ladder's league and region, its
\* region and the world, one below the number of teams of its version and mode that
\* are better by the key of the season; teams without mmr are in nobody's way.
RanksCountTheBetter ==
  stored =>
    \A i \in DOMAIN team_ranks :
      LET x == team_ranks[i]
          All(Same(_)) == {j \in DOMAIN team_ranks :
                             SameGroup(team_ranks[j], x) /\ Same(team_ranks[j])}
          Right(rank, count, Same(_)) ==
            /\ rank = 1 + Cardinality({j \in All(Same) : Ahead(SortKey(season), team_ranks[j], x)})
            /\ count = Cardinality(All(Same))
      IN  Use(World, x) =>
            /\ Right(x.world_rank, x.world_count, LAMBDA y : TRUE)
            /\ Right(x.region_rank, x.region_count, LAMBDA y : y.region = x.region)
            /\ Right(x.league_rank, x.league_count,
                     LAMBDA y : y.region = x.region /\ y.league = x.league)

\* Of the ranks stored of a 1v1 team and version exactly one is marked as its best
\* race, and none of the others is better by the key of the season.
OneBestRace ==
  stored =>
    \A i \in DOMAIN team_ranks : team_ranks[i].mode = TEAM_1V1 =>
      LET x == team_ranks[i]
          own == {j \in DOMAIN team_ranks : /\ team_ranks[j].team_id = x.team_id
                                            /\ team_ranks[j].version = x.version}
          best == {j \in own : team_ranks[j].race3 = RACE_BEST}
      IN  /\ Cardinality(best) = 1
          /\ \A b \in best : ~Ahead(SortKey(season), x, team_ranks[b])

\* No rank is left out of the statistics or put down in the wrong place: every place
\* has the number and the points of all the ranks that belong there.
StatsCountEveryRank ==
  stats # <<>> =>
    \A k \in DOMAIN StatCells :
      LET own == {i \in DOMAIN team_ranks : InCell(team_ranks[i], StatCells[k])}
      IN  stats[k] = [count |-> Cardinality(own), points |-> Points(team_ranks, own)]

\* The season never goes back, and within the season of the ranking a 1v1 player is
\* shown in 1v1 and neither he nor his team below any league they are ranked in, in
\* whatever order his ladders and those of his other teams came; any other
\* team is shown where it is ranked.
ShownAtTheirBest ==
  \A i \in DOMAIN team_ranks :
    LET x == team_ranks[i]
        team == teams[x.team_id]
        last == \A j \in DOMAIN team_ranks :
                  team_ranks[j].team_id = x.team_id => team_ranks[j].version <= x.version
    IN  /\ team.season >= season
        /\ team.season = season /\ last =>
             IF x.mode = TEAM_1V1 THEN team.league >= x.league
                                  ELSE team.league = x.league /\ team.race = x.race0
        /\ \A p \in MembersOf[x.team_id] :
             /\ players[p].season >= season
             /\ players[p].season = season /\ x.mode = TEAM_1V1 =>
                  players[p].mode = TEAM_1V1 /\ players[p].league >= x.league
=============================================================================
