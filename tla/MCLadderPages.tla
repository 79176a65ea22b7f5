--------------------------- MODULE MCLadderPages ---------------------------
(***************************************************************************)
(* Two rankings of five and three 1v1 ranks and one of archon.  Team 1 has  *)
(* two races with the same record, team 3 of another region equals it too; *)
(* team 2 has no mmr; team 4 of the second ranking has not played.         *)
(***************************************************************************)
EXTENDS LadderPages

Row(t, race, region, league, mmr, wins, losses, world_rank) ==
  [team_id |-> t, version |-> LOTV, mode |-> TEAM_1V1, region |-> region,
   league |-> league, tier |-> 0, race0 |-> race, mmr |-> mmr, points |-> 10 * wins,
   wins |-> wins, losses |-> losses, world_rank |-> world_rank]
Archon == [Row(9, 1, 0, 5, 5, 1, 1, 1) EXCEPT !.mode = 12]

First == {Row(1, 0, 0, 5, 3, 4, 2, 1), Row(1, 2, 0, 5, 3, 4, 2, 1),
          Row(3, 0, 1, 5, 3, 4, 2, 1), Row(4, 2, 1, 4, 2, 2, 4, 4),
          Row(2, 0, 0, 4, NO_MMR, 2, 1, 0), Archon}
Second == {Row(1, 2, 0, 4, 1, 4, 3, 3), Row(3, 0, 1, 5, 3, 3, 2, 1),
           Row(4, 2, 1, 4, 3, 0, 0, 4), Archon}

MCRankings == {First, Second}
MCSpans == {[version |-> LOTV, mode |-> m] : m \in {TEAM_1V1, 20}}
Filter(region, league, race) == [region |-> region, league |-> league, race |-> race]
MCFilters == {Filter(NOT_SET, NOT_SET, NOT_SET), Filter(0, NOT_SET, NOT_SET),
              Filter(NOT_SET, 5, 0)}
MCClanTeams == {{1, 2}}
=============================================================================
