---------------------------- MODULE MCTeamRanks ----------------------------
(***************************************************************************)
(* Two 1v1 players of one region, who also play archon together, and one   *)
(* of another region.  The ladders of the first two are of different       *)
(* leagues, and of different versions before season 28.                    *)
(***************************************************************************)
EXTENDS FindTeamRank

MCLadders == {"gold", "plat", "sea", "archon"}
MCLadderInfo ==
  [gold   |-> [region |-> 0, mode |-> 11, league |-> 2, tier |-> 1, version |-> 1],
   plat   |-> [region |-> 0, mode |-> 11, league |-> 3, tier |-> 0, version |-> 2],
   sea    |-> [region |-> 3, mode |-> 11, league |-> 2, tier |-> 0, version |-> 2],
   archon |-> [region |-> 0, mode |-> 12, league |-> 3, tier |-> 0, version |-> 2]]
MCTeams == 11..14
MCMembersOf == [t \in MCTeams |-> IF t = 14 THEN {11, 12} ELSE {t}]
MCRaces == {0, 2}
MCNeighbours == {<<0, 0>>, <<1, 0>>, <<3, 1>>, <<0, 4>>}

Standing(n) == [mmr |-> IF n = 0 THEN NO_MMR ELSE n, points |-> 10 * n]
Member(t, r, n) == [team_id |-> t, race |-> r, standing |-> Standing(n)]

Single(M) == {<<m>> : m \in M}
\* Nobody is twice in an answer: no team, or with separate mmr no team with one race.
Pairs(M, s) ==
  {<<m, n>> : m \in M, n \in M} \ {<<m, n>> \in M \X M :
     m.team_id = n.team_id /\ (s < SEPARATE_RACE_MMR_SEASON \/ m.race = n.race)}

MCAnswers(l, s) ==
  CASE l = "gold" -> LET M == {Member(11, 0, n) : n \in 0..2} \cup {Member(11, 2, 1), Member(12, 2, 1)}
                     IN  {<<>>} \cup Single(M) \cup Pairs(M, s)
    [] l = "plat" -> LET M == {Member(t, 0, n) : t \in {11, 12}, n \in {1}}
                     IN  Single(M) \cup Pairs(M, s)
    [] l = "sea" -> Single({Member(13, 2, n) : n \in {0, 1}})
    [] l = "archon" -> Single({Member(14, r, 1) : r \in MCRaces})
=============================================================================
