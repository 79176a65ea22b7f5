-------------------------- MODULE MCLadderUpdates --------------------------
\* Two regions: a team that moves between two ladders of the one, and a team
\* with a single ladder in the other.
EXTENDS LadderUpdatesRefinement, TLC

CONSTANTS EU, US, gold, plat, usGold, t1, t2

MCRegions == {EU, US}
MCLadders == {gold, plat, usGold}
MCTeams == {t1, t2}
MCLadderRegion == gold :> EU @@ plat :> EU @@ usGold :> US
MCTeamRegion == t1 :> EU @@ t2 :> US
=============================================================================
