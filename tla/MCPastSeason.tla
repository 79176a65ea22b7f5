---------------------------- MODULE MCPastSeason ----------------------------
\* A ladder that is known and one that has still to be found, with a team that has
\* moved from the one to the other and that also plays in the current season.
EXTENDS PastSeason, TLC

CONSTANTS old, new, a

MCLadders == {old, new}
MCTeams == {a}
MCTeamsOf == old :> {a} @@ new :> {a}
MCActive == {a}
MCKnown == {old}
=============================================================================
