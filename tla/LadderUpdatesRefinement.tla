---------------------- MODULE LadderUpdatesRefinement ----------------------
(***************************************************************************)
(* The update path as an implementation of TeamData: what is known are the *)
(* team ranks in memory while ladders are merged into them, and what has   *)
(* been saved whenever they are not there or are being built for another   *)
(* ranking.                                                                *)
(***************************************************************************)
EXTENDS LadderUpdates

DataTimes(ranks) == [t \in Teams |-> ranks[t].data_time]

Data == INSTANCE TeamData WITH
          MaxTime <- MaxClock,
          known <- DataTimes(IF Updating THEN team_ranks ELSE ranking_data),
          saved <- DataTimes(ranking_data)

\* Threads, queue, merges, stops, joins, loads and crashes together do nothing but
\* come to know later data of teams, save it, fall back to what was saved or begin a
\* new ranking; a ranking that is continued begins with what was saved, and a merge
\* never takes a team back.
ImplementsTeamData == Data!Spec
=============================================================================
