--------------------------- MODULE LadderUpdates ---------------------------
(***************************************************************************)
(* The path of ladder data through the update process: one FetcherThread   *)
(* per region fetches ladders from Battle.net and pushes the responses on  *)
(* the queue shared with the main thread, which stores each response as    *)
(* the ladder's source of the ranking and merges it into the team ranks    *)
(* kept in memory.  The team ranks are saved now and then; the process may *)
(* stop or die at any point and continue from what it saved, or begin a    *)
(* new ranking.  Which ladder a thread fetches next is left open here.     *)
(***************************************************************************)
EXTENDS Naturals, Sequences

CONSTANTS Regions, Ladders, Teams,
          LadderRegion,   \* the region every ladder belongs to
          TeamRegion,     \* the region every team plays in
          NoLadder,       \* stands for "no ladder", outside Ladders
          Idle,           \* a fetcher thread without an answer at hand
          MaxClock,       \* bound: number of fetches
          MaxRanking      \* bound: number of rankings

ASSUME LadderUpdatesAssumption ==
  /\ LadderRegion \in [Ladders -> Regions]
  /\ TeamRegion \in [Teams -> Regions]
  /\ NoLadder \notin Ladders
  /\ Idle \notin [ladder : Ladders, members : SUBSET Teams, time : 1..MaxClock]
  /\ MaxClock \in Nat
  /\ MaxRanking \in Nat \ {0}

VARIABLES
  clock,          \* time of the last response of Battle.net, one tick each
  answer,         \* per region: the response its thread holds, or Idle
  fetched_queue,  \* FetchManager.fetched_queue, oldest first
  pc,             \* where countinously_update is
  ranking,        \* id of the latest ranking
  sources,        \* ranking.sources: per ladder when it was updated, and with whom
  team_ranks,     \* ranking_data::_team_ranks: per team its time and ladder
  ranking_data,   \* the team ranks last saved for the latest ranking
  uncopied        \* sources that the copying of a ranking has still to merge

vars == <<clock, answer, fetched_queue, pc, ranking, sources, team_ranks,
          ranking_data, uncopied>>

LaddersOf(r) == {l \in Ladders : LadderRegion[l] = r}
TeamsOf(r) == {t \in Teams : TeamRegion[t] = r}

Response == [ladder : Ladders, members : SUBSET Teams, time : 1..MaxClock]
OfRegion(f, r) == f.ladder \in LaddersOf(r) /\ f.members \subseteq TeamsOf(r)
Source == [updated : 0..MaxClock, members : SUBSET Teams]   \* updated 0: not there
TeamRank == [data_time : 0..MaxClock, ladder : Ladders \cup {NoLadder}]

Unranked == [data_time |-> 0, ladder |-> NoLadder]
NoTeamRanks == [t \in Teams |-> Unranked]
NoSources == [l \in Ladders |-> [updated |-> 0, members |-> {}]]

\* What every variable holds; the thread of a region holds responses of its region.
TypeOK ==
  /\ clock \in 0..MaxClock
  /\ answer \in [Regions -> Response \cup {Idle}]
  /\ \A r \in Regions : answer[r] # Idle => OfRegion(answer[r], r)
  /\ fetched_queue \in Seq(Response)
  /\ pc \in {"down", "choosing", "copying", "updating", "stopping"}
  /\ ranking \in 1..MaxRanking
  /\ sources \in [Ladders -> Source]
  /\ team_ranks \in [Teams -> TeamRank]
  /\ ranking_data \in [Teams -> TeamRank]
  /\ uncopied \subseteq Ladders

\* The later data is the correct one, nothing is compared.
Merge(ranks, l, members, time) ==
  [t \in Teams |-> IF t \in members THEN [data_time |-> time, ladder |-> l]
                                    ELSE ranks[t]]

Init ==
  /\ clock = 0
  /\ answer = [r \in Regions |-> Idle]
  /\ fetched_queue = <<>>
  /\ pc = "down"
  /\ ranking = 1
  /\ sources = NoSources
  /\ team_ranks = NoTeamRanks
  /\ ranking_data = NoTeamRanks
  /\ uncopied = {}

-----------------------------------------------------------------------------
(* The fetcher threads. *)

BatchesOfAnyRegion(r) == Ladders                                    \* mutant
\* FetchManager fills the batches of a thread with the ladders of its region.
Batches(r) == LaddersOf(r)

\* Battle.net answers the thread of region r for one of the ladders its batches
\* hold; whom it lists is up to Battle.net.  Other statuses than 200 are dropped.
Fetch(r, l) ==
  /\ pc = "updating"
  /\ answer[r] = Idle
  /\ l \in Batches(r)
  /\ clock < MaxClock
  /\ clock' = clock + 1
  /\ \E members \in SUBSET TeamsOf(LadderRegion[l]) :
       answer' = [answer EXCEPT ![r] = [ladder |-> l, members |-> members,
                                        time |-> clock + 1]]
  /\ UNCHANGED <<fetched_queue, pc, ranking, sources, team_ranks, ranking_data, uncopied>>

PushedOnTheRight(f) == <<f>> \o fetched_queue                        \* mutant
Pushed(f) == Append(fetched_queue, f)

\* fetched_queue.appendleft(...), also after stop() has been called.
Push(r) ==
  /\ answer[r] # Idle
  /\ fetched_queue' = Pushed(answer[r])
  /\ answer' = [answer EXCEPT ![r] = Idle]
  /\ UNCHANGED <<clock, pc, ranking, sources, team_ranks, ranking_data, uncopied>>

-----------------------------------------------------------------------------
(* update_until *)

CacheKeepingTime(f) ==                                              \* mutant
  [updated |-> IF sources[f.ladder].updated = 0 THEN f.time ELSE sources[f.ladder].updated,
   members |-> f.members]
\* The ladder's source of the ranking, made or overwritten with the response.
LadderCache(f) == [updated |-> f.time, members |-> f.members]

\* One turn of the loop with something in the queue: pop() what was pushed first,
\* update_ladder_cache in a transaction.
Update ==
  /\ pc = "updating"
  /\ fetched_queue # <<>>
  /\ LET f == Head(fetched_queue) IN
       /\ sources' = [sources EXCEPT ![f.ladder] = LadderCache(f)]
       /\ team_ranks' = Merge(team_ranks, f.ladder, f.members, f.time)
  /\ fetched_queue' = Tail(fetched_queue)
  /\ UNCHANGED <<clock, answer, pc, ranking, ranking_data, uncopied>>

\* The save every 60 seconds.
Save ==
  /\ pc = "updating"
  /\ ranking_data' = team_ranks
  /\ UNCHANGED <<clock, answer, fetched_queue, pc, ranking, sources, team_ranks, uncopied>>

\* The time is up, the season is closed or the process is told to stop.
Stop ==
  /\ pc = "updating"
  /\ pc' = "stopping"
  /\ UNCHANGED <<clock, answer, fetched_queue, ranking, sources, team_ranks,
                 ranking_data, uncopied>>

\* The threads are joined, what is left in the queue is forgotten.
JoinAndSave ==
  /\ pc = "stopping"
  /\ \A r \in Regions : answer[r] = Idle
  /\ ranking_data' = team_ranks
  /\ team_ranks' = NoTeamRanks
  /\ fetched_queue' = <<>>
  /\ pc' = "choosing"
  /\ UNCHANGED <<clock, answer, ranking, sources, uncopied>>

-----------------------------------------------------------------------------
(* countinously_update *)

Start ==
  /\ pc = "down"
  /\ pc' = "choosing"
  /\ UNCHANGED <<clock, answer, fetched_queue, ranking, sources, team_ranks,
                 ranking_data, uncopied>>

NothingLoaded == NoTeamRanks                                        \* mutant
Loaded == ranking_data

\* Continue with the same ranking.
Load ==
  /\ pc = "choosing"
  /\ team_ranks' = Loaded
  /\ pc' = "updating"
  /\ UNCHANGED <<clock, answer, fetched_queue, ranking, sources, ranking_data, uncopied>>

\* A ranking of a new season begins without sources and without teams.  The steps
\* in which a new ranking is inserted and saved are in RankingLifecycle.
SwitchSeason ==
  /\ pc = "choosing"
  /\ ranking < MaxRanking
  /\ ranking' = ranking + 1
  /\ sources' = NoSources
  /\ team_ranks' = NoTeamRanks
  /\ ranking_data' = NoTeamRanks
  /\ pc' = "updating"
  /\ UNCHANGED <<clock, answer, fetched_queue, uncopied>>

\* A new ranking of the same season is made from copies of the sources ...
BeginCopy ==
  /\ pc = "choosing"
  /\ ranking < MaxRanking
  /\ team_ranks' = NoTeamRanks
  /\ uncopied' = {l \in Ladders : sources[l].updated > 0}
  /\ pc' = "copying"
  /\ UNCHANGED <<clock, answer, fetched_queue, ranking, sources, ranking_data>>

\* ... merged in the order in which ranking.sources.all() returns them: any.
Copy(l) ==
  /\ pc = "copying"
  /\ l \in uncopied
  /\ team_ranks' = Merge(team_ranks, l, sources[l].members, sources[l].updated)
  /\ uncopied' = uncopied \ {l}
  /\ UNCHANGED <<clock, answer, fetched_queue, pc, ranking, sources, ranking_data>>

EndCopy ==
  /\ pc = "copying"
  /\ uncopied = {}
  /\ ranking < MaxRanking
  /\ ranking' = ranking + 1
  /\ ranking_data' = team_ranks
  /\ pc' = "updating"
  /\ UNCHANGED <<clock, answer, fetched_queue, sources, team_ranks, uncopied>>

\* The process ends, by itself between two calls of update_until or by a crash
\* anywhere.  An unfinished copy is rolled back.
Exit ==
  /\ pc # "down"
  /\ pc' = "down"
  /\ team_ranks' = NoTeamRanks
  /\ fetched_queue' = <<>>
  /\ answer' = [r \in Regions |-> Idle]
  /\ uncopied' = {}
  /\ UNCHANGED <<clock, ranking, sources, ranking_data>>

Next ==
  \/ \E r \in Regions, l \in Ladders : Fetch(r, l)
  \/ \E r \in Regions : Push(r)
  \/ Update
  \/ Save
  \/ Stop
  \/ JoinAndSave
  \/ Start
  \/ Load
  \/ SwitchSeason
  \/ BeginCopy
  \/ \E l \in Ladders : Copy(l)
  \/ EndCopy
  \/ Exit

Spec == Init /\ [][Next]_vars

-----------------------------------------------------------------------------
Updating == pc \in {"updating", "stopping"}

\* Response f is newer than all that the ranks and the sources hold of its region.
Newer(f, ranks, known) ==
  /\ \A t \in Teams : TeamRegion[t] = LadderRegion[f.ladder]
                        => ranks[t].data_time < f.time
  /\ \A l \in Ladders : LadderRegion[l] = LadderRegion[f.ladder]
                        => known[l].updated < f.time

\* Responses on the way (held by a thread or queued) are newer than everything of
\* their region that has arrived, and queued in the order they were fetched: what
\* one thread per region and a first-in first-out queue are to guarantee.
FetchOrder ==
  /\ \A i \in 1..Len(fetched_queue) :
       /\ OfRegion(fetched_queue[i], LadderRegion[fetched_queue[i].ladder])
       /\ Newer(fetched_queue[i], team_ranks, sources)
  /\ \A i, j \in 1..Len(fetched_queue) :
       i < j /\ LadderRegion[fetched_queue[i].ladder] = LadderRegion[fetched_queue[j].ladder]
         => fetched_queue[i].time < fetched_queue[j].time
  /\ \A r \in Regions : answer[r] # Idle =>
       /\ Newer(answer[r], team_ranks, sources)
       /\ \A i \in 1..Len(fetched_queue) :
            LadderRegion[fetched_queue[i].ladder] = r
              => fetched_queue[i].time < answer[r].time

\* While ladders are fetched, a response never replaces data of a team that was
\* fetched later: the code compares no times, it relies on the order in which
\* the responses of a region reach the merge (ranking_data.cpp, "just rely on
\* the later data is the correct one").
LaterDataWins ==
  [][Updating /\ Updating' =>
       \A t \in Teams : team_ranks'[t].data_time >= team_ranks[t].data_time]_vars

\* Nor does what is saved for a ranking, whatever stops and crashes come in between.
SavedNeverOlder ==
  [][ranking' = ranking =>
       \A t \in Teams : ranking_data'[t].data_time >= ranking_data[t].data_time]_vars

\* A team rank is backed by a source of the same ranking: its ladder has one, that
\* is not older than the team rank and, if of the same time, lists the team.
Backed(ranks) ==
  \A t \in Teams : ranks[t].data_time > 0 =>
    /\ ranks[t].ladder \in Ladders
    /\ ranks[t].data_time <= sources[ranks[t].ladder].updated
    /\ ranks[t].data_time = sources[ranks[t].ladder].updated
         => t \in sources[ranks[t].ladder].members

\* This holds for the team ranks in memory and for the saved ones, also when the
\* process died between storing sources and saving the team ranks.
RanksAreBacked == Backed(team_ranks) /\ Backed(ranking_data)

\* The ranking made by a copy has each team as it was fetched last: "the ranker
\* will have to rank ladders in fetch order to prevent overwriting data when teams
\* change ladder" (pg_test/calculate_ranking_test.py:25).
CopiedInFetchOrder ==
  [][EndCopy => \A l \in Ladders : \A t \in sources[l].members :
                  ranking_data'[t].data_time >= sources[l].updated]_vars

=============================================================================
