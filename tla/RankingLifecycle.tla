-------------------------- MODULE RankingLifecycle --------------------------
(***************************************************************************)
(* The life of rankings and seasons in the database.  The update process   *)
(* (countinously_update, update_until, save_ranking) works on the latest   *)
(* ranking, makes a new one now and then and switches to a new season; the *)
(* fetch_new process detects that the season has changed, closes it and    *)
(* corrects its rankings; the two are separate processes on one database.  *)
(* Of the data of a ranking only its newest fetch time is kept, of its     *)
(* sources when they were fetched and whether there are teams in them.     *)
(***************************************************************************)
EXTENDS Naturals, FiniteSets

CONSTANTS MaxRanking, MaxSeason, \* bounds: ids of rankings and of seasons
          MaxClock               \* bound: number of fetches

ASSUME RankingLifecycleAssumption ==
  /\ MaxRanking \in Nat \ {0}
  /\ MaxSeason \in Nat \ {0}
  /\ MaxClock \in Nat \ {0}

\* Fetch times and ends of seasons are whole ticks of more seconds than CloseCommit
\* takes off a data time: a ranking is never that close before the end of a season.
Tick == MaxRanking + 1
Ends == {Tick * n : n \in 1..(MaxClock + 1)}
Times == 0..Tick * (MaxClock + 1)
Rankings == 1..MaxRanking
Seasons == 1..MaxSeason

VARIABLES
  clock,         \* time of the latest fetch
  current,       \* Season.get_current_season()
  end_time,      \* per season, 0 while it is open
  new_ladders,   \* more than 8 GOOD ladders are known of the current season
  closing,       \* fetch_new: end time in the transaction of create_new_season, or 0
  stale,         \* fetch_new: the rankings it has read to correct them
  latest,        \* the highest ranking id
  rows,          \* table ranking
  sources,       \* per ranking its caches: fetched when, and with teams?
  data,          \* table ranking_data: the newest fetch time in it, 0 without teams
  stats,         \* table ranking_stats, the same
  pc,            \* where the update process is
  team_ranks,    \* the newest fetch time among the team ranks in memory
  ranking,       \* the times of the ranking object that countinously_update holds
  final          \* the save under way is the one update_until ends with

seasons == <<current, end_time, new_ladders>>
fetchNew == <<closing, stale>>
tables == <<latest, rows, sources, data, stats>>
updater == <<pc, team_ranks, ranking, final>>
vars == <<clock, seasons, fetchNew, tables, updater>>

CREATED == "CREATED"
COMPLETE == "COMPLETE_WITH_DATA"

Row == [season : Seasons, status : {CREATED, COMPLETE},
        data_time : Times, max_data_time : Times]
NoRow == [season |-> 0, status |-> CREATED, data_time |-> 0, max_data_time |-> 0]
Object == [data_time : Times, max_data_time : Times]
Cache == [updated : Times, teams : BOOLEAN]
NoObject == [data_time |-> 0, max_data_time |-> 0]
NoRows == [i \in {} |-> NoRow]
NewRow(season, times) ==
  [season |-> season, status |-> CREATED,
   data_time |-> times.data_time, max_data_time |-> times.max_data_time]

\* What every variable holds; the rankings 1..latest are there, no other.
TypeOK ==
  /\ clock \in Times
  /\ current \in Seasons
  /\ end_time \in [Seasons -> Times]
  /\ new_ladders \in BOOLEAN
  /\ closing \in Times
  /\ DOMAIN stale \subseteq 1..latest /\ stale \in [DOMAIN stale -> Row]
  /\ latest \in Rankings
  /\ rows \in [Rankings -> Row \cup {NoRow}]
  /\ \A i \in Rankings : rows[i] = NoRow <=> i > latest
  /\ sources \in [Rankings -> SUBSET Cache]
  /\ data \in [Rankings -> Times]
  /\ stats \in [Rankings -> Times]
  /\ pc \in {"down", "choosing", "created", "updating", "save_data", "save_stats", "save_row"}
  /\ team_ranks \in Times
  /\ ranking \in Object
  /\ final \in BOOLEAN

\* A ranking of the first season has been made of two ladders and saved.
Init ==
  /\ clock = Tick * 2
  /\ current = 1
  /\ end_time = [s \in Seasons |-> 0]
  /\ new_ladders = TRUE
  /\ closing = 0
  /\ stale = NoRows
  /\ latest = 1
  /\ rows = [i \in Rankings |->
               IF i = 1 THEN [season |-> 1, status |-> COMPLETE,
                              data_time |-> clock, max_data_time |-> clock]
                        ELSE NoRow]
  /\ sources = [i \in Rankings |->
                  IF i = 1 THEN {[updated |-> Tick * n, teams |-> TRUE] : n \in 1..2} ELSE {}]
  /\ data = [i \in Rankings |-> IF i = 1 THEN clock ELSE 0]
  /\ stats = data
  /\ pc = "down"
  /\ team_ranks = 0
  /\ ranking = NoObject
  /\ final = FALSE

Season == rows[latest].season     \* ranking.season of the update process

-----------------------------------------------------------------------------
(* countinously_update *)

InGoodStateUnchecked == latest \in Rankings                         \* mutant
InGoodState == rows[latest].status = COMPLETE

\* The process raises an exception if the latest ranking "is not in a good state".
Start ==
  /\ pc = "down"
  /\ InGoodState
  /\ pc' = "choosing"
  /\ ranking' = [data_time |-> rows[latest].data_time,
                 max_data_time |-> rows[latest].max_data_time]
  /\ UNCHANGED <<clock, seasons, fetchNew, tables, team_ranks, final>>

NextHasBegunUnchecked == current > Season /\ new_ladders             \* mutant
NextHasBegun == current = Season + 1 /\ new_ladders
SameSeason == current = Season \/ (current = Season + 1 /\ ~new_ladders)

\* Insert the row of a new ranking, empty or with copied sources and what is made of them.
Insert(season, times, copied, made) ==
  /\ latest < MaxRanking
  /\ latest' = latest + 1
  /\ ranking' = times
  /\ rows' = [rows EXCEPT ![latest + 1] = NewRow(season, times)]
  /\ sources' = [sources EXCEPT ![latest + 1] = copied]
  /\ team_ranks' = made
  /\ pc' = "created"
  /\ UNCHANGED <<clock, seasons, fetchNew, data, stats, final>>

\* The next season has begun and has ladders: begin an empty ranking of it.
NewRankingOfSeason ==
  /\ pc = "choosing"
  /\ NextHasBegun
  /\ LET start == end_time[current - 1] IN
       Insert(current, [data_time |-> start, max_data_time |-> start], {}, 0)

\* The newest time of what is made of copies: they are merged in no order, and later
\* ones replace the teams of earlier ones, so that it may be the time of any copy with
\* teams.  Without such a copy there is no team to have a time.
MadeOf(copied) ==
  LET filled == {c.updated : c \in {d \in copied : d.teams}}
  IN  IF filled = {} THEN {0} ELSE filled

\* The ranking is old enough (12 or 48 hours): make a new one from copies of its
\* sources, in one transaction.
NewRankingInSeason ==
  /\ pc = "choosing"
  /\ SameSeason
  /\ \E made \in MadeOf(sources[latest]) : Insert(Season, ranking, sources[latest], made)

NothingLoaded == 0                                                  \* mutant
Loaded == data[latest]

\* Continue with the latest ranking.
Continue ==
  /\ pc = "choosing"
  /\ SameSeason
  /\ team_ranks' = Loaded
  /\ pc' = "updating"
  /\ UNCHANGED <<clock, seasons, fetchNew, tables, ranking, final>>

\* "Something is really wrong, current season is not next": the process raises.
SeasonSkipped ==
  /\ pc = "choosing"
  /\ current > Season + 1
  /\ pc' = "down"
  /\ ranking' = NoObject
  /\ UNCHANGED <<clock, seasons, fetchNew, tables, team_ranks, final>>

-----------------------------------------------------------------------------
(* update_until *)

\* A ladder is fetched and stored, in place of the cache it had if it had one
\* (LadderUpdates has the steps of this).  An answer without teams is stored as well.
UpdateLadder ==
  /\ pc = "updating"
  /\ clock < Tick * MaxClock
  /\ clock' = clock + Tick
  /\ \E old \in {{}} \cup {{c} : c \in sources[latest]}, teams \in BOOLEAN :
       /\ sources' = [sources EXCEPT ![latest] =
                        (@ \ old) \cup {[updated |-> clock + Tick, teams |-> teams]}]
       /\ team_ranks' = IF teams THEN clock + Tick ELSE team_ranks
  /\ UNCHANGED <<seasons, fetchNew, latest, rows, data, stats, pc, ranking, final>>

\* Ranking.set_data_time, for the season read anew.  Without teams the times are
\* those of the epoch, 0: the test meant to catch this case never succeeds, since
\* the times it looks at have been converted to datetimes.
MaxDataTimeNow == clock                                             \* mutant
MaxDataTime == team_ranks
DataTimeOfOpenSeason == team_ranks                                  \* mutant
DataTime == IF end_time[Season] = 0 \/ team_ranks <= end_time[Season]
            THEN team_ranks ELSE end_time[Season]

\* save_ranking begins.
BeginSave(is_final) ==
  /\ ranking' = [data_time |-> DataTime, max_data_time |-> MaxDataTime]
  /\ final' = is_final
  /\ pc' = "save_data"
  /\ UNCHANGED <<clock, seasons, fetchNew, tables, team_ranks>>

\* The save of a new ranking, and the one every 60 seconds.
PeriodicSave == pc \in {"created", "updating"} /\ BeginSave(FALSE)

\* Time is up or the process is told to stop: update_until ends with a save.
UntilReached == pc = "updating" /\ BeginSave(TRUE)

\* The check every 30 minutes finds that the season is closed.
SeasonCheckReversed == pc = "updating" /\ current < Season /\ BeginSave(TRUE)  \* mutant
SeasonCheck == pc = "updating" /\ current # Season /\ BeginSave(TRUE)

SaveData ==
  /\ pc = "save_data"
  /\ data' = [data EXCEPT ![latest] = team_ranks]
  /\ pc' = "save_stats"
  /\ UNCHANGED <<clock, seasons, fetchNew, latest, rows, sources, stats,
                 team_ranks, ranking, final>>

SaveStats ==
  /\ pc = "save_stats"
  /\ stats' = [stats EXCEPT ![latest] = team_ranks]
  /\ pc' = "save_row"
  /\ UNCHANGED <<clock, seasons, fetchNew, latest, rows, sources, data,
                 team_ranks, ranking, final>>

\* ranking.save() writes the whole row, whatever another process has made of it.
SaveRow ==
  /\ pc = "save_row"
  /\ rows' = [rows EXCEPT ![latest] = [season |-> Season, status |-> COMPLETE,
                                       data_time |-> ranking.data_time,
                                       max_data_time |-> ranking.max_data_time]]
  /\ pc' = IF final THEN "choosing" ELSE "updating"
  /\ team_ranks' = IF final THEN 0 ELSE team_ranks
  /\ final' = FALSE
  /\ UNCHANGED <<clock, seasons, fetchNew, latest, sources, data, stats, ranking>>

\* The process is killed, or leaves its loop when told to stop.
Exit ==
  /\ pc # "down"
  /\ pc' = "down"
  /\ team_ranks' = 0
  /\ ranking' = NoObject
  /\ final' = FALSE
  /\ UNCHANGED <<clock, seasons, fetchNew, tables>>

\* The operator cleans up with the task delete_ranking.
DeleteRanking ==
  /\ pc = "down"
  /\ rows[latest].status = CREATED
  /\ latest > 1
  /\ latest' = latest - 1
  /\ rows' = [rows EXCEPT ![latest] = NoRow]
  /\ sources' = [sources EXCEPT ![latest] = {}]
  /\ data' = [data EXCEPT ![latest] = 0]
  /\ stats' = [stats EXCEPT ![latest] = 0]
  /\ UNCHANGED <<clock, seasons, fetchNew, updater>>

-----------------------------------------------------------------------------
(* fetch_new: create_new_season in a transaction of its own. *)

\* The end date is the start date that Battle.net gives for the new season, which
\* may have passed long ago; read the rankings with a data time after it.
CloseBegin(end) ==
  /\ closing = 0
  /\ current < MaxSeason
  /\ end <= clock + Tick
  /\ \A s \in Seasons : end_time[s] < end
  /\ closing' = end
  /\ stale' = [i \in {j \in 1..latest : /\ rows[j].season = current
                                        /\ rows[j].status = COMPLETE
                                        /\ rows[j].data_time >= end} |-> rows[i]]
  /\ UNCHANGED <<clock, seasons, tables, updater>>

PlaceInDays(i) == Tick * (MaxClock + 2) * Cardinality({j \in DOMAIN stale : j > i}) \* mutant
PlaceFromOldest(i) == Cardinality({j \in DOMAIN stale : j < i})     \* mutant
Place(i) == Cardinality({j \in DOMAIN stale : j > i})

\* Commit: the season is closed and the next is current; the rankings read are
\* written back, the newest with the end of the season as its data time and every
\* older one a second less.
CloseCommit ==
  /\ closing # 0
  /\ end_time' = [end_time EXCEPT ![current] = closing]
  /\ current' = current + 1
  /\ new_ladders' = FALSE
  /\ rows' = [i \in Rankings |-> IF i \in DOMAIN stale
                                 THEN [stale[i] EXCEPT !.data_time = closing - Place(i)]
                                 ELSE rows[i]]
  /\ closing' = 0
  /\ stale' = NoRows
  /\ UNCHANGED <<clock, latest, sources, data, stats, updater>>

\* fetch_new dies before the commit.
CloseAbort ==
  /\ closing # 0
  /\ closing' = 0
  /\ stale' = NoRows
  /\ UNCHANGED <<clock, seasons, tables, updater>>

\* The ninth ladder of the current season is fetched.
FindLadders ==
  /\ ~new_ladders
  /\ new_ladders' = TRUE
  /\ UNCHANGED <<clock, current, end_time, fetchNew, tables, updater>>

-----------------------------------------------------------------------------
Choose == NewRankingOfSeason \/ NewRankingInSeason \/ Continue \/ SeasonSkipped

Next ==
  \/ Start
  \/ NewRankingOfSeason
  \/ NewRankingInSeason
  \/ Continue
  \/ SeasonSkipped
  \/ UpdateLadder
  \/ PeriodicSave
  \/ UntilReached
  \/ SeasonCheck
  \/ SaveData
  \/ SaveStats
  \/ SaveRow
  \/ Exit
  \/ DeleteRanking
  \/ \E end \in Ends : CloseBegin(end)
  \/ CloseCommit
  \/ CloseAbort
  \/ FindLadders

\* The update process is one thread that goes on while it is alive: it saves every 60
\* seconds, and every turn of its loop begins with the season check once 30 minutes
\* have passed, so the check is not missed for ever although saves disable it.
\* Nothing is assumed of the other process, of fetches, of restarts or of the time
\* that update_until is given.
Fairness ==
  /\ WF_vars(Choose)
  /\ WF_vars(PeriodicSave)
  /\ WF_vars(SaveData)
  /\ WF_vars(SaveStats)
  /\ WF_vars(SaveRow)
  /\ SF_vars(SeasonCheck)

Spec == Init /\ [][Next]_vars /\ Fairness

-----------------------------------------------------------------------------
Complete(i) == rows[i].status = COMPLETE
Closed(i) == end_time[rows[i].season] # 0
WithinSeason(i) == rows[i].data_time <= end_time[rows[i].season]

\* A usable ranking never claims newer data than its statistics and its team ranks
\* have, nor these newer data than its sources, whenever the process dies: a save
\* writes data, statistics and row in this order, each in a transaction of its own.
PublicationOrder ==
  \A i \in 1..latest : Complete(i) =>
    /\ rows[i].max_data_time <= stats[i]
    /\ stats[i] <= data[i]
    /\ data[i] > 0 => \E c \in sources[i] : data[i] <= c.updated

\* Only the latest ranking may be unfinished, and it is not worked on before it has
\* been saved: after a crash in between the process refuses to go on until someone
\* has cleaned up.
OnlyLatestUnfinished ==
  /\ \A i \in 1..(latest - 1) : Complete(i)
  /\ pc \in {"choosing", "updating"} => Complete(latest)

\* Rankings follow the seasons: no season is skipped or returned to, and one is left
\* only after it has been closed.
SeasonsInOrder ==
  \A i \in 1..(latest - 1) :
    rows[i + 1].season # rows[i].season =>
      rows[i + 1].season = rows[i].season + 1 /\ Closed(i)

\* Of two rankings of a season the later has no earlier data time if it has no older
\* data: when the data times of several are corrected to the end of the season they
\* stay in order, whatever is saved meanwhile, by the ids and by the data
\* (models.py: "This should be strictly increasing with later rankings"); but for a
\* ranking beyond the end of its closed season, where a save raced with the closing.
\* A ranking remade from copies may well have older data than the one before it.
InOrderOfData ==
  \A i, j \in 1..latest :
    /\ i < j /\ rows[i].season = rows[j].season /\ Complete(i) /\ Complete(j)
    /\ rows[i].max_data_time <= rows[j].max_data_time
    /\ Closed(i) => WithinSeason(i)
    => rows[i].data_time <= rows[j].data_time

\* The data time of the ranking on display, the latest one by data time.
DisplayTime ==
  CHOOSE t \in {rows[i].data_time : i \in {j \in 1..latest : Complete(j)}} :
    \A i \in 1..latest : Complete(i) => rows[i].data_time <= t

\* The time on display goes back only from a time beyond the end of a season that is
\* closed, and not to before that end: no restart, new ranking or clean up makes the
\* site show older data.
DisplayNeverGoesBack ==
  [][DisplayTime' < DisplayTime =>
       \E i \in 1..latest :
         /\ Complete(i) /\ rows[i].data_time = DisplayTime
         /\ Closed(i)' /\ DisplayTime > end_time'[rows[i].season]
         /\ DisplayTime' >= end_time'[rows[i].season]]_vars

\* The ranking worked on gets a data time within its season once that is closed,
\* though the save that races with the closing may write one after its end; unless
\* the process ends first or leaves the ranking for a new one (or the bound on rankings
\* is reached).
EventuallyWithinSeason ==
  \A i \in Rankings :
    (i = latest /\ Complete(i) /\ Closed(i))
      ~> (i # latest \/ WithinSeason(i) \/ pc = "down" \/ latest = MaxRanking)

\* The process moves on to a new season that has begun, unless it ends first (or the
\* bound on rankings is reached).
SeasonIsSwitched ==
  (current = Season + 1 /\ new_ladders)
    ~> (current = Season \/ pc = "down" \/ latest = MaxRanking)

\* "Either the end of season or max_data_time whichever comes first" (models.py),
\* of every ranking that has been left for a newer one.
LeftWithinSeason ==
  \A i \in 1..(latest - 1) : Complete(i) /\ Closed(i) => WithinSeason(i)

\* "This should be strictly increasing with later rankings (increasing ids)", here
\* only not decreasing from one season to a later one (models.py).
DataTimeIncreasing ==
  \A i, j \in 1..latest :
    rows[i].season < rows[j].season /\ Complete(i) /\ Complete(j)
      => rows[i].data_time <= rows[j].data_time

=============================================================================
