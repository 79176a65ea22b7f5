----------------------------- MODULE PastSeason -----------------------------
(***************************************************************************)
(* What is left of a closed season and who rewrites it: fetch_new and      *)
(* refetch_missing find its ladders, refetch_past_season fetches them over *)
(* and over into the last ranking of the season, and the purge takes out   *)
(* the teams that Battle.net has not shown for some days.  Each is a       *)
(* process of its own that loads the team ranks of the ranking, works on   *)
(* them and saves them; none locks out the others.  The update process     *)
(* works beside them on the latest ranking, which the purge leaves alone.  *)
(* It and refetch_past_season have caches of the rows of teams, which the  *)
(* one drops once a day and the other at the end of its run.  Time goes by *)
(* in days; players and their teams are one (1v1).                         *)
(***************************************************************************)
EXTENDS Naturals, FiniteSets

CONSTANTS Ladders, Teams,
          TeamsOf,      \* the teams of every ladder of the season
          Active,       \* the teams that also play in the current season
          Known,        \* the ladders that were found while the season was open
          KeepDays,     \* KEEP_API_DATA_DAYS
          RefetchDays,  \* Season.REFETCH_PAST_REFRESH_WHEN_OLDER_THAN_DAYS
          ClosedDays,   \* Season.REFETCH_PAST_MIN_DAYS_AFTER_SEASON_END
          NearStart,    \* no ranking is made from copies in these days of the new season
          FindDays,     \* Season.REFETCH_PAST_UNTIL_DAYS_AFTER_SEASON_END
          MaxRetries,   \* refetch_missing --max-retries
          MaxDay        \* bound: days

ASSUME PastSeasonAssumption ==
  /\ TeamsOf \in [Ladders -> SUBSET Teams]
  /\ Active \subseteq Teams
  /\ Known \subseteq Ladders
  /\ KeepDays \in Nat \ {0, 1} /\ RefetchDays \in Nat /\ ClosedDays \in Nat /\ FindDays \in Nat
  /\ NearStart \in Nat /\ MaxRetries \in Nat /\ MaxDay \in Nat

VARIABLES
  day,      \* days since the end of the season
  ladders,  \* table ladder with the cache that holds the last good answer
  rows,     \* table team: the last id a team got, if its row is there, last_seen
  past,     \* the team ranks stored for the last ranking of the season
  latest,   \* the team ranks of the latest ranking
  cache,    \* ranking_data::_team_cache of the update process
  pause,    \* the daily pause of the update process, and what followed
  refetch,  \* refetch_past_season: ladders to fetch, team ranks and cache in memory
  purge,    \* purge_player_data: ids of teams seen, team ranks in memory
  crossed,  \* history: the purge at work met refetch_past_season
  copied,   \* history: teams in the cache that no answer has listed since
  stray     \* history: ids whose rows were deleted when known from copies only

updater == <<latest, cache, pause, copied>>
vars == <<day, ladders, rows, past, updater, refetch, purge, crossed, stray>>

Days == 0..MaxDay
Id == Nat \ {0}
Ladder == [strangeness : {"UNKNOWN", "MISSING", "GOOD"}, updated : Days,
           retry_count : 0..MaxRetries]
Row == [id : Nat, there : BOOLEAN, last_seen : Days]
TeamRank == [team : Teams, id : Id, data_time : Days]
\* What a process remembers of the row of a team.
Entry == [id : Nat, last_seen : Days]
NoEntry == [id |-> 0, last_seen |-> 0]
NothingCached == [t \in Teams |-> NoEntry]

TypeOK ==
  /\ day \in Days
  /\ ladders \in [Ladders -> Ladder]
  /\ rows \in [Teams -> Row]
  /\ \A t \in Teams : rows[t].there => rows[t].id > 0
  /\ past \subseteq TeamRank
  /\ latest \subseteq TeamRank
  /\ cache \in [Teams -> Entry]
  /\ pause \in {"due", "done", "remade"}
  /\ refetch \in [pc : {"idle", "fetching"}, began : Days, todo : SUBSET Ladders,
                  ranks : SUBSET TeamRank, cache : [Teams -> Entry]]
  /\ \A t \in Teams : cache[t].id <= rows[t].id /\ refetch.cache[t].id <= rows[t].id
  /\ purge \in [pc : {"idle", "listed", "loaded", "saved"}, ids : SUBSET (Teams \X Id),
                ranks : SUBSET TeamRank]
  /\ crossed \in BOOLEAN
  /\ copied \subseteq Teams
  /\ stray \subseteq Teams \X Id

NotRefetching == [pc |-> "idle", began |-> 0, todo |-> {}, ranks |-> {},
                  cache |-> NothingCached]
NotPurging == [pc |-> "idle", ids |-> {}, ranks |-> {}]

Init ==
  /\ day = 0
  /\ ladders = [l \in Ladders |->
       IF l \in Known
       THEN [strangeness |-> "GOOD", updated |-> 0, retry_count |-> 0]
       ELSE [strangeness |-> "UNKNOWN", updated |-> 0, retry_count |-> 0]]
  /\ LET first == UNION {TeamsOf[l] : l \in Known}
     IN  /\ rows = [t \in Teams |-> IF t \in first
                                    THEN [id |-> 1, there |-> TRUE, last_seen |-> 0]
                                    ELSE [id |-> 0, there |-> FALSE, last_seen |-> 0]]
         /\ past = {[team |-> t, id |-> 1, data_time |-> 0] : t \in first}
  /\ latest = {}
  /\ cache = NothingCached
  /\ pause = "done"
  /\ refetch = NotRefetching
  /\ purge = NotPurging
  /\ crossed = FALSE
  /\ copied = {}
  /\ stray = {}

-----------------------------------------------------------------------------
(* What happens outside *)

\* A run of refetch_past_season is not that long that rows it has seen become overdue.
RefetchInTime == refetch.pc = "fetching" => day + 1 < refetch.began + KeepDays

\* The update process is not up for a whole day without a pause at switch_hour.
NewDay ==
  /\ day < MaxDay
  /\ pause # "due"
  /\ RefetchInTime
  /\ day' = day + 1
  /\ pause' = "due"
  /\ UNCHANGED <<ladders, rows, past, latest, cache, copied, refetch, purge,
                 crossed, stray>>

-----------------------------------------------------------------------------
(* Rows of teams: get_or_insert_teams and update_teams *)

\* What a process goes by: the row as it remembers it, as it is, or as it inserts it.
GetOrInsert(known, t, date) ==
  IF known[t].id # 0 THEN known[t]
  ELSE IF rows[t].there THEN [id |-> rows[t].id, last_seen |-> rows[t].last_seen]
       ELSE [id |-> rows[t].id + 1, last_seen |-> date]
\* update_team
Renewed(entry, date) ==
  [entry EXCEPT !.last_seen = IF entry.last_seen < date THEN date ELSE entry.last_seen]

\* The row after a process has met the team on that date.  What it writes is what it
\* remembers, whatever others wrote since; updating an id that is no longer there does
\* nothing.
RowAfter(known, t, date, changed) ==
  LET entry == GetOrInsert(known, t, date)
  IN  IF entry.id > rows[t].id THEN [id |-> entry.id, there |-> TRUE, last_seen |-> date]
      ELSE IF rows[t].there /\ rows[t].id = entry.id /\ (entry.last_seen < date \/ changed)
           THEN [rows[t] EXCEPT !.last_seen = Renewed(entry, date).last_seen]
           ELSE rows[t]

\* update_with_ladder with teams met on dates, some with a new race or league: what it
\* does to the table and the cache, and the team ranks it makes.
RowsAfter(known, met, changed) ==
  [t \in Teams |-> IF t \in DOMAIN met THEN RowAfter(known, t, met[t], t \in changed)
                                       ELSE rows[t]]
KnownAfter(known, met) ==
  [t \in Teams |-> IF t \in DOMAIN met
                   THEN Renewed(GetOrInsert(known, t, met[t]), met[t]) ELSE known[t]]
TeamRanks(known, met) ==
  {[team |-> t, id |-> GetOrInsert(known, t, met[t]).id, data_time |-> met[t]] :
     t \in DOMAIN met}
\* Later data replaces what there is of the same team id.
Merged(ranks, new) ==
  {r \in ranks : \A n \in new : n.team # r.team \/ n.id # r.id} \cup new

\* The update process merges an answer with a team in a ladder of the current season
\* and saves.  The answer may be from before midnight; answers are not merged out of order.
Update(t) ==
  /\ \E date \in {day, day - 1} \cap Days, changed \in SUBSET {t} :
       LET met == [u \in {t} |-> date]
       IN  /\ \A r \in latest : r.team = t => r.data_time <= date
           /\ cache' = KnownAfter(cache, met)
           /\ rows' = RowsAfter(cache, met, changed)
           /\ latest' = Merged(latest, TeamRanks(cache, met))
  /\ copied' = copied \ {t}
  /\ UNCHANGED <<day, ladders, past, pause, refetch, purge, crossed, stray>>

CacheKept == cache                                                     \* mutant
\* ranking_data::release
CacheReleased == NothingCached

\* The update process pauses, or ends and is started again.
Release ==
  /\ cache' = CacheReleased
  /\ copied' = {}
  /\ pause' = IF pause = "due" THEN "done" ELSE pause
  /\ UNCHANGED <<day, ladders, rows, past, latest, refetch, purge, crossed, stray>>

\* Then a new ranking may be made from copies of the sources of the latest one: the
\* teams they list are met on the days the copies were fetched.
Remake ==
  /\ pause = "done"
  /\ cache = NothingCached
  /\ NearStart < day
  /\ \E teams \in SUBSET Teams : \E met \in [teams -> Days] :
       /\ \A t \in teams : \E r \in latest : r.team = t /\ r.data_time = met[t]
       /\ cache' = KnownAfter(cache, met)
       /\ rows' = RowsAfter(cache, met, {})
       /\ latest' = TeamRanks(cache, met)
       /\ copied' = teams
  /\ pause' = "remade"
  /\ UNCHANGED <<day, ladders, past, refetch, purge, crossed, stray>>

-----------------------------------------------------------------------------
(* Finding ladders *)

Good == [strangeness |-> "GOOD", updated |-> day, retry_count |-> 0]

\* refetch_past_seasons looks for new ladders for a while after the season.
StillFinding == day <= FindDays

\* fetch_new_in_league: one transaction that fetches and stores the ladders of the league
\* that are not known.  A 503 for any of them ends the process and nothing is stored.
FetchNew ==
  /\ StillFinding
  /\ \E league \in SUBSET {l \in Ladders : ladders[l].strangeness = "UNKNOWN"} \ {{}} :
       \E bad \in SUBSET league :
         ladders' = [l \in Ladders |->
           IF l \in bad THEN [ladders[l] EXCEPT !.strangeness = "MISSING", !.updated = day]
           ELSE IF l \in league THEN Good ELSE ladders[l]]
  /\ UNCHANGED <<day, rows, past, updater, refetch, purge, crossed, stray>>

ListedAlways(l) == ladders[l].strangeness = "MISSING"                  \* mutant
ListedLess(l) ==                                                       \* mutant
  ladders[l].strangeness = "MISSING" /\ ladders[l].retry_count + 1 < MaxRetries
Listed(l) == ladders[l].strangeness = "MISSING" /\ ladders[l].retry_count < MaxRetries
Retry(l) == [ladders[l] EXCEPT !.updated = day, !.retry_count = @ + 1]

\* refetch_missing for one ladder that is still listed; a 503 leaves everything as it
\* is and ends the run for the region.
RefetchMissing(l) ==
  /\ Listed(l)
  /\ \E answer \in {Good, Retry(l)} : ladders' = [ladders EXCEPT ![l] = answer]
  /\ UNCHANGED <<day, rows, past, updater, refetch, purge, crossed, stray>>

-----------------------------------------------------------------------------
(* refetch_past_season *)

\* refetch_past_seasons takes the seasons that have been closed for some days.
LongClosed == ClosedDays < day

\* The ladders are listed and the team ranks loaded.  With no ladder due nothing is saved
\* either.
RefetchBegin ==
  LET due == {l \in Ladders : /\ ladders[l].strangeness = "GOOD"
                              /\ ladders[l].updated + RefetchDays < day}
  IN  /\ refetch.pc = "idle"
      /\ LongClosed
      /\ due # {}
      /\ refetch' = [NotRefetching EXCEPT !.pc = "fetching", !.began = day, !.todo = due,
                                           !.ranks = past]
      /\ crossed' = (crossed \/ purge.pc # "idle")
      /\ UNCHANGED <<day, ladders, rows, past, updater, purge, stray>>

\* A ladder listed before is fetched: stored at once, merged in memory.  Players that have
\* their data removed are in no answer any more; an answer that cannot be parsed has none.
RefetchLadder(l) ==
  /\ l \in refetch.todo
  /\ \E members \in SUBSET TeamsOf[l] : \E changed \in SUBSET members :
       LET met == [t \in members |-> day]
       IN  /\ refetch' = [refetch EXCEPT !.todo = @ \ {l},
                                         !.ranks = Merged(@, TeamRanks(refetch.cache, met)),
                                         !.cache = KnownAfter(@, met)]
           /\ rows' = RowsAfter(refetch.cache, met, changed)
  /\ ladders' = [ladders EXCEPT ![l].strangeness = "GOOD", ![l].updated = day]
  /\ UNCHANGED <<day, past, updater, purge, crossed, stray>>

\* Another status than 200 and 503: the ladder is left as it is.
RefetchSkip(l) ==
  /\ l \in refetch.todo
  /\ refetch' = [refetch EXCEPT !.todo = @ \ {l}]
  /\ UNCHANGED <<day, ladders, rows, past, updater, purge, crossed, stray>>

\* After the last ladder, a 503 or a stop.
RefetchSave ==
  /\ refetch.pc = "fetching"
  /\ past' = refetch.ranks
  /\ refetch' = NotRefetching
  /\ UNCHANGED <<day, ladders, rows, updater, purge, crossed, stray>>

\* "if the code fails here ranking needs to be repaired"
RefetchFails ==
  /\ refetch.pc = "fetching"
  /\ refetch' = NotRefetching
  /\ UNCHANGED <<day, ladders, rows, past, updater, purge, crossed, stray>>

-----------------------------------------------------------------------------
(* purge_player_data *)

SeenLater(date) ==                                                     \* mutant
  {t \in Teams : rows[t].there /\ rows[t].last_seen + KeepDays > date}
\* load_seen_team_ids: inclusive.
SeenSince(date) == {t \in Teams : rows[t].there /\ rows[t].last_seen + KeepDays >= date}

\* The ids are loaded with the first ranking and kept for all rankings of the run.
PurgeBegin ==
  /\ purge.pc = "idle"
  /\ purge' = [NotPurging EXCEPT !.pc = "listed",
                                 !.ids = {<<t, rows[t].id>> : t \in SeenSince(day)}]
  /\ crossed' = (refetch.pc # "idle")
  /\ UNCHANGED <<day, ladders, rows, past, updater, refetch, stray>>

PurgeLoad ==
  /\ purge.pc = "listed"
  /\ purge' = [purge EXCEPT !.pc = "loaded", !.ranks = past]
  /\ UNCHANGED <<day, ladders, rows, past, updater, refetch, crossed, stray>>

KeptAll(ranks, ids) == ranks                                           \* mutant
\* copy_if over the team ranks.
Kept(ranks, ids) == {r \in ranks : <<r.team, r.id>> \in ids}

PurgeSave ==
  /\ purge.pc = "loaded"
  /\ past' = Kept(purge.ranks, purge.ids)
  /\ purge' = [NotPurging EXCEPT !.pc = "saved"]
  /\ UNCHANGED <<day, ladders, rows, updater, refetch, crossed, stray>>

\* The rows go last, by the date of then.
PurgeDelete ==
  LET overdue == {t \in Teams : rows[t].there /\ rows[t].last_seen + KeepDays < day}
  IN  /\ purge.pc = "saved"
      /\ rows' = [t \in Teams |-> IF t \in overdue THEN [rows[t] EXCEPT !.there = FALSE]
                                                   ELSE rows[t]]
      /\ stray' = stray \cup {<<t, rows[t].id>> :
                               t \in {t \in overdue \cap copied : cache[t].id = rows[t].id}}
      /\ purge' = NotPurging
      /\ UNCHANGED <<day, ladders, past, updater, refetch, crossed>>

\* Told to stop, or died.
PurgeStops ==
  /\ purge.pc # "idle"
  /\ purge' = NotPurging
  /\ UNCHANGED <<day, ladders, rows, past, updater, refetch, crossed, stray>>

-----------------------------------------------------------------------------

Next ==
  \/ NewDay
  \/ \E t \in Active : Update(t)
  \/ Release \/ Remake
  \/ FetchNew
  \/ \E l \in Ladders : RefetchMissing(l) \/ RefetchLadder(l) \/ RefetchSkip(l)
  \/ RefetchBegin \/ RefetchSave \/ RefetchFails
  \/ PurgeBegin \/ PurgeLoad \/ PurgeSave \/ PurgeDelete \/ PurgeStops

\* The purge and refetch_missing are started again and again, do not hang, and are not
\* stopped every time; Battle.net does not answer 503 for ever.
Fairness ==
  /\ WF_vars(PurgeBegin)
  /\ SF_vars(PurgeLoad)
  /\ SF_vars(PurgeSave)
  /\ SF_vars(PurgeDelete)
  /\ \A l \in Ladders : WF_vars(RefetchMissing(l))

Spec == Init /\ [][Next]_vars /\ Fairness

-----------------------------------------------------------------------------
(* Properties *)

\* Data that may be kept and was never late by more than a midnight.
Recent(r) == r.data_time + KeepDays > day

\* A rank of recent data belongs to a row of a team that the site can show, whatever
\* purge and refetch did in between, and although update process and refetch go by ids
\* they looked up earlier: they drop them before their rows can be overdue.  This fails
\* only where the update process has looked an id up for an old copy of a ladder, and the
\* row was purged before an answer listed the team again.
RecentRanksHaveRows ==
  \A r \in past \cup latest : Recent(r) =>
    \/ rows[r.team].there /\ rows[r.team].id = r.id
    \/ r \in latest /\ <<r.team, r.id>> \in stray

\* A purge that no refetch ran beside takes no recent data out of a
\* past ranking, although it goes by ids it loaded earlier and the update process may
\* write back an earlier day; nor does anything else.
RecentRanksAreKept ==
  [][~crossed => \A r \in past : Recent(r) =>
                   \E q \in past' : q.team = r.team /\ q.data_time >= r.data_time]_vars

\* A team that is in the past ranking or has a row, but has not been seen for longer
\* than data may be kept.
Overdue(t) ==
  /\ rows[t].there \/ \E r \in past : r.team = t
  /\ rows[t].last_seen + KeepDays < day

\* It does not stay: either it is seen again or it is purged from both, also if a
\* refetch brought it back after the last purge.
OverdueIsPurged == \A t \in Teams : Overdue(t) ~> ~Overdue(t)

\* Every ladder that was missing when it was found is fetched in the end or given up.
LaddersSettle ==
  \A l \in Ladders :
    ladders[l].strangeness = "MISSING"
      ~> \/ ladders[l].strangeness = "GOOD"
         \/ ladders[l].retry_count = MaxRetries
=============================================================================
