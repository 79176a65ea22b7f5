# A TLA+ development for rankedftw

rankedftw (<http://www.rankedftw.com>) fetches the StarCraft II ladders from
Battle.net and ranks every team of the world. This directory holds TLA+ models of
the parts of it where order, failure and concurrency matter, the TLC
configurations that check them on small instances, and proofs, checked by TLAPS,
that the most important properties hold for every instance. `PROJECT.json` lists
the components, runs, mutations, hazards, findings and theorems, and maps every
definition to the lines it models.

    tlc -config ladder_updates.cfg MCLadderUpdates     # a run (see the table below)
    tlapm LadderUpdatesProofs.tla                      # the proofs of a module

Contents: 1. the system, 2. the modules, 3. the runs, 4. bounds, 5. fairness,
6. proofs, 7. disagreements between code and documentation, 8. what is left out,
9. plan.

## 1. The system

One PostgreSQL database is shared by five kinds of processes, which know of each
other through it only (except for one TCP ping).

| process | code | what it does |
|---|---|---|
| update process | `main/update.py`, `main/fetch.py`, C++ module `sc2` (`src/ranking_data.cpp`, `src/get.cpp`, `src/db.cpp`) | works on the latest ranking: fetches ladders, merges them, saves; makes new rankings |
| fetch_new | `main/fetch_new.py`, `main/fetch.py`, `main/refetch.py` | looks for new ladders and for a new season; closes the old one |
| server | `src/server.cpp`, `src/tcp_handler.cpp`, `src/ladder_handler.cpp`, `src/get.cpp` | keeps the data of the latest ranking in memory and answers for ladder, team and clan pages |
| web site | `main/views`, `main/client.py`, `site/` | renders pages from the server's answers |
| maintenance tasks | `main/delete.py`, `archive.py`, `purge.py`, `refetch.py`, `tasks/*.py` | started by cron or by hand: delete, archive, purge, refetch, repair old rankings |

### Components

For each: its state, its operations, what it interacts with, what is hard, and what
makes it correct.

**Ladder update path** (`update.py`, `fetch.py`, `ranking_data.cpp`, `db.cpp`).
State: a `FetcherThread` per region, the deque `fetched_queue`, the sources of a
ranking (table `cache`), the team ranks in memory (`ranking_data::_team_ranks`) and
the saved ones (table `ranking_data`). Operations: fetch, push, pop and store,
merge, save every 60 s, stop and join, load, make a new ranking from copies of the
sources. Hard: several threads push while one pops; the merge compares *no* times
and trusts the order of calls; a crash leaves sources that are ahead of the team
ranks. Correct when: no team's data is replaced by data fetched earlier, in memory
and in the database, and every team rank has a source that backs it.

**Life cycle of rankings and seasons** (`update.py`, `fetch_new.py`, `models.py`).
State: tables `ranking`, `ranking_data`, `ranking_stats`, `season`; the ranking
object in the update process; what `create_new_season` has read in its transaction.
Operations: choose between a new ranking, a ranking of a new season and going on;
`save_ranking` in three transactions; close a season and correct its rankings.
Hard: two processes write whole rows they read earlier; crashes between the
transactions of a save; seasons that change while nobody looks. Correct when: a
usable ranking never promises more than its tables hold, only the latest one is
unfinished, rankings follow seasons one by one, data times are in order, and the
update process follows the seasons.

**FetcherThread** (`update.py`, `battle_net.py`, `utils.py`). State: three queues
of batches, the generator `interleave`, the delay, the stop flag. Operations: add a
batch, yield the next ladder, fetch, push, back off, stop. Hard: the main thread
adds while the generator pops; exponential back-off against a prompt stop; three
kinds of very different frequency. Correct when: no ladder starves, none is fetched
twice before the others of its kind once, no batch is lost, and `join()` returns.

**Server refresh** (`ladder_handler.cpp`, `db.cpp`, `server.cpp`, `tcp_handler.cpp`).
State: the ranking in memory with the time stamp it was loaded for, and when the
database was last looked at. Operations: check by ping or by page, load, restart.
Hard: the ranking and its data are read by two statements; time stamps are rounded
by float; pings are lost or late. Correct when: what is on display is the latest
complete ranking with teams, at most a granule old, and saves come on display even
without pings.

**Ranking data** (`ranking_data.cpp`, `types.hpp`): merges ladders into the sorted
team ranks, ranks them in their ladder, league, region and the world, marks the best
race of a player, sums up statistics and decides what teams and players are shown
with. Hard: ties, several races and versions of one player, sorting in other orders
that later merges and searches rely on being undone. Correct when: the ranks and sums
equal those of a definition by counting and the merge is "the later call wins".
The byte format (`io.cpp`) is a conversion and is left out.

**Comparators** (`compare.hpp`): the orders behind all sorting, per key, reversed,
filtered, strict or breaking ties. Correct when: strict weak orders (one is not).

**Finding a team** (`get.cpp`): a binary search over stored team ranks that reads a
window of rows at a time and computes how far the other races and versions of a team
may reach. Correct when: it finds what reading everything finds.

**Ladder and clan pages** (`ladder_handler.cpp`): the server sorts the ranks of a
version and mode *in place* for each request, filters them, and sends a page by
offset or around a team. Hard: what one request finds is the order another one left;
ranks shared across the edge of a page. Correct when: a page depends on the ranking
and the request only.

**Maintenance** (`delete.py`, `archive.py`, `purge.py`, `refetch.py`,
`repair_ranking.py`) and **finding new ladders** (`fetch_new.py`, `refetch.py`):
tasks that load, change and save the same stored team ranks and rows of teams without
locks, possibly at the same time and beside the update process, which remembers the
ids of teams. Hard: ids and data that were read earlier; tasks that die half way.
Correct when: recent data keeps its rows and its place, what is overdue is purged in
the end, and a ladder that is missing is found or given up. Modelled: refetch of a past
season, purge, finding ladders. Not modelled: which rankings `DataDeleter` keeps, the
archive, `repair_ranking` (see 8).

**Battle.net client** (`battle_net.py`): status of an answer (modelled in
FetchQueue); requests, tokens and parsing are I/O.

**Not modelled**: categorization of ladders of old seasons (`categorizer.py`, not part
of the running system), views and templates, site scripts, migrations, command line,
logging and settings: rendering, I/O and plumbing without a protocol.

## 2. The modules

### LadderUpdates (with MCLadderUpdates)

How a response gets from Battle.net into the saved ranking.

| in the model | in the code |
|---|---|
| `answer[r]` | the local variable of the thread of region *r* in `do_run` |
| `fetched_queue` | `FetchManager.fetched_queue`: `Push` is `appendleft`, `Update` pops from the right |
| `Batches(r)` | the ladders given to the thread of the region |
| `sources` | `ranking.sources` (table `cache`): when each ladder was updated, with which teams |
| `team_ranks`, `Merge` | `ranking_data::update_with_ladder`: the later call wins |
| `ranking_data` | the blob saved for the latest ranking |
| `Save`, `Stop`, `JoinAndSave` | the loop and the end of `update_until` |
| `Load`, `SwitchSeason`, `BeginCopy`, `Copy`, `EndCopy` | the three branches of `countinously_update` |
| `Exit`, `Start` | the process dies anywhere, and is started again |

`Fetch` is possible while `pc` is "updating" only. In the code a request that was under
way when `stop()` was called is still answered; its response is pushed and dropped with
the queue, as is that of `Push` here, so it changes nothing.

A team rank is abstracted to when it was fetched and from which ladder. A response
lists any teams of its region, so a team may leave its ladder and appear in another:
the case for which order matters. `Update` is one step,
because the code stores the source and the ladder in one transaction and a failure in
it ends the process.

### RankingLifecycle

The two processes that write the tables `ranking` and `season`. The data of a
ranking is abstracted to its newest fetch time, which is what statuses and data
times are about; its sources to when each was fetched and whether there are teams in it.
An answer without teams (a ladder that all have left, or an answer that is not JSON,
see 7) renews its source, but no team rank (`UpdateLadder`). A new ranking within the
season copies the sources and is remade from them (`NewRankingInSeason`, `MadeOf`):
its newest data may be that of any copy with teams, as copies are merged in no order
and later ones replace the teams of earlier ones; of no copy, if none has teams, and then
its data time is the epoch. `closing`/`stale` are what `create_new_season` has read; because
its transaction runs at READ COMMITTED and writes rows it read before,
`CloseCommit` may overwrite, or be overwritten by, `SaveRow`. `BeginSave`,
`SaveData`, `SaveStats`, `SaveRow` are the four places of `save_ranking` between
which the other process can act and the process can die. `Start` has the guard that
`countinously_update` enforces with an exception ("not in a good state");
`DeleteRanking` is what the operator then does.

The clock conditions that choose between a new ranking and the old one (12 or 48
hours, 4 days from the begin of a season) are left open: `NewRankingInSeason` and
`Continue` are both possible in any turn. Fetch times and ends of seasons are
multiples of `Tick`, so that the seconds `CloseCommit` takes off data times never
reach the time before: see hazards for the case left out. The end that
`CloseBegin` finds is at most a tick after the latest fetch and may be long before it:
the update process fetches for the season until `fetch_new` finds the next one.

### FetchQueue (with MCFetchQueue)

One `FetcherThread`. The thread's step is cut wherever the main thread can be
noticed: `any(queues)`, the look at a queue, the pop of a batch, the drop of an
exhausted one, the stop check, the fetch, the push, every second of a wait. The left
end of a Python deque is the end of the model's sequence; the ladders in a batch are
taken from its head. `Fetch` answers in five ways (`ladder`, `other_code`: an error
said in JSON, `unparsable`: 200 without JSON, `error`: an HTTP error,
`no_response`); `Status200` is what `http_get_json` makes of them. `Raise` is an
exception that it does not turn into a status. The order in a batch (by `updated`)
is left open, so the properties hold for any. `ahead` is a history variable.

### ServerRefresh

Saves on one side, the refresh of the server on the other, each able to die at any
step. A save is `SaveData` (whose `updated` stamp the server compares) and `SaveRow`
(whose status and data time it searches by). `Check` is the query for the latest
ranking, `Load` the second statement and the answer. `Rounded` is the conversion of
the save's time to a 32-bit float and back: to the nearest multiple of `Granule`,
ties to even (the granule is 128 s for Unix times of today). `unseen` is a history
variable. The latest ranking is found by data time as in the query; of two with the
same data time any may come first.

### TeamData and LadderUpdatesRefinement

`TeamData` is what the update path promises, with nothing of threads, queues, ladders
or sources: per team the time of the data that is known and of the data that is
saved; four actions, `Learn` (only later data), `Save`, `Lose` (a crash: back to what was
saved) and `NewRanking`. `LadderUpdatesRefinement` instantiates it over LadderUpdates:
known is `team_ranks` while ladders are merged (`Updating`) and `ranking_data` otherwise.
`ImplementsTeamData` is checked by `ladder_updates` and proved in `LadderUpdatesProofs`.

### TeamRankOrder, RankingData and FindTeamRank (with MCTeamRanks)

`TeamRankOrder` has the comparators of `compare.hpp` as operators on records of
integers: `Ahead`/`Level` for the six keys, `TieBreakers`, `ByKey`, `Before` (`cmp_tr`),
`Use`, the fixed orders (`BeforeByTeamVersionRace` ...), `StableSort` (over `Sorting`, which
sorts by a relation between places), `Selection`, the elements at some places in their
order, and `SharedRank`, the place of a row in a sorted list where level rows share the
place of their first.

`RankingData` is the class `ranking_data` over a fixed season of each kind: league points
(27), mmr (28), mmr per race (29).

| in the model | in the code |
|---|---|
| `team_ranks` | `_team_ranks`, sorted by team, version and race between two calls |
| `teams`, `players` | tables `team` and `player`: the season, version, mode, league and race they are shown with |
| `UpdateWithLadder` | `update_with_ladder`: `get_or_insert_teams`, `update_teams`, ladder ranks (`Source`), merge |
| `SaveData` | `save_data`: global order, all ranks and counts, best race, back to the order of teams |
| `SaveStats` | `save_stats`: its own order, one pass over all places (`Starts`, `RunFrom`, `Points`), back again |
| `stored`, `stats` | what the last save wrote, forgotten when a ladder is merged |

`FindTeamRank` extends it: `Found` is `find_team_rank` as a recursive function with
the windows as a constant, and `Collected` what it does after a hit. The data it
searches is what RankingData has stored, with rows of other teams around it.

### LadderPages (with MCLadderPages)

The server's copy of the latest ranking and the requests on it. `Refresh` is a load,
`Ladder` sorts the span of a version and mode in place and keeps the rows it selects in
`answer`, `Clan` sorts a copy. Paging (`Offset`, `StartRank`, `TeamsArray`, `Page`) are
operators, so that the properties look at every page of an answer. `Sorted` is what
`std::stable_sort` may do: one result for a strict weak order; where the comparator has
ties that are before each other (see 6, `ReversedMmrIsNoOrder`), any order of these; for
anything else any order at all, so the properties cannot rest on it.

### PastSeason (with MCPastSeason)

The last ranking of a closed season and the four processes that touch it or its teams,
in days.

| in the model | in the code |
|---|---|
| `ladders` | table `ladder` (strangeness, updated) and the `cache` of each (retry_count) |
| `rows` | table `team`: id and `last_seen` |
| `past`, `latest` | the stored team ranks of the two rankings |
| `cache`, `refetch.cache` | `_team_cache` of the update process and of the refetch: id and `last_seen` as the process remembers them |
| `GetOrInsert` | what a team is met by: the entry of the cache, else the row, else a new row |
| `RowsAfter`, `KnownAfter`, `TeamRanks`, `Merged` | `update_with_ladder`: the rows it writes, the cache it keeps, the team ranks it makes and merges |
| `Update` | an answer of today, or from before midnight, merged by the update process and saved |
| `Release`, `Remake` | `release` at `switch_hour` or a restart; then a new ranking may be made from copies, with the teams in them met on the days of the copies |
| `FetchNew`, `RefetchMissing` | `fetch_new_in_league`, `refetch_missing` |
| `refetch`, `RefetchBegin` .. `RefetchFails` | `refetch_past_season`: team ranks loaded once, sources committed one by one, saved at the end |
| `purge`, `PurgeBegin` .. `PurgeStops` | `purge_player_data`: ids loaded, ranking by ranking loaded and saved, rows deleted last |

A process writes `last_seen` as it remembers it, whatever another has written since: with
an answer of before midnight, or with a new race or league of a team, it sets a row back
by a day (`RowAfter`). An id whose row is no longer there is updated without effect.

Three history variables. `crossed`: a purge and a refetch were at work at the same time.
What one of them saves then is lost to the other, as nothing compares or locks; the
models say what holds all the same, and `RecentRanksAreKept` says what does when they
did not meet. `copied`: the teams that the update process has looked up for a copy and
that no answer has listed since. `stray`: the ids among these whose rows were purged.

Two things about time are guards of `NewDay`. The update process does not pass a whole
day without the pause at `switch_hour` (`countinously_update` computes `until` from it).
And a run of `refetch_past_season` is not so long that the rows it has seen first become
overdue meanwhile (`RefetchInTime`); the tasks have lock files that are good for a day
(`tasks/base.py`), and data is kept for 14 days by default.

### Proof modules

`LadderUpdatesProofs` (with the refinement of TeamData), `RankingLifecycleProofs`,
`FetchQueueProofs`, `ServerRefreshProofs`, `PastSeasonProofs`, `TeamRankOrderProofs`,
`RankingDataProofs` (with what is about FindTeamRank) and `LadderPagesProofs` extend their
modules and hold nothing but strengthenings, lemmas and theorems.

### How they compose

The modules meet in shared operations rather than in one large product: what
LadderUpdates does in detail (`Update`) is one step `UpdateLadder` in
RankingLifecycle; what RankingLifecycle does in `NewRanking...` and `BeginSave` ..
`SaveRow` is one step in LadderUpdates and the source of saves in ServerRefresh;
FetchQueue decides which ladder LadderUpdates may fetch, which there is any of the
region. Each model allows more in the place of the other component than that
component does, so the properties carry over. Below them, TeamRankOrder is shared by
RankingData (which stores) and LadderPages (which shows); FindTeamRank searches the
very states RankingData stores in, not made up ones. PastSeason has the update process
and the tasks as one system, because they share rows of teams; in it the update path
is one step, `Update`, which TeamData justifies.

## 3. The runs

| run | module, configuration | what it asks | states |
|---|---|---|---|
| `ladder_updates` | `MCLadderUpdates`, `ladder_updates.cfg` | with two threads and a team that changes ladder, do later data always win, in memory and when saved, does every team rank stay backed by a source, through stops, crashes and new rankings, and is that an implementation of TeamData? | 310,471 |
| `ranking_lifecycle` | `RankingLifecycle`, `ranking_lifecycle.cfg` | with the season closed at any time by another process, empty answers and crashes anywhere, is what the site may use complete and in order, and does the update process follow the seasons? | 592,892 |
| `fetch_queue` | `MCFetchQueue`, `fetch_queue.cfg` | do all ladders get their turn, evenly, is no batch lost, and does the thread end when told to? | 227,257 |
| `server_refresh` | `ServerRefresh`, `server_refresh.cfg` | is what the server shows the latest usable ranking, how old may it be, and do saves come on display without pings? | 212,562 |
| `past_season` | `MCPastSeason`, `past_season.cfg` | with purge, refetch, finding of ladders and the update process side by side without locks, with late answers and remade rankings, does recent data keep its rows and its place, and is the rest purged or found? | 490,649 |
| `team_ranks` | `MCTeamRanks`, `team_ranks.cfg` | do merge, ranks, best race, statistics, display and the windowed search agree with their plain definitions, after any sequence of ladders and saves? | 111,217 |
| `ladder_pages` | `MCLadderPages`, `ladder_pages.cfg` | do pages depend on ranking and request only, although every request sorts the data of the next? | 2,325 |
| `copy_order` | `MCLadderUpdates`, `copy_order.cfg` | violated: a copied ranking has each team as fetched last | |
| `season_end_race` | `RankingLifecycle`, `season_end_race.cfg` | violated: a ranking that was left has a data time within its season | |
| `empty_ranking_time` | `RankingLifecycle`, `empty_ranking_time.cfg` | violated: data times do not decrease with ids | |
| `unparsable_ladder` | `MCFetchQueue`, `unparsable_ladder.cfg` | violated: an answer that is not JSON is not stored | |
| `rounded_stamp` | `ServerRefresh`, `rounded_stamp.cfg` | violated: a ping makes the server show what was saved | |

What the passing runs show, property by property:

* **LadderUpdates.** `FetchOrder`: all that is on its way is newer than all of its
  region that has arrived. This is the reason why `LaterDataWins` holds although
  nothing compares times, and it fails if a thread is given ladders of another region
  or responses are pushed at the other end. `RanksAreBacked` relates the team ranks
  (in memory and saved) to the sources: also after a crash a team rank's ladder has a
  source that is not older. `SavedNeverOlder` says that a restart never makes the
  saved ranking forget; it fails if the process continues without loading.
  `ImplementsTeamData`: nothing else happens to the data of teams, at no step.
* **RankingLifecycle.** `PublicationOrder`: row behind statistics behind data behind
  sources, for every usable ranking at any time. `OnlyLatestUnfinished`,
  `SeasonsInOrder`. `InOrderOfData`: of two rankings of a season the later has no earlier
  data time unless its data is older, also when a whole series of rankings is corrected
  at the close of a season. (That data times ascend with ids would be false: a ranking
  remade from copies may have older data than the one before it, or none.)
  `DisplayNeverGoesBack`: the data
  time on the site falls only when a season end is corrected. `EventuallyWithinSeason`
  and `SeasonIsSwitched` say that the update process repairs the race it takes part
  in and moves on.
* **FetchQueue.** `EvenlyFetched`, `OnlyExhaustedDropped`, `EveryLadderGetsATurn`,
  `StopEnds`.
* **ServerRefresh.** `ShownIsFresh`: between a look at the database and the next
  change of it, what is shown is the latest ranking and at most one granule behind.
  It fails if the server kept the time of loading as its time stamp. `ShownIsUsable`:
  a ranking without teams does not come on display, thanks to its data time of 1970
  (see 7), and an unfinished one never. `SavesAreShown`: by the check each minute.
* **PastSeason.** `RecentRanksHaveRows`: a rank of recent data belongs to a row of the
  table under the same id, although purge, refetch and update process all go by ids they
  looked up earlier, rows are deleted and inserted anew with other ids, and `last_seen`
  is set back by late answers. For the update process this rests on time only: it
  drops its cache once a day and data is kept for at least two days, so an id is dropped
  before its row can be overdue. With a cache that is kept the property fails. It
  also fails in one case that the property excepts (`stray`), and there the code is
  wrong: after the release at `switch_hour` a ranking is remade from copies that may be
  weeks old, the ids of their teams are cached and the rows keep their old `last_seen`;
  the purge deletes such a row on the same day; then an answer lists the team, whose rank
  is recent but has an id that no row has, until the next day. Without the exception
  TLC finds this after 13 steps.
  `RecentRanksAreKept`: unless a purge met a refetch. `OverdueIsPurged`: also what a
  refetch brings back after the last purge. `LaddersSettle`: found or given up.
* **RankingData and FindTeamRank.** `InOrderOnce` is what the next merge and the search
  walk the data by: it survives three re-sortings. `LaterDataReplaces` is the comment
  "rely on the later data is the correct one" made precise: old ranks that the ladder
  does not name stay, named ones are replaced, also when the team is in between others
  and the merge has to append and sort again. `RanksCountTheBetter`, `OneBestRace` and
  `StatsCountEveryRank` compare with counting. `ShownAtTheirBest` is about the order in
  which a player's ladders come, over modes, leagues and seasons that are known
  already. `FoundAsByReadingAll` is over all stored data, windows of 2 and 4 rows, all
  teams and some that are not there.
* **LadderPages.** `PageRanksCountTheBetter` for every offset and limit: also where the
  rows that share a rank began on the page before. `PagesTile`: every matching row is at
  its place, whatever was sorted in between; where the comparator is not an order,
  only rows of one team that agree in all that is compared may come out either way.
  `TeamIsOnItsPage`: a page asked for by team shows it.

A passing run that mentions a liveness property states in the property what excuses
it: the process has ended, or the bound on rankings has been reached.

For every property of a passing run `PROJECT.json` names a mutation: a plausible bug
in a definition that stands for code (a queue that is filled at the wrong end, a
guard that is lost, a counter restarted too early) with which TLC finds the property
violated. The mutated forms stand in the modules before the definitions they
change, marked `\* mutant`; no action uses them.

## 4. Bounds

Every bound is a constant.

* `MaxClock` (LadderUpdates 4): fetches. Two are enough for a team to move and be
  fetched again; four let one be merged, one be queued, one be held by each thread at
  once. Two regions: one with two ladders, between which team `t1` moves, and one
  with a single ladder; `t2` stays. `MaxRanking` 2: one change of ranking. `copy_order`
  needs two fetches.
* `MaxRanking` 3, `MaxSeason` 3, `MaxClock` 3 (RankingLifecycle): three rankings in one
  season (the order of corrected data times needs two past the end and one before),
  or three in three seasons; a season that is skipped needs three.
* FetchQueue: the kinds `gm` and `plat` with one ladder each and `rest` with two, so
  that batches of different length are interleaved. `QueueLimit` 1 for 20 and
  `MaxQueued` 2: over and under the limit both happen. `DelayMax` 4 for 256: the delay
  doubles twice and is then cut off. `CHECK_DEADLOCK FALSE` because the thread does end.
  The bound on the queue is a guard of `CheckStop`, after the ladder has been taken and
  before it is fetched.
* ServerRefresh: `Granule` 2 and `MaxTime` 5: times that are rounded up and down, ties
  of both kinds, and stamps that are equal for different saves. The rounding is
  that of the code relative to the granule. `MaxRanking` 2.

* `team_ranks`: `MaxUpdates` 3 ladders in any order and with any of the given answers:
  two 1v1 players of one region with two races, two leagues and two versions, their
  archon team, and a player of another region; with mmr, without (`NO_MMR`) and with
  equal mmr; never a team twice in one ladder with the same race (what Battle.net
  sends is not checked by the code). Seasons 27, 28 and 29 are the three kinds there
  are: by league points with versions, by mmr, by mmr per race. `WindowSizes` 2 and
  4 (the code has 4) and `Neighbours`, up to four rows before or after: hits in the first,
  in a middle and in the last window, and ranges that begin before and end after it.
* `ladder_pages`: six and four rows with ties within a team, between teams and regions, a
  team without mmr and one without games; all six keys in both directions, three
  filters; all offsets and limits there are. `Lead` 1 for the 10 rows above a team: the
  page begins before, at and after the first row. Two rankings, so that a load
  replaces rows sorted for a request.
* `past_season`: `MaxDay` 3 with `KeepDays` 2, `NearStart` 2, `RefetchDays` 0, `ClosedDays` 1,
  `FindDays` 0, `MaxRetries` 1 (the code has 14 by default, 4, 5, 3, 2 and 60): the first
  data is overdue on the last day, when a ranking is first remade from copies, data
  refetched on days 2 and 3 is recent then, and a row may be deleted and inserted anew.
  One ladder is known, one to be found. One team, listed by both, that plays on: teams
  do not meet in any definition but for being in one answer. `RefetchInTime` does not
  bind here: a refetch begins on day 2 at the earliest.

The proofs need none of these: they are for any values of the constants.

## 5. Fairness

* LadderUpdates: none, it has safety properties only.
* RankingLifecycle: the update process is a single thread that waits for nothing but
  the database, so each of its own next steps is taken unless it dies: weak fairness
  of `Choose`, `PeriodicSave`, `SaveData`, `SaveStats`, `SaveRow`. `SeasonCheck` has
  strong fairness: a save in between disables it, but the loop of `update_until`
  makes the check at the top of a turn, before the save, as soon as 30 minutes have
  passed; so it cannot be missed for ever. Nothing is assumed of fetch_new, of
  fetches, of the operator, or that `until` is ever reached.
* FetchQueue: weak fairness of `Thread` (every fetch has a timeout, every wait counts
  seconds) and of `Pop`. The latter stands for the loop of the main thread and is
  only needed because the model's queue is bounded, the code's is not. Batches may
  never be added, answers may all be bad.
* ServerRefresh: weak fairness of `MinutePasses`, `Check(FALSE)` and `Load`: pages keep
  being asked for (the server has no timer: it looks only when asked) and the
  server's thread goes on. Nothing is assumed of pings and of the update process.
* PastSeason: the tasks are started by cron again and again, so `PurgeBegin` and
  `RefetchMissing` of each ladder have weak fairness (Battle.net does not answer 503 for
  ever); a purge may be stopped or die each time it is at work, but not every time, so its
  further steps have strong fairness. Nothing is assumed of the refetch, of finding
  new ladders or of the update process: `OverdueIsPurged` holds whether or not they run.
* RankingData and LadderPages: none, safety only.

## 6. Proofs

All theorems hold for any constants that satisfy the named assumption of the module, and
TLC evaluates the assumptions in every run. Most of them only fix types (finite ladders,
regions and teams by functions, bounds that are numbers). Three say more:
`RankingDataAssumption` that no mmr is less than the number that stands for none (it is the
least there is in 16 bits), that a team is of one mode and that nobody is twice in an
answer; `LadderPagesAssumption` the former, and that a ranking has finitely many ranks
(`TeamRank`); `FindTeamRankAssumption` that there are finitely many teams and that windows
have a row at least.

| theorem | module |
|---|---|
| `TypeCorrect`, `FetchOrderHolds`, `RanksAreBackedHolds`, `LaterDataWinsHolds`, `SavedNeverOlderHolds` | `LadderUpdatesProofs` |
| `TypeCorrect`, `PublicationOrderHolds`, `OnlyLatestUnfinishedHolds`, `SeasonsInOrderHolds` | `RankingLifecycleProofs` |
| `TypeCorrect`, `OnlyExhaustedDroppedHolds`, `EvenlyFetchedHolds` | `FetchQueueProofs` |
| `TypeCorrect`, `ShownIsFreshHolds`, `ShownIsUsableHolds` | `ServerRefreshProofs` |
| `Refinement` | `LadderUpdatesProofs` |
| `InOrderOfDataHolds`, `DisplayNeverGoesBackHolds` | `RankingLifecycleProofs` |
| `TypeCorrect`, `RecentRanksHaveRowsHolds`, `RecentRanksAreKeptHolds` | `PastSeasonProofs` |
| `ComparatorsAreWeakOrders`, `ReversedMmrIsNoOrder`, `SharedRankCountsTheBetter` | `TeamRankOrderProofs` |
| `TypeCorrectness`, `InOrderOnceHolds`, `LaterDataReplacesHolds`, `ShownAtTheirBestHolds` | `RankingDataProofs` |
| `RanksCountTheBetterHolds`, `OneBestRaceHolds`, `StatsCountEveryRankHolds` | `RankingDataProofs` |
| `FoundAsByReadingAllHolds` | `RankingDataProofs` |
| `TypeCorrect`, `PagesTileHolds`, `PageRanksCountTheBetterHolds`, `TeamIsOnItsPageHolds` | `LadderPagesProofs` |

Each module about a specification proves that an invariant (`IInv`, `TimesInv`) holds
initially and is kept by every action, one lemma or step per action.

* **LadderUpdates.** `LaterDataWins` is about a step, so the invariant must know of the
  responses that are still on their way. `FetchOrder` says that they are newer; it is
  kept because a new response is newer than everything (`PastOnly`: nothing is from
  the future) and because nothing of an earlier turn is left on the way when a
  ranking is loaded (`NothingOnTheWay`: threads are joined, the queue is dropped).
  `SavedBehind` (saved data is never ahead of the data in memory) gives
  `SavedNeverOlder`. That one thread serves a region is used where a thread pushes:
  of its region nothing else is held.
* **RankingLifecycle.** `PublicationOrder` is not inductive: rows are written last, from
  an object filled before. `TablesInOrder` orders all tables for all rankings,
  `InMemory` says at each step of a save what has been written from the same team
  ranks, and `StaleIsAlike` that what create_new_season is about to write back differs
  from the row in its times only, and promises no more than the tables hold.
  `SeasonsClosed` gives `SeasonsInOrder`.
* **FetchQueue.** `EvenlyFetched` follows from `Whole(k)`: of the batches of a kind the
  first has some of its ladders, each once, all others have all of them; and a
  ladder is ahead by one exactly if the first batch is not exhausted and does not
  have it any more. This is where it matters that batches are complete and that the
  first one is finished before the next begins; the order within plays no part.
* **ServerRefresh.** `RoundedIsNear`: a stamp is at most half a granule from its time,
  the only fact about rounding that is used. `ReadIsRight` and `LoadedIsRight` carry
  between the two statements of `refresh_ranking` that the stamp is not newer than the
  data; `EmptyIsEpoch` says why no ranking without teams is ever the latest.

* **Refinement of TeamData.** Every action of LadderUpdates is one of TeamData or a
  stutter: `Update` is `Learn`, and that what is learned is *later* is `FetchOrder` of
  `IInv`; both saves are `Save`; `Load`, `Exit` and `Start` fall back to what was saved;
  `SwitchSeason` and `EndCopy` are `NewRanking`.
* **Data times** (`TimesInv`). While a season is open the data time of a ranking is the
  time of its newest data (`DataTimesMeant`). Once it is closed a ranking has the
  end, some seconds before it by its place among those that were corrected, or, if a
  save raced with the correction, the time of its newest data, which is why
  `InOrderOfData` compares rankings by their data and excepts those beyond the end. Between the read and the
  commit of `create_new_season`, `StaleIsBeyondEnd` says that what it has left out ended
  a tick before the end, and what it has read did not. That the corrected ones come out in
  order is then arithmetic; that the one with the greatest place gets the end itself
  needs the greatest element of a set of ids, hence WellFoundedInduction.
  `DisplayNeverGoesBack` follows from `DataTimesMeant` and from the object being
  saved not having less (`ObjectMeant`).
* **PastSeason.** Nothing compares what a process has in hand with what is stored, so the
  invariant goes by time: whoever holds a rank of recent data, its row is there with
  that id and was seen no earlier than the day before the data, that is, but for a late
  answer (`PastSound`, `LatestSound`: the rankings, and the copies in the hands of refetch
  and purge; of the latest one but for `stray`); rows that were seen are not deleted.
  `CacheSound`: an id in the cache of the update process is `stray`, or of the row as it
  is, and if not known from a copy only, that row has been seen since the cache was
  dropped, yesterday or today, or on the day before that; here the daily release and
  `KeepDays` at least 2 are used. `RefetchSound`: what the refetch has cached has been
  seen since it began, which is recent enough by `RefetchInTime`. What meeting teams
  does to rows, cache and ranks is in lemmas of its own (`RowMet`, `RowAgrees`,
  `MetRowsStay`), which `UpdateIInv`, `RemakeIInv` and `RefetchLadderIInv` share. For
  `RecentRanksAreKept`, `InHand` says that a purge that no refetch ran beside has in
  hand what is stored, and the ids of all that is recent.
* **TeamRankOrder.** `ComparatorsAreWeakOrders`: for all keys, filters and both
  directions `cmp_tr` is irreflexive, transitive and has transitive ties, for any
  integers (rates of wins need games), *except* reversed mmr with ties broken, for which
  `ReversedMmrIsNoOrder` shows that every rank is before itself.
  `SharedRankCountsTheBetter`: in any list that is in the order of a strict comparator,
  the shared place of a row among any of its rows is one more than the number of those
  before it, and level rows share it.

* **RankingData.** One invariant carries most of it, `DataInv`: the team ranks are rows
  with the fields of their ladder, in strict order of team, version and race, by the
  key they are merged by each once (`RowsInv`), and, when stored, with the right ranks
  (`RanksRight`) and the right marks (`BestRight`). That sorting sorts (the three orders
  here are strict weak orders, and `Sorting` rearranges) is a lemma on `Sorting`; a merge
  is followed place by place (`MergeMerges`), also through the sort when ranks are added
  in between. `SaveData` is global order (`GlobalRanks`: the shared places are the numbers of
  the better), marks, and back (`RanksMove`, `BestMoves`: neither depends on the order).
  `ShownAtTheirBest` is not inductive as it stands: `ShownInv` also says what is shown for
  an earlier version and for players of several teams, with `TablesInv` for the
  types. `StatsCountEveryRank` is one pass of an index: `Starts`
  and the sums are recursive functions, which are shown to exist and to be what they
  should by smallest counterexamples (`StartsAre`, `EveryRun`, `SumExists`, `SumTakesAny`),
  and the sum is the same for rearranged ranks (`SumsMove`).
* **LadderPages.** `PagesInv` has two parts. `MemoryInv`: memory holds every rank of the
  ranking once, those of a version and mode together (`Grouped`), which sorting a
  span and putting it back keeps (`PutBack`). `AnswerInv`: where the comparison makes
  sense, the rows of the answer are the matching ones, each once, and none leads an
  earlier one (`RowsAre`). To lead is to be before without the converse; this is a weak
  order for every key, reversed mmr included (`LeadsOrder`). That the first run of usable
  rows has them all needs that they stand side by side in it (`UsedSideBySide`): the
  comparator has region, league and race before the key. For pages, the rows better than
  one are the first ones (`BettersAreFirst`), and the recursive function of
  `build_teams_array` is shown to have a closed form (`KeptIsNext`, `AtIs`).

* **FindTeamRank.** The search is right in any rows that are `Searchable` (`FoundIs`): in
  strict order of team, version and race, where a team that is not marked by race has one
  row of a version. `RangeReaches`: rows of a team in such an order are no further apart
  than their versions and races are, hence no further than `RangeAround` says
  (`AtLeastAsFar`). `ReadingEnough`: what is read has the last row of the team and
  all of its last version, so selecting from it is selecting from all. The search itself
  is a recursive function: it exists because it can be continued from few rows to
  more (`SearchExists`), and is right because a smallest span for which it is wrong would
  have a wrong one in it (`SearchFinds`; `Narrowed` says that the team is nowhere
  else). `StoredIsSearchable` is where what is stored is used: the order, the marks of
  `BestRight`, and that a team is of one mode.

Only model-checked:

* the liveness properties (`EventuallyWithinSeason`, `SeasonIsSwitched`,
  `EveryLadderGetsATurn`, `StopEnds`, `SavesAreShown`, `OverdueIsPurged`,
  `LaddersSettle`), which are beyond the prover.

## 7. Disagreements between code and documentation

Each is a run that TLC ends with a counterexample; `PROJECT.json` has the quotations.

1. `copy_order`: the copies of which a new ranking is made are merged in database
   order, not in fetch order, so a team that changed its ladder may come back as it
   was before the change.
2. `season_end_race`: a save that began before its season was closed overwrites the
   corrected data time of the ranking, for good if no save follows.
3. `empty_ranking_time`: the ranking with which a season begins has a data time in
   1970 until it has teams; `set_data_time` tests for a missing time in a way that
   never succeeds. As an accident this keeps empty rankings off the display
   (`ShownIsUsable`): whoever repairs it needs another way to do that.
4. `unparsable_ladder`: the docstring of `http_get_json` promises status 605 for an
   answer with status 200 that is not JSON; the code does the inverse, and the
   answer is stored as an empty ladder.
5. `rounded_stamp`: the time of a save goes through a 32-bit float and is compared with
   `>`; of two saves within 128 seconds the second may not be loaded.

## 8. What is left out

* In LadderUpdates: the contents of team ranks and the ranks themselves, the
  databases of players and teams, ladders that change strangeness.
* In RankingLifecycle: `min_data_time`, dates of creation, the conditions on the
  clock; what is in sources but their time and whether they have teams;
  ids of deleted rankings are used again; the copying of sources is one step
  (it is one transaction). `COMPLETE_WITHOUT_DATA` is not reached: archived rankings
  are not made by these processes.
* In FetchQueue: the frequency of batches, the order by `updated`, changes in the set
  of ladders of a kind (the code reads them anew for every batch); all HTTP failures
  count as `error`.
* In ServerRefresh: the limit by `keep_api_data_days` on old team ranks, rankings that
  are deleted or corrected meanwhile.
* In RankingData: names, clans, wins and losses, `last_seen`, the bytes. No team is twice
  in a ladder with one race. Ladders of different versions side by side are assumed
  before season 28 only: later seasons have but one. `stored` and `stats` are forgotten with
  the next merge; in the database they stay, but then they are about other ranks.
* In LadderPages: reading the request and writing the answer. An offset at the number of
  rows gives an empty page: the code reads the row there for its rank before it finds
  that there is none to send, so the rank is of no meaning. The win rate of a
  team without games is 0/0, level with nothing: with such a team in the data a sort by
  win rate may come out in any order, and the properties except it.
* In PastSeason: hours, so that an answer is of today or yesterday; players and teams apart
  (1v1: they are one), other past rankings (each is purged by itself), a second change
  of season, the exclusion of the region SEA, a run for a chosen season, what is in an
  answer except its teams. A merge in the update process and its save are one step, and
  so is remaking a ranking from copies, which is one transaction in Python but writes rows
  ladder by ladder; a team that is in two copies is met once, by either of them. An answer
  of the refetch is of the day on which it is merged. `refetch_missing` tries again at
  once (`--min-age` is a day). A league of `FetchNew` is any set of unknown ladders. A
  purge and a refetch that meet may undo each other's work; the code relies on cron for
  keeping them apart.
* Of maintenance: the rules of `DataDeleter` (first, last seven, last of a season, one
  in seven or 28 days) are arithmetic on dates over a list of rankings in one process;
  the archive moves files; `repair_ranking` is run by hand with the update process
  stopped. `rankings_for_team` and `games_played` only go through rankings and
  convert. The hazards they have are listed in `PROJECT.json` with a note.
* In finding ladders: fetching the list of a league with its retries, and the repair of
  tier and strangeness for ladders of the seasons 28 and 29.
* The categorizer is not part of the running system. Views, scripts, migrations and
  command line have no state of their own between requests.
* Memory errors and data races below the level of Python and of the server's mutex.

## 9. Plan

Done: the update path and its abstraction, the life cycle of rankings, threads, server
refresh, ranking data with comparators and search, pages, and the closed seasons with
purge and refetch; every safety property of them is proved, together with the facts about
comparators.

Worth doing next:

1. **Retention and archive**: `DataDeleter`, `archive_ranking` and the update process on
   tables `ranking` and `ranking_data`. `archive_ranking` saves a ranking object it has
   read earlier, which would insert again a ranking that was deleted meanwhile.
2. **Feed** (abstract): what is saved comes on display with at most a granule lost;
   ServerRefresh should implement it.
3. `repair_ranking` beside the server: it saves the row before the data.
4. The repair of tier and strangeness by fetch_new, against `update_ladder_cache`, which
   saves a ladder read up to an hour before.
