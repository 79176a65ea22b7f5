--------------------------- MODULE ServerRefresh ---------------------------
(***************************************************************************)
(* How saved rankings come on display.  The update process saves the data  *)
(* of its ranking, then the row, and pings the server; the server looks    *)
(* for the latest ranking when pinged, and once a minute when it is asked  *)
(* for a page, and loads the data if its time stamp is new.  They share    *)
(* the database only.  How rankings come about is in RankingLifecycle; the *)
(* data of a ranking is when it was saved, and whether it has any teams.   *)
(***************************************************************************)
EXTENDS Naturals

CONSTANTS Granule,      \* what a float rounds a time of today to (128 s)
          MaxTime,      \* bound: the time
          MaxRanking    \* bound: ids of rankings

ASSUME ServerRefreshAssumption ==
  /\ Granule \in Nat \ {0}
  /\ MaxTime \in Nat \ {0}
  /\ MaxRanking \in Nat \ {0}

VARIABLES
  now,        \* the time of utcnow()
  latest,     \* the ranking that the update process works on
  data,       \* table ranking_data
  complete,   \* table ranking: the status is COMPLETE_WITH_DATA
  data_time,  \* table ranking: data_time, 0 for 1970
  pc,         \* where the update process is
  pinged,     \* a ping waits to be accepted by the server
  server,     \* where the server is
  for_ping,   \* the server works on a ping that somebody waits for
  read,       \* what get_latest_ranking has returned
  _ranking,   \* the ranking that the server has loaded, id 0 for none
  _team_ranks,\* the data that it has loaded
  due,        \* a minute has passed since _last_checked
  unseen      \* the tables may have changed since the server has read them

tables == <<latest, data, complete, data_time>>
handler == <<server, for_ping, read, _ranking, _team_ranks, due>>
vars == <<now, tables, pc, pinged, handler, unseen>>

Rankings == 1..MaxRanking
Times == 0..MaxTime
Data == [saved : Times, empty : BOOLEAN]
NoData == [saved |-> 0, empty |-> TRUE]
Ranking == [id : 0..MaxRanking, updated : 0..(MaxTime + Granule)]
NoRanking == [id |-> 0, updated |-> 0]

\* What every variable holds.
TypeOK ==
  /\ now \in Times
  /\ latest \in Rankings
  /\ data \in [Rankings -> Data]
  /\ complete \in [Rankings -> BOOLEAN]
  /\ data_time \in [Rankings -> Times]
  /\ pc \in {"updating", "save_row", "ping", "wait", "down"}
  /\ pinged \in BOOLEAN
  /\ server \in {"down", "waiting", "checking"}
  /\ for_ping \in BOOLEAN
  /\ read \in Ranking
  /\ _ranking \in Ranking
  /\ _team_ranks \in Data
  /\ due \in BOOLEAN
  /\ unseen \in BOOLEAN

\* The first ranking has been saved at time 1, the server has not been started.
Init ==
  /\ now = 1
  /\ latest = 1
  /\ data = [i \in Rankings |-> IF i = 1 THEN [saved |-> 1, empty |-> FALSE] ELSE NoData]
  /\ complete = [i \in Rankings |-> i = 1]
  /\ data_time = [i \in Rankings |-> IF i = 1 THEN 1 ELSE 0]
  /\ pc = "updating"
  /\ pinged = FALSE
  /\ server = "down"
  /\ for_ping = FALSE
  /\ read = NoRanking
  /\ _ranking = NoRanking
  /\ _team_ranks = NoData
  /\ due = TRUE
  /\ unseen = TRUE

TimePasses ==
  /\ now < MaxTime
  /\ now' = now + 1
  /\ UNCHANGED <<tables, pc, pinged, handler, unseen>>

-----------------------------------------------------------------------------
(* The update process. *)

NewRanking ==
  /\ pc = "updating"
  /\ complete[latest]
  /\ latest < MaxRanking
  /\ latest' = latest + 1
  /\ UNCHANGED <<now, data, complete, data_time, pc, pinged, handler, unseen>>

\* cpp.save_data: without teams as long as a ranking of a new season has none.
SaveData ==
  /\ pc = "updating"
  /\ now > data[latest].saved
  /\ \E none \in BOOLEAN :
       /\ none => data[latest].empty
       /\ data' = [data EXCEPT ![latest] = [saved |-> now, empty |-> none]]
  /\ pc' = "save_row"
  /\ unseen' = TRUE
  /\ UNCHANGED <<now, latest, complete, data_time, pinged, handler>>

EmptyTimeOfSeason == data[latest].saved                              \* mutant
\* The data time of a ranking without teams is that of the epoch (RankingLifecycle).
EmptyTime == 0

\* ranking.save(); the newest fetch may be older than the save, but not older than
\* those of other rankings.
SaveRow ==
  /\ pc = "save_row"
  /\ complete' = [complete EXCEPT ![latest] = TRUE]
  /\ \E t \in Times :
       /\ IF data[latest].empty
          THEN t = EmptyTime
          ELSE t <= data[latest].saved /\ \A i \in Rankings : t >= data_time[i]
       /\ data_time' = [data_time EXCEPT ![latest] = t]
  /\ pc' = "ping"
  /\ unseen' = TRUE
  /\ UNCHANGED <<now, latest, data, pinged, handler>>

\* request_tcp, if the server is listening.
Ping ==
  /\ pc = "ping"
  /\ IF server = "down" THEN pc' = "updating" /\ UNCHANGED pinged
                        ELSE pc' = "wait" /\ pinged' = TRUE
  /\ UNCHANGED <<now, tables, handler, unseen>>

\* No answer within server_ping_timeout; the server will see the ping nevertheless.
PingTimesOut ==
  /\ pc = "wait"
  /\ pc' = "updating"
  /\ for_ping' = FALSE
  /\ UNCHANGED <<now, tables, pinged, server, read, _ranking, _team_ranks, due, unseen>>

Exit ==
  /\ pc # "down"
  /\ pc' = "down"
  /\ for_ping' = FALSE
  /\ UNCHANGED <<now, tables, pinged, server, read, _ranking, _team_ranks, due, unseen>>

Start ==
  /\ pc = "down"
  /\ complete[latest]
  /\ pc' = "updating"
  /\ UNCHANGED <<now, tables, pinged, handler, unseen>>

-----------------------------------------------------------------------------
(* The server: one thread that accepts one request after the other. *)

NextGranule(t) == (t \div Granule + 2) * Granule                     \* mutant
\* A float of today is rounded to the nearest multiple of Granule, a tie to the even.
Rounded(t) ==
  LET low == (t \div Granule) * Granule
      rest == 2 * (t - low)
  IN  IF rest > Granule \/ (rest = Granule /\ (t \div Granule) % 2 = 1)
      THEN low + Granule ELSE low

StartServer ==
  /\ server = "down"
  /\ server' = "waiting"
  /\ due' = TRUE
  /\ UNCHANGED <<now, tables, pc, pinged, for_ping, read, _ranking, _team_ranks, unseen>>

AnyStatus(i) == data[i].saved > 0                                    \* mutant
Usable(i) == complete[i]

\* One of the rankings that get_latest_ranking may return: it orders by data time.
IsLatest(i) == Usable(i) /\ \A j \in Rankings : Usable(j) => data_time[j] <= data_time[i]

\* refresh_ranking begins: by a ping, or by a page if the last check is a minute ago.
Check(by_ping) ==
  /\ server = "waiting"
  /\ IF by_ping THEN pinged ELSE due
  /\ \E i \in Rankings :
       IsLatest(i) /\ read' = [id |-> i, updated |-> Rounded(data[i].saved)]
  /\ server' = "checking"
  /\ for_ping' = (by_ping /\ pc = "wait")
  /\ pinged' = (pinged /\ ~by_ping)
  /\ due' = FALSE
  /\ unseen' = FALSE
  /\ UNCHANGED <<now, tables, pc, _ranking, _team_ranks>>

NewId == read.id # _ranking.id                                       \* mutant
NewData == read.id # _ranking.id \/ read.updated > _ranking.updated

LoadedNow == [read EXCEPT !.updated = Rounded(now)]                  \* mutant
Loaded == read

\* "Reload if new data", by a second statement; then answer.
Load ==
  /\ server = "checking"
  /\ IF NewData THEN _team_ranks' = data[read.id] /\ _ranking' = Loaded
                ELSE UNCHANGED <<_team_ranks, _ranking>>
  /\ read' = NoRanking
  /\ server' = "waiting"
  /\ pc' = IF for_ping THEN "updating" ELSE pc
  /\ for_ping' = FALSE
  /\ UNCHANGED <<now, tables, pinged, due, unseen>>

MinutePasses ==
  /\ ~due
  /\ due' = TRUE
  /\ UNCHANGED <<now, tables, pc, pinged, server, for_ping, read, _ranking,
                 _team_ranks, unseen>>

\* The server dies.  An update process that waits for its answer gets an error, or
\* an empty answer that json.loads does not take, which ends it.
StopServer ==
  /\ server # "down"
  /\ server' = "down"
  /\ pinged' = FALSE
  /\ for_ping' = FALSE
  /\ read' = NoRanking
  /\ _ranking' = NoRanking
  /\ _team_ranks' = NoData
  /\ unseen' = TRUE
  /\ IF pc = "wait" THEN pc' \in {"updating", "down"} ELSE UNCHANGED pc
  /\ UNCHANGED <<now, tables, due>>

-----------------------------------------------------------------------------
Next ==
  \/ TimePasses
  \/ NewRanking
  \/ SaveData
  \/ SaveRow
  \/ Ping
  \/ PingTimesOut
  \/ Exit
  \/ Start
  \/ StartServer
  \/ \E by_ping \in BOOLEAN : Check(by_ping)
  \/ Load
  \/ MinutePasses
  \/ StopServer

\* Minutes pass, pages are asked for and the server's thread goes on.  Nothing is
\* assumed of the update process, of its pings and of restarts.
Spec ==
  /\ Init /\ [][Next]_vars
  /\ WF_vars(MinutePasses) /\ WF_vars(Check(FALSE)) /\ WF_vars(Load)

-----------------------------------------------------------------------------
\* Once the server has looked, what it shows is the latest ranking, and of that the
\* data saved last or some that was saved not more than a granule before: time stamps
\* are rounded, and data is loaded by a statement of its own, after its time stamp.
ShownIsFresh ==
  server = "waiting" /\ ~unseen =>
    /\ IsLatest(_ranking.id)
    /\ data[_ranking.id].saved <= _team_ranks.saved + Granule

\* Rankings that have not been saved to the end and those without teams are not
\* shown, whenever the server looks: at the begin of a season the site goes on with
\* the last one.
ShownIsUsable ==
  _ranking.id # 0 => complete[_ranking.id] /\ ~_team_ranks.empty

\* What has been saved comes on display, give or take a granule, also if pings are
\* lost and whatever is saved meanwhile; unless the server ends.
SavesAreShown ==
  \A t \in Times :
    (\A i \in Rankings : IsLatest(i) => data[i].saved >= t)
      ~> (_team_ranks.saved + Granule >= t \/ server = "down")

\* "Ping server to reload ranking" (update.py), "Reload if new data"
\* (ladder_handler.cpp): with the answer to a ping the saved data is on display.
PingReloads ==
  [][Load /\ for_ping => \E i \in Rankings : IsLatest(i) /\ _team_ranks' = data[i]]_vars

=============================================================================
