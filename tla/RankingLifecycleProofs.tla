----------------------- MODULE RankingLifecycleProofs -----------------------
(***************************************************************************)
(* Proofs about RankingLifecycle for every bound on rankings, seasons and  *)
(* fetches: its type invariant, the order in which a ranking is published, *)
(* that only the latest ranking may be unfinished and that rankings follow *)
(* the seasons.  The inductive invariant adds what the steps of a save     *)
(* know of each other and what the other process may write back.           *)
(*                                                                         *)
(* Then the data times: within a season they are in the order of the       *)
(* rankings and of their data, also when the season is closed while the    *)
(* update process saves, and the site never goes back in time but to the   *)
(* end of a season.                                                        *)
(***************************************************************************)
EXTENDS RankingLifecycle, FiniteSetTheorems, WellFoundedInduction, TLAPS

\* A time that is not newer than the newest cache of the ranking.
Stored(t, i) == t > 0 => \E c \in sources[i] : t <= c.updated

\* Every table is behind the one it is made from, and empty for rankings to come.
TablesInOrder ==
  \A i \in Rankings :
    /\ stats[i] <= data[i]
    /\ Stored(data[i], i)
    /\ \A c \in sources[i] : c.updated <= clock
    /\ data[i] <= clock
    /\ i > latest => data[i] = 0 /\ stats[i] = 0

RowsBehindStats == \A i \in 1..latest : Complete(i) => rows[i].max_data_time <= stats[i]

\* The team ranks in memory are between what is saved and what is stored, and the
\* steps of a save do not mix states of them.
InMemory ==
  /\ pc \notin {"down", "choosing"} => /\ data[latest] <= team_ranks
                                       /\ Stored(team_ranks, latest)
                                       /\ team_ranks <= clock
  /\ pc \in {"save_data", "save_stats", "save_row"} => ranking.max_data_time = team_ranks
  /\ pc \in {"save_stats", "save_row"} => data[latest] = team_ranks
  /\ pc = "save_row" => stats[latest] = team_ranks

\* What create_new_season writes back has the season and status of the row.
StaleIsAlike ==
  \A i \in DOMAIN stale :
    /\ Complete(i)
    /\ stale[i].status = COMPLETE
    /\ stale[i].season = rows[i].season
    /\ stale[i].max_data_time <= stats[i]

SeasonsClosed ==
  /\ \A s \in Seasons : s < current => end_time[s] # 0
  /\ \A i \in 1..latest : rows[i].season <= current

IInv ==
  /\ TypeOK
  /\ closing \in Ends \cup {0}
  /\ closing # 0 => current < MaxSeason
  /\ TablesInOrder
  /\ RowsBehindStats
  /\ InMemory
  /\ StaleIsAlike
  /\ OnlyLatestUnfinished
  /\ SeasonsClosed
  /\ SeasonsInOrder

-----------------------------------------------------------------------------
\* Times are natural numbers, ends of seasons are times not before the first tick.
LEMMA TimeFacts ==
  /\ Tick \in Nat /\ Tick = MaxRanking + 1
  /\ Times \subseteq Nat /\ 0 \in Times /\ Tick \in Times /\ Tick * 2 \in Times
  /\ \A t \in Times : \A u \in Nat : u <= t => u \in Times
  /\ Ends \subseteq Times /\ \A e \in Ends : e >= Tick
  /\ \A t \in Times : t < Tick * MaxClock => t + Tick \in Times
<1> DEFINE last == Tick * (MaxClock + 1)
<1>1. /\ MaxRanking \in Nat /\ MaxClock \in Nat /\ MaxClock >= 1
      /\ Tick \in Nat /\ Tick = MaxRanking + 1
  BY RankingLifecycleAssumption DEF Tick
<1>2. last \in Nat /\ last = Tick * MaxClock + Tick /\ Tick * MaxClock \in Nat
  BY <1>1, SMT
<1>3. Times = 0..last
  BY DEF Times
<1>4. ASSUME NEW n \in 1..(MaxClock + 1)
      PROVE  Tick * n \in Nat /\ Tick * n >= Tick /\ Tick * n <= last
  BY <1>1, <1>4, SMT
<1>5. Ends \subseteq Times /\ \A e \in Ends : e >= Tick
  BY <1>3, <1>4, <1>1, <1>2 DEF Ends
<1>6. Tick \in Times /\ Tick * 2 \in Times
  <2>1. 2 \in 1..(MaxClock + 1)
    BY <1>1
  <2> QED BY <1>1, <1>2, <1>3, <1>4, <2>1
<1> HIDE DEF last
<1> QED BY <1>1, <1>2, <1>3, <1>5, <1>6

LEMMA PlaceFacts ==
  ASSUME TypeOK, closing \in Ends, NEW i \in DOMAIN stale
  PROVE  closing - Place(i) \in Times
<1> DEFINE S == {j \in DOMAIN stale : j > i}
<1>1. MaxRanking \in Nat
  BY RankingLifecycleAssumption
<1>2. S \subseteq 1..MaxRanking
  BY <1>1 DEF TypeOK, Rankings
<1>3. IsFiniteSet(1..MaxRanking) /\ Cardinality(1..MaxRanking) <= MaxRanking
  BY <1>1, FS_Interval
<1>4. IsFiniteSet(S) /\ Cardinality(S) <= Cardinality(1..MaxRanking) /\ Cardinality(S) \in Nat
  BY <1>2, <1>3, FS_Subset, FS_CardinalityType
<1>5. Cardinality(1..MaxRanking) \in Nat
  BY <1>3, FS_CardinalityType
<1>6. Place(i) = Cardinality(S)
  BY DEF Place
<1> HIDE DEF S
<1>7. closing \in Nat /\ closing >= MaxRanking + 1 /\ closing \in Times
  BY TimeFacts
<1>8. closing - Place(i) \in Nat /\ closing - Place(i) <= closing
  BY <1>1, <1>3, <1>4, <1>5, <1>6, <1>7
<1> QED BY <1>7, <1>8, TimeFacts

LEMMA InitIInv == Init => IInv
<1> SUFFICES ASSUME Init PROVE IInv
  OBVIOUS
<1>1. 1 \in Rankings /\ 1 \in Seasons /\ \A i \in Rankings : i \in Nat /\ i >= 1
  BY RankingLifecycleAssumption DEF Rankings, Seasons
<1>2. stale \in [{} -> Row] /\ DOMAIN stale = {}
  BY DEF Init, NoRows
<1>3. /\ clock = Tick * 2 /\ clock \in Times
      /\ rows[1] \in Row /\ rows[1] # NoRow /\ rows[1].season = 1
      /\ rows[1].status = COMPLETE /\ rows[1].max_data_time = clock
  BY <1>1, TimeFacts DEF Init, Row, NoRow, COMPLETE
<1>4. /\ rows \in [Rankings -> Row \cup {NoRow}]
      /\ \A i \in Rankings : rows[i] = NoRow <=> i > latest
  BY <1>1, <1>3 DEF Init
<1>5. /\ \A i \in Rankings : \A c \in sources[i] :
           c \in Cache /\ c.updated \in {Tick * n : n \in 1..2}
      /\ sources \in [Rankings -> SUBSET Cache]
      /\ [updated |-> Tick * 2, teams |-> TRUE] \in sources[1]
  <2> DEFINE first == {[updated |-> Tick * n, teams |-> TRUE] : n \in 1..2}
  <2>1. first \subseteq Cache /\ \A c \in first : c.updated \in {Tick * n : n \in 1..2}
    <3>1. \A n \in 1..2 : Tick * n \in Times
      <4>1. \A n \in 1..2 : n = 1 \/ n = 2
        OBVIOUS
      <4>2. Tick * 1 = Tick
        BY TimeFacts
      <4> QED BY <4>1, <4>2, TimeFacts
    <3>2. ASSUME NEW c \in first
          PROVE  c \in Cache /\ c.updated \in {Tick * n : n \in 1..2}
      <4>1. PICK n \in 1..2 : c = [updated |-> Tick * n, teams |-> TRUE]
        OBVIOUS
      <4>2. Tick * n \in Times /\ Tick * n \in {Tick * m : m \in 1..2}
        BY <3>1
      <4> HIDE DEF first
      <4> QED BY <4>1, <4>2 DEF Cache
    <3> QED BY <3>2
  <2>2. [updated |-> Tick * 2, teams |-> TRUE] \in first
    OBVIOUS
  <2>3. \A i \in Rankings : sources[i] = IF i = 1 THEN first ELSE {}
    BY DEF Init
  <2>4. sources = [i \in Rankings |-> sources[i]]
    BY DEF Init
  <2> HIDE DEF first
  <2> QED BY <1>1, <2>1, <2>2, <2>3, <2>4
<1>10. data \in [Rankings -> Times] /\ stats = data /\ data[1] = clock
       /\ \A i \in Rankings : data[i] = IF i = 1 THEN clock ELSE 0
  BY <1>1, <1>3, TimeFacts DEF Init
<1>6. ranking \in Object
  BY TimeFacts DEF Init, Object, NoObject
<1>7. TypeOK
  BY <1>1, <1>2, <1>3, <1>4, <1>5, <1>10, <1>6, TimeFacts DEF TypeOK, Init
<1>8. TablesInOrder
  <2>1. \A i \in Rankings : \A c \in sources[i] : c.updated <= clock
    <3>1. \A n \in 1..2 : Tick * n <= Tick * 2
      BY TimeFacts, SMT
    <3> QED BY <1>3, <1>5, <3>1
  <2>2. \A i \in Rankings : Stored(data[i], i)
    <3>1. Stored(data[1], 1)
      <4> DEFINE c == [updated |-> Tick * 2, teams |-> TRUE]
      <4>1. c \in sources[1] /\ data[1] <= c.updated
        BY <1>3, <1>5, <1>10, TimeFacts
      <4> QED BY <4>1 DEF Stored
    <3> QED BY <1>10, <3>1 DEF Stored
  <2>3. \A i \in Rankings : data[i] <= clock /\ data[i] \in Nat /\ (i > 1 => data[i] = 0)
    BY <1>3, <1>10, TimeFacts
  <2> QED BY <1>1, <1>10, <2>1, <2>2, <2>3 DEF Init, TablesInOrder
<1>9. RowsBehindStats /\ OnlyLatestUnfinished /\ SeasonsClosed /\ SeasonsInOrder
  BY <1>1, <1>3, <1>10, TimeFacts
     DEF Init, RowsBehindStats, OnlyLatestUnfinished, SeasonsClosed, SeasonsInOrder,
         Complete, Seasons
<1> QED BY <1>2, <1>7, <1>8, <1>9 DEF Init, IInv, InMemory, StaleIsAlike

\* The rows of the rankings that are there.
LEMMA RowFacts ==
  ASSUME IInv
  PROVE  /\ latest \in Rankings /\ latest \in Nat /\ latest >= 1
         /\ \A i \in Nat : i >= 1 /\ i <= latest => i \in Rankings
         /\ \A i \in Rankings : i <= latest => rows[i] \in Row
         /\ \A i \in 1..latest : i \in Rankings /\ rows[i].max_data_time \in Nat
         /\ Season \in Seasons
         /\ \A i \in Rankings : data[i] \in Nat /\ stats[i] \in Nat /\ data[i] \in Times
         /\ \A i \in Rankings : \A c \in sources[i] :
              c \in Cache /\ c.updated \in Times /\ c.updated \in Nat
         /\ clock \in Nat /\ team_ranks \in Nat
<1>1. latest \in Rankings /\ latest \in Nat /\ latest >= 1
  BY RankingLifecycleAssumption DEF IInv, TypeOK, Rankings
<1>2. \A i \in Rankings : i <= latest => rows[i] \in Row
  BY <1>1 DEF IInv, TypeOK, Rankings
<1>3. \A i \in 1..latest : i \in Rankings
  BY <1>1, RankingLifecycleAssumption DEF Rankings
<1>4. ASSUME NEW i \in 1..latest PROVE rows[i].max_data_time \in Nat
  <2>1. rows[i] \in Row
    BY <1>1, <1>2, <1>3
  <2>2. rows[i].max_data_time \in Times
    BY <2>1 DEF Row
  <2> QED BY <2>2, TimeFacts
<1>5. \A i \in Rankings : \A c \in sources[i] :
        c \in Cache /\ c.updated \in Times /\ c.updated \in Nat
  <2>1. \A i \in Rankings : sources[i] \in SUBSET Cache
    BY DEF IInv, TypeOK
  <2>2. \A c \in Cache : c.updated \in Times
    BY DEF Cache
  <2> QED BY <2>1, <2>2, TimeFacts
<1>6. Season \in Seasons
  BY <1>1, <1>2 DEF Season, Row
<1>7. \A i \in Rankings : data[i] \in Nat /\ stats[i] \in Nat /\ data[i] \in Times
  BY TimeFacts DEF IInv, TypeOK
<1>8. clock \in Nat /\ team_ranks \in Nat
  BY TimeFacts DEF IInv, TypeOK
<1>9. \A i \in Nat : i >= 1 /\ i <= latest => i \in Rankings
  BY <1>1, <1>3
<1> QED BY <1>1, <1>2, <1>3, <1>4, <1>5, <1>6, <1>7, <1>8, <1>9

-----------------------------------------------------------------------------
\* The conjuncts about rows alone hold on while rows, seasons and what fetch_new has
\* read are left alone.
LEMMA RowsUnchanged ==
  ASSUME IInv, UNCHANGED <<current, end_time, rows, latest>>
  PROVE  SeasonsClosed' /\ SeasonsInOrder'
BY DEF IInv, SeasonsClosed, SeasonsInOrder, Closed

\* The update process outside of a save.
LEMMA UpdaterIInv ==
  ASSUME IInv, Start \/ Continue \/ SeasonSkipped \/ UpdateLadder \/ Exit
  PROVE  IInv'
<1> USE TimeFacts, RowFacts, RowsUnchanged
    DEF TypeOK, TablesInOrder, Stored, RowsBehindStats, InMemory, StaleIsAlike,
        OnlyLatestUnfinished, Complete, seasons, fetchNew, tables
<1>1. CASE Start
  BY <1>1 DEF Start, InGoodState, IInv, Row, Object
<1>2. CASE Continue
  BY <1>2 DEF Continue, Loaded, IInv
<1>3. CASE SeasonSkipped
  BY <1>3 DEF SeasonSkipped, IInv, Object, NoObject
<1>4. CASE UpdateLadder
  <2>1. clock' \in Times /\ clock' >= clock /\ clock' = clock + Tick
    BY <1>4 DEF UpdateLadder, IInv
  <2>2. PICK old \in SUBSET sources[latest], teams \in BOOLEAN :
          /\ sources' = [sources EXCEPT ![latest] =
                           (@ \ old) \cup {[updated |-> clock', teams |-> teams]}]
          /\ team_ranks' = IF teams THEN clock' ELSE team_ranks
    BY <1>4, <2>1 DEF UpdateLadder
  <2> DEFINE new == [updated |-> clock', teams |-> teams]
  <2>3. new \in Cache /\ new.updated = clock'
    BY <2>1 DEF Cache
  <2> HIDE DEF new
  <2>4. /\ sources'[latest] = (sources[latest] \ old) \cup {new}
        /\ \A i \in Rankings : i # latest => sources'[i] = sources[i]
        /\ sources' \in [Rankings -> SUBSET Cache]
    BY <2>2, <2>3 DEF IInv, new
  <2>5. TypeOK'
    BY <1>4, <2>1, <2>2, <2>4 DEF UpdateLadder, IInv
  <2>6. \A t \in Nat : t <= clock' => Stored(t, latest)'
    BY <1>4, <2>1, <2>3, <2>4 DEF UpdateLadder
  <2>7. team_ranks' \in Nat /\ team_ranks <= team_ranks' /\ team_ranks' <= clock'
    <3>1. pc = "updating" /\ team_ranks <= clock
      BY <1>4 DEF UpdateLadder, IInv
    <3> QED BY <2>1, <2>2, <3>1
  <2>8. InMemory'
    <3>1. data[latest] <= team_ranks
      BY <1>4 DEF UpdateLadder, IInv
    <3>2. Stored(team_ranks, latest)'
      BY <1>4, <2>6, <2>7 DEF UpdateLadder
    <3> QED BY <1>4, <2>7, <3>1, <3>2 DEF UpdateLadder
  <2>9. TablesInOrder'
    <3>1. ASSUME NEW i \in Rankings
          PROVE  Stored(data[i], i)' /\ \A c \in sources'[i] : c.updated <= clock'
      <4>1. CASE i = latest
        <5>1. data[i] \in Nat /\ data[i] <= clock'
          BY <2>1 DEF IInv
        <5>2. Stored(data[i], latest)'
          BY <1>4, <2>6, <5>1 DEF UpdateLadder
        <5>3. \A c \in sources[latest] : c.updated <= clock'
          BY <2>1 DEF IInv
        <5>4. \A c \in sources'[latest] : c.updated <= clock'
          BY <2>1, <2>3, <2>4, <5>3
        <5>5. latest' = latest
          BY <1>4 DEF UpdateLadder
        <5> QED BY <4>1, <5>2, <5>4, <5>5
      <4>2. CASE i # latest
        BY <1>4, <2>1, <2>4, <4>2 DEF UpdateLadder, IInv
      <4> QED BY <4>1, <4>2
    <3> QED BY <1>4, <2>1, <3>1 DEF UpdateLadder, IInv
  <2> QED BY <1>4, <2>5, <2>8, <2>9 DEF UpdateLadder, IInv
<1>5. CASE Exit
  BY <1>5 DEF Exit, IInv, Object, NoObject
<1> QED BY <1>1, <1>2, <1>3, <1>4, <1>5

\* The steps of a save that change no row.
LEMMA SaveIInv ==
  ASSUME IInv, PeriodicSave \/ UntilReached \/ SeasonCheck \/ SaveData \/ SaveStats
  PROVE  IInv'
<1> USE TimeFacts, RowFacts, RowsUnchanged
    DEF TypeOK, TablesInOrder, Stored, RowsBehindStats, InMemory, StaleIsAlike,
        OnlyLatestUnfinished, Complete, seasons, fetchNew, tables
<1>1. CASE PeriodicSave \/ UntilReached \/ SeasonCheck
  <2>1. DataTime \in Times /\ MaxDataTime = team_ranks
    BY DEF DataTime, MaxDataTime, IInv
  <2>2. PICK is_final \in BOOLEAN : BeginSave(is_final) /\ pc \in {"created", "updating"}
    BY <1>1 DEF PeriodicSave, UntilReached, SeasonCheck
  <2>3. ranking' \in Object /\ ranking'.max_data_time = team_ranks
    BY <2>1, <2>2 DEF BeginSave, Object, IInv
  <2> QED BY <2>2, <2>3 DEF BeginSave, IInv
<1>2. CASE SaveData
  BY <1>2 DEF SaveData, IInv
<1>3. CASE SaveStats
  <2>1. \A i \in Rankings : stats'[i] \in Times /\ stats'[i] >= stats[i] /\ stats'[i] <= data[i]
    BY <1>3 DEF SaveStats, IInv
  <2>2. \A i \in 1..latest : Complete(i) => rows[i].max_data_time \in Nat
    OBVIOUS
  <2>3. \A i \in DOMAIN stale : stale[i].max_data_time \in Nat /\ i \in Rankings
    BY DEF Row, IInv
  <2>4. RowsBehindStats' /\ StaleIsAlike'
    BY <1>3, <2>1, <2>2, <2>3 DEF SaveStats, IInv
  <2>5. TablesInOrder' /\ InMemory' /\ OnlyLatestUnfinished'
    BY <1>3, <2>1 DEF SaveStats, IInv
  <2> QED BY <1>3, <2>1, <2>4, <2>5 DEF SaveStats, IInv
<1> QED BY <1>1, <1>2, <1>3

\* What is made of copies is of one of their times.
LEMMA MadeFacts ==
  ASSUME NEW copied, NEW made \in MadeOf(copied)
  PROVE  made = 0 \/ \E c \in copied : made = c.updated
BY DEF MadeOf

\* The row of a new ranking, of the same season or of the current one.
LEMMA InsertIInv ==
  ASSUME IInv, NewRankingOfSeason \/ NewRankingInSeason
  PROVE  IInv'
<1>1. PICK season \in Seasons, times \in Object, copied \in SUBSET Cache, made \in Times :
        /\ pc = "choosing"
        /\ Insert(season, times, copied, made)
        /\ \A c \in copied : c.updated <= clock
        /\ made = 0 \/ \E c \in copied : made = c.updated
        /\ season = Season \/ (season = Season + 1 /\ season = current)
  <2>1. CASE NewRankingOfSeason
    <3> DEFINE start == end_time[current - 1]
    <3>1. current - 1 = Season /\ current \in Seasons
      BY <2>1, RowFacts, RankingLifecycleAssumption
         DEF NewRankingOfSeason, NextHasBegun, IInv, TypeOK, Seasons
    <3>2. start \in Times
      BY <3>1, RowFacts DEF IInv, TypeOK
    <3>3. /\ pc = "choosing" /\ current = Season + 1
          /\ Insert(current, [data_time |-> start, max_data_time |-> start], {}, 0)
      BY <2>1 DEF NewRankingOfSeason, NextHasBegun
    <3>4. [data_time |-> start, max_data_time |-> start] \in Object
      BY <3>2 DEF Object
    <3>5. {} \in SUBSET Cache /\ (\A c \in {} : c.updated <= clock) /\ 0 \in Times
      BY TimeFacts
    <3> HIDE DEF start
    <3> QED BY <3>1, <3>3, <3>4, <3>5
  <2>2. CASE NewRankingInSeason
    <3>1. PICK made \in MadeOf(sources[latest]) : Insert(Season, ranking, sources[latest], made)
      BY <2>2 DEF NewRankingInSeason
    <3>2. sources[latest] \in SUBSET Cache /\ ranking \in Object /\ Season \in Seasons
      BY RowFacts DEF IInv, TypeOK
    <3>3. \A c \in sources[latest] : c.updated <= clock
      BY RowFacts DEF IInv, TablesInOrder
    <3>4. (made = 0 \/ \E c \in sources[latest] : made = c.updated) /\ made \in Times
      BY MadeFacts, TimeFacts, RowFacts
    <3>5. pc = "choosing"
      BY <2>2 DEF NewRankingInSeason
    <3> QED BY <3>1, <3>2, <3>3, <3>4, <3>5
  <2> QED BY <2>1, <2>2
<1>2. latest' = latest + 1 /\ latest' \in Rankings /\ latest \in Nat
  BY <1>1, RowFacts, RankingLifecycleAssumption DEF Insert, Rankings
<1>3. season \in Seasons /\ season <= current
  BY <1>1, RowFacts DEF IInv, SeasonsClosed, TypeOK, Season, Seasons
<1>4. NewRow(season, times) \in Row
  BY <1>3 DEF NewRow, Row, Object
<1>5. /\ \A i \in Rankings : i # latest' => rows'[i] = rows[i]
      /\ rows'[latest'] = NewRow(season, times)
      /\ rows' \in [Rankings -> Row \cup {NoRow}]
  BY <1>1, <1>2, <1>4 DEF Insert, IInv, TypeOK
<1>6. NewRow(season, times) # NoRow
  BY <1>3 DEF NewRow, NoRow, Seasons
<1>7. \A i \in Rankings : rows'[i] = NoRow <=> i > latest'
  BY <1>2, <1>5, <1>6 DEF IInv, TypeOK, Rankings
<1>8. TypeOK'
  BY <1>1, <1>2, <1>5, <1>7, RowFacts DEF Insert, IInv, TypeOK, seasons, fetchNew
<1>9. rows'[latest'].status # COMPLETE
  BY <1>5 DEF NewRow, CREATED, COMPLETE
<1>10. \A i \in 1..latest : i \in Rankings /\ (Complete(i)' <=> Complete(i)) /\ Complete(i)
  BY <1>1, <1>2, <1>5, RowFacts DEF Complete, IInv, OnlyLatestUnfinished
<1>11. TablesInOrder'
  <2>1. \A i \in Rankings : sources'[i] = IF i = latest' THEN copied ELSE sources[i]
    BY <1>1, <1>2 DEF Insert, IInv, TypeOK
  <2>2. data[latest'] = 0 /\ stats[latest'] = 0
    BY <1>1, <1>2 DEF IInv, TablesInOrder
  <2> QED BY <1>1, <1>2, <2>1, <2>2 DEF Insert, IInv, TablesInOrder, Stored
<1>12. InMemory'
  <2>1. data'[latest'] = 0 /\ sources'[latest'] = copied /\ team_ranks' = made
    BY <1>1, <1>2 DEF Insert, IInv, TypeOK, TablesInOrder
  <2>2. made \in Nat /\ clock \in Nat /\ made <= clock
    BY <1>1, TimeFacts, RowFacts
  <2>3. Stored(team_ranks, latest)'
    <3>1. made > 0 => \E c \in copied : made <= c.updated
      <4>1. ASSUME made > 0 PROVE \E c \in copied : made <= c.updated
        <5>1. PICK c \in copied : made = c.updated
          BY <1>1, <2>2, <4>1
        <5> QED BY <2>2, <5>1
      <4> QED BY <4>1
    <3> QED BY <2>1, <3>1 DEF Stored
  <2> QED BY <1>1, <2>1, <2>2, <2>3 DEF Insert, InMemory
<1>13. RowsBehindStats'
  <2>1. \A i \in 1..latest' : i # latest' => i \in 1..latest /\ rows'[i] = rows[i]
    BY <1>2, <1>5, <1>10
  <2> QED BY <1>1, <1>2, <1>9, <2>1 DEF Insert, IInv, RowsBehindStats, Complete
<1>14. StaleIsAlike'
  BY <1>1, <1>2, <1>5, <1>10 DEF Insert, IInv, TypeOK, StaleIsAlike, fetchNew
<1>15. OnlyLatestUnfinished'
  BY <1>1, <1>2, <1>10 DEF Insert, OnlyLatestUnfinished
<1>16. \A i \in 1..latest : rows'[i].season = rows[i].season
  BY <1>2, <1>5, <1>10
<1>17. rows'[latest'].season = season
  BY <1>5 DEF NewRow
<1>18. SeasonsClosed'
  BY <1>1, <1>2, <1>3, <1>16, <1>17 DEF Insert, IInv, SeasonsClosed, seasons
<1>19. ASSUME NEW i \in 1..(latest' - 1), rows'[i + 1].season # rows'[i].season
       PROVE  rows'[i + 1].season = rows'[i].season + 1 /\ Closed(i)'
  <2>1. CASE i = latest
    <3>1. season = Season + 1 /\ season = current /\ rows'[i].season = Season
      BY <1>1, <1>2, <1>16, <1>17, <1>19, <2>1 DEF Season
    <3>2. end_time[Season] # 0
      BY <3>1, RowFacts DEF IInv, SeasonsClosed, TypeOK, Seasons
    <3> QED BY <1>1, <1>2, <1>17, <2>1, <3>1, <3>2 DEF Insert, Closed, seasons
  <2>2. CASE i # latest
    BY <1>1, <1>2, <1>16, <1>19, <2>2 DEF Insert, IInv, SeasonsInOrder, Closed, seasons
  <2> QED BY <2>1, <2>2
<1> QED BY <1>1, <1>8, <1>11, <1>12, <1>14, <1>15, <1>18, <1>19, <1>13
        DEF IInv, Insert, SeasonsInOrder, seasons, fetchNew

\* The last step of a save.
LEMMA SaveRowIInv ==
  ASSUME IInv, SaveRow
  PROVE  IInv'
<1> DEFINE saved == [season |-> Season, status |-> COMPLETE,
                     data_time |-> ranking.data_time,
                     max_data_time |-> ranking.max_data_time]
<1>1. saved \in Row /\ saved.max_data_time = stats[latest] /\ saved # NoRow
  BY RowFacts DEF IInv, TypeOK, InMemory, SaveRow, Row, Object, NoRow, Seasons
<1>2. /\ \A i \in Rankings : i # latest => rows'[i] = rows[i]
      /\ rows'[latest] = saved
      /\ rows' \in [Rankings -> Row \cup {NoRow}]
      /\ UNCHANGED <<clock, seasons, fetchNew, latest, sources, data, stats, ranking>>
  BY <1>1, RowFacts DEF SaveRow, IInv, TypeOK
<1>3. saved.season = rows[latest].season /\ saved.status = COMPLETE
  BY DEF Season
<1> HIDE DEF saved
<1>4. \A i \in Rankings : rows'[i].season = rows[i].season
  BY <1>2, <1>3
<1>5. \A i \in Rankings : Complete(i) => Complete(i)'
  BY <1>2, <1>3 DEF Complete
<1>6. Complete(latest)'
  BY <1>2, <1>3 DEF Complete
<1>7. \A i \in Rankings : rows'[i] = NoRow <=> i > latest'
  BY <1>1, <1>2, RowFacts DEF IInv, TypeOK, Rankings
<1>8. TypeOK'
  BY <1>2, <1>7, TimeFacts, RowFacts DEF IInv, TypeOK, SaveRow, seasons, fetchNew
<1>9. TablesInOrder' /\ InMemory'
  BY <1>2, RowFacts DEF IInv, TablesInOrder, Stored, InMemory, SaveRow
<1>10. RowsBehindStats'
  BY <1>1, <1>2, RowFacts DEF IInv, RowsBehindStats, Complete
<1>11. StaleIsAlike'
  BY <1>2, <1>4, <1>5, RowFacts DEF IInv, TypeOK, StaleIsAlike, fetchNew
<1>12. OnlyLatestUnfinished'
  BY <1>2, <1>5, <1>6, RowFacts DEF IInv, OnlyLatestUnfinished
<1>13. SeasonsClosed' /\ SeasonsInOrder'
  BY <1>2, <1>4, RowFacts DEF IInv, SeasonsClosed, SeasonsInOrder, Closed, seasons
<1> QED BY <1>2, <1>8, <1>9, <1>10, <1>11, <1>12, <1>13 DEF IInv, seasons, fetchNew

\* Cleaning up removes an unfinished ranking, which fetch_new has not read.
LEMMA DeleteIInv ==
  ASSUME IInv, DeleteRanking
  PROVE  IInv'
<1>1. /\ latest' = latest - 1 /\ latest' \in Rankings /\ latest \in Nat
      /\ \A i \in Rankings : i # latest => rows'[i] = rows[i]
      /\ rows'[latest] = NoRow
      /\ rows' \in [Rankings -> Row \cup {NoRow}]
      /\ UNCHANGED <<clock, seasons, fetchNew, updater>>
  BY RowFacts DEF DeleteRanking, IInv, TypeOK
<1>2. latest \notin DOMAIN stale
  BY DEF DeleteRanking, IInv, StaleIsAlike, Complete, CREATED, COMPLETE
<1>3. \A i \in Rankings : rows'[i] = NoRow <=> i > latest'
  BY <1>1 DEF IInv, TypeOK, Rankings
<1>4. TypeOK'
  <2>1. ASSUME NEW i \in DOMAIN stale PROVE i \in 1..latest'
    <3>1. i \in 1..latest /\ i # latest
      BY <1>2 DEF IInv, TypeOK
    <3> QED BY <1>1, <3>1
  <2>2. /\ sources' \in [Rankings -> SUBSET Cache]
        /\ data' \in [Rankings -> Times]
        /\ stats' \in [Rankings -> Times]
    BY TimeFacts DEF IInv, TypeOK, DeleteRanking
  <2> QED BY <1>1, <1>3, <2>1, <2>2 DEF IInv, TypeOK, seasons, fetchNew, updater
<1>5. TablesInOrder' /\ InMemory'
  BY <1>1, RowFacts DEF IInv, TypeOK, TablesInOrder, Stored, InMemory, DeleteRanking, updater, Rankings
<1>6. RowsBehindStats'
  BY <1>1, RowFacts DEF IInv, TypeOK, RowsBehindStats, Complete, DeleteRanking
<1>7. StaleIsAlike'
  BY <1>1, <1>2, RowFacts DEF IInv, TypeOK, StaleIsAlike, Complete, DeleteRanking, fetchNew
<1>8. OnlyLatestUnfinished'
  BY <1>1, RowFacts DEF IInv, OnlyLatestUnfinished, Complete, DeleteRanking, updater
<1>9. SeasonsClosed' /\ SeasonsInOrder'
  BY <1>1, RowFacts DEF IInv, SeasonsClosed, SeasonsInOrder, Closed, seasons
<1> QED BY <1>1, <1>4, <1>5, <1>6, <1>7, <1>8, <1>9 DEF IInv, seasons, fetchNew

-----------------------------------------------------------------------------
\* fetch_new: what it reads, what it writes back and the steps that leave rows alone.
LEMMA FetchNewIInv ==
  ASSUME IInv, (\E end \in Ends : CloseBegin(end)) \/ CloseAbort \/ FindLadders
  PROVE  IInv'
<1>1. UNCHANGED <<clock, current, end_time, tables, updater>>
  BY DEF CloseBegin, CloseAbort, FindLadders, seasons
<1>2. /\ DOMAIN stale' \subseteq 1..latest
      /\ stale' \in [DOMAIN stale' -> Row]
      /\ \A i \in DOMAIN stale' : /\ Complete(i)
                                  /\ stale'[i].status = COMPLETE
                                  /\ stale'[i].season = rows[i].season
                                  /\ stale'[i].max_data_time <= stats[i]
  <2>1. CASE FindLadders
    BY <2>1 DEF FindLadders, fetchNew, IInv, TypeOK, StaleIsAlike
  <2>2. CASE CloseAbort
    BY <2>2 DEF CloseAbort, NoRows
  <2>3. CASE \E end \in Ends : CloseBegin(end)
    <3>1. /\ DOMAIN stale' \subseteq 1..latest
          /\ stale' = [i \in DOMAIN stale' |-> rows[i]]
          /\ \A i \in DOMAIN stale' : Complete(i)
      BY <2>3 DEF CloseBegin, Complete
    <3> QED BY <3>1, RowFacts DEF IInv, RowsBehindStats, Complete
  <2> QED BY <2>1, <2>2, <2>3
<1>3. /\ closing' \in Ends \cup {0} /\ (closing' # 0 => current < MaxSeason)
      /\ new_ladders' \in BOOLEAN
  BY DEF CloseBegin, CloseAbort, FindLadders, IInv, TypeOK, seasons, fetchNew
<1>4. TypeOK'
  BY <1>1, <1>2, <1>3, TimeFacts DEF IInv, TypeOK, tables, updater
<1>5. StaleIsAlike'
  BY <1>1, <1>2 DEF StaleIsAlike, Complete, tables
<1> QED BY <1>1, <1>3, <1>4, <1>5
        DEF IInv, TablesInOrder, Stored, RowsBehindStats, InMemory, OnlyLatestUnfinished,
            SeasonsClosed, SeasonsInOrder, Complete, Closed, tables, updater

\* The commit: it changes data times only, and closes the season.
LEMMA CloseCommitIInv ==
  ASSUME IInv, CloseCommit
  PROVE  IInv'
<1>1. closing \in Ends /\ closing \in Times /\ closing # 0 /\ current < MaxSeason
  BY TimeFacts DEF CloseCommit, IInv
<1>2. /\ UNCHANGED <<clock, latest, sources, data, stats, updater>>
      /\ current' = current + 1 /\ current' \in Seasons /\ current \in Seasons
      /\ end_time' = [end_time EXCEPT ![current] = closing]
      /\ closing' = 0 /\ new_ladders' = FALSE
      /\ stale' = NoRows /\ DOMAIN stale' = {}
  BY <1>1, RankingLifecycleAssumption DEF CloseCommit, IInv, TypeOK, Seasons, NoRows
<1>3. ASSUME NEW i \in DOMAIN stale
      PROVE  /\ i \in Rankings /\ i <= latest
             /\ rows'[i] = [stale[i] EXCEPT !.data_time = closing - Place(i)]
             /\ rows'[i] \in Row
             /\ rows'[i].season = rows[i].season
             /\ rows'[i].status = COMPLETE /\ Complete(i)
             /\ rows'[i].max_data_time <= stats[i]
  <2>1. i \in Rankings /\ i <= latest /\ stale[i] \in Row
    BY RowFacts DEF IInv, TypeOK
  <2>2. closing - Place(i) \in Times
    BY <1>1, PlaceFacts DEF IInv
  <2>3. rows'[i] = [stale[i] EXCEPT !.data_time = closing - Place(i)]
    BY <2>1 DEF CloseCommit
  <2> QED BY <2>1, <2>2, <2>3 DEF Row, IInv, StaleIsAlike
<1>4. \A i \in Rankings : i \notin DOMAIN stale => rows'[i] = rows[i]
  BY DEF CloseCommit
<1>5. \A i \in Rankings : /\ rows'[i] \in Row \cup {NoRow}
                          /\ rows'[i].season = rows[i].season
                          /\ rows'[i].status = COMPLETE <=> rows[i].status = COMPLETE
  BY <1>3, <1>4 DEF IInv, TypeOK, Complete
<1>6. \A i \in Rankings : rows'[i] = NoRow <=> i > latest'
  <2>1. NoRow \notin Row
    BY DEF NoRow, Row, Seasons
  <2> QED BY <1>2, <1>3, <1>4, <2>1, RowFacts DEF IInv, TypeOK, Rankings
<1>7. rows' \in [Rankings -> Row \cup {NoRow}]
  BY <1>5 DEF CloseCommit
<1>8. TypeOK'
  BY <1>1, <1>2, <1>6, <1>7, TimeFacts DEF IInv, TypeOK, updater, NoRows
<1>9. TablesInOrder' /\ InMemory' /\ StaleIsAlike'
  BY <1>2 DEF IInv, TablesInOrder, Stored, InMemory, StaleIsAlike, updater
<1>10. RowsBehindStats'
  BY <1>2, <1>3, <1>4, RowFacts DEF IInv, RowsBehindStats, Complete
<1>11. OnlyLatestUnfinished'
  BY <1>2, <1>5, RowFacts DEF IInv, OnlyLatestUnfinished, Complete, updater
<1>12. \A s \in Seasons : s <= current => end_time'[s] # 0
  BY <1>1, <1>2 DEF IInv, TypeOK, SeasonsClosed, Seasons
<1>13. \A i \in 1..latest : /\ rows'[i].season = rows[i].season
                            /\ rows[i].season \in Seasons /\ rows[i].season <= current
  <2>1. ASSUME NEW i \in 1..latest PROVE rows[i].season \in Seasons
    BY RowFacts DEF Row
  <2> QED BY <1>5, <2>1, RowFacts DEF IInv, SeasonsClosed
<1>14. SeasonsClosed'
  <2>1. \A i \in 1..latest' : rows'[i].season <= current'
    BY <1>2, <1>13 DEF Seasons
  <2>2. \A s \in Seasons : s < current' => s <= current
    BY <1>2 DEF Seasons
  <2> QED BY <1>12, <2>1, <2>2 DEF SeasonsClosed
<1>15. SeasonsInOrder'
  <2>1. \A i \in 1..(latest' - 1) : i \in 1..latest /\ i + 1 \in 1..latest
    BY <1>2, RowFacts
  <2>2. \A i \in 1..latest : Closed(i)'
    BY <1>12, <1>13 DEF Closed
  <2> QED BY <1>2, <1>13, <2>1, <2>2 DEF IInv, SeasonsInOrder
<1> QED BY <1>2, <1>8, <1>9, <1>10, <1>11, <1>14, <1>15 DEF IInv

-----------------------------------------------------------------------------
LEMMA StepIInv == IInv /\ [Next]_vars => IInv'
<1>1. IInv /\ UNCHANGED vars => IInv'
  BY DEF vars, seasons, fetchNew, tables, updater, IInv, TypeOK, TablesInOrder,
         Stored, RowsBehindStats, InMemory, StaleIsAlike, OnlyLatestUnfinished, SeasonsClosed,
         SeasonsInOrder, Complete, Closed
<1> QED BY <1>1, UpdaterIInv, SaveIInv, InsertIInv, SaveRowIInv, DeleteIInv, FetchNewIInv,
           CloseCommitIInv DEF Next

LEMMA Invariance == Spec => []IInv
BY InitIInv, StepIInv, PTL DEF Spec

\* Every table and every object in memory holds what it is declared to hold.
THEOREM TypeCorrect == Spec => []TypeOK
<1>1. IInv => TypeOK
  BY DEF IInv
<1> QED BY <1>1, Invariance, PTL

\* A usable ranking never claims newer data than is saved for it, and nothing is
\* saved that has not been stored, at whatever step of a save the process dies.
THEOREM PublicationOrderHolds == Spec => []PublicationOrder
<1>1. IInv => PublicationOrder
  BY RowFacts DEF IInv, RowsBehindStats, TablesInOrder, Stored, PublicationOrder
<1> QED BY <1>1, Invariance, PTL

\* Only the latest ranking may be unfinished, and the update process does not work
\* on an unfinished one.
THEOREM OnlyLatestUnfinishedHolds == Spec => []OnlyLatestUnfinished
<1>1. IInv => OnlyLatestUnfinished
  BY DEF IInv
<1> QED BY <1>1, Invariance, PTL

\* Rankings follow the seasons one by one, and leave a season only when it is closed.
THEOREM SeasonsInOrderHolds == Spec => []SeasonsInOrder
<1>1. IInv => SeasonsInOrder
  BY DEF IInv
<1> QED BY <1>1, Invariance, PTL


-----------------------------------------------------------------------------
(* Data times. *)

Saving == pc \in {"save_data", "save_stats", "save_row"}
SameSeasonAs(i, j) == rows[i].season = rows[j].season

\* Fetches happen at whole ticks, the two of the initial state included.
Fetches == {Tick * n : n \in 0..(MaxClock + 1)}
WholeTicks ==
  /\ clock \in Fetches /\ team_ranks \in Fetches
  /\ \A i \in Rankings : /\ \A c \in sources[i] : c.updated \in Fetches
                         /\ data[i] \in Fetches
  /\ \A i \in 1..latest : Complete(i) => rows[i].max_data_time \in Fetches
  /\ \A i \in DOMAIN stale : stale[i].max_data_time \in Fetches

SeasonsAscend == \A i, j \in 1..latest : i < j => rows[i].season <= rows[j].season

CurrentIsOpen == \A s \in Seasons : s >= current => end_time[s] = 0

\* A data time is that of the newest data as long as the season is open, and never a
\* later one.
DataTimesMeant ==
  \A i \in 1..latest : Complete(i) =>
    /\ rows[i].data_time <= rows[i].max_data_time
    /\ ~Closed(i) => rows[i].data_time = rows[i].max_data_time

\* The object being saved has that time, or the end of its season.
ObjectMeant ==
  Saving => /\ ranking.data_time <= ranking.max_data_time
            /\ \/ ranking.data_time = ranking.max_data_time
               \/ Closed(latest) /\ ranking.data_time = end_time[Season]

\* What create_new_season has read is of the current season and beyond its end, and it
\* has left out only rankings of that season that are a tick before the end, or later
\* than all it has read.
StaleIsBeyondEnd ==
  \A j \in DOMAIN stale :
    /\ stale[j].season = current
    /\ closing <= stale[j].max_data_time
    /\ \A i \in 1..latest : i < j /\ i \notin DOMAIN stale /\ rows[i].season = current =>
         rows[i].data_time + Tick <= closing

TimesInv ==
  /\ WholeTicks
  /\ SeasonsAscend
  /\ CurrentIsOpen
  /\ DataTimesMeant
  /\ ObjectMeant
  /\ StaleIsBeyondEnd
  /\ Complete(1)
  /\ InOrderOfData

-----------------------------------------------------------------------------
\* A fetch before the end of a season is a whole tick before it.
LEMMA FetchFacts ==
  /\ Fetches \subseteq Nat /\ 0 \in Fetches /\ Tick \in Fetches /\ Tick \in Nat
  /\ \A t \in Fetches : t < Tick * MaxClock => t + Tick \in Fetches
  /\ \A t \in Fetches, e \in Ends : t < e => t + Tick <= e
<1>1. /\ MaxClock \in Nat /\ MaxClock >= 1 /\ Tick \in Nat /\ Tick >= 2
  BY RankingLifecycleAssumption DEF Tick
<1>2. ASSUME NEW n \in Nat PROVE Tick * n \in Nat /\ Tick * n + Tick = Tick * (n + 1)
  BY <1>1, SMT
<1>3. ASSUME NEW n \in Nat, NEW m \in Nat, Tick * n < Tick * m PROVE n < m
  <2>1. CASE n >= m
    <3>1. PICK d \in Nat : n = m + d
      <4>1. n - m \in Nat /\ n = m + (n - m)
        BY <2>1
      <4> QED BY <4>1
    <3>2. Tick * n = Tick * m + Tick * d /\ Tick * d >= 0 /\ Tick * m \in Nat /\ Tick * d \in Nat
      BY <1>1, <3>1, SMT
    <3>3. Tick * n \in Nat
      BY <1>2
    <3> QED BY <1>3, <3>2, <3>3
  <2> QED BY <2>1
<1>4. ASSUME NEW n \in Nat, NEW m \in Nat, n < m PROVE Tick * n + Tick <= Tick * m
  <2>1. PICK d \in Nat : m = n + 1 + d
    <3>1. m - n - 1 \in Nat /\ m = n + 1 + (m - n - 1)
      BY <1>4
    <3> QED BY <3>1
  <2>2. /\ Tick * m = Tick * (n + 1) + Tick * d
        /\ Tick * (n + 1) \in Nat /\ Tick * d \in Nat /\ Tick * d >= 0
    BY <1>1, <2>1, SMT
  <2>3. Tick * n + Tick = Tick * (n + 1)
    BY <1>2
  <2> QED BY <2>2, <2>3
<1>5. Fetches \subseteq Nat /\ 0 \in Fetches /\ Tick \in Fetches
  <2>1. Fetches \subseteq Nat
    BY <1>1, <1>2 DEF Fetches
  <2>2. Tick * 0 = 0 /\ Tick * 1 = Tick
    BY <1>1, SMT
  <2>3. 0 \in 0..(MaxClock + 1) /\ 1 \in 0..(MaxClock + 1)
    BY <1>1
  <2> QED BY <2>1, <2>2, <2>3 DEF Fetches
<1>6. ASSUME NEW t \in Fetches, t < Tick * MaxClock PROVE t + Tick \in Fetches
  <2>1. PICK n \in 0..(MaxClock + 1) : t = Tick * n
    BY DEF Fetches
  <2>2. n < MaxClock
    BY <1>1, <1>3, <1>6, <2>1
  <2>3. n + 1 \in 0..(MaxClock + 1) /\ t + Tick = Tick * (n + 1)
    BY <1>1, <1>2, <2>1, <2>2
  <2> QED BY <2>3 DEF Fetches
<1>7. ASSUME NEW t \in Fetches, NEW e \in Ends, t < e PROVE t + Tick <= e
  <2>1. PICK n \in 0..(MaxClock + 1) : t = Tick * n
    BY DEF Fetches
  <2>2. PICK m \in 1..(MaxClock + 1) : e = Tick * m
    BY DEF Ends
  <2>3. n \in Nat /\ m \in Nat
    BY <1>1
  <2>4. n < m
    BY <1>3, <1>7, <2>1, <2>2, <2>3
  <2> QED BY <1>4, <2>1, <2>2, <2>3, <2>4
<1> QED BY <1>1, <1>5, <1>6, <1>7

LEMMA TwoTicks == Tick * 2 \in Fetches
<1>1. 2 \in 0..(MaxClock + 1)
  BY RankingLifecycleAssumption
<1> QED BY <1>1 DEF Fetches

\* What is compared below are numbers.
LEMMA NumberFacts ==
  ASSUME IInv
  PROVE  /\ latest \in Nat /\ latest >= 1 /\ current \in Nat /\ closing \in Nat
         /\ \A i \in 1..latest : /\ i \in Nat /\ i \in Rankings
                                 /\ rows[i].data_time \in Nat /\ rows[i].max_data_time \in Nat
                                 /\ rows[i].season \in Seasons /\ rows[i].season \in Nat
                                 /\ data[i] \in Nat /\ stats[i] \in Nat
         /\ \A s \in Seasons : end_time[s] \in Nat /\ s \in Nat
         /\ \A i \in DOMAIN stale : /\ i \in 1..latest /\ Complete(i)
                                    /\ stale[i].max_data_time \in Nat
                                    /\ stale[i].season = rows[i].season
         /\ ranking.data_time \in Nat /\ ranking.max_data_time \in Nat
         /\ team_ranks \in Nat /\ clock \in Nat
         /\ \A i \in 1..(latest - 1) : i \in 1..latest /\ i < latest /\ Complete(i)
         /\ latest \in 1..latest
<1>1. \A i \in 1..latest : rows[i] \in Row
  BY RowFacts
<1>2. \A i \in 1..latest : /\ rows[i].data_time \in Nat
                           /\ rows[i].season \in Seasons /\ rows[i].season \in Nat
  <2>1. ASSUME NEW i \in 1..latest
        PROVE  rows[i].data_time \in Times /\ rows[i].season \in Seasons
    <3>1. rows[i] \in Row
      BY <1>1
    <3> QED BY <3>1 DEF Row
  <2>2. Seasons \subseteq Nat
    BY DEF Seasons
  <2> QED BY <2>1, <2>2, TimeFacts
<1>3. \A i \in DOMAIN stale : /\ i \in 1..latest /\ Complete(i)
                              /\ stale[i].max_data_time \in Nat
                              /\ stale[i].season = rows[i].season
  BY TimeFacts DEF IInv, TypeOK, StaleIsAlike, Row
<1>4. ranking.data_time \in Nat /\ ranking.max_data_time \in Nat
  BY TimeFacts DEF IInv, TypeOK, Object
<1>5. \A s \in Seasons : end_time[s] \in Nat /\ s \in Nat
  BY TimeFacts DEF IInv, TypeOK, Seasons
<1>6. current \in Nat /\ closing \in Nat
  BY TimeFacts DEF IInv, TypeOK, Seasons
<1>7. \A i \in 1..latest : i \in Nat /\ i \in Rankings
  BY RowFacts
<1>8. \A i \in 1..(latest - 1) : i \in 1..latest /\ i < latest /\ Complete(i)
  BY RowFacts DEF IInv, OnlyLatestUnfinished
<1> QED BY <1>2, <1>3, <1>4, <1>5, <1>6, <1>7, <1>8, RowFacts

LEMMA InitTimesInv == Init => TimesInv
<1> SUFFICES ASSUME Init PROVE TimesInv
  OBVIOUS
<1>1. /\ 1 \in Rankings /\ rows[1].data_time = clock /\ rows[1].max_data_time = clock
      /\ clock = Tick * 2 /\ clock \in Nat
  BY RankingLifecycleAssumption, TimeFacts DEF Init, Rankings
<1>2. DOMAIN stale = {} /\ latest = 1 /\ pc = "down"
  BY DEF Init, NoRows
<1>3. \A i \in 1..1 : i = 1
  OBVIOUS
<1>4. WholeTicks
  <2>1. clock \in Fetches
    BY <1>1, TwoTicks
  <2>2. \A i \in Rankings : \A c \in sources[i] : c.updated \in Fetches
    <3>1. \A n \in 1..2 : Tick * n \in Fetches
      <4>1. \A n \in 1..2 : n = 1 \/ n = 2
        OBVIOUS
      <4>2. Tick * 1 = Tick
        BY FetchFacts
      <4> QED BY <4>1, <4>2, FetchFacts, TwoTicks
    <3> DEFINE first == {[updated |-> Tick * n, teams |-> TRUE] : n \in 1..2}
    <3>2. \A c \in first : c.updated \in Fetches
      BY <3>1
    <3>3. \A i \in Rankings : sources[i] = IF i = 1 THEN first ELSE {}
      BY DEF Init
    <3> HIDE DEF first
    <3> QED BY <3>2, <3>3
  <2>3. team_ranks = 0 /\ \A i \in Rankings : data[i] = 0 \/ data[i] = clock
    BY DEF Init
  <2> QED BY <1>1, <1>2, <1>3, <2>1, <2>2, <2>3, FetchFacts DEF WholeTicks
<1>5. DataTimesMeant
  BY <1>1, <1>2, <1>3 DEF DataTimesMeant
<1>6. SeasonsAscend /\ InOrderOfData
  BY <1>1, <1>2, <1>3 DEF SeasonsAscend, InOrderOfData
<1>7. Complete(1)
  BY <1>1 DEF Init, Complete
<1> QED BY <1>2, <1>4, <1>5, <1>6, <1>7
        DEF Init, TimesInv, CurrentIsOpen, ObjectMeant, Saving, StaleIsBeyondEnd

\* The conjuncts about rows alone.
LEMMA TimesUnchanged ==
  ASSUME TimesInv, UNCHANGED <<latest, rows, current, end_time, closing, stale>>
  PROVE  /\ SeasonsAscend' /\ CurrentIsOpen' /\ DataTimesMeant'
         /\ StaleIsBeyondEnd' /\ Complete(1)' /\ InOrderOfData'
BY DEF TimesInv, SeasonsAscend, CurrentIsOpen, DataTimesMeant, StaleIsBeyondEnd, InOrderOfData,
       Complete, Closed, WithinSeason

\* The update process outside of a save, and the steps of a save that change no row.
LEMMA UpdaterTimes ==
  ASSUME IInv, TimesInv,
         \/ Start \/ Continue \/ SeasonSkipped \/ UpdateLadder \/ Exit
         \/ PeriodicSave \/ UntilReached \/ SeasonCheck \/ SaveData \/ SaveStats
  PROVE  TimesInv'
<1>1. UNCHANGED <<latest, rows, current, end_time, closing, stale>>
  BY DEF Start, Continue, SeasonSkipped, UpdateLadder, Exit, PeriodicSave, UntilReached,
         SeasonCheck, BeginSave, SaveData, SaveStats, seasons, fetchNew, tables
<1>2. WholeTicks'
  <2>1. \A i \in 1..latest : (Complete(i)' <=> Complete(i))
    BY <1>1 DEF Complete
  <2>2. clock' \in Fetches /\ team_ranks' \in Fetches
    BY FetchFacts, NumberFacts
       DEF Start, Continue, Loaded, SeasonSkipped, UpdateLadder, Exit, PeriodicSave,
           UntilReached, SeasonCheck, BeginSave, SaveData, SaveStats, TimesInv, WholeTicks
  <2>3. \A i \in Rankings : (\A c \in sources'[i] : c.updated \in Fetches) /\ data'[i] \in Fetches
    <3>1. CASE UpdateLadder
      <4>1. PICK old \in SUBSET sources[latest], teams \in BOOLEAN :
              sources' = [sources EXCEPT ![latest] =
                           (@ \ old) \cup {[updated |-> clock + Tick, teams |-> teams]}]
        BY <3>1 DEF UpdateLadder
      <4>2. clock + Tick \in Fetches /\ data' = data
        BY <3>1, FetchFacts DEF UpdateLadder, TimesInv, WholeTicks
      <4> DEFINE new == [updated |-> clock + Tick, teams |-> teams]
      <4>3. new.updated \in Fetches
        BY <4>2
      <4> HIDE DEF new
      <4>4. \A i \in Rankings :
              sources'[i] = IF i = latest THEN (sources[i] \ old) \cup {new} ELSE sources[i]
        BY <4>1, NumberFacts DEF IInv, TypeOK, new
      <4> QED BY <4>2, <4>3, <4>4 DEF TimesInv, WholeTicks
    <3>2. CASE Start \/ Continue \/ SeasonSkipped \/ Exit \/ PeriodicSave \/ UntilReached
               \/ SeasonCheck \/ SaveData \/ SaveStats
      BY <3>2, FetchFacts, NumberFacts
         DEF Start, Continue, SeasonSkipped, Exit, PeriodicSave, UntilReached,
             SeasonCheck, BeginSave, SaveData, SaveStats, TimesInv, WholeTicks, tables,
             IInv, TypeOK
    <3> QED BY <3>1, <3>2
  <2> QED BY <1>1, <2>1, <2>2, <2>3 DEF TimesInv, WholeTicks
<1>4. ObjectMeant'
  <2>1. CASE PeriodicSave \/ UntilReached \/ SeasonCheck
    <3>1. ranking' = [data_time |-> DataTime, max_data_time |-> MaxDataTime]
      BY <2>1 DEF PeriodicSave, UntilReached, SeasonCheck, BeginSave
    <3>2. /\ ranking'.data_time = DataTime /\ ranking'.max_data_time = team_ranks
      BY <3>1 DEF MaxDataTime
    <3>3. end_time[Season] \in Nat /\ Season = rows[latest].season
      BY NumberFacts DEF Season
    <3> QED BY <1>1, <3>2, <3>3, NumberFacts DEF ObjectMeant, DataTime, Closed, Season
  <2>2. CASE SaveData \/ SaveStats
    BY <1>1, <2>2 DEF SaveData, SaveStats, TimesInv, ObjectMeant, Saving, Closed, Season
  <2>3. CASE Start \/ Continue \/ SeasonSkipped \/ UpdateLadder \/ Exit
    BY <2>3 DEF Start, Continue, SeasonSkipped, UpdateLadder, Exit, ObjectMeant, Saving
  <2> QED BY <2>1, <2>2, <2>3
<1> QED BY <1>1, <1>2, <1>4, TimesUnchanged DEF TimesInv

\* A new ranking, which says nothing yet.
LEMMA InsertTimes ==
  ASSUME IInv, TimesInv, NewRankingOfSeason \/ NewRankingInSeason
  PROVE  TimesInv'
<1>1. PICK season, times, copied, made :
        /\ pc = "choosing"
        /\ Insert(season, times, copied, made)
        /\ \A c \in copied : c.updated \in Fetches
        /\ made \in Fetches
        /\ season = Season \/ season = Season + 1
  <2>1. CASE NewRankingOfSeason
    BY <2>1, FetchFacts DEF NewRankingOfSeason, NextHasBegun
  <2>2. CASE NewRankingInSeason
    <3>1. PICK made \in MadeOf(sources[latest]) : Insert(Season, ranking, sources[latest], made)
      BY <2>2 DEF NewRankingInSeason
    <3>2. \A c \in sources[latest] : c.updated \in Fetches
      BY NumberFacts DEF TimesInv, WholeTicks
    <3>3. made \in Fetches
      BY <3>2, MadeFacts, FetchFacts
    <3>4. pc = "choosing"
      BY <2>2 DEF NewRankingInSeason
    <3> QED BY <3>1, <3>2, <3>3, <3>4
  <2> QED BY <2>1, <2>2
<1>2. /\ latest' = latest + 1 /\ latest' \in Rankings
      /\ UNCHANGED <<clock, current, end_time, closing, stale, data, stats>>
      /\ team_ranks' = made /\ pc' = "created"
  BY <1>1, NumberFacts, RankingLifecycleAssumption
     DEF Insert, seasons, fetchNew, Rankings
<1>3. /\ \A i \in 1..latest : i # latest' /\ rows'[i] = rows[i] /\ sources'[i] = sources[i]
      /\ rows'[latest'] = NewRow(season, times) /\ sources'[latest'] = copied
      /\ \A i \in Rankings : sources'[i] = IF i = latest' THEN copied ELSE sources[i]
  BY <1>1, <1>2, NumberFacts DEF Insert, IInv, TypeOK
<1>4. ~Complete(latest)' /\ rows'[latest'].season = season
  BY <1>3 DEF Complete, NewRow, CREATED, COMPLETE
<1>5. \A i \in 1..latest' : i # latest' => i \in 1..latest
  BY <1>2, NumberFacts
<1>6. \A i \in 1..latest' : Complete(i)' => i \in 1..latest /\ Complete(i)
  BY <1>3, <1>4, <1>5 DEF Complete
<1>7. \A i \in 1..latest : (Closed(i)' <=> Closed(i)) /\ (WithinSeason(i)' <=> WithinSeason(i))
  BY <1>2, <1>3 DEF Closed, WithinSeason
<1>8. WholeTicks'
  BY <1>1, <1>2, <1>3, <1>6 DEF TimesInv, WholeTicks
<1>10. DataTimesMeant'
  BY <1>3, <1>6, <1>7 DEF TimesInv, DataTimesMeant
<1>11. StaleIsBeyondEnd'
  <2>1. ASSUME NEW j \in DOMAIN stale, NEW i \in 1..latest', i < j PROVE i \in 1..latest
    BY <2>1, NumberFacts
  <2> QED BY <1>2, <1>3, <2>1 DEF TimesInv, StaleIsBeyondEnd
<1>12. InOrderOfData'
  BY <1>3, <1>6, <1>7 DEF TimesInv, InOrderOfData
<1>13. SeasonsAscend'
  <2>1. season >= Season
    BY <1>1, NumberFacts DEF Season
  <2>2. ASSUME NEW i \in 1..latest PROVE rows[i].season <= Season
    <3>1. i = latest \/ i < latest
      BY NumberFacts
    <3> QED BY <3>1, NumberFacts DEF TimesInv, SeasonsAscend, Season
  <2>3. season \in Nat /\ Season \in Nat
    BY <1>1, NumberFacts DEF Season
  <2>4. ASSUME NEW i \in 1..latest', NEW j \in 1..latest', i < j
        PROVE  rows'[i].season <= rows'[j].season
    <3>1. i \in 1..latest
      BY <1>2, <2>4, NumberFacts
    <3>2. CASE j = latest'
      BY <1>3, <1>4, <2>1, <2>2, <2>3, <3>1, <3>2, NumberFacts
    <3>3. CASE j # latest'
      BY <1>3, <1>5, <2>4, <3>1, <3>3 DEF TimesInv, SeasonsAscend
    <3> QED BY <3>2, <3>3
  <2> QED BY <2>4 DEF SeasonsAscend
<1>14. Complete(1)'
  <2>1. 1 \in 1..latest
    BY NumberFacts
  <2> QED BY <1>3, <2>1 DEF TimesInv, Complete
<1> QED BY <1>2, <1>8, <1>10, <1>11, <1>12, <1>13, <1>14
        DEF TimesInv, CurrentIsOpen, ObjectMeant, Saving

\* The row of the latest ranking is written: with the newest time there is in it, or
\* with the end of its season.
LEMMA SaveRowTimes ==
  ASSUME IInv, TimesInv, SaveRow
  PROVE  TimesInv'
<1> DEFINE saved == [season |-> Season, status |-> COMPLETE,
                     data_time |-> ranking.data_time,
                     max_data_time |-> ranking.max_data_time]
<1>1. /\ UNCHANGED <<clock, latest, current, end_time, closing, stale, sources, data>>
      /\ rows'[latest] = saved
      /\ \A i \in Rankings : i # latest => rows'[i] = rows[i]
      /\ pc' \in {"choosing", "updating"}
      /\ team_ranks' = team_ranks \/ (team_ranks' = 0 /\ pc' = "choosing")
  <2>1. latest \in Rankings /\ rows \in [Rankings -> Row \cup {NoRow}]
    BY RowFacts DEF IInv, TypeOK
  <2>2. rows' = [rows EXCEPT ![latest] = saved]
    BY DEF SaveRow
  <2> HIDE DEF saved
  <2>3. rows'[latest] = saved /\ \A i \in Rankings : i # latest => rows'[i] = rows[i]
    BY <2>1, <2>2
  <2>4. /\ pc' \in {"choosing", "updating"}
        /\ team_ranks' = team_ranks \/ (team_ranks' = 0 /\ pc' = "choosing")
    <3>1. CASE final
      BY <3>1 DEF SaveRow
    <3>2. CASE ~final
      <4>1. pc' = (IF final THEN "choosing" ELSE "updating")
            /\ team_ranks' = (IF final THEN 0 ELSE team_ranks)
        BY DEF SaveRow
      <4> QED BY <3>2, <4>1
    <3> QED BY <3>1, <3>2
  <2> QED BY <2>3, <2>4 DEF SaveRow, seasons, fetchNew
<1>2. /\ saved.season = rows[latest].season /\ saved.data_time = ranking.data_time
      /\ saved.max_data_time = team_ranks /\ ranking.max_data_time = team_ranks
  BY DEF SaveRow, IInv, InMemory, Season
<1> HIDE DEF saved
<1>3. /\ ranking.data_time <= team_ranks
      /\ \/ ranking.data_time = team_ranks
         \/ Closed(latest) /\ ranking.data_time = end_time[rows[latest].season]
  BY <1>2 DEF SaveRow, TimesInv, ObjectMeant, Saving, Season
<1>4. \A i \in 1..latest : /\ rows'[i].season = rows[i].season
                           /\ Closed(i)' <=> Closed(i)
                           /\ i < latest => /\ rows'[i] = rows[i]
                                            /\ Complete(i)' <=> Complete(i)
                                            /\ WithinSeason(i)' <=> WithinSeason(i)
  BY <1>1, <1>2, NumberFacts DEF Closed, Complete, WithinSeason
<1>6. \A i \in 1..latest : i < latest => i \in 1..(latest - 1)
  BY NumberFacts
<1>7. \A i \in 1..latest : i <= latest /\ (i # latest => i < latest)
  BY NumberFacts
<1>8. WholeTicks'
  BY <1>1, <1>2, <1>4, <1>7, FetchFacts DEF TimesInv, WholeTicks
<1>10. DataTimesMeant'
  BY <1>1, <1>2, <1>3, <1>4, <1>7 DEF TimesInv, DataTimesMeant
<1>11. StaleIsBeyondEnd'
  <2>1. ASSUME NEW j \in DOMAIN stale, NEW i \in 1..latest, i < j PROVE i < latest
    BY <2>1, NumberFacts
  <2> QED BY <1>1, <1>4, <2>1 DEF TimesInv, StaleIsBeyondEnd
<1>12. InOrderOfData'
  <2>1. ASSUME NEW i \in 1..latest, NEW j \in 1..latest, i < j,
               SameSeasonAs(i, j), Complete(i)', Complete(j)',
               rows'[i].max_data_time <= rows'[j].max_data_time,
               Closed(i) => WithinSeason(i)'
        PROVE  rows'[i].data_time <= rows'[j].data_time
    <3>1. i < latest /\ rows'[i] = rows[i] /\ Complete(i)
          /\ (WithinSeason(i)' <=> WithinSeason(i))
      BY <1>4, <2>1, NumberFacts
    <3>2. CASE j # latest
      BY <1>4, <1>7, <2>1, <3>1, <3>2 DEF TimesInv, InOrderOfData, SameSeasonAs
    <3>3. CASE j = latest
      <4>1. /\ rows[i].data_time <= rows[i].max_data_time
            /\ rows[i].max_data_time <= team_ranks
        BY <1>1, <1>2, <2>1, <3>1, <3>3 DEF TimesInv, DataTimesMeant
      <4>2. CASE ranking.data_time = team_ranks
        BY <1>1, <1>2, <3>1, <3>3, <4>1, <4>2, NumberFacts
      <4>3. CASE Closed(latest) /\ ranking.data_time = end_time[rows[latest].season]
        BY <1>1, <1>2, <2>1, <3>1, <3>3, <4>3 DEF Closed, WithinSeason, SameSeasonAs
      <4> QED BY <1>3, <4>2, <4>3
    <3> QED BY <3>2, <3>3
  <2> QED BY <1>1, <1>4, <2>1 DEF InOrderOfData, SameSeasonAs
<1>13. SeasonsAscend'
  BY <1>1, <1>4 DEF TimesInv, SeasonsAscend
<1>14. Complete(1)'
  <2>1. 1 \in 1..latest /\ rows'[latest].status = COMPLETE
    BY NumberFacts DEF SaveRow, IInv, TypeOK
  <2>2. CASE latest = 1
    BY <2>1, <2>2 DEF Complete
  <2>3. CASE latest # 1
    BY <1>4, <1>7, <2>1, <2>3 DEF TimesInv
  <2> QED BY <2>2, <2>3
<1> QED BY <1>1, <1>8, <1>10, <1>11, <1>12, <1>13, <1>14
        DEF TimesInv, CurrentIsOpen, ObjectMeant, Saving
\* Cleaning up takes away an unfinished ranking.
LEMMA DeleteTimes ==
  ASSUME IInv, TimesInv, DeleteRanking
  PROVE  TimesInv'
<1>1. /\ latest' = latest - 1 /\ pc = "down" /\ pc' = "down"
      /\ UNCHANGED <<clock, team_ranks, current, end_time, closing, stale>>
      /\ \A i \in 1..latest' : /\ i \in 1..latest /\ i # latest
                               /\ rows'[i] = rows[i] /\ sources'[i] = sources[i]
      /\ \A i \in Rankings : /\ sources'[i] = sources[i] \/ sources'[i] = {}
                             /\ data'[i] = data[i] \/ data'[i] = 0
  BY NumberFacts DEF DeleteRanking, IInv, TypeOK, seasons, fetchNew, updater
<1>2. \A i \in 1..latest' : /\ Complete(i)' <=> Complete(i)
                            /\ Closed(i)' <=> Closed(i)
                            /\ WithinSeason(i)' <=> WithinSeason(i)
  BY <1>1 DEF Complete, Closed, WithinSeason
<1>3. WholeTicks'
  BY <1>1, <1>2, FetchFacts DEF TimesInv, WholeTicks
<1>4. SeasonsAscend'
  BY <1>1 DEF TimesInv, SeasonsAscend
<1>5. DataTimesMeant' /\ InOrderOfData'
  BY <1>1, <1>2 DEF TimesInv, DataTimesMeant, InOrderOfData
<1>6. StaleIsBeyondEnd'
  BY <1>1 DEF TimesInv, StaleIsBeyondEnd
<1>7. Complete(1)'
  <2>1. 1 \in 1..latest'
    BY <1>1, NumberFacts DEF DeleteRanking
  <2> QED BY <1>2, <2>1 DEF TimesInv
<1> QED BY <1>1, <1>3, <1>4, <1>5, <1>6, <1>7
        DEF TimesInv, CurrentIsOpen, ObjectMeant, Saving

-----------------------------------------------------------------------------
\* What create_new_season reads is all of the open season that is beyond its end.
LEMMA CloseBeginTimes ==
  ASSUME IInv, TimesInv, NEW end \in Ends, CloseBegin(end)
  PROVE  TimesInv'
<1>1. /\ UNCHANGED <<clock, current, end_time, latest, rows, sources, data, pc,
                     team_ranks, ranking>>
      /\ closing' = end /\ end \in Nat
  BY TimeFacts DEF CloseBegin, seasons, tables, updater
<1>2. /\ \A i \in DOMAIN stale' : /\ i \in 1..latest /\ stale'[i] = rows[i]
                                  /\ rows[i].season = current /\ Complete(i)
                                  /\ rows[i].data_time >= end
      /\ \A i \in 1..latest :
           rows[i].season = current /\ Complete(i) /\ rows[i].data_time >= end
             => i \in DOMAIN stale'
  BY DEF CloseBegin, Complete
<1>3. \A i \in 1..latest : Complete(i) /\ rows[i].season = current =>
        rows[i].data_time = rows[i].max_data_time /\ rows[i].data_time \in Fetches
  <2>1. current \in Seasons /\ end_time[current] = 0
    BY NumberFacts DEF IInv, TypeOK, TimesInv, CurrentIsOpen
  <2> QED BY <2>1 DEF TimesInv, DataTimesMeant, WholeTicks, Closed
<1>4. WholeTicks'
  BY <1>1, <1>2 DEF TimesInv, WholeTicks, Complete
<1>6. StaleIsBeyondEnd'
  <2>1. ASSUME NEW j \in DOMAIN stale'
        PROVE  stale'[j].season = current /\ end <= stale'[j].max_data_time
    BY <1>2, <1>3, <2>1
  <2>2. ASSUME NEW j \in DOMAIN stale', NEW i \in 1..latest, i < j,
               i \notin DOMAIN stale', rows[i].season = current
        PROVE  rows[i].data_time + Tick <= end
    <3>1. j \in 1..latest
      BY <1>2
    <3>2. Complete(i)
      BY <2>2, <3>1, NumberFacts
    <3>3. rows[i].data_time \in Fetches /\ rows[i].data_time < end
      BY <1>1, <1>2, <1>3, <2>2, <3>2, NumberFacts
    <3> QED BY <3>3, FetchFacts
  <2> QED BY <1>1, <2>1, <2>2 DEF StaleIsBeyondEnd
<1> QED BY <1>1, <1>4, <1>6
        DEF TimesInv, SeasonsAscend, CurrentIsOpen, DataTimesMeant, ObjectMeant, Saving,
            InOrderOfData, Complete, Closed, WithinSeason, Season

\* The places that the corrected rankings get are small, and those of older ones greater.
LEMMA PlacesDescend ==
  ASSUME IInv, NEW i \in DOMAIN stale
  PROVE  /\ Place(i) \in Nat /\ Place(i) <= MaxRanking
         /\ \A j \in DOMAIN stale : i < j => Place(j) <= Place(i)
<1>1. MaxRanking \in Nat
  BY RankingLifecycleAssumption
<1>2. DOMAIN stale \subseteq 1..MaxRanking
  BY NumberFacts DEF Rankings
<1>3. ASSUME NEW k \in DOMAIN stale
      PROVE  /\ IsFiniteSet({j \in DOMAIN stale : j > k})
             /\ Place(k) \in Nat /\ Place(k) <= MaxRanking
  <2> DEFINE later == {j \in DOMAIN stale : j > k}
  <2>1. later \in SUBSET (1..MaxRanking)
    BY <1>2
  <2>2. /\ IsFiniteSet(1..MaxRanking)
        /\ Cardinality(1..MaxRanking) = IF 1 > MaxRanking THEN 0 ELSE MaxRanking - 1 + 1
    BY <1>1, FS_Interval
  <2>3. Place(k) = Cardinality(later)
    BY DEF Place
  <2> HIDE DEF later
  <2>4. IsFiniteSet(later) /\ Cardinality(later) <= Cardinality(1..MaxRanking)
    BY <2>1, <2>2, FS_Subset
  <2>5. Cardinality(later) \in Nat
    BY <2>4, FS_CardinalityType
  <2>6. Cardinality(later) <= MaxRanking
    BY <1>1, <2>2, <2>4, <2>5
  <2>7. IsFiniteSet(later) /\ Place(k) \in Nat /\ Place(k) <= MaxRanking
    BY <2>3, <2>4, <2>5, <2>6
  <2> QED BY <2>7 DEF later
<1>4. ASSUME NEW j \in DOMAIN stale, i < j
      PROVE  Place(j) <= Place(i)
  <2>1. {k \in DOMAIN stale : k > j} \in SUBSET {k \in DOMAIN stale : k > i}
    BY <1>4, NumberFacts
  <2> QED BY <1>3, <2>1, FS_Subset DEF Place
<1> QED BY <1>3, <1>4

\* The season is closed, and what is beyond its end gets times up to the end.
LEMMA CloseCommitTimes ==
  ASSUME IInv, TimesInv, CloseCommit
  PROVE  TimesInv'
<1>1. /\ closing \in Ends /\ closing \in Nat /\ closing # 0
      /\ current \in Seasons /\ current + 1 \in Seasons /\ current' = current + 1
      /\ end_time' = [end_time EXCEPT ![current] = closing]
      /\ UNCHANGED <<clock, latest, sources, data, pc, team_ranks, ranking>>
      /\ DOMAIN stale' = {}
  <2>1. closing \in Ends /\ closing \in Nat /\ closing # 0
    BY NumberFacts DEF CloseCommit, IInv
  <2>2. current \in Seasons /\ current + 1 \in Seasons
    BY <2>1, RankingLifecycleAssumption DEF IInv, TypeOK, Seasons
  <2> QED BY <2>1, <2>2 DEF CloseCommit, NoRows, updater
<1>2. /\ end_time'[current] = closing
      /\ \A s \in Seasons : s # current => end_time'[s] = end_time[s]
      /\ end_time[current] = 0
  BY <1>1, NumberFacts DEF IInv, TypeOK, TimesInv, CurrentIsOpen
<1>3. ASSUME NEW i \in DOMAIN stale
      PROVE  /\ i \in 1..latest /\ Complete(i) /\ Complete(i)'
             /\ rows'[i].season = current /\ rows[i].season = current
             /\ rows'[i].data_time = closing - Place(i)
             /\ rows'[i].max_data_time = stale[i].max_data_time
             /\ closing <= stale[i].max_data_time
  <2>1. i \in 1..latest /\ Complete(i) /\ stale[i] \in Row
    BY NumberFacts DEF IInv, TypeOK
  <2>2. rows'[i] = [stale[i] EXCEPT !.data_time = closing - Place(i)]
    BY <2>1, NumberFacts DEF CloseCommit
  <2>3. /\ rows'[i].data_time = closing - Place(i)
        /\ rows'[i].max_data_time = stale[i].max_data_time
        /\ rows'[i].season = stale[i].season /\ rows'[i].status = stale[i].status
    BY <2>1, <2>2 DEF Row
  <2>4. stale[i].season = current /\ rows[i].season = current
        /\ closing <= stale[i].max_data_time
    BY NumberFacts DEF TimesInv, StaleIsBeyondEnd
  <2>5. Complete(i)'
    BY <2>3 DEF Complete, IInv, StaleIsAlike
  <2> QED BY <2>1, <2>3, <2>4, <2>5
<1>4. \A i \in 1..latest : i \notin DOMAIN stale =>
        rows'[i] = rows[i] /\ (Complete(i)' <=> Complete(i))
  BY NumberFacts DEF CloseCommit, Complete
<1>5. \A i \in 1..latest : /\ rows'[i].season = rows[i].season
                           /\ Complete(i)' <=> Complete(i)
  BY <1>3, <1>4
<1>6. ASSUME NEW i \in 1..latest
      PROVE  /\ rows[i].season # current => (Closed(i)' <=> Closed(i))
             /\ rows[i].season = current => Closed(i)' /\ ~Closed(i)
  BY <1>1, <1>2, <1>5, NumberFacts DEF Closed
<1>7. WholeTicks'
  BY <1>1, <1>3, <1>4 DEF TimesInv, WholeTicks
<1>9. SeasonsAscend'
  BY <1>1, <1>5 DEF TimesInv, SeasonsAscend
<1>10. CurrentIsOpen'
  BY <1>1, <1>2, NumberFacts DEF TimesInv, CurrentIsOpen
<1>11. \A i \in DOMAIN stale : /\ Place(i) \in Nat /\ Place(i) <= MaxRanking
                               /\ rows'[i].data_time <= closing
                               /\ rows'[i].data_time \in Int
  BY <1>1, <1>3, PlacesDescend
<1>12. DataTimesMeant'
  <2>1. ASSUME NEW i \in 1..latest, i \in DOMAIN stale
        PROVE  rows'[i].data_time <= rows'[i].max_data_time /\ Closed(i)'
    <3>1. rows'[i].data_time <= closing /\ rows'[i].data_time \in Int /\ closing \in Int
      BY <1>1, <1>11, <2>1
    <3>2. closing <= rows'[i].max_data_time
      BY <1>3, <2>1
    <3>3. rows'[i].max_data_time \in Int
      <4>1. stale[i].max_data_time \in Nat
        BY <2>1, NumberFacts
      <4> QED BY <1>3, <2>1, <4>1
    <3>4. Closed(i)'
      BY <1>3, <1>6, <2>1
    <3> QED BY <3>1, <3>2, <3>3, <3>4
  <2>2. ASSUME NEW i \in 1..latest, i \notin DOMAIN stale, Complete(i)'
        PROVE  /\ rows'[i].data_time <= rows'[i].max_data_time
               /\ ~Closed(i)' => rows'[i].data_time = rows'[i].max_data_time
    BY <1>4, <1>6, <2>2 DEF TimesInv, DataTimesMeant
  <2> QED BY <1>1, <2>1, <2>2 DEF DataTimesMeant
<1>13. ObjectMeant'
  <2>1. Closed(latest) => Closed(latest)' /\ (end_time[Season])' = end_time[Season]
    <3>1. rows'[latest].season = rows[latest].season /\ rows[latest].season \in Seasons
      BY <1>5, NumberFacts
    <3> QED BY <1>1, <1>2, <3>1 DEF Closed, Season
  <2> QED BY <1>1, <2>1 DEF TimesInv, ObjectMeant, Saving
<1>14. StaleIsBeyondEnd'
  BY <1>1 DEF StaleIsBeyondEnd
<1>15. InOrderOfData'
  <2>1. ASSUME NEW i \in 1..latest, NEW j \in 1..latest, i < j,
               SameSeasonAs(i, j), Complete(i), Complete(j),
               rows'[i].max_data_time <= rows'[j].max_data_time,
               Closed(i)' => WithinSeason(i)'
        PROVE  rows'[i].data_time <= rows'[j].data_time
    <3>1. CASE rows[i].season # current
      <4>1. i \notin DOMAIN stale /\ j \notin DOMAIN stale
        BY <1>3, <2>1, <3>1 DEF SameSeasonAs
      <4>2. Closed(i) => WithinSeason(i)
        BY <1>2, <1>4, <1>6, <2>1, <3>1, <4>1, NumberFacts DEF WithinSeason
      <4> QED BY <1>4, <2>1, <4>1, <4>2 DEF TimesInv, InOrderOfData, SameSeasonAs
    <3>2. CASE rows[i].season = current
      <4>1. /\ rows[j].season = current
            /\ rows[i].data_time = rows[i].max_data_time
            /\ rows[j].data_time = rows[j].max_data_time
        BY <1>6, <2>1, <3>2 DEF TimesInv, DataTimesMeant, SameSeasonAs
      <4>2. CASE i \in DOMAIN stale /\ j \in DOMAIN stale
        <5>1. /\ rows'[i].data_time = closing - Place(i)
              /\ rows'[j].data_time = closing - Place(j)
          BY <1>3, <4>2
        <5>2. Place(j) <= Place(i)
          BY <2>1, <4>2, PlacesDescend
        <5>3. Place(i) \in Nat /\ Place(j) \in Nat
          BY <4>2, PlacesDescend
        <5>4. closing \in Nat
          BY <1>1
        <5> QED BY <5>1, <5>2, <5>3, <5>4
      <4>3. CASE i \in DOMAIN stale /\ j \notin DOMAIN stale
        <5>1. rows'[i].data_time <= closing /\ closing <= rows'[i].max_data_time
          BY <1>3, <1>11, <4>3
        <5>2. rows'[j].data_time = rows'[j].max_data_time
          BY <1>4, <2>1, <4>1, <4>3
        <5>3. /\ rows'[i].data_time \in Int /\ rows'[i].max_data_time \in Int
              /\ rows'[j].data_time \in Int /\ closing \in Int
          <6>1. rows'[j] = rows[j] /\ rows[j].data_time \in Nat
            BY <1>4, <2>1, <4>3, NumberFacts
          <6>2. rows'[i].max_data_time = stale[i].max_data_time /\ stale[i].max_data_time \in Nat
            BY <1>3, <4>3, NumberFacts
          <6> QED BY <1>1, <1>11, <4>3, <6>1, <6>2
        <5> QED BY <2>1, <5>1, <5>2, <5>3
      <4>4. CASE i \notin DOMAIN stale /\ j \in DOMAIN stale
        <5>1. rows[i].data_time + Tick <= closing
          BY <2>1, <3>2, <4>4 DEF TimesInv, StaleIsBeyondEnd
        <5>2. Tick = MaxRanking + 1 /\ MaxRanking \in Nat
          BY RankingLifecycleAssumption DEF Tick
        <5>3. rows'[i].data_time = rows[i].data_time /\ rows[i].data_time \in Nat
          BY <1>4, <4>4, NumberFacts
        <5>4. /\ rows'[j].data_time = closing - Place(j)
              /\ Place(j) \in Nat /\ Place(j) <= MaxRanking /\ closing \in Nat
          BY <1>1, <1>3, <1>11, <4>4
        <5> QED BY <5>1, <5>2, <5>3, <5>4
      <4>5. CASE i \notin DOMAIN stale /\ j \notin DOMAIN stale
        BY <1>4, <2>1, <4>1, <4>5
      <4> QED BY <4>2, <4>3, <4>4, <4>5
    <3> QED BY <3>1, <3>2
  <2>2. \A i, j \in 1..latest : SameSeasonAs(i, j)' <=> SameSeasonAs(i, j)
    BY <1>5 DEF SameSeasonAs
  <2> QED BY <1>1, <1>5, <2>1, <2>2 DEF InOrderOfData, SameSeasonAs
<1>16. Complete(1)'
  BY <1>5, NumberFacts DEF TimesInv
<1> QED BY <1>7, <1>9, <1>10, <1>12, <1>13, <1>14, <1>15, <1>16 DEF TimesInv

LEMMA FetchNewTimes ==
  ASSUME IInv, TimesInv, CloseAbort \/ FindLadders
  PROVE  TimesInv'
<1>1. /\ UNCHANGED <<clock, current, end_time, latest, rows, sources, data, pc,
                     team_ranks, ranking>>
      /\ DOMAIN stale' = {} \/ UNCHANGED <<stale, closing>>
  BY DEF CloseAbort, FindLadders, NoRows, seasons, fetchNew, tables, updater
<1> QED BY <1>1
        DEF TimesInv, WholeTicks, SeasonsAscend,
            CurrentIsOpen, DataTimesMeant, ObjectMeant, Saving, StaleIsBeyondEnd,
            InOrderOfData, Complete, Closed, WithinSeason, Season

LEMMA StepTimesInv == IInv /\ TimesInv /\ [Next]_vars => TimesInv'
<1>1. IInv /\ TimesInv /\ UNCHANGED vars => TimesInv'
  BY DEF vars, seasons, fetchNew, tables, updater, TimesInv, WholeTicks,
         SeasonsAscend, CurrentIsOpen, DataTimesMeant, ObjectMeant, Saving,
         StaleIsBeyondEnd, InOrderOfData, Complete, Closed, WithinSeason, Season
<1> QED BY <1>1, UpdaterTimes, InsertTimes, SaveRowTimes, DeleteTimes, CloseBeginTimes,
           CloseCommitTimes, FetchNewTimes DEF Next

LEMMA TimesInvariance == Spec => [](IInv /\ TimesInv)
<1>1. Init => IInv /\ TimesInv
  BY InitIInv, InitTimesInv
<1>2. IInv /\ TimesInv /\ [Next]_vars => (IInv /\ TimesInv)'
  BY StepIInv, StepTimesInv
<1> QED BY <1>1, <1>2, PTL DEF Spec

\* Of two rankings of a season the later never has the earlier data time unless its data
\* are older, in whatever order saves, new rankings, crashes and the correction of the
\* season's end come; but for a ranking that a save left beyond the end.
THEOREM InOrderOfDataHolds == Spec => []InOrderOfData
<1>1. TimesInv => InOrderOfData
  BY DEF TimesInv
<1> QED BY <1>1, TimesInvariance, PTL
-----------------------------------------------------------------------------
LEMMA Greatest ==
  ASSUME NEW S \in SUBSET Nat, NEW x \in S, NEW n \in Nat, \A s \in S : s <= n
  PROVE  \E m \in S : \A s \in S : s <= m
<1> DEFINE T == {n - s : s \in S}
           Less == OpToRel(<, Nat)
<1>1. T \subseteq Nat /\ n - x \in T
  OBVIOUS
<1>2. \E t \in T : \A u \in T : <<u, t>> \notin Less
  <2>1. IsWellFoundedOn(Less, Nat)
    BY NatLessThanWellFounded
  <2> HIDE DEF T, Less
  <2> QED BY <1>1, <2>1, WFMin
<1>3. PICK m \in S : \A s \in S : <<n - s, n - m>> \notin Less
  BY <1>2
<1>4. ASSUME NEW s \in S PROVE s <= m
  <2>1. ~(n - s < n - m)
    BY <1>1, <1>3 DEF OpToRel
  <2> QED BY <2>1
<1> QED BY <1>4

\* The ranking on display is the latest by data time of those that are complete.
DisplayIsLatest ==
  /\ \E i \in 1..latest : Complete(i) /\ rows[i].data_time = DisplayTime
  /\ \A i \in 1..latest : Complete(i) => rows[i].data_time <= DisplayTime
  /\ DisplayTime \in Nat

LEMMA DisplayFacts == IInv /\ TimesInv => DisplayIsLatest
<1> SUFFICES ASSUME IInv, TimesInv PROVE DisplayIsLatest
  OBVIOUS
<1> DEFINE S == {rows[i].data_time : i \in {j \in 1..latest : Complete(j)}}
           last == Tick * (MaxClock + 1)
<1>1. rows[1].data_time \in S
  <2>1. 1 \in 1..latest /\ Complete(1)
    BY NumberFacts DEF TimesInv
  <2> QED BY <2>1
<1>2. S \subseteq Times
  BY RowFacts, NumberFacts DEF Row
<1>3. last \in Nat
  BY RankingLifecycleAssumption, SMT DEF Tick
<1>4. Times = 0..last
  BY DEF Times
<1>5. \E m \in S : \A s \in S : s <= m
  <2> HIDE DEF S, last
  <2>1. S \in SUBSET Nat /\ \A s \in S : s <= last
    BY <1>2, <1>3, <1>4
  <2> QED BY <1>1, <1>3, <2>1, Greatest
<1>6. \E m \in S : \A i \in 1..latest : Complete(i) => rows[i].data_time <= m
  BY <1>5
<1>7. DisplayTime \in S /\ \A i \in 1..latest : Complete(i) => rows[i].data_time <= DisplayTime
  BY <1>6 DEF DisplayTime
<1> QED BY <1>2, <1>7, TimeFacts DEF DisplayIsLatest

\* Only the two that write rows may take back the time of the ranking on display.
LEMMA StepDisplay ==
  ASSUME IInv, TimesInv, IInv', TimesInv', Next, DisplayTime' < DisplayTime
  PROVE  \E i \in 1..latest :
           /\ Complete(i) /\ rows[i].data_time = DisplayTime
           /\ Closed(i)' /\ DisplayTime > end_time'[rows[i].season]
           /\ DisplayTime' >= end_time'[rows[i].season]
<1>1. DisplayIsLatest
  BY DisplayFacts
<1>2. DisplayIsLatest'
  <2>1. (IInv /\ TimesInv => DisplayIsLatest)'
    BY DisplayFacts, PTL
  <2> QED BY <2>1
<1>3. PICK i \in 1..latest : Complete(i) /\ rows[i].data_time = DisplayTime
  BY <1>1 DEF DisplayIsLatest
<1>4. ASSUME NEW j \in 1..latest', Complete(j)'
      PROVE  rows'[j].data_time <= DisplayTime'
  BY <1>2, <1>4 DEF DisplayIsLatest
<1>5. DisplayTime \in Nat /\ DisplayTime' \in Nat
  BY <1>1, <1>2 DEF DisplayIsLatest
<1>6. ~(i \in 1..latest' /\ rows'[i] = rows[i])
  <2>1. SUFFICES ASSUME i \in 1..latest', rows'[i] = rows[i] PROVE FALSE
    OBVIOUS
  <2>2. rows[i].data_time <= DisplayTime'
    BY <1>3, <1>4, <2>1 DEF Complete
  <2> QED BY <1>3, <1>5, <2>2
<1>7. CASE SaveRow
  <2>1. /\ i = latest /\ latest' = latest /\ end_time' = end_time
        /\ Complete(latest)' /\ rows'[latest].data_time = ranking.data_time
        /\ (rows'[latest]).season = rows[latest].season
    BY <1>6, <1>7, RowFacts DEF SaveRow, IInv, TypeOK, Complete, seasons, Season
  <2>2. ranking.data_time <= DisplayTime'
    BY <1>4, <2>1, NumberFacts
  <2>3. /\ rows[latest].data_time <= rows[latest].max_data_time
        /\ rows[latest].max_data_time <= stats[latest]
        /\ stats[latest] = team_ranks /\ ranking.max_data_time = team_ranks
    BY <1>3, <1>7, <2>1
       DEF SaveRow, TimesInv, DataTimesMeant, IInv, RowsBehindStats, InMemory
  <2>4. Closed(latest) /\ ranking.data_time = end_time[rows[latest].season]
    <3>1. ranking.data_time # ranking.max_data_time
      BY <1>3, <1>5, <2>1, <2>2, <2>3, NumberFacts
    <3> QED BY <1>7, <3>1 DEF SaveRow, TimesInv, ObjectMeant, Saving, Season
  <2>5. Closed(latest)'
    BY <2>1, <2>4 DEF Closed
  <2>6. DisplayTime > ranking.data_time
    BY <1>5, <2>2, NumberFacts
  <2> QED BY <1>3, <1>5, <2>1, <2>2, <2>4, <2>5, <2>6, NumberFacts
<1>8. CASE CloseCommit
  <2>1. i \in DOMAIN stale /\ latest' = latest
    BY <1>6, <1>8, NumberFacts DEF CloseCommit
  <2>2. PICK k \in DOMAIN stale : \A j \in DOMAIN stale : j <= k
    <3>1. DOMAIN stale \in SUBSET Nat /\ \A j \in DOMAIN stale : j <= latest
      BY NumberFacts
    <3> QED BY <2>1, <3>1, Greatest, NumberFacts
  <2>3. Place(k) = 0
    <3>1. {j \in DOMAIN stale : j > k} = {}
      BY <2>2, NumberFacts
    <3> QED BY <3>1, FS_EmptySet DEF Place
  <2>4. k \in 1..latest /\ stale[k] \in Row /\ k \in Rankings /\ closing \in Nat
    BY <2>2, NumberFacts DEF IInv, TypeOK
  <2>5. rows'[k] = [stale[k] EXCEPT !.data_time = closing - 0]
    BY <1>8, <2>3, <2>4 DEF CloseCommit
  <2>6. rows'[k].data_time = closing /\ rows'[k].status = stale[k].status
    BY <2>4, <2>5 DEF Row
  <2>7. Complete(k)'
    BY <2>2, <2>6 DEF Complete, IInv, StaleIsAlike
  <2>8. closing <= DisplayTime'
    BY <1>4, <2>1, <2>4, <2>6, <2>7
  <2>9. rows[i].season = current /\ current \in Seasons
    BY <2>1, NumberFacts DEF TimesInv, StaleIsBeyondEnd, IInv, TypeOK
  <2>10. end_time'[current] = closing /\ closing # 0
    BY <1>8, <2>9 DEF CloseCommit, IInv, TypeOK
  <2>11. rows'[i].season = current
    <3>1. rows'[i] = [stale[i] EXCEPT !.data_time = closing - Place(i)] /\ stale[i] \in Row
      BY <1>8, <2>1, NumberFacts DEF CloseCommit, IInv, TypeOK
    <3> QED BY <2>1, <2>9, <3>1, NumberFacts DEF Row
  <2>12. Closed(i)'
    BY <2>10, <2>11 DEF Closed
  <2> QED BY <1>3, <1>5, <2>4, <2>8, <2>9, <2>10, <2>12
<1>9. CASE NewRankingOfSeason \/ NewRankingInSeason
  <2>1. i # latest + 1 /\ i \in Rankings /\ i \in 1..(latest + 1)
    BY NumberFacts
  <2> QED BY <1>6, <1>9, <2>1 DEF NewRankingOfSeason, NewRankingInSeason, Insert, IInv, TypeOK
<1>10. CASE DeleteRanking
  <2>1. i # latest
    BY <1>3, <1>10 DEF DeleteRanking, Complete, CREATED, COMPLETE
  <2>2. i \in 1..(latest - 1) /\ i \in Rankings
    BY <2>1, NumberFacts
  <2> QED BY <1>6, <1>10, <2>1, <2>2 DEF DeleteRanking, IInv, TypeOK
<1>11. CASE UNCHANGED <<rows, latest>>
  BY <1>6, <1>11
<1> QED BY <1>7, <1>8, <1>9, <1>10, <1>11
        DEF Next, Start, Continue, SeasonSkipped, UpdateLadder, PeriodicSave, UntilReached,
            SeasonCheck, BeginSave, SaveData, SaveStats, Exit, CloseBegin, CloseAbort,
            FindLadders, tables

\* The time of the ranking on display goes back only from beyond the end of a season
\* that is closed, and not to before that end.
THEOREM DisplayNeverGoesBackHolds == Spec => DisplayNeverGoesBack
<1> DEFINE Excused ==
      \E i \in 1..latest :
        /\ Complete(i) /\ rows[i].data_time = DisplayTime
        /\ Closed(i)' /\ DisplayTime > end_time'[rows[i].season]
        /\ DisplayTime' >= end_time'[rows[i].season]
<1>1. ASSUME IInv, TimesInv, IInv', TimesInv', [Next]_vars
      PROVE  [DisplayTime' < DisplayTime => Excused]_vars
  BY <1>1, StepDisplay
<1>2. Spec => [](IInv /\ TimesInv)
  BY TimesInvariance
<1>3. Spec => [][DisplayTime' < DisplayTime => Excused]_vars
  BY <1>1, <1>2, PTL DEF Spec
<1> QED BY <1>3 DEF DisplayNeverGoesBack
=============================================================================
