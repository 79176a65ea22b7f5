------------------------ MODULE ServerRefreshProofs ------------------------
(***************************************************************************)
(* What is on display is fresh and usable, for any granule of time stamps, *)
(* any number of rankings and any time.                                    *)
(***************************************************************************)
EXTENDS ServerRefresh, TLAPS

\* A time stamp is at most half a granule off the time it is made of: all that the
\* proofs need of rounding to the nearest.
LEMMA RoundedIsNear ==
  ASSUME NEW t \in Nat
  PROVE  /\ Rounded(t) \in Nat
         /\ 2 * Rounded(t) <= 2 * t + Granule
         /\ 2 * t <= 2 * Rounded(t) + Granule
<1> DEFINE q == t \div Granule
           low == q * Granule
<1>1. Granule \in Nat /\ Granule > 0
  BY ServerRefreshAssumption
<1>2. /\ q \in Nat
      /\ low \in Nat
      /\ low <= t
      /\ t < low + Granule
  BY <1>1, SMT
<1>3. Rounded(t) = IF 2 * (t - low) > Granule \/ (2 * (t - low) = Granule /\ q % 2 = 1)
                   THEN low + Granule ELSE low
  BY DEF Rounded
<1> HIDE DEF low, q
<1>4. CASE Rounded(t) = low /\ 2 * (t - low) <= Granule
  BY <1>1, <1>2, <1>4
<1>5. CASE Rounded(t) = low + Granule /\ 2 * (t - low) >= Granule
  BY <1>1, <1>2, <1>5
<1> QED
  BY <1>1, <1>2, <1>3, <1>4, <1>5

-----------------------------------------------------------------------------
\* The first ranking has teams, and rankings without have the epoch as their time:
\* so none of them is ever the latest.
EmptyIsEpoch ==
  /\ complete[1] /\ data_time[1] > 0
  /\ \A i \in Rankings : data[i].empty => data_time[i] = 0

\* The time stamp that was read is about that of data which is in the table, and it
\* is that of the latest ranking until something is saved.
ReadIsRight ==
  server = "checking" =>
    /\ read.id \in Rankings
    /\ complete[read.id]
    /\ ~data[read.id].empty
    /\ 2 * read.updated <= 2 * data[read.id].saved + Granule
    /\ ~unseen => IsLatest(read.id) /\ read.updated = Rounded(data[read.id].saved)

\* The time stamp kept with the loaded data is not far after the save of the data.
LoadedIsRight ==
  _ranking.id # 0 => 2 * _ranking.updated <= 2 * _team_ranks.saved + Granule

DownIsUnseen == server = "down" => unseen

\* The inductive invariant.
IInv ==
  /\ TypeOK
  /\ EmptyIsEpoch
  /\ ReadIsRight
  /\ LoadedIsRight
  /\ DownIsUnseen
  /\ ShownIsFresh
  /\ ShownIsUsable

\* The latest ranking has been saved to the end, and has teams.
LEMMA LatestIsUsable ==
  ASSUME TypeOK, EmptyIsEpoch, NEW i \in Rankings, IsLatest(i)
  PROVE  complete[i] /\ ~data[i].empty
<1>1. 1 \in Rankings
  BY ServerRefreshAssumption DEF Rankings
<1>2. complete[i] /\ data_time[1] <= data_time[i]
  BY <1>1 DEF IsLatest, Usable, EmptyIsEpoch
<1>3. data_time[i] \in Nat /\ data_time[1] \in Nat
  BY <1>1, ServerRefreshAssumption DEF TypeOK, Times
<1> QED
  BY <1>2, <1>3 DEF EmptyIsEpoch

LEMMA NoRankingIsRanking == NoRanking \in Ranking
BY ServerRefreshAssumption DEF NoRanking, Ranking

LEMMA InitIInv == Init => IInv
<1> SUFFICES ASSUME Init PROVE IInv
  OBVIOUS
<1> USE ServerRefreshAssumption
<1>1. TypeOK
  <2>1. NoData \in Data /\ [saved |-> 1, empty |-> FALSE] \in Data
    BY DEF NoData, Data, Times
  <2>2. data \in [Rankings -> Data]
    BY <2>1 DEF Init
  <2>3. NoRanking \in Ranking
    BY NoRankingIsRanking
  <2>4. complete \in [Rankings -> BOOLEAN] /\ data_time \in [Rankings -> Times]
    BY DEF Init, Times
  <2>5. now \in Times /\ latest \in Rankings
    BY DEF Init, Times, Rankings
  <2> QED
    BY <2>1, <2>2, <2>3, <2>4, <2>5 DEF Init, TypeOK
<1>2. EmptyIsEpoch
  <2>1. 1 \in Rankings
    BY DEF Rankings
  <2>2. complete[1] /\ data_time[1] = 1
    BY <2>1 DEF Init
  <2>3. ASSUME NEW i \in Rankings, data[i].empty PROVE data_time[i] = 0
    BY <2>3 DEF Init
  <2> QED
    BY <2>2, <2>3 DEF EmptyIsEpoch
<1>3. ReadIsRight /\ LoadedIsRight /\ DownIsUnseen /\ ShownIsFresh /\ ShownIsUsable
  BY DEF Init, ReadIsRight, LoadedIsRight, DownIsUnseen, ShownIsFresh, ShownIsUsable,
         NoRanking
<1> QED
  BY <1>1, <1>2, <1>3 DEF IInv

\* One step per action.  A save makes the tables unseen, so that what depends on
\* their being seen is disturbed by nothing but Check and Load.
LEMMA NextIInv == IInv /\ [Next]_vars => IInv'
<1> SUFFICES ASSUME IInv, [Next]_vars PROVE IInv'
  OBVIOUS
<1> USE ServerRefreshAssumption
<1> USE DEF IInv
<1>1. CASE TimePasses
  <2>1. TypeOK'
    BY <1>1 DEF TimePasses, TypeOK, tables, handler, Times
  <2> QED
    BY <2>1, <1>1 DEF TimePasses, tables, handler, EmptyIsEpoch, ReadIsRight, IsLatest,
       Usable, LoadedIsRight, DownIsUnseen, ShownIsFresh, ShownIsUsable
<1>2. CASE NewRanking
  <2>1. TypeOK'
    BY <1>2 DEF NewRanking, TypeOK, handler, Rankings
  <2> QED
    BY <2>1, <1>2 DEF NewRanking, handler, EmptyIsEpoch, ReadIsRight, IsLatest, Usable,
       LoadedIsRight, DownIsUnseen, ShownIsFresh, ShownIsUsable
<1>3. CASE SaveData
  <2> USE <1>3 DEF SaveData, handler
  <2>1. TypeOK'
    BY DEF TypeOK, Data
  <2>2. \A i \in Rankings : /\ data'[i].empty => data[i].empty
                            /\ data[i].saved \in Nat /\ data'[i].saved \in Nat
                            /\ data'[i].saved >= data[i].saved
    BY DEF TypeOK, Data, Times
  <2>3. EmptyIsEpoch'
    BY <2>2 DEF EmptyIsEpoch
  <2>4. read.updated \in Nat
    BY DEF TypeOK, Ranking
  <2>5. ReadIsRight'
    BY <2>2, <2>4 DEF ReadIsRight
  <2>6. LoadedIsRight' /\ DownIsUnseen' /\ ShownIsFresh' /\ ShownIsUsable'
    BY DEF LoadedIsRight, DownIsUnseen, ShownIsFresh, ShownIsUsable
  <2> QED
    BY <2>1, <2>3, <2>5, <2>6
<1>4. CASE SaveRow
  <2> USE <1>4 DEF SaveRow, handler
  <2>1. TypeOK'
    BY DEF TypeOK, EmptyTime, Times
  <2>2. \A i \in Rankings : complete[i] => complete'[i]
    BY DEF TypeOK
  <2>3. EmptyIsEpoch'
    <3>1. 1 \in Rankings
      BY DEF Rankings
    <3>2. ~data[1].empty
      BY <3>1 DEF EmptyIsEpoch
    <3>3. data_time'[1] > 0
      <4>1. CASE latest = 1
        BY <3>1, <3>2, <4>1 DEF EmptyIsEpoch, TypeOK, Times
      <4>2. CASE latest # 1
        BY <3>1, <4>2 DEF EmptyIsEpoch, TypeOK
      <4> QED
        BY <4>1, <4>2
    <3>4. complete'[1]
      BY <2>2, <3>1 DEF EmptyIsEpoch
    <3>5. ASSUME NEW i \in Rankings, data'[i].empty PROVE data_time'[i] = 0
      <4>1. CASE i = latest
        BY <3>5, <4>1 DEF EmptyTime, TypeOK
      <4>2. CASE i # latest
        BY <3>5, <4>2 DEF EmptyIsEpoch, TypeOK
      <4> QED
        BY <4>1, <4>2
    <3> QED
      BY <3>3, <3>4, <3>5 DEF EmptyIsEpoch
  <2>4. ReadIsRight'
    BY <2>2 DEF ReadIsRight
  <2>5. ShownIsUsable'
    BY <2>2 DEF ShownIsUsable, TypeOK, Ranking, Rankings
  <2>6. LoadedIsRight' /\ DownIsUnseen' /\ ShownIsFresh'
    BY DEF LoadedIsRight, DownIsUnseen, ShownIsFresh
  <2> QED
    BY <2>1, <2>3, <2>4, <2>5, <2>6
<1>5. CASE Ping
  <2>1. TypeOK'
    BY <1>5 DEF Ping, TypeOK, tables, handler
  <2> QED
    BY <2>1, <1>5 DEF Ping, tables, handler, EmptyIsEpoch, ReadIsRight, IsLatest, Usable,
       LoadedIsRight, DownIsUnseen, ShownIsFresh, ShownIsUsable
<1>6. CASE PingTimesOut \/ Exit \/ Start
  <2>1. TypeOK'
    BY <1>6 DEF PingTimesOut, Exit, Start, TypeOK, tables, handler
  <2> QED
    BY <2>1, <1>6 DEF PingTimesOut, Exit, Start, tables, handler, EmptyIsEpoch,
       ReadIsRight, IsLatest, Usable, LoadedIsRight, DownIsUnseen, ShownIsFresh,
       ShownIsUsable
<1>7. CASE StartServer \/ MinutePasses
  <2>1. TypeOK'
    BY <1>7 DEF StartServer, MinutePasses, TypeOK, tables
  <2> QED
    BY <2>1, <1>7 DEF StartServer, MinutePasses, tables, EmptyIsEpoch, ReadIsRight,
       IsLatest, Usable, LoadedIsRight, DownIsUnseen, ShownIsFresh, ShownIsUsable
<1>8. ASSUME NEW by_ping \in BOOLEAN, Check(by_ping) PROVE IInv'
  <2> USE <1>8 DEF Check, tables
  <2>1. PICK i \in Rankings :
          IsLatest(i) /\ read' = [id |-> i, updated |-> Rounded(data[i].saved)]
    OBVIOUS
  <2>2. data[i].saved \in Nat /\ data[i].saved <= MaxTime
    BY DEF TypeOK, Data, Times
  <2>3. /\ Rounded(data[i].saved) \in Nat
        /\ 2 * Rounded(data[i].saved) <= 2 * data[i].saved + Granule
    BY <2>2, RoundedIsNear
  <2>4. Rounded(data[i].saved) \in 0..(MaxTime + Granule)
    BY <2>2, <2>3
  <2>5. TypeOK'
    <3>1. read' \in Ranking
      BY <2>1, <2>4 DEF Ranking, Rankings
    <3> QED
      BY <3>1 DEF TypeOK
  <2>6. complete[i] /\ ~data[i].empty
    BY <2>1, LatestIsUsable
  <2>7. ReadIsRight'
    BY <2>1, <2>3, <2>6 DEF ReadIsRight, IsLatest, Usable, Rounded
  <2>8. EmptyIsEpoch' /\ LoadedIsRight' /\ DownIsUnseen' /\ ShownIsFresh' /\ ShownIsUsable'
    BY DEF EmptyIsEpoch, LoadedIsRight, DownIsUnseen, ShownIsFresh, ShownIsUsable
  <2> QED
    BY <2>5, <2>7, <2>8
<1>9. CASE Load
  <2> USE <1>9 DEF Load, tables, Loaded
  <2>1. read \in Ranking /\ _ranking \in Ranking /\ read.id \in Rankings
    BY DEF TypeOK, ReadIsRight
  <2>2. data[read.id] \in Data
    BY <2>1 DEF TypeOK
  <2>3. TypeOK'
    BY <2>1, <2>2, NoRankingIsRanking DEF TypeOK
  <2>4. /\ _ranking'.id = read.id
        /\ LoadedIsRight'
        /\ ShownIsUsable'
    <3>1. CASE NewData
      BY <3>1 DEF ReadIsRight, LoadedIsRight, ShownIsUsable
    <3>2. CASE ~NewData
      BY <3>2 DEF NewData, LoadedIsRight, ShownIsUsable
    <3> QED
      BY <3>1, <3>2
  <2>5. ASSUME ~unseen PROVE data[read.id].saved <= _team_ranks'.saved + Granule
    <3>1. CASE NewData
      BY <2>2, <3>1 DEF Data, Times
    <3>2. CASE ~NewData
      <4> DEFINE there == data[read.id].saved
                 here == _team_ranks.saved
      <4>1. there \in Nat /\ here \in Nat
        BY <2>2 DEF TypeOK, Data, Times
      <4>2. 2 * there <= 2 * read.updated + Granule
        BY <2>5, <4>1, RoundedIsNear DEF ReadIsRight
      <4>3. read.updated <= _ranking.updated /\ 2 * _ranking.updated <= 2 * here + Granule
        BY <2>1, <3>2 DEF NewData, LoadedIsRight, Ranking, Rankings
      <4>4. read.updated \in Nat /\ _ranking.updated \in Nat
        BY <2>1 DEF Ranking
      <4>5. there <= here + Granule
        <5> HIDE DEF there, here
        <5> QED
          BY <4>1, <4>2, <4>3, <4>4
      <4> QED
        BY <3>2, <4>5
    <3> QED
      BY <3>1, <3>2
  <2>6. ShownIsFresh'
    BY <2>4, <2>5 DEF ShownIsFresh, ReadIsRight, IsLatest, Usable
  <2>7. EmptyIsEpoch' /\ ReadIsRight' /\ DownIsUnseen'
    BY DEF EmptyIsEpoch, ReadIsRight, DownIsUnseen
  <2> QED
    BY <2>3, <2>4, <2>6, <2>7
<1>10. CASE StopServer
  <2> USE <1>10 DEF StopServer, tables
  <2>1. TypeOK'
    <3>1. NoData \in Data
      BY DEF NoData, Data, Times
    <3> QED
      BY <3>1, NoRankingIsRanking DEF TypeOK
  <2>2. EmptyIsEpoch' /\ DownIsUnseen'
    BY DEF EmptyIsEpoch, DownIsUnseen
  <2>3. ReadIsRight' /\ LoadedIsRight' /\ ShownIsFresh' /\ ShownIsUsable'
    BY DEF ReadIsRight, LoadedIsRight, ShownIsFresh, ShownIsUsable, NoRanking
  <2> QED
    BY <2>1, <2>2, <2>3
<1>11. CASE UNCHANGED vars
  <2> USE <1>11 DEF vars, tables, handler
  <2>1. TypeOK'
    BY DEF TypeOK
  <2> QED
    BY <2>1 DEF EmptyIsEpoch, ReadIsRight, IsLatest, Usable, LoadedIsRight, DownIsUnseen,
       ShownIsFresh, ShownIsUsable
<1> QED
  BY <1>1, <1>2, <1>3, <1>4, <1>5, <1>6, <1>7, <1>8, <1>9, <1>10, <1>11 DEF Next

LEMMA IInvHolds == Spec => []IInv
BY InitIInv, NextIInv, PTL DEF Spec

\* Every variable keeps its type; rounded time stamps stay within the bounds
\* (ladder_handler.hpp, the tables ranking and ranking_data).
THEOREM TypeCorrect == Spec => []TypeOK
BY IInvHolds, PTL DEF IInv

\* After every look of the server at the tables (refresh_ranking) it shows the latest
\* ranking, not more than a granule of time stamps behind what was saved of it.
THEOREM ShownIsFreshHolds == Spec => []ShownIsFresh
BY IInvHolds, PTL DEF IInv

\* No unfinished ranking and none without teams comes on display (get_latest_ranking
\* with the time that set_data_time gives to a ranking without teams).
THEOREM ShownIsUsableHolds == Spec => []ShownIsUsable
BY IInvHolds, PTL DEF IInv

=============================================================================
