------------------------ MODULE LadderUpdatesProofs ------------------------
(***************************************************************************)
(* Proofs for LadderUpdates.  Fetch order is never checked by the code, so *)
(* the argument is about the way of a response: all responses of a region  *)
(* go through one thread and one first-in first-out queue, therefore what  *)
(* is still on the way is newer than everything already merged.  With this *)
(* every step of the update path is one of TeamData or changes nothing of  *)
(* it.                                                                     *)
(***************************************************************************)
EXTENDS LadderUpdatesRefinement, TLAPS

\* What has been stored or merged is not from the future.
PastOnly ==
  /\ \A l \in Ladders : sources[l].updated <= clock
  /\ \A t \in Teams : team_ranks[t].data_time <= clock
                      /\ ranking_data[t].data_time <= clock
  /\ \A i \in 1..Len(fetched_queue) : fetched_queue[i].time <= clock
  /\ \A r \in Regions : answer[r] # Idle => answer[r].time <= clock

\* Nothing is on the way unless update_until runs.
NothingOnTheWay ==
  pc \notin {"updating", "stopping"} =>
    /\ fetched_queue = <<>>
    /\ \A r \in Regions : answer[r] = Idle

\* The team ranks in memory have caught up with the saved ones.
SavedBehind ==
  Updating => \A t \in Teams : ranking_data[t].data_time <= team_ranks[t].data_time

IInv == /\ TypeOK
        /\ PastOnly
        /\ FetchOrder
        /\ NothingOnTheWay
        /\ RanksAreBacked
        /\ SavedBehind

-----------------------------------------------------------------------------
(* Type correctness. *)

LEMMA MergeType ==
  ASSUME NEW ranks \in [Teams -> TeamRank], NEW l \in Ladders,
         NEW members \in SUBSET Teams, NEW time \in 0..MaxClock
  PROVE  Merge(ranks, l, members, time) \in [Teams -> TeamRank]
BY DEF Merge, TeamRank

LEMMA EmptyType == /\ NoTeamRanks \in [Teams -> TeamRank]
                   /\ NoSources \in [Ladders -> Source]
BY LadderUpdatesAssumption DEF NoTeamRanks, Unranked, TeamRank, NoSources, Source

LEMMA InitType == Init => TypeOK
BY LadderUpdatesAssumption, EmptyType DEF Init, TypeOK

LEMMA NextType == TypeOK /\ [Next]_vars => TypeOK'
<1> SUFFICES ASSUME TypeOK, [Next]_vars PROVE TypeOK'
  OBVIOUS
<1> USE LadderUpdatesAssumption
<1>1. ASSUME NEW r \in Regions, NEW l \in Ladders, Fetch(r, l) PROVE TypeOK'
  <2>1. PICK members \in SUBSET TeamsOf(LadderRegion[l]) :
          answer' = [answer EXCEPT ![r] = [ladder |-> l, members |-> members,
                                           time |-> clock + 1]]
    BY <1>1 DEF Fetch, Batches
  <2>2. clock' = clock + 1 /\ clock + 1 \in 1..MaxClock
    BY <1>1 DEF Fetch, Batches, TypeOK
  <2>3. LadderRegion[l] = r /\ members \subseteq TeamsOf(r) /\ members \in SUBSET Teams
    BY <1>1 DEF Fetch, Batches, LaddersOf, TeamsOf
  <2> DEFINE f == [ladder |-> l, members |-> members, time |-> clock + 1]
  <2>4. f \in Response /\ OfRegion(f, r)
    BY <2>2, <2>3, <1>1 DEF Response, OfRegion, Fetch, Batches
  <2> HIDE DEF f
  <2>5. answer' \in [Regions -> Response \cup {Idle}]
    BY <2>1, <2>4 DEF TypeOK, f
  <2>6. \A q \in Regions : answer'[q] # Idle => OfRegion(answer'[q], q)
    <3> TAKE q \in Regions
    <3>1. CASE q = r
      BY <3>1, <2>1, <2>4 DEF TypeOK, f
    <3>2. CASE q # r
      BY <3>2, <2>1 DEF TypeOK
    <3> QED BY <3>1, <3>2
  <2> QED BY <2>2, <2>5, <2>6, <1>1 DEF TypeOK, Fetch, Batches
<1>2. ASSUME NEW r \in Regions, Push(r) PROVE TypeOK'
  <2>1. answer[r] \in Response
    BY <1>2 DEF Push, Pushed, TypeOK
  <2>2. fetched_queue' \in Seq(Response)
    BY <2>1, <1>2 DEF Push, Pushed, TypeOK
  <2>3. answer' \in [Regions -> Response \cup {Idle}]
        /\ \A q \in Regions : answer'[q] # Idle => OfRegion(answer'[q], q)
    BY <1>2 DEF Push, Pushed, TypeOK
  <2> QED BY <2>2, <2>3, <1>2 DEF TypeOK, Push, Pushed
<1>3. CASE Update
  <2> DEFINE f == Head(fetched_queue)
  <2>1. f \in Response /\ Tail(fetched_queue) \in Seq(Response)
    BY <1>3 DEF Update, LadderCache, TypeOK
  <2>2. f.ladder \in Ladders /\ f.members \in SUBSET Teams /\ f.time \in 0..MaxClock
    BY <2>1 DEF Response
  <2>3. team_ranks' \in [Teams -> TeamRank]
    BY <1>3, <2>2, MergeType DEF Update, LadderCache, TypeOK
  <2>4. sources' \in [Ladders -> Source]
    <3>1. [updated |-> f.time, members |-> f.members] \in Source
      BY <2>2 DEF Source
    <3> QED BY <1>3, <3>1 DEF Update, LadderCache, TypeOK
  <2> QED BY <2>1, <2>3, <2>4, <1>3 DEF Update, LadderCache, TypeOK
<1>4. CASE Save
  BY <1>4 DEF Save, TypeOK
<1>5. CASE Stop
  BY <1>5 DEF Stop, TypeOK
<1>6. CASE JoinAndSave
  BY <1>6, EmptyType DEF JoinAndSave, TypeOK
<1>7. CASE Start
  BY <1>7 DEF Start, TypeOK
<1>8. CASE Load
  BY <1>8 DEF Load, Loaded, TypeOK
<1>9. CASE SwitchSeason
  BY <1>9, EmptyType DEF SwitchSeason, TypeOK
<1>10. CASE BeginCopy
  BY <1>10, EmptyType DEF BeginCopy, TypeOK
<1>11. ASSUME NEW l \in Ladders, Copy(l) PROVE TypeOK'
  <2>1. sources[l].updated \in 0..MaxClock /\ sources[l].members \in SUBSET Teams
    BY DEF TypeOK, Source
  <2>2. team_ranks' \in [Teams -> TeamRank]
    BY <1>11, <2>1, MergeType DEF Copy, TypeOK
  <2> QED BY <2>2, <1>11 DEF Copy, TypeOK
<1>12. CASE EndCopy
  <2>1. ranking + 1 \in 1..MaxRanking
    BY <1>12 DEF EndCopy, TypeOK
  <2> QED BY <2>1, <1>12 DEF EndCopy, TypeOK
<1>13. CASE Exit
  BY <1>13, EmptyType DEF Exit, TypeOK
<1>14. CASE UNCHANGED vars
  BY <1>14 DEF vars, TypeOK
<1> QED
  BY <1>1, <1>2, <1>3, <1>4, <1>5, <1>6, <1>7, <1>8, <1>9, <1>10, <1>11, <1>12,
     <1>13, <1>14 DEF Next

\* Every variable keeps its type, and every thread holds responses of its region.
THEOREM TypeCorrect == Spec => []TypeOK
BY InitType, NextType, PTL DEF Spec

-----------------------------------------------------------------------------
(* The inductive invariant. *)

\* What Update merges, spelled out: the oldest response and the queue behind it.
LEMMA UpdateFacts ==
  ASSUME IInv, Update
  PROVE  /\ Len(fetched_queue) >= 1
         /\ Head(fetched_queue) = fetched_queue[1]
         /\ fetched_queue[1] \in Response
         /\ Len(fetched_queue') = Len(fetched_queue) - 1
         /\ \A i \in 1..Len(fetched_queue') :
              /\ i + 1 \in 1..Len(fetched_queue)
              /\ fetched_queue'[i] = fetched_queue[i + 1]
              /\ fetched_queue[i + 1] \in Response
         /\ \A l \in Ladders :
              sources'[l] = IF l = fetched_queue[1].ladder
                            THEN [updated |-> fetched_queue[1].time,
                                  members |-> fetched_queue[1].members]
                            ELSE sources[l]
         /\ \A t \in Teams :
              team_ranks'[t] = IF t \in fetched_queue[1].members
                               THEN [data_time |-> fetched_queue[1].time,
                                     ladder |-> fetched_queue[1].ladder]
                               ELSE team_ranks[t]
         /\ UNCHANGED <<clock, answer, pc, ranking, ranking_data>>
<1>1. fetched_queue \in Seq(Response) /\ fetched_queue # <<>>
  BY DEF IInv, TypeOK, Update, LadderCache
<1>2. /\ Len(fetched_queue) >= 1
      /\ Head(fetched_queue) = fetched_queue[1]
      /\ \A i \in 1..Len(fetched_queue) : fetched_queue[i] \in Response
  BY <1>1
<1>3. fetched_queue' = Tail(fetched_queue)
  BY DEF Update, LadderCache
<1>4. /\ Len(fetched_queue') = Len(fetched_queue) - 1
      /\ \A i \in 1..Len(fetched_queue') : fetched_queue'[i] = fetched_queue[i + 1]
  BY <1>1, <1>2, <1>3
<1>5. \A i \in 1..Len(fetched_queue') : i + 1 \in 1..Len(fetched_queue)
  BY <1>1, <1>4
<1>6. sources' = [sources EXCEPT ![fetched_queue[1].ladder] =
                    [updated |-> fetched_queue[1].time,
                     members |-> fetched_queue[1].members]]
  BY <1>2 DEF Update, LadderCache
<1>7. team_ranks' = [t \in Teams |->
                       IF t \in fetched_queue[1].members
                       THEN [data_time |-> fetched_queue[1].time,
                             ladder |-> fetched_queue[1].ladder]
                       ELSE team_ranks[t]]
  BY <1>2 DEF Update, LadderCache, Merge
<1>8. sources \in [Ladders -> Source]
  BY DEF IInv, TypeOK
<1>9. UNCHANGED <<clock, answer, pc, ranking, ranking_data>>
  BY DEF Update, LadderCache
<1> QED BY <1>2, <1>4, <1>5, <1>6, <1>7, <1>8, <1>9

LEMMA PushFacts ==
  ASSUME IInv, NEW r \in Regions, Push(r)
  PROVE  /\ answer[r] \in Response
         /\ Len(fetched_queue') = Len(fetched_queue) + 1
         /\ Len(fetched_queue) \in Nat
         /\ \A i \in 1..Len(fetched_queue) :
              /\ fetched_queue'[i] = fetched_queue[i]
              /\ fetched_queue[i] \in Response
         /\ fetched_queue'[Len(fetched_queue) + 1] = answer[r]
         /\ \A q \in Regions : answer'[q] = IF q = r THEN Idle ELSE answer[q]
         /\ UNCHANGED <<clock, pc, ranking, sources, team_ranks, ranking_data>>
<1>1. answer[r] \in Response /\ fetched_queue \in Seq(Response)
  BY DEF IInv, TypeOK, Push, Pushed
<1>2. fetched_queue' = Append(fetched_queue, answer[r])
  BY DEF Push, Pushed
<1>3. /\ Len(fetched_queue') = Len(fetched_queue) + 1
      /\ Len(fetched_queue) \in Nat
      /\ \A i \in 1..Len(fetched_queue) :
           /\ fetched_queue'[i] = fetched_queue[i]
           /\ fetched_queue[i] \in Response
      /\ fetched_queue'[Len(fetched_queue) + 1] = answer[r]
  BY <1>1, <1>2
<1>4. \A q \in Regions : answer'[q] = IF q = r THEN Idle ELSE answer[q]
  BY DEF IInv, TypeOK, Push, Pushed
<1>5. UNCHANGED <<clock, pc, ranking, sources, team_ranks, ranking_data>>
  BY DEF Push, Pushed
<1> QED BY <1>1, <1>3, <1>4, <1>5

LEMMA TimesAreNat ==
  ASSUME TypeOK
  PROVE  /\ \A t \in Teams : team_ranks[t].data_time \in Nat /\ ranking_data[t].data_time \in Nat
         /\ \A l \in Ladders : sources[l].updated \in Nat
         /\ \A i \in 1..Len(fetched_queue) : fetched_queue[i].time \in Nat
         /\ \A r \in Regions : answer[r] # Idle => answer[r].time \in Nat
<1>1. \A t \in Teams : team_ranks[t] \in TeamRank /\ ranking_data[t] \in TeamRank
  BY DEF TypeOK
<1>2. \A l \in Ladders : sources[l] \in Source
  BY DEF TypeOK
<1>3. \A i \in 1..Len(fetched_queue) : fetched_queue[i] \in Response
  BY DEF TypeOK
<1>4. \A r \in Regions : answer[r] # Idle => answer[r] \in Response
  BY DEF TypeOK
<1> QED BY <1>1, <1>2, <1>3, <1>4 DEF TeamRank, Source, Response

LEMMA InitIInv == Init => IInv
<1> SUFFICES ASSUME Init PROVE IInv
  OBVIOUS
<1>1. TypeOK
  BY InitType
<1>2. PastOnly /\ FetchOrder /\ NothingOnTheWay
  BY DEF Init, PastOnly, FetchOrder, NothingOnTheWay, NoSources, NoTeamRanks, Unranked
<1>3. RanksAreBacked /\ SavedBehind
  BY DEF Init, RanksAreBacked, Backed, SavedBehind, Updating, NoTeamRanks, Unranked
<1> QED BY <1>1, <1>2, <1>3 DEF IInv

\* A new answer is newer than everything: it has the next tick of the clock.
LEMMA FetchIInv ==
  ASSUME IInv, TypeOK', NEW r \in Regions, NEW l \in Ladders, Fetch(r, l)
  PROVE  IInv'
<1> USE LadderUpdatesAssumption
<1>1. PICK members \in SUBSET TeamsOf(r) :
        answer' = [answer EXCEPT ![r] = [ladder |-> l, members |-> members,
                                         time |-> clock + 1]]
  BY DEF Fetch, Batches, LaddersOf
<1> DEFINE f == [ladder |-> l, members |-> members, time |-> clock + 1]
<1>2. /\ \A q \in Regions : answer'[q] = IF q = r THEN f ELSE answer[q]
      /\ f.time = clock + 1 /\ f.ladder = l /\ LadderRegion[l] = r
  BY <1>1 DEF IInv, TypeOK, Fetch, Batches, LaddersOf
<1> HIDE DEF f
<1>3. clock \in Nat /\ clock' = clock + 1
      /\ UNCHANGED <<fetched_queue, pc, sources, team_ranks, ranking_data>>
  BY DEF IInv, TypeOK, Fetch, Batches
<1>4. /\ \A t \in Teams : team_ranks[t].data_time \in Nat /\ ranking_data[t].data_time \in Nat
      /\ \A k \in Ladders : sources[k].updated \in Nat
      /\ \A i \in 1..Len(fetched_queue) : fetched_queue[i].time \in Nat
      /\ \A q \in Regions : answer[q] # Idle => answer[q].time \in Nat
  BY TimesAreNat DEF IInv
<1>5. PastOnly'
  BY <1>2, <1>3, <1>4 DEF IInv, PastOnly
<1>6. FetchOrder'
  <2>1. Newer(f, team_ranks, sources)
    BY <1>2, <1>3, <1>4 DEF IInv, PastOnly, Newer
  <2>2. \A i \in 1..Len(fetched_queue) : fetched_queue[i].time < f.time
    BY <1>2, <1>3, <1>4 DEF IInv, PastOnly
  <2> QED BY <1>2, <1>3, <2>1, <2>2 DEF IInv, FetchOrder, Newer
<1>7. NothingOnTheWay'
  BY <1>3 DEF NothingOnTheWay, Fetch, Batches
<1>8. RanksAreBacked' /\ SavedBehind'
  BY <1>3 DEF IInv, RanksAreBacked, Backed, SavedBehind, Updating
<1> QED BY <1>5, <1>6, <1>7, <1>8 DEF IInv

\* The answer of a thread goes behind all queued responses of its region.
LEMMA PushIInv ==
  ASSUME IInv, TypeOK', NEW r \in Regions, Push(r)
  PROVE  IInv'
<1>1. PastOnly'
  BY PushFacts DEF IInv, PastOnly, Push, Pushed
<1>2. FetchOrder'
  <2> DEFINE n == Len(fetched_queue)
  <2>1. /\ answer[r] # Idle /\ OfRegion(answer[r], r)
        /\ LadderRegion[answer[r].ladder] = r
    BY DEF Push, Pushed, IInv, TypeOK, OfRegion, LaddersOf
  <2>3. ASSUME NEW i \in 1..Len(fetched_queue')
        PROVE  \/ i \in 1..n /\ fetched_queue'[i] = fetched_queue[i]
               \/ i = n + 1 /\ fetched_queue'[i] = answer[r]
    BY PushFacts
  <2>4. \A i \in 1..Len(fetched_queue') :
          /\ OfRegion(fetched_queue'[i], LadderRegion[fetched_queue'[i].ladder])
          /\ Newer(fetched_queue'[i], team_ranks, sources)
    BY <2>1, <2>3 DEF IInv, FetchOrder
  <2>5. ASSUME NEW i \in 1..Len(fetched_queue'), NEW j \in 1..Len(fetched_queue'), i < j,
               LadderRegion[fetched_queue'[i].ladder] = LadderRegion[fetched_queue'[j].ladder]
        PROVE  fetched_queue'[i].time < fetched_queue'[j].time
    <3>1. i \in 1..n /\ fetched_queue'[i] = fetched_queue[i]
      BY <2>3, <2>5, PushFacts
    <3>2. CASE j \in 1..n /\ fetched_queue'[j] = fetched_queue[j]
      BY <2>5, <3>1, <3>2 DEF IInv, FetchOrder
    <3>3. CASE fetched_queue'[j] = answer[r]
      BY <2>1, <2>5, <3>1, <3>3 DEF IInv, FetchOrder
    <3> QED BY <2>3, <3>2, <3>3
  <2>6. ASSUME NEW q \in Regions, answer'[q] # Idle
        PROVE  /\ Newer(answer'[q], team_ranks, sources)
               /\ \A i \in 1..Len(fetched_queue') :
                    LadderRegion[fetched_queue'[i].ladder] = q
                      => fetched_queue'[i].time < answer'[q].time
    <3>1. q # r /\ answer'[q] = answer[q]
      BY <2>6, PushFacts
    <3> QED BY <2>1, <2>3, <2>6, <3>1 DEF IInv, FetchOrder
  <2> QED BY <2>4, <2>5, <2>6, PushFacts DEF FetchOrder
<1>3. NothingOnTheWay'
  BY PushFacts DEF IInv, NothingOnTheWay, Push, Pushed
<1>4. RanksAreBacked' /\ SavedBehind'
  BY PushFacts DEF IInv, RanksAreBacked, Backed, SavedBehind, Updating
<1> QED BY <1>1, <1>2, <1>3, <1>4 DEF IInv

\* The head of the queue is the oldest response of its region still on the way, so
\* merging it leaves the others newer than what has arrived.
LEMMA UpdateIInv ==
  ASSUME IInv, TypeOK', Update
  PROVE  IInv'
<1> DEFINE f == fetched_queue[1]
<1>1. /\ f \in Response /\ 1 \in 1..Len(fetched_queue)
      /\ f.members \subseteq TeamsOf(LadderRegion[f.ladder])
      /\ Newer(f, team_ranks, sources)
      /\ f.time \in Nat /\ f.time <= clock
  <2>1. f \in Response /\ 1 \in 1..Len(fetched_queue)
    BY UpdateFacts DEF IInv, TypeOK
  <2> QED BY <2>1, TimesAreNat DEF IInv, FetchOrder, PastOnly, OfRegion
<1>2. PastOnly'
  <2>1. clock \in Nat
    BY DEF IInv, TypeOK
  <2>2. /\ \A l \in Ladders : sources'[l].updated <= clock
        /\ \A t \in Teams : team_ranks'[t].data_time <= clock
    BY <1>1, UpdateFacts DEF IInv, PastOnly
  <2>3. \A i \in 1..Len(fetched_queue') : fetched_queue'[i].time <= clock
    BY UpdateFacts DEF IInv, PastOnly
  <2> QED BY <2>2, <2>3, UpdateFacts DEF IInv, PastOnly
<1>3. FetchOrder'
  <2>1. ASSUME NEW g, g.time \in Nat, Newer(g, team_ranks, sources),
               LadderRegion[g.ladder] = LadderRegion[f.ladder] => f.time < g.time
        PROVE  Newer(g, team_ranks', sources')
    <3>1. ASSUME NEW t \in Teams, TeamRegion[t] = LadderRegion[g.ladder]
          PROVE  team_ranks'[t].data_time < g.time
      BY <1>1, <2>1, <3>1, UpdateFacts DEF Newer, TeamsOf
    <3>2. ASSUME NEW l \in Ladders, LadderRegion[l] = LadderRegion[g.ladder]
          PROVE  sources'[l].updated < g.time
      BY <1>1, <2>1, <3>2, UpdateFacts DEF Newer
    <3> QED BY <3>1, <3>2 DEF Newer
  <2>2. ASSUME NEW i \in 1..Len(fetched_queue')
        PROVE  /\ OfRegion(fetched_queue'[i], LadderRegion[fetched_queue'[i].ladder])
               /\ Newer(fetched_queue'[i], team_ranks', sources')
    <3>1. i + 1 \in 1..Len(fetched_queue) /\ fetched_queue'[i] = fetched_queue[i + 1]
          /\ 1 < i + 1
      BY UpdateFacts
    <3>2. fetched_queue[i + 1].time \in Nat
      BY <3>1, TimesAreNat DEF IInv
    <3>3. LadderRegion[fetched_queue[i + 1].ladder] = LadderRegion[f.ladder]
            => f.time < fetched_queue[i + 1].time
      BY <1>1, <3>1 DEF IInv, FetchOrder
    <3> QED BY <2>1, <3>1, <3>2, <3>3 DEF IInv, FetchOrder
  <2>3. ASSUME NEW i \in 1..Len(fetched_queue'), NEW j \in 1..Len(fetched_queue'), i < j,
               LadderRegion[fetched_queue'[i].ladder] = LadderRegion[fetched_queue'[j].ladder]
        PROVE  fetched_queue'[i].time < fetched_queue'[j].time
    <3>1. i + 1 < j + 1
      BY <2>3
    <3> QED BY <2>3, <3>1, UpdateFacts DEF IInv, FetchOrder
  <2>4. ASSUME NEW r \in Regions, answer[r] # Idle
        PROVE  /\ Newer(answer[r], team_ranks', sources')
               /\ \A i \in 1..Len(fetched_queue') :
                    LadderRegion[fetched_queue'[i].ladder] = r
                      => fetched_queue'[i].time < answer[r].time
    <3>1. answer[r].time \in Nat /\ LadderRegion[answer[r].ladder] = r
      BY <2>4, TimesAreNat DEF IInv, TypeOK, OfRegion, LaddersOf
    <3>2. Newer(answer[r], team_ranks', sources')
      BY <1>1, <2>1, <2>4, <3>1 DEF IInv, FetchOrder
    <3> QED BY <2>4, <3>2, UpdateFacts DEF IInv, FetchOrder
  <2>5. answer' = answer
    BY UpdateFacts
  <2> QED BY <2>2, <2>3, <2>4, <2>5 DEF FetchOrder
<1>4. NothingOnTheWay'
  BY DEF NothingOnTheWay, Update, LadderCache
<1>5. RanksAreBacked'
  <2>1. ASSUME NEW l \in Ladders
        PROVE  /\ l = f.ladder => sources[l].updated < f.time
               /\ sources[l].updated \in Nat
    BY <1>1, <2>1, TimesAreNat DEF IInv, Newer
  <2>2. ASSUME NEW ranks, \A t \in Teams : ranks[t].data_time \in Nat, Backed(ranks),
               NEW t \in Teams, ranks[t].data_time > 0
        PROVE  /\ ranks[t].ladder \in Ladders
               /\ ranks[t].data_time <= sources'[ranks[t].ladder].updated
               /\ ranks[t].data_time = sources'[ranks[t].ladder].updated
                    => t \in sources'[ranks[t].ladder].members
    <3>1. CASE ranks[t].ladder = f.ladder
      <4>1. /\ ranks[t].data_time \in Nat /\ ranks[t].ladder \in Ladders
            /\ ranks[t].data_time <= sources[f.ladder].updated
            /\ sources[f.ladder].updated < f.time
            /\ sources[f.ladder].updated \in Nat
        BY <2>1, <2>2, <3>1 DEF Backed
      <4>2. sources'[f.ladder].updated = f.time
        BY <3>1, <4>1, UpdateFacts
      <4>3. ranks[t].data_time < f.time
        BY <1>1, <4>1
      <4> QED BY <1>1, <3>1, <4>1, <4>2, <4>3
    <3>2. CASE ranks[t].ladder # f.ladder
      BY <2>2, <3>2, UpdateFacts DEF Backed
    <3> QED BY <3>1, <3>2
  <2>3. Backed(ranking_data)'
    <3>1. \A t \in Teams : ranking_data[t].data_time \in Nat
      BY TimesAreNat DEF IInv
    <3>2. Backed(ranking_data)
      BY DEF IInv, RanksAreBacked
    <3>3. ranking_data' = ranking_data
      BY UpdateFacts
    <3> QED BY <2>2, <3>1, <3>2, <3>3 DEF Backed
  <2>4. Backed(team_ranks)'
    <3>1. \A t \in Teams : team_ranks[t].data_time \in Nat
      BY TimesAreNat DEF IInv
    <3>2. Backed(team_ranks)
      BY DEF IInv, RanksAreBacked
    <3> SUFFICES ASSUME NEW t \in Teams, team_ranks'[t].data_time > 0
                 PROVE  /\ team_ranks'[t].ladder \in Ladders
                        /\ team_ranks'[t].data_time <= sources'[team_ranks'[t].ladder].updated
                        /\ team_ranks'[t].data_time = sources'[team_ranks'[t].ladder].updated
                             => t \in sources'[team_ranks'[t].ladder].members
      BY DEF Backed
    <3>3. CASE t \in f.members
      <4>1. f.ladder \in Ladders
        BY <1>1 DEF Response
      <4>2. team_ranks'[t] = [data_time |-> f.time, ladder |-> f.ladder]
            /\ sources'[f.ladder] = [updated |-> f.time, members |-> f.members]
        BY <3>3, <4>1, UpdateFacts
      <4> QED BY <1>1, <3>3, <4>1, <4>2
    <3>4. CASE t \notin f.members
      <4>1. team_ranks'[t] = team_ranks[t]
        BY <3>4, UpdateFacts
      <4> QED BY <2>2, <3>1, <3>2, <4>1
    <3> QED BY <3>3, <3>4
  <2> QED BY <2>3, <2>4 DEF RanksAreBacked
<1>6. SavedBehind'
  <2>1. ASSUME NEW t \in Teams PROVE team_ranks[t].data_time <= team_ranks'[t].data_time
    BY <1>1, UpdateFacts, TimesAreNat DEF IInv, Newer, TeamsOf
  <2>2. \A t \in Teams : /\ team_ranks[t].data_time \in Nat
                         /\ team_ranks'[t].data_time \in Nat
                         /\ ranking_data[t].data_time \in Nat
    <3>1. \A t \in Teams : team_ranks[t] \in TeamRank /\ team_ranks'[t] \in TeamRank
      BY DEF IInv, TypeOK
    <3> QED BY <3>1, TimesAreNat DEF IInv, TeamRank
  <2>3. Updating
    BY DEF Update, LadderCache, Updating
  <2> QED BY <2>1, <2>2, <2>3, UpdateFacts DEF IInv, SavedBehind, Updating
<1> QED BY <1>2, <1>3, <1>4, <1>5, <1>6 DEF IInv

\* Merging a source into ranks it does not contradict keeps them backed.
LEMMA CopyIInv ==
  ASSUME IInv, TypeOK', NEW l \in Ladders, Copy(l)
  PROVE  IInv'
<1>1. UNCHANGED <<clock, answer, fetched_queue, pc, sources, ranking_data>>
      /\ pc = "copying"
  BY DEF Copy
<1>2. \A t \in Teams : team_ranks'[t] = IF t \in sources[l].members
                                       THEN [data_time |-> sources[l].updated, ladder |-> l]
                                       ELSE team_ranks[t]
  BY DEF Copy, Merge
<1>3. sources[l].updated \in Nat /\ fetched_queue = <<>> /\ \A r \in Regions : answer[r] = Idle
  BY <1>1, TimesAreNat DEF IInv, NothingOnTheWay
<1>4. PastOnly'
  BY <1>1, <1>2 DEF IInv, PastOnly
<1>5. FetchOrder' /\ NothingOnTheWay' /\ SavedBehind'
  BY <1>1, <1>3 DEF FetchOrder, NothingOnTheWay, SavedBehind, Updating
<1>6. Backed(team_ranks)'
  <2> SUFFICES ASSUME NEW t \in Teams, team_ranks'[t].data_time > 0
               PROVE  /\ team_ranks'[t].ladder \in Ladders
                      /\ team_ranks'[t].data_time <= sources[team_ranks'[t].ladder].updated
                      /\ team_ranks'[t].data_time = sources[team_ranks'[t].ladder].updated
                           => t \in sources[team_ranks'[t].ladder].members
    BY <1>1 DEF Backed
  <2>1. CASE t \in sources[l].members
    BY <1>2, <1>3, <2>1
  <2>2. CASE t \notin sources[l].members
    BY <1>2, <2>2 DEF IInv, RanksAreBacked, Backed
  <2> QED BY <2>1, <2>2
<1>7. Backed(ranking_data)'
  BY <1>1 DEF IInv, RanksAreBacked, Backed
<1> QED BY <1>4, <1>5, <1>6, <1>7 DEF IInv, RanksAreBacked

LEMMA EmptyRanks ==
  ASSUME NEW t \in Teams PROVE NoTeamRanks[t].data_time = 0
BY DEF NoTeamRanks, Unranked

\* The steps that only clear, save or load team ranks.
LEMMA OtherIInv ==
  ASSUME IInv, TypeOK',
         \/ Save \/ Stop \/ JoinAndSave \/ Start \/ Load \/ SwitchSeason
         \/ BeginCopy \/ EndCopy \/ Exit \/ UNCHANGED vars
  PROVE  IInv'
<1>1. CASE Save
  BY <1>1, TimesAreNat DEF Save, IInv, PastOnly, FetchOrder, NothingOnTheWay,
     RanksAreBacked, Backed, SavedBehind, Updating
<1>2. CASE Stop
  BY <1>2 DEF Stop, IInv, PastOnly, FetchOrder, NothingOnTheWay,
     RanksAreBacked, Backed, SavedBehind, Updating
<1>3. CASE JoinAndSave
  BY <1>3, EmptyRanks DEF JoinAndSave, IInv, TypeOK, PastOnly, FetchOrder, NothingOnTheWay,
     RanksAreBacked, Backed, SavedBehind, Updating
<1>4. CASE Start
  BY <1>4 DEF Start, IInv, PastOnly, FetchOrder, NothingOnTheWay,
     RanksAreBacked, Backed, SavedBehind, Updating
<1>5. CASE Load
  <2>1. fetched_queue = <<>> /\ \A r \in Regions : answer[r] = Idle
    BY <1>5 DEF Load, Loaded, IInv, NothingOnTheWay
  <2> QED BY <1>5, <2>1, TimesAreNat DEF Load, Loaded, IInv, PastOnly, FetchOrder, NothingOnTheWay,
          RanksAreBacked, Backed, SavedBehind, Updating
<1>6. CASE SwitchSeason
  <2>1. fetched_queue = <<>> /\ \A r \in Regions : answer[r] = Idle
    BY <1>6 DEF SwitchSeason, IInv, NothingOnTheWay
  <2>2. \A l \in Ladders : NoSources[l].updated = 0
    BY DEF NoSources
  <2> QED BY <1>6, <2>1, <2>2, EmptyRanks DEF SwitchSeason, IInv, TypeOK, PastOnly, FetchOrder,
          NothingOnTheWay, RanksAreBacked, Backed, SavedBehind, Updating
<1>7. CASE BeginCopy
  <2>1. fetched_queue = <<>> /\ \A r \in Regions : answer[r] = Idle
    BY <1>7 DEF BeginCopy, IInv, NothingOnTheWay
  <2> QED BY <1>7, <2>1, EmptyRanks DEF BeginCopy, IInv, TypeOK, PastOnly, FetchOrder,
          NothingOnTheWay, RanksAreBacked, Backed, SavedBehind, Updating
<1>8. CASE EndCopy
  <2>1. fetched_queue = <<>> /\ \A r \in Regions : answer[r] = Idle
    BY <1>8 DEF EndCopy, IInv, NothingOnTheWay
  <2> QED BY <1>8, <2>1, TimesAreNat DEF EndCopy, IInv, PastOnly, FetchOrder,
          NothingOnTheWay, RanksAreBacked, Backed, SavedBehind, Updating
<1>9. CASE Exit
  <2>1. fetched_queue' = <<>> /\ \A r \in Regions : answer'[r] = Idle
    BY <1>9 DEF Exit
  <2> QED BY <1>9, <2>1, EmptyRanks DEF Exit, IInv, TypeOK, PastOnly, FetchOrder,
          NothingOnTheWay, RanksAreBacked, Backed, SavedBehind, Updating
<1>10. CASE UNCHANGED vars
  BY <1>10 DEF vars, IInv, PastOnly, FetchOrder, NothingOnTheWay,
     RanksAreBacked, Backed, SavedBehind, Updating
<1> QED BY <1>1, <1>2, <1>3, <1>4, <1>5, <1>6, <1>7, <1>8, <1>9, <1>10

LEMMA NextIInv == IInv /\ [Next]_vars => IInv'
<1> SUFFICES ASSUME IInv, [Next]_vars PROVE IInv'
  OBVIOUS
<1>1. TypeOK'
  BY NextType DEF IInv
<1> QED BY <1>1, FetchIInv, PushIInv, UpdateIInv, CopyIInv, OtherIInv DEF Next

LEMMA Invariance == Spec => []IInv
BY InitIInv, NextIInv, PTL DEF Spec

-----------------------------------------------------------------------------
(* The properties. *)

\* One thread per region and a first-in first-out queue keep the order of fetching.
THEOREM FetchOrderHolds == Spec => []FetchOrder
<1>1. IInv => FetchOrder
  BY DEF IInv
<1> QED BY <1>1, Invariance, PTL

\* Every team rank, in memory or saved, has a source that backs it, whatever crashes.
THEOREM RanksAreBackedHolds == Spec => []RanksAreBacked
<1>1. IInv => RanksAreBacked
  BY DEF IInv
<1> QED BY <1>1, Invariance, PTL

\* While ladders are fetched, no team goes back to data fetched earlier.
THEOREM LaterDataWinsHolds == Spec => LaterDataWins
<1>1. ASSUME IInv, [Next]_vars, Updating, Updating', NEW t \in Teams
      PROVE  team_ranks'[t].data_time >= team_ranks[t].data_time
  <2>1. team_ranks[t].data_time \in Nat
    BY <1>1, TimesAreNat DEF IInv
  <2>2. CASE Update
    <3>1. t \in fetched_queue[1].members
            => team_ranks[t].data_time < fetched_queue[1].time
      BY <1>1, <2>2, UpdateFacts DEF IInv, FetchOrder, OfRegion, TeamsOf, Newer
    <3>2. fetched_queue[1].time \in Nat
      BY <1>1, <2>2, UpdateFacts DEF Response
    <3> QED BY <1>1, <2>1, <2>2, <3>1, <3>2, UpdateFacts
  <2>3. CASE ~Update
    <3>1. team_ranks' = team_ranks
      BY <1>1, <2>3 DEF Next, vars, Updating, Fetch, Push, Save, Stop, JoinAndSave, Start,
         Load, SwitchSeason, BeginCopy, Copy, EndCopy, Exit
    <3> QED BY <2>1, <3>1
  <2> QED BY <2>2, <2>3
<1>2. IInv /\ [Next]_vars =>
        [Updating /\ Updating' =>
           \A t \in Teams : team_ranks'[t].data_time >= team_ranks[t].data_time]_vars
  BY <1>1
<1> QED BY <1>2, Invariance, PTL DEF Spec, LaterDataWins

\* What is saved for a ranking never goes back in time, across stops and crashes.
THEOREM SavedNeverOlderHolds == Spec => SavedNeverOlder
<1>1. ASSUME IInv, [Next]_vars, ranking' = ranking, NEW t \in Teams
      PROVE  ranking_data'[t].data_time >= ranking_data[t].data_time
  <2>1. ranking_data[t].data_time \in Nat /\ team_ranks[t].data_time \in Nat
    BY <1>1, TimesAreNat DEF IInv
  <2>2. CASE Save \/ JoinAndSave
    <3>1. Updating /\ ranking_data' = team_ranks
      BY <2>2 DEF Save, JoinAndSave, Updating
    <3> QED BY <1>1, <2>1, <3>1 DEF IInv, SavedBehind
  <2>3. CASE ~(Save \/ JoinAndSave)
    <3>1. ranking_data' = ranking_data
      BY <1>1, <2>3 DEF Next, vars, IInv, TypeOK, Fetch, Push, Update, Save, Stop,
         JoinAndSave, Start, Load, SwitchSeason, BeginCopy, Copy, EndCopy, Exit
    <3> QED BY <2>1, <3>1
  <2> QED BY <2>2, <2>3
<1>2. IInv /\ [Next]_vars =>
        [ranking' = ranking =>
           \A t \in Teams : ranking_data'[t].data_time >= ranking_data[t].data_time]_vars
  BY <1>1
<1> QED BY <1>2, Invariance, PTL DEF Spec, SavedNeverOlder


-----------------------------------------------------------------------------
(* The update path implements TeamData. *)

Known == DataTimes(IF Updating THEN team_ranks ELSE ranking_data)
Saved == DataTimes(ranking_data)

\* What a state of the update path is in TeamData.
LEMMA MappedTypes ==
  ASSUME TypeOK
  PROVE  Known \in [Teams -> 0..MaxClock] /\ Saved \in [Teams -> 0..MaxClock]
BY DEF TypeOK, Known, Saved, DataTimes, TeamRank

LEMMA MappedInit == Init => Data!Init
BY DEF Init, Data!Init, DataTimes, Updating, NoTeamRanks, Unranked

\* A merge learns what the response says of its members.
LEMMA UpdateLearns ==
  ASSUME IInv, Update
  PROVE  Data!Learn
<1> DEFINE f == fetched_queue[1]
<1>1. /\ f \in Response /\ f.members \in SUBSET Teams /\ f.time \in 1..MaxClock
      /\ 1 \in 1..Len(fetched_queue)
  BY UpdateFacts DEF Response
<1>2. \A t \in f.members : team_ranks[t].data_time < f.time
  BY <1>1 DEF IInv, FetchOrder, OfRegion, TeamsOf, Newer
<1>3. team_ranks' = Merge(team_ranks, f.ladder, f.members, f.time)
  BY UpdateFacts DEF Update
<1>4. Updating /\ Updating' /\ UNCHANGED <<ranking, ranking_data>>
  BY DEF Update, Updating
<1>5. Known = DataTimes(team_ranks) /\ Known' = DataTimes(team_ranks)'
  BY <1>4 DEF Known
<1>6. Known' = [t \in Teams |-> IF t \in f.members THEN f.time ELSE Known[t]]
  BY <1>3, <1>5 DEF DataTimes, Merge
<1>7. \A t \in f.members : Known[t] < f.time
  BY <1>1, <1>2, <1>5 DEF DataTimes
<1>8. UNCHANGED <<ranking, Saved>>
  BY <1>4 DEF Saved, DataTimes
<1> HIDE DEF f
<1> QED BY <1>1, <1>6, <1>7, <1>8 DEF Data!Learn, Known, Saved

\* Both saves save what is known; after the last one nothing else is left.
LEMMA SavesSave ==
  ASSUME IInv, Save \/ JoinAndSave
  PROVE  Data!Save
BY DEF Save, JoinAndSave, Updating, Data!Save, DataTimes

\* A new ranking is empty or has what was copied, in memory as well as saved.
LEMMA NewRankings ==
  ASSUME TypeOK', SwitchSeason \/ EndCopy
  PROVE  Data!NewRanking
<1>1. ranking' = ranking + 1 /\ Updating' /\ team_ranks' = ranking_data'
  BY DEF SwitchSeason, EndCopy, Updating
<1>2. DataTimes(ranking_data)' \in [Teams -> 0..MaxClock]
  BY DEF TypeOK, DataTimes, TeamRank
<1> QED BY <1>1, <1>2 DEF Data!NewRanking, Data!Times, DataTimes

\* The process falls back to what was saved.
LEMMA ExitLoses ==
  ASSUME Exit
  PROVE  Data!Lose
BY DEF Exit, Updating, Data!Lose, DataTimes

\* Everything else goes on out of sight; in particular a ranking that is continued is
\* loaded as it was saved.
LEMMA RestIsHidden ==
  ASSUME \/ \E r \in Regions, l \in Ladders : Fetch(r, l)
         \/ \E r \in Regions : Push(r)
         \/ Stop \/ Start \/ Load \/ BeginCopy
         \/ \E l \in Ladders : Copy(l)
         \/ UNCHANGED vars
  PROVE  UNCHANGED <<ranking, Known, Saved>>
<1>1. UNCHANGED <<ranking, ranking_data>>
  BY DEF Fetch, Push, Stop, Start, Load, BeginCopy, Copy, vars
<1>2. CASE \/ \E r \in Regions, l \in Ladders : Fetch(r, l)
           \/ \E r \in Regions : Push(r)
           \/ Stop \/ UNCHANGED vars
  <2>1. (Updating' <=> Updating) /\ UNCHANGED team_ranks
    BY <1>2 DEF Fetch, Push, Stop, vars, Updating
  <2> QED BY <1>1, <2>1 DEF Known, Saved, DataTimes
<1>3. CASE Load
  BY <1>1, <1>3 DEF Load, Loaded, Known, Saved, DataTimes, Updating
<1>4. CASE Start \/ BeginCopy \/ \E l \in Ladders : Copy(l)
  BY <1>1, <1>4 DEF Start, BeginCopy, Copy, Known, Saved, DataTimes, Updating
<1> QED BY <1>2, <1>3, <1>4

LEMMA MappedNext ==
  IInv /\ [Next]_vars => [Data!Next]_<<ranking, Known, Saved>>
<1> SUFFICES ASSUME IInv, [Next]_vars
             PROVE  Data!Next \/ UNCHANGED <<ranking, Known, Saved>>
  OBVIOUS
<1>1. TypeOK'
  BY NextType DEF IInv
<1> QED BY <1>1, UpdateLearns, SavesSave, NewRankings, ExitLoses, RestIsHidden
        DEF Next, Data!Next

\* The refinement: threads, queue, merges, saves, joins, loads and crashes implement a
\* register of the teams' data that only comes to know later data.
THEOREM Refinement == Spec => ImplementsTeamData
<1> USE DEF Known, Saved
<1> QED BY MappedInit, MappedNext, Invariance, PTL
        DEF Spec, ImplementsTeamData, Data!Spec
=============================================================================
