-------------------------- MODULE PastSeasonProofs --------------------------
(***************************************************************************)
(* Proofs for PastSeason.  Nothing in the code compares what purge,        *)
(* refetch and update process have in hand with the tables they have read  *)
(* it from.  What they go by is time: whoever holds a rank of recent data, *)
(* its row has been seen since, or the day before when it was written back *)
(* by an answer that was late, and rows that have been seen are not        *)
(* deleted.                                                                *)
(***************************************************************************)
EXTENDS PastSeason, TLAPS

\* Nothing is dated ahead.
InTime ==
  /\ \A t \in Teams : /\ rows[t].last_seen <= day
                      /\ cache[t].last_seen <= day
                      /\ refetch.cache[t].last_seen <= day
  /\ \A r \in past \cup latest \cup refetch.ranks \cup purge.ranks : r.data_time <= day
  /\ refetch.began <= day

\* A rank that has a row which was seen no earlier than the day before its data.
HasRow(r) == /\ rows[r.team].there
             /\ rows[r.team].id = r.id
             /\ r.data_time <= rows[r.team].last_seen + 1
IsOld(r) == r.data_time + KeepDays <= day
Sound(ranks) == \A r \in ranks : IsOld(r) \/ HasRow(r)

\* Whoever has team ranks of the past ranking in hand, and the rankings themselves.
PastSound == Sound(past) /\ Sound(refetch.ranks) /\ Sound(purge.ranks)
LatestSound == \A r \in latest : IsOld(r) \/ HasRow(r) \/ <<r.team, r.id>> \in stray

\* What is cached of a row that is still there; others have set it back a day at most if
\* late is 1, and not at all if late is 0.
Agrees(entry, row, late) == /\ row.there
                            /\ row.id = entry.id
                            /\ entry.last_seen <= row.last_seen + late

\* What the update process has cached is the row as it is or was.  If not looked up for
\* copies only, the row has been seen since the cache was dropped last, which was yesterday
\* or today, or on the day before that.
CacheSound ==
  \A t \in Teams : cache[t].id # 0 =>
    \/ <<t, cache[t].id>> \in stray
    \/ /\ Agrees(cache[t], rows[t], 0)
       /\ \/ t \in copied
          \/ /\ day <= rows[t].last_seen + 2
             /\ pause # "due" => day <= rows[t].last_seen + 1

\* What refetch_past_season has cached are rows that have been seen since it began, but
\* for a midnight.
RefetchSound ==
  /\ refetch.pc = "idle" => refetch.todo = {} /\ refetch.cache = NothingCached
  /\ refetch.pc = "fetching" => day < refetch.began + KeepDays
  /\ \A t \in Teams : refetch.cache[t].id # 0 =>
       /\ Agrees(refetch.cache[t], rows[t], 1)
       /\ refetch.began <= rows[t].last_seen + 1

IInv == TypeOK /\ InTime /\ PastSound /\ LatestSound /\ CacheSound /\ RefetchSound

-----------------------------------------------------------------------------
(* What meeting teams does to their rows. *)

\* Ids that were cached are of rows there have been; with such an id a team is met today
\* or was met yesterday.
CanMeet(known, met) ==
  /\ known \in [Teams -> Entry]
  /\ DOMAIN met \subseteq Teams
  /\ met \in [DOMAIN met -> Days]
  /\ \A t \in Teams : known[t].id <= rows[t].id /\ known[t].last_seen <= day
  /\ \A t \in DOMAIN met : met[t] <= day /\ (known[t].id # 0 => day <= met[t] + 1)

LEMMA RowTypes ==
  ASSUME TypeOK, NEW t \in Teams
  PROVE  /\ rows[t] \in Row
         /\ rows[t].id \in Nat /\ rows[t].there \in BOOLEAN
         /\ rows[t].last_seen \in Days /\ rows[t].last_seen \in Nat
         /\ day \in Days /\ day \in Nat /\ KeepDays \in Nat /\ KeepDays >= 2
         /\ rows[t].there => rows[t].id \in Id
BY PastSeasonAssumption DEF TypeOK, Id, Row, Days

LEMMA RankTypes ==
  ASSUME NEW r \in TeamRank
  PROVE  r.team \in Teams /\ r.id \in Id /\ r.data_time \in Days /\ r.data_time \in Nat
BY PastSeasonAssumption DEF TeamRank, Id, Days

\* The entry by which a team is met, and the entry that is cached then.
LEMMA EntryTypes ==
  ASSUME TypeOK, InTime, NEW known, NEW met, CanMeet(known, met), NEW t \in DOMAIN met
  PROVE  LET entry == GetOrInsert(known, t, met[t])
         IN  /\ t \in Teams /\ met[t] \in Days /\ met[t] \in Nat
             /\ entry \in Entry /\ entry.id \in Id /\ entry.last_seen <= day
             /\ entry.id <= rows[t].id + 1
             /\ Renewed(entry, met[t]) \in Entry
             /\ Renewed(entry, met[t]).id = entry.id
             /\ Renewed(entry, met[t]).last_seen = IF entry.last_seen < met[t]
                                                   THEN met[t] ELSE entry.last_seen
             /\ Renewed(entry, met[t]).last_seen <= day
<1> DEFINE entry == GetOrInsert(known, t, met[t])
<1>1. /\ t \in Teams /\ met[t] \in Days /\ met[t] \in Nat /\ met[t] <= day
      /\ known[t] \in Entry /\ known[t].id <= rows[t].id /\ known[t].last_seen <= day
  BY PastSeasonAssumption DEF CanMeet, Days
<1>2. rows[t].last_seen <= day
  BY <1>1 DEF InTime
<1>3. entry \in Entry /\ entry.id \in Id /\ entry.last_seen <= day /\ entry.id <= rows[t].id + 1
  <2>1. CASE known[t].id # 0
    BY <1>1, <2>1, RowTypes DEF GetOrInsert, Entry, Id
  <2>2. CASE known[t].id = 0 /\ rows[t].there
    BY <1>1, <1>2, <2>2, RowTypes DEF GetOrInsert, Entry, Id
  <2>3. CASE known[t].id = 0 /\ ~rows[t].there
    BY <1>1, <2>3, RowTypes DEF GetOrInsert, Entry, Id
  <2> QED BY <2>1, <2>2, <2>3
<1> HIDE DEF entry
<1>4. Renewed(entry, met[t]) = [id |-> entry.id,
                                last_seen |-> IF entry.last_seen < met[t]
                                              THEN met[t] ELSE entry.last_seen]
  BY <1>3 DEF Renewed, Entry
<1>5. Renewed(entry, met[t]) \in Entry
  BY <1>1, <1>3, <1>4 DEF Entry
<1> QED BY <1>1, <1>3, <1>4, <1>5 DEF entry

\* A row that is met or left alone keeps its type, and if it is there, its id; it is not set
\* back but to the day before.
Keeps(old, row) ==
  /\ row \in Row
  /\ row.there => row.id > 0
  /\ row.last_seen <= day
  /\ row.id >= old.id
  /\ old.there => /\ row.there /\ row.id = old.id
                  /\ row.last_seen >= old.last_seen \/ row.last_seen + 1 >= day

LEMMA RowMet ==
  ASSUME TypeOK, InTime, NEW known, NEW met, CanMeet(known, met), NEW t \in DOMAIN met,
         NEW changed \in BOOLEAN
  PROVE  LET entry == GetOrInsert(known, t, met[t])
             row == RowAfter(known, t, met[t], changed)
         IN  /\ Keeps(rows[t], row) /\ row.id >= entry.id
             /\ rows[t].there /\ (known[t].id = 0 \/ met[t] = day) =>
                  row.last_seen >= rows[t].last_seen
<1> DEFINE entry == GetOrInsert(known, t, met[t])
           renewed == Renewed(entry, met[t])
           row == RowAfter(known, t, met[t], changed)
<1>1. /\ t \in Teams /\ met[t] \in Nat /\ met[t] \in Days
      /\ entry \in Entry /\ entry.id \in Id /\ entry.id <= rows[t].id + 1
      /\ renewed.last_seen = IF entry.last_seen < met[t] THEN met[t] ELSE entry.last_seen
      /\ renewed.last_seen <= day /\ renewed \in Entry
  BY EntryTypes
<1>2. /\ met[t] <= day /\ (known[t].id # 0 => day <= met[t] + 1)
      /\ known[t].id <= rows[t].id /\ known[t].id \in Nat
  BY <1>1 DEF CanMeet, Entry
<1>3. rows[t].there /\ known[t].id = 0 => entry.id = rows[t].id /\ entry.last_seen = rows[t].last_seen
  BY DEF GetOrInsert
<1>4. known[t].id # 0 => entry.id = known[t].id
  BY DEF GetOrInsert
<1>5. entry.last_seen \in Nat /\ entry.last_seen \in Days /\ entry.id \in Nat
  BY <1>1, PastSeasonAssumption DEF Entry, Id, Days
<1>6. /\ rows[t] \in Row /\ rows[t].id \in Nat /\ rows[t].last_seen \in Nat /\ day \in Nat
      /\ rows[t].last_seen <= day /\ (rows[t].there => rows[t].id > 0)
  BY <1>1, RowTypes DEF InTime, TypeOK
<1>7. row = IF entry.id > rows[t].id THEN [id |-> entry.id, there |-> TRUE, last_seen |-> met[t]]
            ELSE IF rows[t].there /\ rows[t].id = entry.id /\ (entry.last_seen < met[t] \/ changed)
                 THEN [rows[t] EXCEPT !.last_seen = renewed.last_seen]
                 ELSE rows[t]
  BY DEF RowAfter
<1> HIDE DEF entry, row, renewed
<1>8. CASE entry.id > rows[t].id
  <2>1. row = [id |-> entry.id, there |-> TRUE, last_seen |-> met[t]] /\ ~rows[t].there
    BY <1>2, <1>3, <1>4, <1>7, <1>8, <1>6, <1>5
  <2> QED BY <1>1, <1>2, <1>5, <1>6, <1>8, <2>1 DEF Keeps, Row, row, entry
<1>9. CASE /\ ~(entry.id > rows[t].id)
           /\ rows[t].there /\ rows[t].id = entry.id /\ (entry.last_seen < met[t] \/ changed)
  <2>1. /\ row = [id |-> rows[t].id, there |-> rows[t].there, last_seen |-> renewed.last_seen]
    BY <1>6, <1>7, <1>9 DEF Row
  <2>2. renewed.last_seen \in Days /\ renewed.last_seen \in Nat
    BY <1>1, <1>5
  <2>3. \/ row.last_seen >= rows[t].last_seen
        \/ known[t].id # 0 /\ row.last_seen + 1 >= day
    <3>1. row.last_seen = renewed.last_seen
      BY <2>1
    <3>2. CASE known[t].id = 0
      BY <1>1, <1>3, <1>5, <1>6, <1>9, <3>1, <3>2
    <3>3. CASE known[t].id # 0
      BY <1>1, <1>2, <1>5, <1>6, <3>1, <3>3
    <3> QED BY <3>2, <3>3
  <2>4. met[t] = day => row.last_seen >= rows[t].last_seen
    BY <1>1, <1>5, <1>6, <2>1, <2>2
  <2>5. row \in Row
    BY <1>6, <2>1, <2>2 DEF Row
  <2> QED BY <1>1, <1>5, <1>6, <1>9, <2>1, <2>2, <2>3, <2>4, <2>5 DEF Keeps, row, entry
<1>10. CASE /\ ~(entry.id > rows[t].id)
            /\ ~(rows[t].there /\ rows[t].id = entry.id /\ (entry.last_seen < met[t] \/ changed))
  <2>1. row = rows[t]
    BY <1>7, <1>10
  <2> QED BY <1>5, <1>6, <1>10, <2>1 DEF Keeps, row, entry
<1> QED BY <1>8, <1>9, <1>10

\* If the id that was cached is that of the row, or none was, the row is there afterwards
\* and agrees with what is cached then, as far as it did before.
LEMMA RowAgrees ==
  ASSUME TypeOK, InTime, NEW known, NEW met, CanMeet(known, met), NEW t \in DOMAIN met,
         NEW changed \in BOOLEAN, NEW late \in {0, 1},
         known[t].id # 0 => Agrees(known[t], rows[t], late)
  PROVE  LET renewed == Renewed(GetOrInsert(known, t, met[t]), met[t])
             row == RowAfter(known, t, met[t], changed)
         IN  /\ Agrees(renewed, row, late)
             /\ met[t] <= row.last_seen + late
<1> DEFINE entry == GetOrInsert(known, t, met[t])
           renewed == Renewed(entry, met[t])
           row == RowAfter(known, t, met[t], changed)
<1>1. /\ t \in Teams /\ met[t] \in Nat
      /\ entry \in Entry /\ entry.id \in Id
      /\ renewed.last_seen = IF entry.last_seen < met[t] THEN met[t] ELSE entry.last_seen
      /\ renewed.id = entry.id
  BY EntryTypes
<1>2. \/ /\ rows[t].there /\ entry.id = rows[t].id
         /\ entry.last_seen <= rows[t].last_seen + late
      \/ /\ ~rows[t].there /\ entry.id = rows[t].id + 1 /\ entry.last_seen = met[t]
  <2>1. CASE known[t].id # 0
    BY <2>1 DEF GetOrInsert, Agrees
  <2>2. CASE known[t].id = 0
    BY <1>1, <2>2, RowTypes DEF GetOrInsert
  <2> QED BY <2>1, <2>2
<1>3. entry.last_seen \in Nat /\ entry.id \in Nat
  BY <1>1, PastSeasonAssumption DEF Entry, Id, Days
<1>4. /\ rows[t] \in Row /\ rows[t].id \in Nat /\ rows[t].last_seen \in Nat
  BY <1>1, RowTypes
<1>5. row = IF entry.id > rows[t].id THEN [id |-> entry.id, there |-> TRUE, last_seen |-> met[t]]
            ELSE IF rows[t].there /\ rows[t].id = entry.id /\ (entry.last_seen < met[t] \/ changed)
                 THEN [rows[t] EXCEPT !.last_seen = renewed.last_seen]
                 ELSE rows[t]
  BY DEF RowAfter
<1> HIDE DEF entry, row, renewed
<1>6. CASE ~rows[t].there
  <2>1. row = [id |-> entry.id, there |-> TRUE, last_seen |-> met[t]]
    BY <1>2, <1>3, <1>4, <1>5, <1>6
  <2> QED BY <1>1, <1>2, <1>3, <1>6, <2>1 DEF Agrees, row, renewed, entry
<1>7. CASE rows[t].there /\ (entry.last_seen < met[t] \/ changed)
  <2>1. row = [id |-> rows[t].id, there |-> rows[t].there, last_seen |-> renewed.last_seen]
    <3>1. rows[t].id = entry.id /\ ~(entry.id > rows[t].id)
      BY <1>2, <1>3, <1>4, <1>7
    <3>2. row = [rows[t] EXCEPT !.last_seen = renewed.last_seen]
      BY <1>5, <1>7, <3>1
    <3> QED BY <1>4, <3>2 DEF Row
  <2>2. renewed.last_seen \in Nat
    BY <1>1, <1>3
  <2>3. row.there /\ row.id = renewed.id /\ row.last_seen = renewed.last_seen
    BY <1>1, <1>2, <1>7, <2>1
  <2> QED BY <1>1, <1>3, <2>2, <2>3 DEF Agrees, row, renewed, entry
<1>8. CASE rows[t].there /\ ~(entry.last_seen < met[t] \/ changed)
  <2>1. row = rows[t] /\ renewed.last_seen = entry.last_seen /\ entry.last_seen >= met[t]
    BY <1>1, <1>2, <1>3, <1>4, <1>5, <1>8
  <2>2. row.there /\ row.id = renewed.id
    BY <1>1, <1>2, <1>8, <2>1
  <2> QED BY <1>1, <1>2, <1>3, <1>4, <1>8, <2>1, <2>2 DEF Agrees, row, renewed, entry
<1> QED BY <1>6, <1>7, <1>8

LEMMA RowOfMet ==
  ASSUME NEW known, NEW met, NEW changed, NEW t \in Teams, t \in DOMAIN met
  PROVE  \E c \in BOOLEAN : RowsAfter(known, met, changed)[t] = RowAfter(known, t, met[t], c)
<1>1. RowsAfter(known, met, changed)[t] = RowAfter(known, t, met[t], t \in changed)
  BY DEF RowsAfter
<1>2. CASE t \in changed
  BY <1>1, <1>2 DEF RowAfter
<1>3. CASE t \notin changed
  BY <1>1, <1>3 DEF RowAfter
<1> QED BY <1>2, <1>3

\* A step that only meets teams.
RowsStay ==
  /\ day' = day
  /\ rows' \in [Teams -> Row]
  /\ \A t \in Teams : Keeps(rows[t], rows'[t])

LEMMA MetRowsStay ==
  ASSUME TypeOK, InTime, NEW known, NEW met, CanMeet(known, met), NEW changed,
         day' = day, rows' = RowsAfter(known, met, changed)
  PROVE  /\ RowsStay
         /\ \A t \in Teams :
              /\ t \notin DOMAIN met => rows'[t] = rows[t]
              /\ /\ rows[t].there
                 /\ t \notin DOMAIN met \/ known[t].id = 0 \/ met[t] = day
                 => rows'[t].last_seen >= rows[t].last_seen
<1>1. rows' = [t \in Teams |-> rows'[t]]
  BY DEF RowsAfter
<1>2. ASSUME NEW t \in Teams
      PROVE  /\ Keeps(rows[t], rows'[t])
             /\ t \notin DOMAIN met => rows'[t] = rows[t]
             /\ /\ rows[t].there
                /\ t \notin DOMAIN met \/ known[t].id = 0 \/ met[t] = day
                => rows'[t].last_seen >= rows[t].last_seen
  <2>1. CASE t \in DOMAIN met
    <3>1. PICK c \in BOOLEAN : rows'[t] = RowAfter(known, t, met[t], c)
      BY <2>1, RowOfMet
    <3>2. /\ Keeps(rows[t], RowAfter(known, t, met[t], c))
          /\ rows[t].there /\ (known[t].id = 0 \/ met[t] = day) =>
               RowAfter(known, t, met[t], c).last_seen >= rows[t].last_seen
      BY <2>1, RowMet
    <3> QED BY <2>1, <3>1, <3>2
  <2>2. CASE t \notin DOMAIN met
    <3>1. rows'[t] = rows[t]
      BY <2>2 DEF RowsAfter
    <3> QED BY <2>2, <3>1, RowTypes DEF InTime, TypeOK, Keeps
  <2> QED BY <2>1, <2>2
<1>3. rows' \in [Teams -> Row]
  BY <1>1, <1>2 DEF Keeps
<1> QED BY <1>2, <1>3 DEF RowsStay

\* So a rank that had its row has it still.
LEMMA StaySound ==
  ASSUME TypeOK, RowsStay, NEW r \in TeamRank, r.data_time <= day, IsOld(r) \/ HasRow(r)
  PROVE  IsOld(r)' \/ HasRow(r)'
<1>1. CASE IsOld(r)
  BY <1>1 DEF IsOld, RowsStay
<1>2. CASE HasRow(r)
  <2>1. r.team \in Teams /\ r.data_time \in Nat
    BY RankTypes
  <2>2. rows'[r.team].last_seen \in Nat
    BY <2>1, PastSeasonAssumption DEF RowsStay, Row, Days
  <2> QED BY <1>2, <2>1, <2>2, RowTypes DEF HasRow, RowsStay, Keeps
<1> QED BY <1>1, <1>2

\* What is in memory after teams were met.
LEMMA MetInMemory ==
  ASSUME TypeOK, InTime, NEW known, NEW met, CanMeet(known, met), NEW changed,
         rows' = RowsAfter(known, met, changed), RowsStay
  PROVE  /\ TeamRanks(known, met) \subseteq TeamRank
         /\ \A r \in TeamRanks(known, met) : r.data_time <= day
         /\ KnownAfter(known, met) \in [Teams -> Entry]
         /\ \A t \in Teams : /\ KnownAfter(known, met)[t].last_seen <= day
                             /\ KnownAfter(known, met)[t].id <= rows'[t].id
<1>1. \A t \in DOMAIN met :
        /\ t \in Teams /\ met[t] \in Days /\ met[t] <= day
        /\ GetOrInsert(known, t, met[t]).id \in Id
        /\ Renewed(GetOrInsert(known, t, met[t]), met[t]) \in Entry
        /\ Renewed(GetOrInsert(known, t, met[t]), met[t]).last_seen <= day
        /\ Renewed(GetOrInsert(known, t, met[t]), met[t]).id = GetOrInsert(known, t, met[t]).id
  BY EntryTypes DEF CanMeet
<1>2. \A t \in DOMAIN met : rows'[t].id >= GetOrInsert(known, t, met[t]).id
  <2> SUFFICES ASSUME NEW t \in DOMAIN met
               PROVE  rows'[t].id >= GetOrInsert(known, t, met[t]).id
    OBVIOUS
  <2>1. PICK c \in BOOLEAN : rows'[t] = RowAfter(known, t, met[t], c)
    BY <1>1, RowOfMet
  <2> QED BY <2>1, RowMet
<1>3. TeamRanks(known, met) \subseteq TeamRank
  BY <1>1 DEF TeamRanks, TeamRank
<1>4. \A r \in TeamRanks(known, met) : r.data_time <= day
  BY <1>1 DEF TeamRanks
<1>5. ASSUME NEW t \in Teams
      PROVE  /\ KnownAfter(known, met)[t] \in Entry
             /\ KnownAfter(known, met)[t].last_seen <= day
             /\ KnownAfter(known, met)[t].id <= rows'[t].id
  <2>1. KnownAfter(known, met)[t] = IF t \in DOMAIN met
                                    THEN Renewed(GetOrInsert(known, t, met[t]), met[t])
                                    ELSE known[t]
    BY DEF KnownAfter
  <2>2. CASE t \in DOMAIN met
    <3>1. /\ rows'[t].id >= GetOrInsert(known, t, met[t]).id
          /\ KnownAfter(known, met)[t].id = GetOrInsert(known, t, met[t]).id
          /\ GetOrInsert(known, t, met[t]).id \in Nat /\ rows'[t].id \in Nat
      BY <1>1, <1>2, <2>1, <2>2 DEF Id, RowsStay, Row
    <3> QED BY <1>1, <2>1, <2>2, <3>1
  <2>3. CASE t \notin DOMAIN met
    <3>1. /\ known[t] \in Entry /\ known[t].id <= rows[t].id /\ known[t].last_seen <= day
          /\ known[t].id \in Nat /\ rows'[t].id \in Nat /\ rows'[t].id >= rows[t].id
      BY DEF CanMeet, Entry, RowsStay, Row, Keeps
    <3> QED BY <2>1, <2>3, <3>1, RowTypes
  <2> QED BY <2>2, <2>3
<1>6. KnownAfter(known, met) \in [Teams -> Entry]
  <2>1. KnownAfter(known, met) = [t \in Teams |-> KnownAfter(known, met)[t]]
    BY DEF KnownAfter
  <2> QED BY <1>5, <2>1
<1> QED BY <1>3, <1>4, <1>5, <1>6

\* The team ranks that are made have their rows, where what was cached are the rows.
LEMMA MetHaveRows ==
  ASSUME TypeOK, InTime, NEW known, NEW met, CanMeet(known, met), NEW changed,
         day' = day, rows' = RowsAfter(known, met, changed),
         NEW t \in DOMAIN met, NEW late \in {0, 1},
         known[t].id # 0 => Agrees(known[t], rows[t], late)
  PROVE  /\ \A r \in TeamRanks(known, met) : r.team = t => HasRow(r)'
         /\ Agrees(KnownAfter(known, met)[t], rows'[t], late)
         /\ met[t] <= rows'[t].last_seen + late
<1> DEFINE entry == GetOrInsert(known, t, met[t])
           renewed == Renewed(entry, met[t])
<1>1. t \in Teams /\ met[t] \in Nat /\ renewed.id = entry.id
  BY EntryTypes
<1>2. KnownAfter(known, met)[t] = renewed
  BY <1>1 DEF KnownAfter
<1>3. PICK c \in BOOLEAN : rows'[t] = RowAfter(known, t, met[t], c)
  BY <1>1, RowOfMet
<1>4. Agrees(renewed, rows'[t], late) /\ met[t] <= rows'[t].last_seen + late
  BY <1>3, RowAgrees
<1>5. rows'[t].last_seen \in Nat
  <2>1. rows'[t] \in Row
    BY <1>1, MetRowsStay DEF RowsStay
  <2> QED BY <2>1, PastSeasonAssumption DEF Row, Days
<1>6. ASSUME NEW r \in TeamRanks(known, met), r.team = t PROVE HasRow(r)'
  <2>1. r.id = entry.id /\ r.data_time = met[t]
    BY <1>6 DEF TeamRanks
  <2> HIDE DEF entry, renewed
  <2>2. rows'[t].there /\ rows'[t].id = r.id /\ r.data_time <= rows'[t].last_seen + 1
    BY <1>1, <1>4, <1>5, <2>1 DEF Agrees
  <2> QED BY <1>6, <2>2 DEF HasRow
<1> QED BY <1>2, <1>4, <1>6

-----------------------------------------------------------------------------
(* The inductive invariant. *)

LEMMA InitIInv == Init => IInv
<1> SUFFICES ASSUME Init PROVE IInv
  OBVIOUS
<1> USE PastSeasonAssumption
<1> DEFINE first == UNION {TeamsOf[l] : l \in Known}
<1>1. first \subseteq Teams
  OBVIOUS
<1>2. /\ rows = [t \in Teams |-> IF t \in first
                                 THEN [id |-> 1, there |-> TRUE, last_seen |-> 0]
                                 ELSE [id |-> 0, there |-> FALSE, last_seen |-> 0]]
      /\ past = {[team |-> t, id |-> 1, data_time |-> 0] : t \in first}
      /\ day = 0 /\ latest = {} /\ cache = NothingCached /\ pause = "done"
      /\ refetch = [pc |-> "idle", began |-> 0, todo |-> {}, ranks |-> {},
                    cache |-> NothingCached]
      /\ purge = [pc |-> "idle", ids |-> {}, ranks |-> {}]
      /\ crossed = FALSE /\ copied = {} /\ stray = {}
  BY DEF Init, NotRefetching, NotPurging
<1>3. ladders \in [Ladders -> Ladder]
  BY DEF Init, Ladder, Days
<1>4. NothingCached \in [Teams -> Entry] /\ \A t \in Teams : NothingCached[t] = [id |-> 0, last_seen |-> 0]
  BY DEF NothingCached, NoEntry, Entry, Days
<1> HIDE DEF first
<1>5. past \subseteq TeamRank
  BY <1>1, <1>2 DEF TeamRank, Id, Days
<1>6. rows \in [Teams -> Row]
  BY <1>2 DEF Row, Days
<1>7. TypeOK
  <2>1. \A t \in Teams : rows[t].there => rows[t].id > 0
    BY <1>2
  <2>5. \A t \in Teams : cache[t].id <= rows[t].id /\ refetch.cache[t].id <= rows[t].id
    BY <1>2, <1>4
  <2>2. refetch \in [pc : {"idle", "fetching"}, began : Days, todo : SUBSET Ladders,
                      ranks : SUBSET TeamRank, cache : [Teams -> Entry]]
    <3>1. 0 \in Days
      BY DEF Days
    <3> QED BY <1>2, <1>4, <3>1
  <2>4. purge \in [pc : {"idle", "listed", "loaded", "saved"}, ids : SUBSET (Teams \X Id),
                    ranks : SUBSET TeamRank]
    BY <1>2
  <2>3. /\ day \in Days /\ latest \subseteq TeamRank
        /\ copied \subseteq Teams /\ stray \subseteq Teams \X Id
    BY <1>2 DEF Days
  <2>7. pause \in {"due", "done", "remade"} /\ crossed \in BOOLEAN
    BY <1>2
  <2>6. cache \in [Teams -> Entry]
    BY <1>2, <1>4
  <2> QED BY <1>3, <1>5, <1>6, <2>1, <2>2, <2>3, <2>4, <2>5, <2>6,
          <2>7 DEF TypeOK
<1>8. InTime
  BY <1>2, <1>4 DEF InTime
<1>9. PastSound
  BY <1>1, <1>2 DEF PastSound, Sound, HasRow
<1>10. LatestSound /\ CacheSound /\ RefetchSound
  BY <1>2, <1>4 DEF LatestSound, CacheSound, RefetchSound
<1> QED BY <1>7, <1>8, <1>9, <1>10 DEF IInv

LEMMA EntryNat ==
  ASSUME NEW entry \in Entry
  PROVE  entry.id \in Nat /\ entry.last_seen \in Nat /\ entry.last_seen \in Days
BY PastSeasonAssumption DEF Entry, Days

\* Meeting teams leaves sound team ranks sound, and what others have cached.
LEMMA StayIInv ==
  ASSUME IInv, RowsStay
  PROVE  /\ \A r \in TeamRank : r.data_time <= day /\ (IsOld(r) \/ HasRow(r)) =>
                                IsOld(r)' \/ HasRow(r)'
         /\ \A t \in Teams : refetch.cache[t].id # 0 =>
              /\ Agrees(refetch.cache[t], rows'[t], 1)
              /\ refetch.began <= rows'[t].last_seen + 1
         /\ \A t \in Teams :
              /\ Agrees(cache[t], rows[t], 0)
              /\ rows[t].there => rows'[t].last_seen >= rows[t].last_seen
              => Agrees(cache[t], rows'[t], 0) /\ rows'[t].last_seen >= rows[t].last_seen
<1>1. TypeOK /\ InTime
  BY DEF IInv
<1>2. \A r \in TeamRank : r.data_time <= day /\ (IsOld(r) \/ HasRow(r)) =>
                          IsOld(r)' \/ HasRow(r)'
  BY <1>1, StaySound
<1>3. ASSUME NEW t \in Teams
      PROVE  rows'[t].last_seen \in Nat /\ rows'[t].id \in Nat
  BY PastSeasonAssumption DEF RowsStay, Row, Days
<1>4. ASSUME NEW t \in Teams, refetch.cache[t].id # 0
      PROVE  /\ Agrees(refetch.cache[t], rows'[t], 1)
             /\ refetch.began <= rows'[t].last_seen + 1
  <2>1. /\ Agrees(refetch.cache[t], rows[t], 1) /\ refetch.began <= rows[t].last_seen + 1
    BY <1>4 DEF IInv, RefetchSound
  <2>2. /\ refetch.cache[t] \in Entry /\ refetch.cache[t].last_seen <= day
        /\ refetch.began \in Nat /\ refetch.began <= day
    BY <1>1, PastSeasonAssumption DEF TypeOK, InTime, Days
  <2>3. Keeps(rows[t], rows'[t])
    BY DEF RowsStay
  <2> QED BY <1>1, <1>3, <2>1, <2>2, <2>3, EntryNat, RowTypes DEF Agrees, Keeps
<1>5. ASSUME NEW t \in Teams, Agrees(cache[t], rows[t], 0),
             rows[t].there => rows'[t].last_seen >= rows[t].last_seen
      PROVE  Agrees(cache[t], rows'[t], 0) /\ rows'[t].last_seen >= rows[t].last_seen
  <2>1. Keeps(rows[t], rows'[t]) /\ cache[t] \in Entry
    BY <1>1 DEF RowsStay, TypeOK
  <2> QED BY <1>1, <1>3, <1>5, <2>1, EntryNat, RowTypes DEF Agrees, Keeps
<1> QED BY <1>2, <1>4, <1>5

\* The types that a step keeps that meets teams.
LEMMA StayTypeOK ==
  ASSUME TypeOK, RowsStay,
         UNCHANGED <<past, purge, crossed, stray>>,
         ladders' \in [Ladders -> Ladder], latest' \subseteq TeamRank,
         cache' \in [Teams -> Entry], pause' \in {"due", "done", "remade"},
         copied' \subseteq Teams,
         refetch' \in [pc : {"idle", "fetching"}, began : Days, todo : SUBSET Ladders,
                       ranks : SUBSET TeamRank, cache : [Teams -> Entry]],
         \A t \in Teams : cache'[t].id <= rows'[t].id /\ refetch'.cache[t].id <= rows'[t].id
  PROVE  TypeOK'
<1>1. /\ rows' \in [Teams -> Row] /\ \A t \in Teams : rows'[t].there => rows'[t].id > 0
      /\ day' \in Days
  BY DEF RowsStay, Keeps, TypeOK
<1>2. /\ past' \subseteq TeamRank /\ crossed' \in BOOLEAN /\ stray' \subseteq Teams \X Id
      /\ purge' \in [pc : {"idle", "listed", "loaded", "saved"}, ids : SUBSET (Teams \X Id),
                      ranks : SUBSET TeamRank]
  BY DEF TypeOK
<1> QED BY <1>1, <1>2 DEF TypeOK

\* Ids in memory are not above those of rows that were met since.
LEMMA StayIds ==
  ASSUME TypeOK, RowsStay, NEW t \in Teams, NEW entry \in Entry, entry.id <= rows[t].id
  PROVE  entry.id <= rows'[t].id
<1>1. rows'[t].id \in Nat /\ rows'[t].id >= rows[t].id
  BY DEF RowsStay, Keeps, Row
<1> QED BY <1>1, EntryNat, RowTypes

LEMMA UpdateIInv ==
  ASSUME IInv, NEW t \in Active, Update(t)
  PROVE  IInv'
<1>1. TypeOK /\ InTime /\ t \in Teams
  BY PastSeasonAssumption DEF IInv
<1>2. PICK date \in {day, day - 1} \cap Days, changed \in SUBSET {t} :
        LET met == [u \in {t} |-> date]
        IN  /\ cache' = KnownAfter(cache, met)
            /\ rows' = RowsAfter(cache, met, changed)
            /\ latest' = Merged(latest, TeamRanks(cache, met))
  BY DEF Update
<1> DEFINE met == [u \in {t} |-> date]
<1>3. /\ DOMAIN met = {t} /\ met[t] = date /\ date \in Days /\ date \in Nat
      /\ date <= day /\ day <= date + 1 /\ day \in Nat
  BY <1>1, RowTypes, PastSeasonAssumption DEF Days
<1>4. /\ cache' = KnownAfter(cache, met)
      /\ rows' = RowsAfter(cache, met, changed)
      /\ latest' = Merged(latest, TeamRanks(cache, met))
      /\ copied' = copied \ {t}
      /\ UNCHANGED <<day, ladders, past, pause, refetch, purge, crossed, stray>>
  BY <1>2 DEF Update
<1>5. CanMeet(cache, met)
  BY <1>1, <1>3 DEF CanMeet, TypeOK, InTime
<1> HIDE DEF met
<1>6. /\ RowsStay
      /\ \A u \in Teams : u # t => rows'[u] = rows[u]
  BY <1>1, <1>3, <1>4, <1>5, MetRowsStay
<1>7. /\ TeamRanks(cache, met) \subseteq TeamRank
      /\ \A r \in TeamRanks(cache, met) : r.data_time <= day /\ r.team = t
      /\ cache' \in [Teams -> Entry]
      /\ \A u \in Teams : cache'[u].last_seen <= day /\ cache'[u].id <= rows'[u].id
  <2>1. \A r \in TeamRanks(cache, met) : r.team = t
    BY <1>3 DEF TeamRanks
  <2> QED BY <1>1, <1>4, <1>5, <1>6, <2>1, MetInMemory
<1>8. /\ \A u \in Teams : u # t => cache'[u] = cache[u]
      /\ cache[t].id # 0 => cache'[t].id = cache[t].id
      /\ \A r \in TeamRanks(cache, met) : cache[t].id # 0 => r.id = cache[t].id
  <2>1. /\ \A u \in Teams : u # t => cache'[u] = cache[u]
        /\ cache'[t] = Renewed(GetOrInsert(cache, t, met[t]), met[t])
    BY <1>1, <1>3, <1>4 DEF KnownAfter
  <2>2. cache[t].id # 0 => GetOrInsert(cache, t, met[t]) = cache[t]
    BY DEF GetOrInsert
  <2>3. Renewed(GetOrInsert(cache, t, met[t]), met[t]).id = GetOrInsert(cache, t, met[t]).id
    BY <1>1, <1>3, <1>5, EntryTypes
  <2>4. \A r \in TeamRanks(cache, met) : r.id = GetOrInsert(cache, t, met[t]).id
    BY <1>3 DEF TeamRanks
  <2> QED BY <2>1, <2>2, <2>3, <2>4
\* The id is that of a row that was deleted, or the row is met.
<1>9. \/ cache[t].id # 0 /\ <<t, cache[t].id>> \in stray
      \/ /\ Agrees(cache'[t], rows'[t], 0)
         /\ day <= rows'[t].last_seen + 1
         /\ \A r \in TeamRanks(cache, met) : HasRow(r)'
  <2> SUFFICES ASSUME ~(cache[t].id # 0 /\ <<t, cache[t].id>> \in stray)
               PROVE  /\ Agrees(cache'[t], rows'[t], 0)
                      /\ day <= rows'[t].last_seen + 1
                      /\ \A r \in TeamRanks(cache, met) : HasRow(r)'
    OBVIOUS
  <2>1. cache[t].id # 0 => Agrees(cache[t], rows[t], 0)
    BY <1>1 DEF IInv, CacheSound
  <2>2. /\ \A r \in TeamRanks(cache, met) : r.team = t => HasRow(r)'
        /\ Agrees(KnownAfter(cache, met)[t], rows'[t], 0)
        /\ met[t] <= rows'[t].last_seen + 0
    BY <1>1, <1>3, <1>4, <1>5, <2>1, MetHaveRows
  <2>3. rows'[t].last_seen \in Nat
    BY <1>1, <1>6, PastSeasonAssumption DEF RowsStay, Row, Days
  <2> QED BY <1>3, <1>4, <1>7, <2>2, <2>3
<1>10. latest' \subseteq TeamRank
  BY <1>1, <1>4, <1>7 DEF TypeOK, Merged
<1>11. TypeOK'
  <2>1. \A u \in Teams : refetch'.cache[u].id <= rows'[u].id
    <3>1. \A u \in Teams : refetch.cache[u] \in Entry /\ refetch.cache[u].id <= rows[u].id
      BY <1>1 DEF TypeOK
    <3> QED BY <1>1, <1>4, <1>6, <3>1, StayIds
  <2>2. /\ ladders' \in [Ladders -> Ladder] /\ pause' \in {"due", "done", "remade"}
        /\ copied' \subseteq Teams
        /\ refetch' \in [pc : {"idle", "fetching"}, began : Days, todo : SUBSET Ladders,
                         ranks : SUBSET TeamRank, cache : [Teams -> Entry]]
    BY <1>1, <1>4 DEF TypeOK
  <2> QED BY <1>1, <1>4, <1>6, <1>7, <1>10, <2>1, <2>2, StayTypeOK
<1>12. InTime'
  <2>1. \A u \in Teams : rows'[u].last_seen <= day
    BY <1>6 DEF RowsStay, Keeps
  <2>2. \A r \in latest' : r.data_time <= day
    BY <1>1, <1>4, <1>7 DEF InTime, Merged
  <2> QED BY <1>1, <1>4, <1>7, <2>1, <2>2 DEF InTime
<1>13. \A r \in TeamRank : r.data_time <= day /\ (IsOld(r) \/ HasRow(r)) =>
                           IsOld(r)' \/ HasRow(r)'
  BY <1>6, StayIInv
<1>14. PastSound'
  BY <1>1, <1>4, <1>13 DEF IInv, PastSound, Sound, TypeOK, InTime
<1>15. LatestSound'
  <2> SUFFICES ASSUME NEW r \in latest'
               PROVE  IsOld(r)' \/ HasRow(r)' \/ <<r.team, r.id>> \in stray
    BY <1>4 DEF LatestSound
  <2>1. CASE r \in latest
    <3>1. r \in TeamRank /\ r.data_time <= day
      BY <1>1, <2>1 DEF TypeOK, InTime
    <3> QED BY <1>13, <2>1, <3>1 DEF IInv, LatestSound
  <2>2. CASE r \in TeamRanks(cache, met)
    BY <1>7, <1>8, <1>9, <2>2
  <2> QED BY <1>4, <2>1, <2>2 DEF Merged
<1>16. CacheSound'
  <2> SUFFICES ASSUME NEW u \in Teams, cache'[u].id # 0
               PROVE  \/ <<u, cache'[u].id>> \in stray
                      \/ /\ Agrees(cache'[u], rows'[u], 0)
                         /\ \/ u \in copied'
                            \/ /\ day <= rows'[u].last_seen + 2
                               /\ pause # "due" => day <= rows'[u].last_seen + 1
    BY <1>4 DEF CacheSound
  <2>1. CASE u = t
    <3>1. rows'[t].last_seen \in Nat
      BY <1>1, <1>6, PastSeasonAssumption DEF RowsStay, Row, Days
    <3> QED BY <1>3, <1>8, <1>9, <2>1, <3>1
  <2>2. CASE u # t
    BY <1>4, <1>6, <1>8, <2>2 DEF IInv, CacheSound
  <2> QED BY <2>1, <2>2
<1>17. RefetchSound'
  BY <1>4, <1>6, StayIInv DEF IInv, RefetchSound
<1> QED BY <1>11, <1>12, <1>14, <1>15, <1>16, <1>17 DEF IInv

LEMMA RemakeIInv ==
  ASSUME IInv, Remake
  PROVE  IInv'
<1>1. TypeOK /\ InTime
  BY DEF IInv
<1>2. PICK teams \in SUBSET Teams : \E met \in [teams -> Days] :
        /\ \A t \in teams : \E r \in latest : r.team = t /\ r.data_time = met[t]
        /\ cache' = KnownAfter(cache, met)
        /\ rows' = RowsAfter(cache, met, {})
        /\ latest' = TeamRanks(cache, met)
        /\ copied' = teams
  BY DEF Remake
<1>3. PICK met \in [teams -> Days] :
        /\ \A t \in teams : \E r \in latest : r.team = t /\ r.data_time = met[t]
        /\ cache' = KnownAfter(cache, met)
        /\ rows' = RowsAfter(cache, met, {})
        /\ latest' = TeamRanks(cache, met)
        /\ copied' = teams
  BY <1>2
<1>4. /\ cache = NothingCached /\ \A t \in Teams : cache[t].id = 0
      /\ pause' = "remade" /\ pause = "done"
      /\ UNCHANGED <<day, ladders, past, refetch, purge, crossed, stray>>
  BY DEF Remake, NothingCached, NoEntry
<1>5. DOMAIN met = teams /\ \A t \in teams : met[t] \in Days /\ met[t] <= day
  BY <1>1, <1>3 DEF InTime
<1>6. CanMeet(cache, met)
  BY <1>1, <1>4, <1>5 DEF CanMeet, TypeOK, InTime
<1>7. /\ RowsStay
      /\ \A t \in Teams : rows[t].there => rows'[t].last_seen >= rows[t].last_seen
  BY <1>1, <1>3, <1>4, <1>6, MetRowsStay
<1>8. /\ latest' \subseteq TeamRank /\ \A r \in latest' : r.data_time <= day
      /\ cache' \in [Teams -> Entry]
      /\ \A t \in Teams : cache'[t].last_seen <= day /\ cache'[t].id <= rows'[t].id
  BY <1>1, <1>3, <1>6, <1>7, MetInMemory
<1>9. ASSUME NEW t \in teams
      PROVE  /\ \A r \in latest' : r.team = t => HasRow(r)'
             /\ Agrees(cache'[t], rows'[t], 0)
  BY <1>1, <1>3, <1>4, <1>5, <1>6, MetHaveRows
<1>10. \A r \in latest' : r.team \in teams
  BY <1>3, <1>5 DEF TeamRanks
<1>11. \A t \in Teams : t \notin teams => cache'[t] = cache[t]
  BY <1>3, <1>5 DEF KnownAfter
<1>12. TypeOK'
  <2>1. \A t \in Teams : refetch'.cache[t].id <= rows'[t].id
    <3>1. \A t \in Teams : refetch.cache[t] \in Entry /\ refetch.cache[t].id <= rows[t].id
      BY <1>1 DEF TypeOK
    <3> QED BY <1>1, <1>4, <1>7, <3>1, StayIds
  <2>2. /\ ladders' \in [Ladders -> Ladder] /\ pause' \in {"due", "done", "remade"}
        /\ copied' \subseteq Teams
        /\ refetch' \in [pc : {"idle", "fetching"}, began : Days, todo : SUBSET Ladders,
                         ranks : SUBSET TeamRank, cache : [Teams -> Entry]]
    BY <1>1, <1>3, <1>4 DEF TypeOK
  <2> QED BY <1>1, <1>4, <1>7, <1>8, <2>1, <2>2, StayTypeOK
<1>13. InTime'
  <2>1. \A t \in Teams : rows'[t].last_seen <= day
    BY <1>7 DEF RowsStay, Keeps
  <2> QED BY <1>1, <1>4, <1>8, <2>1 DEF InTime
<1>14. \A r \in TeamRank : r.data_time <= day /\ (IsOld(r) \/ HasRow(r)) =>
                           IsOld(r)' \/ HasRow(r)'
  BY <1>7, StayIInv
<1>15. PastSound'
  BY <1>1, <1>4, <1>14 DEF IInv, PastSound, Sound, TypeOK, InTime
<1>16. LatestSound'
  BY <1>9, <1>10 DEF LatestSound
<1>17. CacheSound'
  BY <1>3, <1>4, <1>9, <1>11 DEF CacheSound
<1>18. RefetchSound'
  BY <1>4, <1>7, StayIInv DEF IInv, RefetchSound
<1> QED BY <1>12, <1>13, <1>15, <1>16, <1>17, <1>18 DEF IInv

LEMMA RefetchLadderIInv ==
  ASSUME IInv, NEW l \in Ladders, RefetchLadder(l)
  PROVE  IInv'
<1>1. TypeOK /\ InTime
  BY DEF IInv
<1>2. PICK members \in SUBSET TeamsOf[l] : \E changed \in SUBSET members :
        LET met == [t \in members |-> day]
        IN  /\ refetch' = [refetch EXCEPT !.todo = @ \ {l},
                                          !.ranks = Merged(@, TeamRanks(refetch.cache, met)),
                                          !.cache = KnownAfter(@, met)]
            /\ rows' = RowsAfter(refetch.cache, met, changed)
  BY DEF RefetchLadder
<1>3. PICK changed \in SUBSET members :
        LET met == [t \in members |-> day]
        IN  /\ refetch' = [refetch EXCEPT !.todo = @ \ {l},
                                          !.ranks = Merged(@, TeamRanks(refetch.cache, met)),
                                          !.cache = KnownAfter(@, met)]
            /\ rows' = RowsAfter(refetch.cache, met, changed)
  BY <1>2
<1> DEFINE met == [t \in members |-> day]
           known == refetch.cache
<1>4. /\ refetch'.pc = refetch.pc /\ refetch'.began = refetch.began
      /\ refetch'.todo = refetch.todo \ {l}
      /\ refetch'.ranks = Merged(refetch.ranks, TeamRanks(known, met))
      /\ refetch'.cache = KnownAfter(known, met)
      /\ refetch' = [pc |-> refetch'.pc, began |-> refetch'.began, todo |-> refetch'.todo,
                     ranks |-> refetch'.ranks, cache |-> refetch'.cache]
      /\ rows' = RowsAfter(known, met, changed)
      /\ ladders' = [ladders EXCEPT ![l].strangeness = "GOOD", ![l].updated = day]
      /\ UNCHANGED <<day, past, latest, cache, pause, copied, purge, crossed, stray>>
  BY <1>1, <1>3 DEF RefetchLadder, updater, TypeOK
<1>5. DOMAIN met = members /\ members \subseteq Teams /\ \A t \in members : met[t] = day
  BY PastSeasonAssumption
<1>6. day \in Days /\ day \in Nat
  BY <1>1, PastSeasonAssumption DEF TypeOK, Days
<1> HIDE DEF met
<1>7. CanMeet(known, met)
  <2>1. met \in [members -> Days]
    BY <1>6 DEF met
  <2> QED BY <1>1, <1>5, <1>6, <2>1 DEF CanMeet, TypeOK, InTime
<1> HIDE DEF known
<1>8. /\ RowsStay
      /\ \A t \in Teams : rows[t].there => rows'[t].last_seen >= rows[t].last_seen
      /\ \A t \in Teams : t \notin members => rows'[t] = rows[t]
  BY <1>1, <1>4, <1>5, <1>7, MetRowsStay
<1>9. /\ TeamRanks(known, met) \subseteq TeamRank
      /\ \A r \in TeamRanks(known, met) : r.data_time <= day
      /\ refetch'.cache \in [Teams -> Entry]
      /\ \A t \in Teams : refetch'.cache[t].last_seen <= day /\ refetch'.cache[t].id <= rows'[t].id
  BY <1>1, <1>4, <1>7, <1>8, MetInMemory
<1>10. ASSUME NEW t \in members
       PROVE  /\ \A r \in TeamRanks(known, met) : r.team = t => HasRow(r)'
              /\ Agrees(refetch'.cache[t], rows'[t], 1)
              /\ day <= rows'[t].last_seen + 1
  <2>1. known[t].id # 0 => Agrees(known[t], rows[t], 1)
    BY <1>5 DEF IInv, RefetchSound, known
  <2>2. /\ \A r \in TeamRanks(known, met) : r.team = t => HasRow(r)'
        /\ Agrees(KnownAfter(known, met)[t], rows'[t], 1)
        /\ met[t] <= rows'[t].last_seen + 1
    BY <1>1, <1>4, <1>5, <1>7, <2>1, MetHaveRows
  <2> QED BY <1>4, <1>5, <2>2
<1>11. /\ \A r \in TeamRanks(known, met) : HasRow(r)'
       /\ \A t \in Teams : t \notin members => refetch'.cache[t] = refetch.cache[t]
  <2>1. \A r \in TeamRanks(known, met) : r.team \in members
    BY <1>5 DEF TeamRanks
  <2>2. \A t \in Teams : t \notin members => refetch'.cache[t] = refetch.cache[t]
    BY <1>4, <1>5 DEF KnownAfter, known
  <2> QED BY <1>10, <2>1, <2>2
<1>12. refetch'.ranks \subseteq TeamRank
  BY <1>1, <1>4, <1>9 DEF TypeOK, Merged
<1>13. TypeOK'
  <2>1. \A t \in Teams : cache[t].id <= rows'[t].id
    <3>1. \A t \in Teams : cache[t] \in Entry /\ cache[t].id <= rows[t].id
      BY <1>1 DEF TypeOK
    <3> QED BY <1>1, <1>8, <3>1, StayIds
  <2>2. ladders' \in [Ladders -> Ladder]
    <3>1. ladders \in [Ladders -> Ladder] /\ ladders[l] \in Ladder
      BY <1>1 DEF TypeOK
    <3>2. [ladders[l] EXCEPT !.strangeness = "GOOD", !.updated = day] \in Ladder
      BY <1>6, <3>1 DEF Ladder
    <3>3. ladders' = [ladders EXCEPT ![l] = [ladders[l] EXCEPT !.strangeness = "GOOD",
                                                             !.updated = day]]
      BY <1>4, <3>1
    <3> QED BY <3>1, <3>2, <3>3
  <2>3. refetch' \in [pc : {"idle", "fetching"}, began : Days, todo : SUBSET Ladders,
                     ranks : SUBSET TeamRank, cache : [Teams -> Entry]]
    <3>1. refetch.pc \in {"idle", "fetching"} /\ refetch.began \in Days /\ refetch.todo \subseteq Ladders
      BY <1>1 DEF TypeOK
    <3> QED BY <1>4, <1>9, <1>12, <3>1
  <2>4. /\ latest' \subseteq TeamRank /\ cache' \in [Teams -> Entry]
        /\ pause' \in {"due", "done", "remade"} /\ copied' \subseteq Teams
    BY <1>1, <1>4 DEF TypeOK
  <2> QED BY <1>1, <1>4, <1>8, <1>9, <2>1, <2>2, <2>3, <2>4, StayTypeOK
<1>14. InTime'
  <2>1. \A t \in Teams : rows'[t].last_seen <= day
    BY <1>8 DEF RowsStay, Keeps
  <2>2. \A r \in refetch'.ranks : r.data_time <= day
    BY <1>1, <1>4, <1>9 DEF InTime, Merged
  <2> QED BY <1>1, <1>4, <1>9, <2>1, <2>2 DEF InTime
<1>15. \A r \in TeamRank : r.data_time <= day /\ (IsOld(r) \/ HasRow(r)) =>
                           IsOld(r)' \/ HasRow(r)'
  BY <1>8, StayIInv
<1>16. Sound(refetch.ranks)' /\ PastSound'
  <2>1. \A r \in refetch.ranks : IsOld(r)' \/ HasRow(r)'
    BY <1>1, <1>15 DEF IInv, PastSound, Sound, TypeOK, InTime
  <2>2. Sound(refetch.ranks)'
    BY <1>4, <1>11, <2>1 DEF Sound, Merged
  <2> QED BY <1>1, <1>4, <1>15, <2>2 DEF IInv, PastSound, Sound, TypeOK, InTime
<1>17. LatestSound'
  BY <1>1, <1>4, <1>15 DEF IInv, LatestSound, TypeOK, InTime
<1>18. CacheSound'
  <2> SUFFICES ASSUME NEW t \in Teams, cache[t].id # 0
               PROVE  \/ <<t, cache[t].id>> \in stray
                      \/ /\ Agrees(cache[t], rows'[t], 0)
                         /\ \/ t \in copied
                            \/ /\ day <= rows'[t].last_seen + 2
                               /\ pause # "due" => day <= rows'[t].last_seen + 1
    BY <1>4 DEF CacheSound
  <2>1. CASE <<t, cache[t].id>> \in stray
    BY <2>1
  <2>2. CASE <<t, cache[t].id>> \notin stray
    <3>1. /\ Agrees(cache[t], rows[t], 0)
          /\ \/ t \in copied
             \/ /\ day <= rows[t].last_seen + 2
                /\ pause # "due" => day <= rows[t].last_seen + 1
      BY <2>2 DEF IInv, CacheSound
    <3>2. Agrees(cache[t], rows'[t], 0) /\ rows'[t].last_seen >= rows[t].last_seen
      BY <1>8, <3>1, StayIInv
    <3>3. rows'[t].last_seen \in Nat /\ rows[t].last_seen \in Nat
      BY <1>1, <1>8, RowTypes, PastSeasonAssumption DEF RowsStay, Row, Days
    <3> QED BY <1>6, <3>1, <3>2, <3>3
  <2> QED BY <2>1, <2>2
<1>19. RefetchSound'
  <2>1. refetch.pc = "fetching"
    <3>1. l \in refetch.todo
      BY DEF RefetchLadder
    <3>2. refetch.pc = "idle" => refetch.todo = {}
      BY DEF IInv, RefetchSound
    <3> QED BY <1>1, <3>1, <3>2 DEF TypeOK
  <2>2. ASSUME NEW t \in Teams, refetch'.cache[t].id # 0
        PROVE  /\ Agrees(refetch'.cache[t], rows'[t], 1)
               /\ refetch'.began <= rows'[t].last_seen + 1
    <3>1. CASE t \in members
      <4>1. refetch.began <= day /\ refetch.began \in Nat /\ rows'[t].last_seen \in Nat
        BY <1>1, <1>8, PastSeasonAssumption DEF InTime, TypeOK, RowsStay, Row, Days
      <4> QED BY <1>4, <1>6, <1>10, <3>1, <4>1
    <3>2. CASE t \notin members
      BY <1>4, <1>8, <1>11, <2>2, <3>2, StayIInv
    <3> QED BY <3>1, <3>2
  <2>3. day' < refetch'.began + KeepDays
    BY <1>4, <2>1 DEF IInv, RefetchSound
  <2> QED BY <1>4, <2>1, <2>2, <2>3 DEF RefetchSound
<1> QED BY <1>13, <1>14, <1>16, <1>17, <1>18, <1>19 DEF IInv

\* Before rows that someone has an id of become too old, caches are dropped.
LEMMA NewDayIInv ==
  ASSUME IInv, NewDay
  PROVE  IInv'
<1>1. TypeOK /\ InTime
  BY DEF IInv
<1>2. /\ day' = day + 1 /\ pause' = "due" /\ day \in Nat /\ day' \in Days /\ pause # "due"
      /\ UNCHANGED <<ladders, rows, past, latest, cache, copied, refetch, purge, crossed, stray>>
  BY <1>1, PastSeasonAssumption DEF NewDay, TypeOK, Days
<1>3. TypeOK'
  BY <1>1, <1>2 DEF TypeOK
<1>4. InTime'
  <2>1. \A t \in Teams : /\ rows[t].last_seen \in Nat /\ cache[t].last_seen \in Nat
                         /\ refetch.cache[t].last_seen \in Nat
    BY <1>1, RowTypes, EntryNat DEF TypeOK
  <2>2. \A r \in past \cup latest \cup refetch.ranks \cup purge.ranks : r.data_time \in Nat
    BY <1>1, RankTypes DEF TypeOK
  <2>3. refetch.began \in Nat
    BY <1>1, PastSeasonAssumption DEF TypeOK, Days
  <2> QED BY <1>1, <1>2, <2>1, <2>2, <2>3 DEF InTime
<1>5. \A r \in TeamRank : IsOld(r) \/ HasRow(r) => IsOld(r)' \/ HasRow(r)'
  BY <1>2, RankTypes, PastSeasonAssumption DEF IsOld, HasRow
<1>6. PastSound' /\ LatestSound'
  BY <1>1, <1>2, <1>5 DEF IInv, TypeOK, PastSound, Sound, LatestSound
<1>7. CacheSound'
  <2>1. \A t \in Teams : rows[t].last_seen \in Nat
    BY <1>1, RowTypes
  <2> QED BY <1>2, <2>1 DEF IInv, CacheSound
<1>8. RefetchSound'
  <2>1. refetch.pc = "fetching" => day + 1 < refetch.began + KeepDays
    BY DEF NewDay, RefetchInTime
  <2> QED BY <1>2, <2>1 DEF IInv, RefetchSound
<1> QED BY <1>3, <1>4, <1>6, <1>7, <1>8 DEF IInv

\* No row is deleted that has a rank of recent data or is cached, unless for copies.
LEMMA PurgeDeleteIInv ==
  ASSUME IInv, PurgeDelete
  PROVE  IInv'
<1> DEFINE overdue == {t \in Teams : rows[t].there /\ rows[t].last_seen + KeepDays < day}
           gone == {t \in overdue \cap copied : cache[t].id = rows[t].id}
<1>1. TypeOK /\ InTime
  BY DEF IInv
<1>2. /\ rows' = [t \in Teams |-> IF t \in overdue THEN [rows[t] EXCEPT !.there = FALSE]
                                                  ELSE rows[t]]
      /\ stray' = stray \cup {<<t, rows[t].id>> : t \in gone}
      /\ purge' = [pc |-> "idle", ids |-> {}, ranks |-> {}]
      /\ UNCHANGED <<day, ladders, past, latest, cache, pause, copied, refetch, crossed>>
  BY DEF PurgeDelete, NotPurging, updater
<1>3. \A t \in Teams : t \in overdue <=> rows[t].there /\ rows[t].last_seen + KeepDays < day
  OBVIOUS
<1>4. gone \subseteq Teams /\ \A t \in gone : rows[t].there
  OBVIOUS
<1>5. \A t \in Teams : t \in overdue /\ t \in copied /\ cache[t].id = rows[t].id => t \in gone
  OBVIOUS
<1> HIDE DEF overdue, gone
<1>6. \A t \in Teams : /\ rows'[t] \in Row /\ rows'[t].id = rows[t].id
                       /\ rows'[t].last_seen = rows[t].last_seen
                       /\ rows'[t].there = (rows[t].there /\ t \notin overdue)
  <2> SUFFICES ASSUME NEW t \in Teams
               PROVE  /\ rows'[t] \in Row /\ rows'[t].id = rows[t].id
                      /\ rows'[t].last_seen = rows[t].last_seen
                      /\ rows'[t].there = (rows[t].there /\ t \notin overdue)
    OBVIOUS
  <2>1. rows[t] \in Row
    BY <1>1, RowTypes
  <2>2. CASE t \in overdue
    BY <1>2, <2>1, <2>2 DEF Row
  <2>3. CASE t \notin overdue
    BY <1>2, <2>1, <2>3 DEF Row
  <2> QED BY <2>2, <2>3
<1>7. stray' \subseteq Teams \X Id /\ stray \subseteq stray'
  <2>1. \A t \in gone : rows[t].id \in Id
    BY <1>1, <1>4, RowTypes
  <2> QED BY <1>1, <1>2, <1>4, <2>1 DEF TypeOK
<1>8. TypeOK'
  <2>1. rows' \in [Teams -> Row]
    BY <1>2, <1>6
  <2>2. \A t \in Teams : /\ rows'[t].there => rows'[t].id > 0
                         /\ cache'[t].id <= rows'[t].id /\ refetch'.cache[t].id <= rows'[t].id
    BY <1>1, <1>2, <1>6 DEF TypeOK
  <2>3. purge' \in [pc : {"idle", "listed", "loaded", "saved"}, ids : SUBSET (Teams \X Id),
                    ranks : SUBSET TeamRank]
    BY <1>2
  <2> QED BY <1>1, <1>2, <1>7, <2>1, <2>2, <2>3 DEF TypeOK
<1>9. InTime'
  BY <1>1, <1>2, <1>6 DEF InTime
<1>10. \A r \in TeamRank : IsOld(r) \/ HasRow(r) => IsOld(r)' \/ HasRow(r)'
  <2> SUFFICES ASSUME NEW r \in TeamRank, IsOld(r) \/ HasRow(r)
               PROVE  IsOld(r)' \/ HasRow(r)'
    OBVIOUS
  <2>1. r.team \in Teams /\ r.data_time \in Nat
    BY RankTypes
  <2>2. CASE r.team \in overdue
    <3>1. r.data_time + KeepDays <= day
      BY <1>1, <1>3, <2>1, <2>2, RowTypes DEF IsOld, HasRow
    <3> QED BY <1>2, <3>1 DEF IsOld
  <2>3. CASE r.team \notin overdue
    BY <1>1, <1>2, <1>6, <2>1, <2>3, RowTypes DEF IsOld, HasRow
  <2> QED BY <2>2, <2>3
<1>11. PastSound'
  BY <1>1, <1>2, <1>10 DEF IInv, TypeOK, PastSound, Sound
<1>12. LatestSound'
  BY <1>1, <1>2, <1>7, <1>10 DEF IInv, TypeOK, LatestSound
<1>13. CacheSound'
  <2> SUFFICES ASSUME NEW t \in Teams, cache[t].id # 0
               PROVE  \/ <<t, cache[t].id>> \in stray'
                      \/ /\ Agrees(cache[t], rows'[t], 0)
                         /\ \/ t \in copied
                            \/ /\ day <= rows'[t].last_seen + 2
                               /\ pause # "due" => day <= rows'[t].last_seen + 1
    BY <1>2 DEF CacheSound
  <2>1. CASE <<t, cache[t].id>> \in stray
    BY <1>7, <2>1
  <2>2. CASE <<t, cache[t].id>> \notin stray
    <3>1. /\ Agrees(cache[t], rows[t], 0)
          /\ \/ t \in copied
             \/ /\ day <= rows[t].last_seen + 2
                /\ pause # "due" => day <= rows[t].last_seen + 1
      BY <2>2 DEF IInv, CacheSound
    <3>2. CASE t \in overdue
      <4>1. t \in copied
        BY <1>1, <1>3, <3>1, <3>2, RowTypes
      <4>2. t \in gone /\ cache[t].id = rows[t].id
        BY <1>5, <3>1, <3>2, <4>1 DEF Agrees
      <4> QED BY <1>2, <4>2
    <3>3. CASE t \notin overdue
      BY <1>6, <3>1, <3>3 DEF Agrees
    <3> QED BY <3>2, <3>3
  <2> QED BY <2>1, <2>2
<1>14. RefetchSound'
  <2> SUFFICES ASSUME NEW t \in Teams, refetch.cache[t].id # 0
               PROVE  /\ Agrees(refetch.cache[t], rows'[t], 1)
                      /\ refetch.began <= rows'[t].last_seen + 1
    BY <1>2 DEF IInv, RefetchSound
  <2>1. Agrees(refetch.cache[t], rows[t], 1) /\ refetch.began <= rows[t].last_seen + 1
    BY DEF IInv, RefetchSound
  <2>2. day < refetch.began + KeepDays /\ refetch.began \in Nat
    <3>1. refetch.pc \in {"idle", "fetching"} /\ refetch.began \in Nat
      BY <1>1, PastSeasonAssumption DEF TypeOK, Days
    <3>2. refetch.pc # "idle"
      BY DEF IInv, RefetchSound, NothingCached, NoEntry
    <3> QED BY <3>1, <3>2 DEF IInv, RefetchSound
  <2>3. t \notin overdue
    BY <1>1, <1>3, <2>1, <2>2, RowTypes
  <2> QED BY <1>6, <2>1, <2>3 DEF Agrees
<1> QED BY <1>8, <1>9, <1>11, <1>12, <1>13, <1>14 DEF IInv

LEMMA RetryType ==
  ASSUME NEW ladder \in Ladder, NEW date \in Days, NEW n \in 0..MaxRetries
  PROVE  [ladder EXCEPT !.updated = date, !.retry_count = n] \in Ladder
BY DEF Ladder

\* Ladders that are found, or tried again.
LEMMA LadderTypes ==
  ASSUME TypeOK, FetchNew \/ \E l \in Ladders : RefetchMissing(l)
  PROVE  ladders' \in [Ladders -> Ladder]
<1>1. ladders \in [Ladders -> Ladder] /\ day \in Days /\ MaxRetries \in Nat
  BY PastSeasonAssumption DEF TypeOK
<1>2. Good \in Ladder
  BY <1>1 DEF Good, Ladder
<1>3. CASE FetchNew
  <2>1. \A l \in Ladders :
          [ladders[l] EXCEPT !.strangeness = "MISSING", !.updated = day] \in Ladder
    BY <1>1 DEF Ladder
  <2>2. PICK league \in SUBSET {l \in Ladders : ladders[l].strangeness = "UNKNOWN"} \ {{}} :
          \E bad \in SUBSET league :
            ladders' = [l \in Ladders |->
              IF l \in bad THEN [ladders[l] EXCEPT !.strangeness = "MISSING", !.updated = day]
              ELSE IF l \in league THEN Good ELSE ladders[l]]
    BY <1>3 DEF FetchNew
  <2>3. PICK bad \in SUBSET league :
            ladders' = [l \in Ladders |->
              IF l \in bad THEN [ladders[l] EXCEPT !.strangeness = "MISSING", !.updated = day]
              ELSE IF l \in league THEN Good ELSE ladders[l]]
    BY <2>2
  <2> QED BY <1>1, <1>2, <2>1, <2>3
<1>4. CASE \E l \in Ladders : RefetchMissing(l)
  <2>1. PICK l \in Ladders : RefetchMissing(l)
    BY <1>4
  <2>2. ladders[l] \in Ladder /\ ladders[l].retry_count < MaxRetries
    BY <1>1, <2>1 DEF RefetchMissing, Listed
  <2>3. ladders[l].retry_count + 1 \in 0..MaxRetries
    BY <1>1, <2>2 DEF Ladder
  <2>4. Retry(l) \in Ladder
    BY <1>1, <2>2, <2>3, RetryType DEF Retry
  <2> QED BY <1>1, <1>2, <2>1, <2>4 DEF RefetchMissing
<1> QED BY <1>3, <1>4

\* The steps that leave rows and day alone and make no rank.
LEMMA OtherIInv ==
  ASSUME IInv,
         \/ Release \/ FetchNew
         \/ \E l \in Ladders : RefetchMissing(l) \/ RefetchSkip(l)
         \/ RefetchBegin \/ RefetchSave \/ RefetchFails
         \/ PurgeBegin \/ PurgeLoad \/ PurgeSave \/ PurgeStops
         \/ UNCHANGED vars
  PROVE  IInv'
<1>1. TypeOK /\ InTime
  BY DEF IInv
<1>2. UNCHANGED <<day, rows, latest, stray>>
  BY DEF Release, FetchNew, RefetchMissing, RefetchSkip, RefetchBegin, RefetchSave,
     RefetchFails, PurgeBegin, PurgeLoad, PurgeSave, PurgeStops, vars, updater
<1>3. ladders' \in [Ladders -> Ladder]
  <2>1. CASE FetchNew \/ \E l \in Ladders : RefetchMissing(l)
    BY <1>1, <2>1, LadderTypes
  <2>2. CASE UNCHANGED ladders
    BY <1>1, <2>2 DEF TypeOK
  <2> QED BY <2>1, <2>2 DEF Release, RefetchSkip, RefetchBegin,
          RefetchSave, RefetchFails, PurgeBegin, PurgeLoad, PurgeSave, PurgeStops, vars
<1>4. \/ UNCHANGED <<cache, pause, copied>>
      \/ /\ cache' = NothingCached /\ copied' = {}
         /\ pause' = IF pause = "due" THEN "done" ELSE pause
  BY DEF Release, CacheReleased, FetchNew, RefetchMissing, RefetchSkip, RefetchBegin, RefetchSave,
     RefetchFails, PurgeBegin, PurgeLoad, PurgeSave, PurgeStops, vars, updater
<1>5. past' \subseteq past \cup refetch.ranks \cup purge.ranks
  BY DEF Release, FetchNew, RefetchMissing, RefetchSkip, RefetchBegin, RefetchSave,
     RefetchFails, PurgeBegin, PurgeLoad, PurgeSave, PurgeStops, Kept, vars
<1>6. /\ NothingCached \in [Teams -> Entry]
      /\ \A t \in Teams : NothingCached[t].id = 0 /\ NothingCached[t].last_seen = 0
      /\ 0 \in Days /\ day \in Days /\ day \in Nat
      /\ \A t \in Teams : rows[t].id \in Nat
  BY <1>1, RowTypes, PastSeasonAssumption DEF NothingCached, NoEntry, Entry, Days, TypeOK
<1> DEFINE Refetch == [pc : {"idle", "fetching"}, began : Days, todo : SUBSET Ladders,
                       ranks : SUBSET TeamRank, cache : [Teams -> Entry]]
<1>7. /\ refetch' \in Refetch
      /\ refetch'.ranks \subseteq past \cup refetch.ranks
      /\ refetch'.cache = refetch.cache \/ refetch'.cache = NothingCached
      /\ refetch'.began = refetch.began \/ refetch'.began = day \/ refetch'.began = 0
      /\ RefetchSound'
  <2>1. CASE RefetchBegin
    <3>1. PICK due \in SUBSET Ladders :
            refetch' = [pc |-> "fetching", began |-> day, todo |-> due, ranks |-> past,
                        cache |-> NothingCached]
      BY <2>1 DEF RefetchBegin, NotRefetching
    <3>2. refetch' \in Refetch
      BY <1>1, <1>6, <3>1 DEF TypeOK
    <3> QED BY <1>1, <1>2, <1>6, <3>1, <3>2, PastSeasonAssumption DEF RefetchSound
  <2>2. CASE RefetchSave \/ RefetchFails
    <3>1. refetch' = [pc |-> "idle", began |-> 0, todo |-> {}, ranks |-> {},
                      cache |-> NothingCached]
      BY <2>2 DEF RefetchSave, RefetchFails, NotRefetching
    <3>2. refetch' \in Refetch
      BY <1>6, <3>1
    <3> QED BY <1>6, <3>1, <3>2 DEF RefetchSound
  <2>3. CASE \E l \in Ladders : RefetchSkip(l)
    <3>1. PICK l \in Ladders : RefetchSkip(l)
      BY <2>3
    <3>2. /\ refetch' = [refetch EXCEPT !.todo = @ \ {l}] /\ refetch \in Refetch
      BY <1>1, <3>1 DEF TypeOK, RefetchSkip
    <3>3. /\ refetch' \in Refetch /\ refetch'.ranks = refetch.ranks /\ refetch'.pc = refetch.pc
          /\ refetch'.cache = refetch.cache /\ refetch'.began = refetch.began
          /\ refetch'.todo \subseteq refetch.todo
      BY <3>2
    <3> QED BY <1>2, <3>3 DEF IInv, RefetchSound
  <2>4. CASE UNCHANGED refetch
    BY <1>1, <1>2, <2>4 DEF IInv, TypeOK, RefetchSound
  <2> QED BY <2>1, <2>2, <2>3, <2>4 DEF Release, FetchNew, RefetchMissing,
          PurgeBegin, PurgeLoad, PurgeSave, PurgeStops, vars
<1> HIDE DEF Refetch
<1>8. /\ purge' \in [pc : {"idle", "listed", "loaded", "saved"}, ids : SUBSET (Teams \X Id),
                      ranks : SUBSET TeamRank]
      /\ purge'.ranks \subseteq past \cup purge.ranks
  <2>1. CASE PurgeBegin
    <3>1. {<<t, rows[t].id>> : t \in SeenSince(day)} \subseteq Teams \X Id
      BY <1>1, RowTypes DEF SeenSince
    <3> QED BY <2>1, <3>1 DEF PurgeBegin, NotPurging
  <2>2. CASE PurgeLoad
    BY <1>1, <2>2 DEF TypeOK, PurgeLoad
  <2>3. CASE PurgeSave \/ PurgeStops
    BY <2>3 DEF PurgeSave, PurgeStops, NotPurging
  <2>4. CASE UNCHANGED purge
    BY <1>1, <2>4 DEF TypeOK
  <2> QED BY <2>1, <2>2, <2>3, <2>4 DEF Release, FetchNew, RefetchMissing,
          RefetchSkip, RefetchBegin, RefetchSave, RefetchFails, vars
<1>9. crossed' \in BOOLEAN
  BY <1>1 DEF TypeOK, Release, FetchNew, RefetchMissing, RefetchSkip, RefetchBegin,
     RefetchSave, RefetchFails, PurgeBegin, PurgeLoad, PurgeSave, PurgeStops, vars
<1>10. TypeOK'
  <2>1. past' \subseteq TeamRank
    BY <1>1, <1>5 DEF TypeOK
  <2>2. /\ cache' \in [Teams -> Entry] /\ pause' \in {"due", "done", "remade"}
        /\ copied' \subseteq Teams
    BY <1>1, <1>4, <1>6 DEF TypeOK
  <2>3. \A t \in Teams : cache'[t].id <= rows[t].id /\ refetch'.cache[t].id <= rows[t].id
    BY <1>1, <1>4, <1>6, <1>7 DEF TypeOK
  <2>4. refetch' \in [pc : {"idle", "fetching"}, began : Days, todo : SUBSET Ladders,
                     ranks : SUBSET TeamRank, cache : [Teams -> Entry]]
    BY <1>7 DEF Refetch
  <2> QED BY <1>1, <1>2, <1>3, <1>8, <1>9, <2>1, <2>2, <2>3, <2>4 DEF TypeOK
<1>11. InTime'
  <2>1. \A t \in Teams : cache'[t].last_seen <= day /\ refetch'.cache[t].last_seen <= day
    BY <1>1, <1>4, <1>6, <1>7 DEF InTime, Days
  <2>2. \A r \in past' \cup latest' \cup refetch'.ranks \cup purge'.ranks : r.data_time <= day
    BY <1>1, <1>2, <1>5, <1>7, <1>8 DEF InTime
  <2>3. refetch'.began <= day
    BY <1>1, <1>6, <1>7 DEF InTime
  <2> QED BY <1>1, <1>2, <2>1, <2>2, <2>3 DEF InTime
<1>12. \A r : IsOld(r) \/ HasRow(r) => IsOld(r)' \/ HasRow(r)'
  BY <1>2 DEF IsOld, HasRow
<1>13. PastSound'
  BY <1>5, <1>7, <1>8, <1>12 DEF IInv, PastSound, Sound
<1>14. LatestSound'
  BY <1>2, <1>12 DEF IInv, LatestSound
<1>15. CacheSound'
  BY <1>2, <1>4, <1>6 DEF IInv, CacheSound
<1> QED BY <1>7, <1>10, <1>11, <1>13, <1>14, <1>15 DEF IInv

LEMMA NextIInv == IInv /\ [Next]_vars => IInv'
BY UpdateIInv, RemakeIInv, RefetchLadderIInv, NewDayIInv, PurgeDeleteIInv, OtherIInv DEF Next

LEMMA Invariance == Spec => []IInv
BY InitIInv, NextIInv, PTL DEF Spec

-----------------------------------------------------------------------------
(* What refetch and purge have in hand against the ranking they will overwrite. *)

\* A rank of the same team that is no older.
AsGood(r, ranks) == \E q \in ranks : q.team = r.team /\ q.data_time >= r.data_time

\* Only refetch and purge save the ranking.  While a refetch that has met no purge works,
\* it has everything in hand that is in the ranking, or something later; a purge that has
\* met no refetch works on the ranking as it is, with the ids of all that is recent.
InHand ==
  /\ refetch.pc = "fetching" /\ ~crossed => \A r \in past : AsGood(r, refetch.ranks)
  /\ purge.pc \in {"listed", "loaded"} /\ ~crossed =>
       /\ refetch.pc = "idle"
       /\ \A r \in past : Recent(r) => <<r.team, r.id>> \in purge.ids
  /\ purge.pc = "loaded" /\ ~crossed => purge.ranks = past

LEMMA InitInHand == Init => InHand
BY DEF Init, InHand, NotRefetching, NotPurging

\* Merging keeps every team, with data that is no older.
LEMMA MergedAsGood ==
  ASSUME TypeOK, NEW ranks, ranks \subseteq TeamRank, NEW known, NEW met,
         \A t \in DOMAIN met : met[t] = day,
         \A r \in ranks : r.data_time <= day,
         NEW r \in TeamRank, AsGood(r, ranks)
  PROVE  AsGood(r, Merged(ranks, TeamRanks(known, met)))
<1> DEFINE new == TeamRanks(known, met)
<1>1. PICK q \in ranks : q.team = r.team /\ q.data_time >= r.data_time
  BY DEF AsGood
<1>2. /\ q.data_time <= day /\ q.data_time \in Nat /\ r.data_time \in Nat /\ day \in Nat
  BY <1>1, RankTypes, PastSeasonAssumption DEF TypeOK, Days
<1>3. \A n \in new : n.data_time = day
  BY DEF TeamRanks
<1> HIDE DEF new
<1>4. CASE q \in Merged(ranks, new)
  BY <1>1, <1>4 DEF AsGood, new
<1>5. CASE q \notin Merged(ranks, new)
  <2>1. PICK n \in new : n.team = q.team
    BY <1>1, <1>5 DEF Merged
  <2>2. n \in Merged(ranks, new) /\ n.data_time >= r.data_time
    BY <1>1, <1>2, <1>3, <2>1 DEF Merged
  <2> QED BY <1>1, <2>1, <2>2 DEF AsGood, new
<1> QED BY <1>4, <1>5

\* The ids the purge loads are those of all that is recent.
LEMMA PurgeBeginInHand ==
  ASSUME IInv, InHand, PurgeBegin
  PROVE  InHand'
<1>1. /\ purge'.pc = "listed" /\ purge'.ids = {<<t, rows[t].id>> : t \in SeenSince(day)}
      /\ crossed' = (refetch.pc # "idle")
      /\ UNCHANGED <<day, past, refetch>>
  BY DEF PurgeBegin, NotPurging
<1>2. ASSUME NEW r \in past, Recent(r)
      PROVE  <<r.team, r.id>> \in purge'.ids
  <2>1. /\ r \in TeamRank /\ r.team \in Teams /\ r.data_time \in Nat
        /\ rows[r.team].last_seen \in Nat /\ day \in Nat /\ KeepDays \in Nat
    BY RankTypes, RowTypes DEF IInv, TypeOK
  <2>2. HasRow(r)
    BY <1>2, <2>1 DEF IInv, PastSound, Sound, IsOld, Recent
  <2>3. r.team \in SeenSince(day)
    BY <1>2, <2>1, <2>2 DEF SeenSince, HasRow, Recent
  <2> QED BY <1>1, <2>2, <2>3 DEF HasRow
<1>3. \A r \in past : Recent(r)' => <<r.team, r.id>> \in purge'.ids
  BY <1>1, <1>2 DEF Recent
<1>4. refetch'.pc = "fetching" /\ ~crossed' => FALSE
  BY <1>1
<1> HIDE DEF IInv, PurgeBegin
<1> QED BY <1>1, <1>3, <1>4 DEF InHand

LEMMA RefetchLadderInHand ==
  ASSUME IInv, InHand, NEW l \in Ladders, RefetchLadder(l)
  PROVE  InHand'
<1>1. TypeOK /\ InTime
  BY DEF IInv
<1>2. PICK members \in SUBSET TeamsOf[l] :
        LET met == [t \in members |-> day]
        IN  refetch' = [refetch EXCEPT !.todo = @ \ {l},
                                       !.ranks = Merged(@, TeamRanks(refetch.cache, met)),
                                       !.cache = KnownAfter(@, met)]
  BY DEF RefetchLadder
<1> DEFINE met == [t \in members |-> day]
           new == TeamRanks(refetch.cache, met)
<1>3. /\ refetch'.pc = refetch.pc /\ refetch'.ranks = Merged(refetch.ranks, new)
      /\ UNCHANGED <<day, past, purge, crossed>> /\ l \in refetch.todo
  BY <1>1, <1>2 DEF RefetchLadder, TypeOK
<1>4. refetch.pc = "fetching"
  BY <1>1, <1>3 DEF IInv, RefetchSound, TypeOK
<1>5. \A t \in DOMAIN met : met[t] = day
  OBVIOUS
<1> HIDE DEF met
<1>6. ASSUME NEW r \in past, AsGood(r, refetch.ranks)
      PROVE  AsGood(r, Merged(refetch.ranks, new))
  <2>1. /\ refetch.ranks \subseteq TeamRank /\ r \in TeamRank
        /\ \A q \in refetch.ranks : q.data_time <= day
    BY <1>1 DEF InTime, TypeOK
  <2> QED BY <1>1, <1>5, <1>6, <2>1, MergedAsGood
<1> HIDE DEF new
<1>7. ~crossed => \A r \in past : AsGood(r, Merged(refetch.ranks, new))
  BY <1>4, <1>6 DEF InHand
<1> QED BY <1>3, <1>4, <1>7 DEF InHand, AsGood, Recent

LEMMA NextInHand == IInv /\ InHand /\ [Next]_vars => InHand'
<1> SUFFICES ASSUME IInv, InHand, [Next]_vars PROVE InHand'
  OBVIOUS
<1>1. CASE NewDay
  <2>1. /\ day' = day + 1 /\ day \in Nat /\ KeepDays \in Nat
        /\ UNCHANGED <<past, refetch, purge, crossed>>
    BY <1>1, PastSeasonAssumption DEF NewDay, IInv, TypeOK, Days
  <2>2. ASSUME NEW r \in past, Recent(r)' PROVE Recent(r)
    <3>1. r.data_time \in Nat
      BY RankTypes DEF IInv, TypeOK
    <3> QED BY <2>1, <2>2, <3>1 DEF Recent
  <2> QED BY <2>1, <2>2 DEF InHand, AsGood
<1>2. ASSUME UNCHANGED <<day, past, refetch, purge, crossed>> PROVE InHand'
  BY <1>2 DEF InHand, AsGood, Recent
<1>3. CASE RefetchBegin
  <2>1. /\ refetch'.pc = "fetching" /\ refetch'.ranks = past
        /\ crossed' = (crossed \/ purge.pc # "idle") /\ UNCHANGED <<past, purge>>
    BY <1>3 DEF RefetchBegin, NotRefetching
  <2>2. \A r \in past : AsGood(r, past)
    BY RankTypes DEF AsGood, IInv, TypeOK
  <2> QED BY <2>1, <2>2 DEF InHand, AsGood
<1>4. CASE \E l \in Ladders : RefetchLadder(l)
  BY <1>4, RefetchLadderInHand
<1>5. CASE \E l \in Ladders : RefetchSkip(l)
  <2>1. PICK l \in Ladders : RefetchSkip(l)
    BY <1>5
  <2>2. /\ UNCHANGED <<day, past, purge, crossed>>
        /\ refetch'.pc = refetch.pc /\ refetch'.ranks = refetch.ranks
    BY <2>1 DEF RefetchSkip, IInv, TypeOK
  <2> QED BY <2>2 DEF InHand, AsGood, Recent
<1>6. CASE RefetchSave \/ RefetchFails
  BY <1>6 DEF RefetchSave, RefetchFails, NotRefetching, InHand
<1>7. CASE PurgeBegin
  BY <1>7, PurgeBeginInHand
<1>8. CASE PurgeLoad
  <2>1. /\ purge.pc = "listed" /\ purge'.pc = "loaded" /\ purge'.ids = purge.ids
        /\ purge'.ranks = past /\ UNCHANGED <<day, past, refetch, crossed>>
    BY <1>8 DEF PurgeLoad, IInv, TypeOK
  <2> QED BY <2>1 DEF InHand, AsGood, Recent
<1>9. CASE PurgeSave
  <2>1. /\ purge.pc = "loaded" /\ purge'.pc = "saved" /\ UNCHANGED <<refetch, crossed>>
    BY <1>9 DEF PurgeSave, NotPurging
  <2> QED BY <2>1 DEF InHand
<1>10. CASE PurgeDelete \/ PurgeStops
  BY <1>10 DEF PurgeDelete, PurgeStops, NotPurging, InHand, AsGood
<1> QED BY <1>1, <1>2, <1>3, <1>4, <1>5, <1>6, <1>7, <1>8, <1>9, <1>10
        DEF Next, Update, Release, Remake, FetchNew, RefetchMissing, vars

-----------------------------------------------------------------------------
(* The properties. *)

\* Rows, ids, caches, rankings and processes keep their types; no process remembers an id
\* that no row of the team has had.
THEOREM TypeCorrect == Spec => []TypeOK
<1>1. IInv => TypeOK
  BY DEF IInv
<1> QED BY <1>1, Invariance, PTL

\* A rank of recent data has its row whatever purge, refetch and update process do
\* between each other's steps and whatever ids they remember, also those the update process
\* has looked up for old copies; unless the row was purged while known from copies only.
THEOREM RecentRanksHaveRowsHolds == Spec => []RecentRanksHaveRows
<1>1. IInv => RecentRanksHaveRows
  <2> SUFFICES ASSUME IInv, NEW r \in past \cup latest, Recent(r)
               PROVE  \/ rows[r.team].there /\ rows[r.team].id = r.id
                      \/ r \in latest /\ <<r.team, r.id>> \in stray
    BY DEF RecentRanksHaveRows
  <2>1. r \in TeamRank /\ day \in Nat
    BY PastSeasonAssumption DEF IInv, TypeOK, Days
  <2>2. ~IsOld(r)
    BY <2>1, RankTypes, PastSeasonAssumption DEF IsOld, Recent
  <2> QED BY <2>2 DEF IInv, PastSound, Sound, LatestSound, HasRow
<1> QED BY <1>1, Invariance, PTL

\* Nothing takes recent data of a team out of a past ranking, unless purge and refetch
\* met.
THEOREM RecentRanksAreKeptHolds == Spec => RecentRanksAreKept
<1> DEFINE A == ~crossed => \A r \in past : Recent(r) => AsGood(r, past')
<1>1. IInv /\ InHand /\ [Next]_vars => A
  <2> SUFFICES ASSUME IInv, InHand, [Next]_vars, ~crossed, NEW r \in past, Recent(r)
               PROVE  AsGood(r, past')
    OBVIOUS
  <2>0. r \in TeamRank /\ r.data_time \in Nat
    BY RankTypes DEF IInv, TypeOK
  <2>1. CASE past' = past
    BY <2>0, <2>1 DEF AsGood
  <2>2. CASE RefetchSave
    BY <2>2 DEF RefetchSave, InHand
  <2>3. CASE PurgeSave
    <3>1. purge.ranks = past /\ <<r.team, r.id>> \in purge.ids
      BY <2>3 DEF PurgeSave, InHand
    <3>2. r \in past'
      BY <2>3, <3>1 DEF PurgeSave, Kept
    <3> QED BY <2>0, <3>2 DEF AsGood
  <2> QED BY <2>1, <2>2, <2>3 DEF Next, NewDay, Update, Release, Remake, FetchNew,
          RefetchMissing, RefetchLadder, RefetchSkip, RefetchBegin, RefetchFails, PurgeBegin,
          PurgeLoad, PurgeDelete, PurgeStops, vars
<1>2. RecentRanksAreKept <=> [][A]_vars
  BY DEF RecentRanksAreKept, AsGood
<1> QED BY <1>1, <1>2, InitInHand, NextInHand, InitIInv, NextIInv, PTL DEF Spec
=============================================================================
