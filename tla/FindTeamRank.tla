--------------------------- MODULE FindTeamRank ---------------------------
(***************************************************************************)
(* get: finding the ranks of one team in the team ranks that ranking_data  *)
(* stored, without loading them all: a binary search that reads a window   *)
(* of rows at a time, and then computes from the row it hit how far the    *)
(* other races and later versions of the team may reach.                   *)
(***************************************************************************)
EXTENDS RankingData

CONSTANTS
  WindowSizes,   \* windows to search with; the code has 4
  Neighbours     \* how many teams may be stored before and after those of Teams

\* Teams are rows of a table.
ASSUME FindTeamRankAssumption ==
  /\ WindowSizes \subseteq Nat \ {0}
  /\ Neighbours \subseteq Nat \X Nat
  /\ IsFiniteSet(Teams)

\* What the code throws where it meets what should not be.
Bug == "bug_exception"

\* db::load_team_rank_window: n rows from the i-th, counted from 0, or what there is.
Window(s, i, n) == SubSeq(s, i + 1, Min({i + n, Len(s)}))

RangeAsSingle(x, version) == [down |-> 0, up |-> version - x.version]   \* mutant
\* How many rows before and after row x of a team its other ones can be.
RangeAround(x, version) ==
  IF x.race3 \in {RACE_BEST, RACE_ANY}
  THEN [down |-> x.race0 - RACE_LO,
        up |-> (version - x.version) * RACE_COUNT + RACE_HI - x.race0]
  ELSE [down |-> 0, up |-> version - x.version]

\* The window w read at mid has the place of the team: the rows of its last version.
Collected(s, version, team_id, lo, hi, mid, w) ==
  LET hits == {i \in 0..(Len(w) - 1) : w[i + 1].team_id = team_id}
      hit_lo == Min(hits)
      hit_hi == Max(hits)
      range == RangeAround(w[hit_hi + 1], version)
      imin == Max({IF hit_lo > 0 THEN mid + hit_lo ELSE lo, mid + hit_hi - range.down})
      imax == Min({IF hit_hi < Len(w) - 1 THEN mid + hit_hi ELSE hi, mid + hit_hi + range.up})
      isize == imax - imin + 1
      read == IF imin < mid \/ mid + Len(w) <= imax THEN Window(s, imin, isize) ELSE w
      own == {i \in DOMAIN read : read[i].team_id = team_id}
      result_version == read[Max(own)].version
  IN  IF hits = {} THEN <<>>
      ELSE IF isize > RACE_COUNT * VERSION_COUNT \/ own = {} THEN Bug
      ELSE Selection(read, {i \in own : read[i].version = result_version})

\* find_team_rank, with imin and imax as the first and second of r.
Found(s, window_size, version, team_id) ==
  LET search[r \in (0..(Len(s) + window_size)) \X (-1..(Len(s) - 1))] ==
        LET lo == r[1]
            hi == r[2]
            mid == lo + ((hi - lo) \div 2)
            w == Window(s, mid, window_size)
        IN  IF hi < lo THEN <<>>
            ELSE IF w[1].team_id > team_id THEN search[<<lo, mid - 1>>]
            ELSE IF w[Len(w)].team_id < team_id THEN search[<<mid + window_size, hi>>]
            ELSE Collected(s, version, team_id, lo, hi, mid, w)
  IN  search[<<0, Len(s) - 1>>]

-----------------------------------------------------------------------------
(* Properties *)

OfOther(t) ==
  [team_ranks[1] EXCEPT !.team_id = t, !.mode = TEAM_1V1, !.race3 = RACE_BEST]

\* What is stored, with some teams more before and after.
Among(around) ==
  [i \in 1..around[1] |-> OfOther(Min(Teams) - around[1] - 1 + i)]
    \o team_ranks \o [i \in 1..around[2] |-> OfOther(Max(Teams) + i)]

\* Reading all: the ranks of the team with the last version that it has a rank of.
LastOf(s, t) ==
  Selection(s, {i \in DOMAIN s : /\ s[i].team_id = t
                                 /\ \A j \in DOMAIN s : s[j].team_id = t
                                      => s[j].version <= s[i].version})

\* The search finds of every team, known to the ranking or not, exactly the ranks that
\* reading all of the stored ones would find with the last version it has a rank of,
\* wherever the rows of the team lie between those of others.
FoundAsByReadingAll ==
  stored /\ team_ranks # <<>> =>
    \A around \in Neighbours, n \in WindowSizes :
      LET s == Among(around)
      IN  \A t \in (Min(Teams) - around[1] - 1)..(Max(Teams) + around[2] + 1) :
            Found(s, n, SeasonVersion, t) = LastOf(s, t)
=============================================================================
