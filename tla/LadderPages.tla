---------------------------- MODULE LadderPages ----------------------------
(***************************************************************************)
(* ladder_handler: the team ranks of the latest ranking in the server's    *)
(* memory, and the pages of the ladder that requests ask for.  A request   *)
(* sorts the ranks of its version and mode where they are, so the order    *)
(* that one request finds is the one that another left.                    *)
(***************************************************************************)
EXTENDS TeamRankOrder, SequencesExt

CONSTANTS
  Rankings,   \* what may be stored: sets of team ranks
  Spans,      \* versions and modes that requests ask for
  Filters,    \* region, league and race of requests, each set or NOT_SET
  ClanTeams,  \* the teams of clans: sets of team ids
  Lead        \* rows shown above the team that a page is asked for; the code has 10

\* A team rank, as far as it is compared or looked for: an id of a table, enums and
\* numbers.  mmr is a 16 bit integer of which the least says that there is none.
TeamRank == [team_id : Nat \ {0}, version : Int, mode : Int, region : Int, league : Int,
             tier : Int, race0 : Int, mmr : Int, points : Int, wins : Nat, losses : Nat,
             world_rank : Int]

ASSUME LadderPagesAssumption ==
  /\ Lead \in Nat
  /\ Filters \subseteq [region : Int, league : Int, race : Int]
  /\ \A rows \in Rankings : /\ IsFiniteSet(rows) /\ rows \subseteq TeamRank
                            /\ \A x \in rows : x.mmr >= NO_MMR

LOTV == 2

VARIABLES
  ranking,    \* the ranking in memory
  team_ranks, \* _team_ranks
  answer      \* the latest request and the rows it selects, before they are paged

vars == <<ranking, team_ranks, answer>>

NoAnswer == [of |-> "nobody"]

LoadedRanked(rows) ==                                                  \* mutant
  {s \in SetToSeqs({x \in rows : x.world_rank > 0}) :
     \A i \in 1..(Len(s) - 1) : ~BeforeByWorldRank(s[i + 1], s[i])}
\* refresh_ranking: std::sort keeps no order between equal world ranks.
Loaded(rows) ==
  {s \in SetToSeqs(rows) :
     \A i \in 1..(Len(s) - 1) : ~BeforeByWorldRank(s[i + 1], s[i])}

Init ==
  /\ ranking \in Rankings
  /\ team_ranks \in Loaded(ranking)
  /\ answer = NoAnswer

Refresh(rows) ==
  /\ rows # ranking
  /\ ranking' = rows
  /\ team_ranks' \in Loaded(rows)
  /\ answer' = NoAnswer

-----------------------------------------------------------------------------

\* What std::stable_sort can make of s.  Where the comparison is no strict weak
\* order nothing is promised, but as long as it only has ties that are before each
\* other these alone may come out either way.
Sorted(s, c) ==
  LET rows == ToSet(s)
      First(x, y) == Before(c, x, y) /\ ~Before(c, y, x)
      Tied(x, y) == ~First(x, y) /\ ~First(y, x)
      weak == \A x, y \in rows : First(x, y) => \A z \in rows : First(x, z) \/ First(z, y)
      At(t, x) == CHOOSE i \in DOMAIN t : t[i] = x
      Kept(t) == \A i, j \in DOMAIN t :
                   i < j => /\ ~First(t[j], t[i])
                            /\ Tied(t[i], t[j]) /\ ~Before(c, t[i], t[j]) => At(s, t[i]) < At(s, t[j])
  IN  IF \A x, y \in rows : x # y /\ Before(c, x, y) => ~Before(c, y, x)
      THEN IF weak THEN {StableSort(s, First)} ELSE SetToSeqs(rows)
      ELSE IF weak THEN {t \in SetToSeqs(rows) : Kept(t)} ELSE SetToSeqs(rows)

\* find_span: the places of the first run of ranks of a version and mode.
Span(s, span) ==
  LET In(i) == s[i].version = span.version /\ s[i].mode = span.mode
  IN  {i \in DOMAIN s : In(i) /\ ~(\E j, k \in 1..i : j < k /\ In(j) /\ ~In(k))}

\* The rows at a set of places that has no gap.
RowsAt(s, places) == IF places = {} THEN <<>> ELSE SubSeq(s, Min(places), Max(places))

\* sort_and_filter_span, after the sort: the first run of ranks that c can use.
Filtered(s, c) ==
  RowsAt(s, {i \in DOMAIN s : Use(c, s[i]) /\ ~(\E j, k \in 1..i : /\ j < k /\ Use(c, s[j])
                                                                  /\ ~Use(c, s[k]))})

DisplayStrictly(f, key, reverse) ==                                    \* mutant
  [reverse |-> reverse, region |-> f.region, league |-> f.league, race |-> f.race,
   key |-> key, strict |-> TRUE]
\* The comparators to sort with for display, and to filter and rank with.
Display(f, key, reverse) ==
  [reverse |-> reverse, region |-> f.region, league |-> f.league, race |-> f.race,
   key |-> key, strict |-> FALSE]
Strict(c) == [c EXCEPT !.strict = TRUE]

AnswerOf(request, ids, span, c, sorted) ==
  [of |-> request, ids |-> ids, span |-> span, by |-> Strict(c),
   rows |-> Filtered(sorted, Strict(c))]

\* The ladder request up to the selection of its rows: it sorts them in memory.
Ladder(span, c) ==
  LET places == Span(team_ranks, span)
      before == SubSeq(team_ranks, 1, Min(places) - 1)
      after == SubSeq(team_ranks, Max(places) + 1, Len(team_ranks))
  IN  /\ IF places = {}
         THEN /\ team_ranks' = team_ranks
              /\ answer' = AnswerOf("ladder", {}, span, c, <<>>)
         ELSE \E sorted \in Sorted(RowsAt(team_ranks, places), c) :
                /\ team_ranks' = before \o sorted \o after
                /\ answer' = AnswerOf("ladder", {}, span, c, sorted)
      /\ UNCHANGED ranking

\* The clan request picks the ranks of the teams out of 1v1 and sorts these.
Clan(ids, c) ==
  LET span == [version |-> LOTV, mode |-> TEAM_1V1]
      of_mode == RowsAt(team_ranks, Span(team_ranks, span))
      own == Selection(of_mode, {i \in DOMAIN of_mode : of_mode[i].team_id \in ids})
  IN  /\ \E sorted \in Sorted(own, c) :
           answer' = AnswerOf("clan", ids, span, c, sorted)
      /\ UNCHANGED <<ranking, team_ranks>>

Next ==
  \/ \E rows \in Rankings : Refresh(rows)
  \/ \E f \in Filters, key \in SortKeys, reverse \in BOOLEAN :
       \/ \E span \in Spans : Ladder(span, Display(f, key, reverse))
       \/ \E ids \in ClanTeams : Clan(ids, Display(f, key, reverse))

Spec == Init /\ [][Next]_vars

-----------------------------------------------------------------------------
(* The page of the selected rows that is sent.  Places and ranks count from 0. *)

Differ(c, x, y) == Before(c, x, y) \/ Before(c, y, x)

OffsetMinMax(rows, offset, team_id) ==                                 \* mutant
  LET at == {o \in 0..(Len(rows) - 1) : rows[o + 1].team_id = team_id}
  IN  Min({IF at # {} THEN Max({Min(at), Lead}) ELSE Max({offset, 0}), Len(rows)})
\* Where the page begins: as asked for, or (-1) above the team that is asked for.
Offset(rows, offset, team_id) ==
  LET at == {o \in 0..(Len(rows) - 1) : rows[o + 1].team_id = team_id}
      wanted == IF offset = -1 /\ team_id # 0 /\ at # {} THEN Max({Min(at) - Lead, 0})
                ELSE Max({offset, 0})
  IN  Min({wanted, Len(rows)})

RankOfPage(rows, c, offset) == offset                                  \* mutant
\* The rank of the first row of the page, looking for the first like it backwards.
StartRank(rows, c, offset) ==
  Max({0} \cup {o \in 1..offset : Differ(c, rows[offset + 1], rows[o])})

\* build_teams_array: a row that differs from the last one to do so gets its place as
\* rank.  An offset at the end of the rows gives no row at all.
TeamsArray(rows, c, start_rank, offset, limit) ==
  LET n == Min({limit, Len(rows) - offset})
      row(i) == rows[offset + i]
      at[i \in 1..n] ==
        IF i = 1 THEN [rank |-> start_rank, last |-> row(1)]
        ELSE LET prev == at[i - 1]
             IN  IF Differ(c, prev.last, row(i))
                 THEN [rank |-> i - 1 + offset, last |-> row(i)]
                 ELSE prev
  IN  [i \in 1..n |-> [rank |-> at[i].rank, row |-> row(i)]]

Page(rows, c, offset, limit) ==
  IF offset = Len(rows) THEN <<>>
  ELSE TeamsArray(rows, c, StartRank(rows, c, offset), offset, limit)

\* A clan is sent on one page.
ClanPage(rows, c) ==
  IF rows = <<>> THEN <<>> ELSE TeamsArray(rows, c, 0, 0, Len(rows))

-----------------------------------------------------------------------------
(* Properties *)

\* What the variables hold: all of one ranking in some order.
TypeOK ==
  /\ ranking \in Rankings
  /\ team_ranks \in SetToSeqs(ranking)
  /\ answer = NoAnswer \/ /\ answer.of \in {"ladder", "clan"}
                          /\ answer.by \in Comparators

\* Rows that the request is about, among which every comparison makes sense: a rate of
\* wins needs games.
Matching ==
  {x \in ranking : /\ x.version = answer.span.version /\ x.mode = answer.span.mode
                   /\ answer.of = "clan" => x.team_id \in answer.ids
                   /\ Use(answer.by, x)}
Answered ==
  /\ answer # NoAnswer
  /\ answer.by.key = "WIN_RATE" =>
       \A x \in ranking : /\ x.version = answer.span.version
                          /\ x.mode = answer.span.mode => Played(x) > 0

\* y is before x in what was asked for, by the key and by what breaks ties.
KeyBefore(y, x) ==
  IF answer.by.reverse THEN Ahead(answer.by.key, x, y) ELSE Ahead(answer.by.key, y, x)
DisplayBefore(y, x) ==
  \/ KeyBefore(y, x)
  \/ /\ ~KeyBefore(x, y)
     /\ LET bx == TieBreakers(answer.by.key, x)
            by == TieBreakers(answer.by.key, y)
        IN  IF answer.by.reverse THEN LexBefore(bx, by) ELSE LexBefore(by, bx)

\* Every page of every size shows its rows with the number of matching rows that are
\* better by the key as rank, also where the rows it shares a rank with are on another
\* page.
PageRanksCountTheBetter ==
  Answered =>
    \A offset \in 0..Len(answer.rows), limit \in 1..Len(answer.rows) :
      LET page == IF answer.of = "ladder" THEN Page(answer.rows, answer.by, offset, limit)
                  ELSE ClanPage(answer.rows, answer.by)
      IN  \A i \in DOMAIN page :
            page[i].rank = Cardinality({y \in Matching : KeyBefore(y, page[i].row)})

\* Pages asked for one after the other show every matching team where its place is,
\* whatever other requests have done to the order in between: what has a place in the
\* selected rows depends on nothing but the ranking and the request, up to the rows of
\* one team that agree in all that is compared.
PagesTile ==
  Answered =>
    /\ ToSet(answer.rows) = Matching
    /\ Len(answer.rows) = Cardinality(Matching)
    /\ \A i \in DOMAIN answer.rows :
         LET x == answer.rows[i]
             tied == {y \in Matching : ~DisplayBefore(x, y) /\ ~DisplayBefore(y, x)}
             ahead == Cardinality({y \in Matching : DisplayBefore(y, x)})
         IN  /\ i \in (ahead + 1)..(ahead + Cardinality(tied))
             /\ \A y \in tied : y.team_id = x.team_id

\* A page that is asked for by team shows the team if it matches, as long as the page
\* is longer than what is shown above it.
TeamIsOnItsPage ==
  Answered /\ answer.of = "ladder" =>
    \A t \in {x.team_id : x \in Matching} :
      LET page == Page(answer.rows, answer.by, Offset(answer.rows, -1, t), Lead + 1)
      IN  \E i \in DOMAIN page : page[i].row.team_id = t
=============================================================================
