------------------------------- MODULE Lookups -------------------------------
(***************************************************************************)
(* The pages that only read: the model search (search/page.tsx), the        *)
(* ranking with the detail of an account (ranking/RankingPage.tsx,          *)
(* UserDetailDialog.tsx) and the home page (HomePage.tsx), with the data    *)
(* the server rendered into them (lib/seed.ts, lib/server-api.ts).          *)
(*                                                                         *)
(* `news' is the version of what the portal knows, `look' the page shown,   *)
(* `trips' its questions that have no answer yet, `payload' what the router *)
(* keeps of the last page rendered by the server.                           *)
(***************************************************************************)
EXTENDS Naturals, Sequences

CONSTANTS
  MaxNews,      \* changes of what the portal knows
  MaxTrips,     \* questions a page asks
  MaxPages      \* pages of results of the query that has most

ASSUME LookupsAssumption == {MaxNews, MaxTrips, MaxPages} \subseteq Nat \ {0}

VARIABLES lookup, news, look, trips, payload

lookVars == <<lookup, news, look, trips, payload>>

Queries == {1, 2}     \* queries, views of the ranking, or accounts

-----------------------------------------------------------------------------
(* The model search                                                        *)

\* results: for each page listed, its query and its rank in it; applied: the
\* query of the last answer shown; hasty: "Charger plus" was clicked while a
\* search was due, so the list may mix two queries.
Search0 == [query |-> 1, timer |-> TRUE, seq |-> 0, loading |-> FALSE, loadingMore |-> FALSE,
            results |-> <<>>, hasMore |-> FALSE, error |-> FALSE, applied |-> 0, hasty |-> FALSE]

\* The second query has one page only.
Depth(q) == IF q = 1 THEN MaxPages ELSE 1

\* runSearch: the question leaves with a number of its own.
RunSearch(l, skip) ==
  /\ l.seq < MaxTrips
  /\ look' = [l EXCEPT !.seq = @ + 1,
                       !.loading = @ \/ skip = 0, !.loadingMore = @ \/ skip > 0]
  /\ trips' = trips \cup {[no |-> l.seq + 1, query |-> l.query, skip |-> skip]}

\* The query, the task or the filter changes: the delay starts again.
ChangeQuery ==
  \E q \in Queries \ {look.query} :
    /\ look' = [look EXCEPT !.query = q, !.timer = TRUE]
    /\ UNCHANGED trips

DelayEnds == look.timer /\ RunSearch([look EXCEPT !.timer = FALSE], 0)

\* "Chercher" and "Réessayer" do not stop the delay.
ClickSearch == RunSearch(look, 0)

ClickMore ==
  /\ look.hasMore /\ ~look.loadingMore /\ look.results # <<>>
  /\ RunSearch([look EXCEPT !.hasty = @ \/ look.timer \/ look.loading \/ look.error],
               Len(look.results))

\* What an answer shows.  After the last page there is nothing to add.
ResultsShown(l, c) ==
  LET page == IF c.skip < Depth(c.query) THEN <<<<c.query, c.skip + 1>>>> ELSE <<>>
  IN [l EXCEPT !.results = IF c.skip > 0 THEN @ \o page ELSE page,
               !.hasMore = c.skip + 1 < Depth(c.query),
               !.error = FALSE, !.applied = c.query, !.hasty = @ /\ c.skip > 0]

\* Only the indicator of its own kind is put out.
Rested(l, c) ==
  IF c.skip > 0 THEN [l EXCEPT !.loadingMore = FALSE] ELSE [l EXCEPT !.loading = FALSE]

\* Mutant: every answer is shown, late or not.
SearchAnswersAnyway(c, ok) ==
  Rested(IF ok THEN ResultsShown(look, c) ELSE [look EXCEPT !.error = TRUE], c)

\* An answer to another question than the last one is dropped, its indicator
\* left as it is.
SearchAnswers(c, ok) ==
  IF c.no # look.seq THEN look
  ELSE Rested(IF ok THEN ResultsShown(look, c) ELSE [look EXCEPT !.error = TRUE], c)

SearchLands ==
  \E c \in trips, ok \in BOOLEAN :
    /\ look' = SearchAnswers(c, ok)
    /\ trips' = trips \ {c}

SearchNext ==
  /\ ChangeQuery \/ DelayEnds \/ ClickSearch \/ ClickMore \/ SearchLands
  /\ UNCHANGED <<lookup, news, payload>>

\* At rest and without an error, the page shows the answer to the filters on
\* screen, however the answers were reordered; and unless more was asked for
\* while a search was due, it lists the pages of that query from the first on.
SearchCurrent ==
  LET rest == ~look.timer /\ \A c \in trips : c.no # look.seq
  IN rest /\ ~look.error =>
       /\ look.applied = look.query
       /\ ~look.hasty => look.results = [i \in 1..Len(look.results) |-> <<look.query, i>>]

-----------------------------------------------------------------------------
(* The seed of a page                                                      *)

\* pageSeed and serverRead: each read answers with the portal's data of that
\* moment, or fails and the key is null (0).
Rendered == {[data |-> d, claimed |-> FALSE] : d \in {0, news}}

\* Mutant: every mount takes its seed for fresh.
freshAlways(p) == p.data # 0

\* useSeed, claim: the first mount of a seed may skip its own read.
fresh(p) == p.data # 0 /\ ~p.claimed

Question(kind, of) == [kind |-> kind, of |-> of, asked |-> news, at |-> look.asked + 1]

\* What a page of a mount asks: the ranking its default view, the home page
\* the dashboard, unless the server rendered it for this very visit.
MountWith(p) ==
  /\ payload' = [p EXCEPT !.claimed = TRUE]
  /\ look' = [view |-> 1, shown |-> IF p.data # 0 THEN 1 ELSE 0, version |-> p.data,
              failed |-> FALSE, since |-> news, user |-> 0, detail |-> 0,
              asked |-> look.asked + 1]
  /\ trips' = IF fresh(p) THEN {} ELSE {Question(lookup, 1)}

\* The page is opened: the server renders it, or the router still has the
\* payload of an earlier visit.  The questions of the old mount are forgotten.
OpenPage ==
  /\ look.asked < MaxTrips
  /\ \E p \in Rendered \cup {payload} : MountWith(p)
  /\ UNCHANGED <<lookup, news>>

NewsCome ==
  /\ news < MaxNews
  /\ news' = news + 1
  /\ UNCHANGED <<lookup, look, trips, payload>>

-----------------------------------------------------------------------------
(* The ranking                                                             *)

\* A choice of period, metric, grouping or model: the question of the view left
\* is no longer alive.
ChooseView ==
  \E v \in Queries \ {look.view} :
    /\ look.asked < MaxTrips
    /\ look' = [look EXCEPT !.view = v, !.asked = @ + 1]
    /\ trips' = {c \in trips : c.kind # "ranking"} \cup {Question("ranking", v)}
    /\ UNCHANGED <<lookup, news, payload>>

\* The detail of an account opens on it, or closes: what was shown goes, and so
\* does the question on the way.
OpenDetail ==
  \E u \in (Queries \cup {0}) \ {look.user} :
    /\ look.asked < MaxTrips
    /\ look' = [look EXCEPT !.user = u, !.detail = 0, !.asked = @ + 1]
    /\ trips' = {c \in trips : c.kind # "detail"} \cup
                  (IF u = 0 THEN {} ELSE {Question("detail", u)})
    /\ UNCHANGED <<lookup, news, payload>>

RankingLands ==
  \E c \in trips, ok \in BOOLEAN, version \in 1..news :
    /\ c.asked <= version
    /\ look' = IF c.kind = "detail"
               THEN [look EXCEPT !.detail = IF ok THEN c.of ELSE 0]
               ELSE [look EXCEPT !.shown = IF ok THEN c.of ELSE 0, !.failed = ~ok,
                                 !.version = IF ok THEN version ELSE 0]
    /\ trips' = trips \ {c}
    /\ UNCHANGED <<lookup, news, payload>>

\* At rest the ranking is of the view chosen and no older than the visit, or is
\* said to be unavailable; the detail is always that of the account it names.
RankingCurrent ==
  /\ (\A c \in trips : c.kind # "ranking") =>
       look.failed \/ (look.shown = look.view /\ look.version >= look.since)
  /\ look.detail # 0 => look.detail = look.user

-----------------------------------------------------------------------------
(* The home page                                                           *)

\* Every 5 s, when the window is seen again, or with "Réessayer": another read,
\* whatever is already on the way.
PollHome ==
  /\ look.asked < MaxTrips
  /\ look' = [look EXCEPT !.asked = @ + 1]
  /\ trips' = trips \cup {Question("home", 1)}
  /\ UNCHANGED <<lookup, news, payload>>

\* A failure keeps what is shown.
HomeLands ==
  \E c \in trips, ok \in BOOLEAN, version \in 1..news :
    /\ c.asked <= version
    /\ look' = IF ok THEN [look EXCEPT !.shown = 1, !.version = version, !.failed = FALSE]
               ELSE [look EXCEPT !.failed = TRUE]
    /\ trips' = trips \ {c}
    /\ UNCHANGED <<lookup, news, payload>>

\* With nothing on the way, the dashboard is no older than the visit, or a read
\* has failed and the page knows it (loadError), whatever the server rendered.
HomeCurrent ==
  trips = {} => look.failed \/ (look.shown = 1 /\ look.version >= look.since)

-----------------------------------------------------------------------------
LookupsInit ==
  /\ lookup \in {"search", "ranking", "home"}
  /\ news = 1 /\ trips = {} /\ payload = [data |-> 1, claimed |-> TRUE]
  /\ look = IF lookup = "search" THEN Search0
            ELSE [view |-> 1, shown |-> 1, version |-> 1, failed |-> FALSE, since |-> 1,
                  user |-> 0, detail |-> 0, asked |-> 0]

LookupsNext ==
  \/ lookup = "search" /\ SearchNext
  \/ lookup # "search" /\ (OpenPage \/ NewsCome)
  \/ lookup = "ranking" /\ (ChooseView \/ OpenDetail \/ RankingLands)
  \/ lookup = "home" /\ (PollHome \/ HomeLands)

LookupsSpec == LookupsInit /\ [][LookupsNext]_lookVars

LookupsTypeOK ==
  /\ lookup \in {"search", "ranking", "home"} /\ news \in 1..MaxNews
  /\ payload \in [data : 0..MaxNews, claimed : BOOLEAN]
  /\ IF lookup = "search"
     THEN /\ DOMAIN look = DOMAIN Search0 /\ look.query \in Queries
          /\ look.seq \in 0..MaxTrips
          /\ trips \subseteq [no : 1..MaxTrips, query : Queries, skip : 0..MaxTrips]
     ELSE /\ {look.shown, look.user, look.detail} \subseteq {0} \cup Queries
          /\ look.version \in 0..news /\ look.asked \in 0..MaxTrips

\* What a reading page shows is what was asked last, and not older than the
\* visit.
LookupsCurrent ==
  CASE lookup = "search" -> SearchCurrent
    [] lookup = "ranking" -> RankingCurrent
    [] lookup = "home" -> HomeCurrent

=============================================================================
