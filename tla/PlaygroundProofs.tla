------------------------- MODULE PlaygroundProofs --------------------------
(***************************************************************************)
(* The page of the playground writes one answer at a time, and its Stop    *)
(* button reaches it, whatever the queue, the resumes, the tabs, the       *)
(* history, the adoption of a turn that a left page started, or the        *)
(* network do.  For every choice of the bounds and of the liberties.       *)
(***************************************************************************)
EXTENDS Playground, FiniteSetTheorems, TLAPS

-----------------------------------------------------------------------------
(* The invariant *)

PageFields ==
    {"messages", "currentId", "th", "streaming", "queued", "abort", "editing",
     "resumes", "answerNow", "follow", "polls", "armed", "loaded", "model",
     "fromUrl", "list", "tabs", "tab"}

TurnFields ==
    {"st", "page", "tab", "cid", "base", "th", "got", "liveId", "aborted", "voice",
     "retried", "auto"}

Named == ConvId \cup {0}

TabOK(t) == DOMAIN t = {"open", "messages", "currentId", "th"} /\ t.currentId \in Named

PageOK(r) ==
    /\ DOMAIN r = PageFields
    /\ r.currentId \in Named /\ r.resumes \in 0 .. MaxResumes /\ r.polls \in 0 .. MaxPolls
    /\ r.abort \in 0 .. MaxTurns /\ r.streaming \in BOOLEAN /\ r.answerNow \in BOOLEAN
    /\ r.tab \in Tabs /\ DOMAIN r.tabs = Tabs /\ \A i \in Tabs : TabOK(r.tabs[i])

TurnOK(t) ==
    /\ DOMAIN t = TurnFields
    /\ t.cid \in Named /\ t.liveId \in Named
    /\ t.st = "run" => t.page \in 1 .. opened /\ t.tab \in Tabs

IsSeq(s) == \E S : s \in Seq(S)

\* Requests and counters
DataOK ==
    /\ mode \in Modes
    /\ DOMAIN server = ConvId /\ gone \subseteq ConvId
    /\ IsSeq(net) /\ Len(net) <= MaxNet
    /\ typed \in 0 .. MaxTyped
    /\ \A r \in reads : r.id \in Named /\ r.page # 0

\* Pages and generations
Shapes ==
    /\ nturn \in 0 .. MaxTurns /\ live \in 0 .. MaxTurns
    /\ opened \in Pages /\ mount \in 0 .. opened /\ (mount = 0 => opened < MaxMounts)
    /\ DOMAIN pg = Pages /\ \A p \in Pages : PageOK(pg[p])
    /\ DOMAIN turns = 1 .. MaxTurns /\ \A n \in 1 .. MaxTurns : TurnOK(turns[n])

\* A generation that was not started does not run.
Unborn == \A n \in 1 .. MaxTurns : n > nturn => turns[n].st = "none"

\* The page on screen streams its own turn, and then it follows no other.
Stops == \A n \in Running : turns[n].page = mount => P.streaming /\ P.abort = n /\ P.follow = 0

\* There is a generation left for every queue and every quick answer promised.
Bound == nturn + Reserved <= MaxTurns

Core == Shapes /\ Unborn /\ OneTurnPerPage /\ Stops /\ Bound

PlaygroundInv == DataOK /\ Core

-----------------------------------------------------------------------------
(* Pages *)

\* A page that has just been mounted
LEMMA FreshPageOK == PageOK(FreshPage) /\ FreshPage.streaming = FALSE
                     /\ FreshPage.queued = <<>> /\ FreshPage.answerNow = FALSE
<1>1. DOMAIN FreshPage = PageFields
  BY DEF FreshPage, PageFields
<1>2. /\ FreshPage.currentId = 0 /\ FreshPage.resumes = 0 /\ FreshPage.polls = MaxPolls
      /\ FreshPage.abort = 0 /\ FreshPage.streaming = FALSE /\ FreshPage.answerNow = FALSE
      /\ FreshPage.tab = 1 /\ FreshPage.queued = <<>>
      /\ FreshPage.tabs = [i \in Tabs |-> IF i = 1 THEN EmptyTab ELSE NoTab]
  BY DEF FreshPage
<1>3. TabOK(EmptyTab) /\ TabOK(NoTab)
  BY DEF TabOK, EmptyTab, NoTab, Snapshot, Named
<1>4. 1 \in Tabs /\ 0 \in 0 .. MaxResumes /\ MaxPolls \in 0 .. MaxPolls /\ 0 \in 0 .. MaxTurns
  BY PlaygroundAssumption DEF Tabs
<1>5. DOMAIN FreshPage.tabs = Tabs /\ \A i \in Tabs : TabOK(FreshPage.tabs[i])
  BY <1>2, <1>3
<1> QED
  BY <1>1, <1>2, <1>4, <1>5 DEF PageOK, Named

\* What is left of a page that is gone
Left(c, q, k, a) == [Blank EXCEPT !.currentId = c, !.queued = q, !.resumes = k, !.answerNow = a]

\* It is a page, and its queue and its promise are the ones it had.
LEMMA LeftOK ==
    ASSUME NEW c \in Named, NEW q, NEW k \in 0 .. MaxResumes, NEW a \in BOOLEAN
    PROVE  /\ PageOK(Left(c, q, k, a))
           /\ Left(c, q, k, a).queued = q /\ Left(c, q, k, a).answerNow = a
<1> DEFINE L == [d \in ConvId |-> NoEntry]
           b == [FreshPage EXCEPT !.list = L, !.loaded = TRUE]
           r == [b EXCEPT !.currentId = c, !.queued = q, !.resumes = k, !.answerNow = a]
<1>1. PageOK(FreshPage)
  BY FreshPageOK
<1>2. b = Blank
  BY DEF Blank
<1> HIDE DEF L
<1>3. PageOK(b)
  BY <1>1 DEF PageOK, PageFields
<1> HIDE DEF b
<1>4. PageOK(r) /\ r.queued = q /\ r.answerNow = a
  BY <1>3 DEF PageOK, PageFields
<1>5. r = Left(c, q, k, a)
  BY <1>2 DEF Left
<1> HIDE DEF r
<1> QED
  BY <1>4, <1>5

\* What the effects after a render do to a page: they may stop following a turn,
\* and, if the page does not stream, take over the live one.
Taken(new, r) ==
    /\ PageOK(r) /\ r.queued = new.queued /\ r.answerNow = new.answerNow
    /\ new.streaming => /\ r.streaming /\ r.abort = new.abort
                        /\ r.follow \in {new.follow, 0}

\* usePendingFollow, first effect
LEMMA AdoptedIs ==
    ASSUME NEW old, NEW new, PageOK(new), NEW conv, live \in 0 .. MaxTurns
    PROVE  LET r == Adopted(old, new, conv)
           IN  Taken(new, r) /\ (new.streaming /\ old.streaming # new.streaming => r.follow = 0)
<1> DEFINE z == [new EXCEPT !.follow = 0]
           r == Adopted(old, new, conv)
<1>1. /\ PageOK(z) /\ z.queued = new.queued /\ z.answerNow = new.answerNow
      /\ z.streaming = new.streaming /\ z.abort = new.abort /\ z.follow = 0
  BY DEF PageOK, PageFields
<1>2. Taken(new, new)
  BY DEF Taken
<1> HIDE DEF z
<1>3. CASE r = new /\ old.streaming = new.streaming
  BY <1>2, <1>3
<1>4. CASE r = Adopting(z, conv)
  <2>1. CASE z.streaming
    <3>1. r = z
      BY <1>4, <2>1 DEF Adopting
    <3> QED
      BY <1>1, <3>1 DEF Taken
  <2>2. CASE ~z.streaming
    <3> DEFINE w == [z EXCEPT !.abort = live, !.streaming = TRUE, !.follow = live]
    <3>1. r = z \/ r = w
      BY <1>4 DEF Adopting
    <3>2. PageOK(w) /\ w.queued = z.queued /\ w.answerNow = z.answerNow
      BY <1>1 DEF PageOK, PageFields
    <3> HIDE DEF w
    <3> QED
      BY <1>1, <2>2, <3>1, <3>2 DEF Taken
  <2> QED
    BY <2>1, <2>2
<1>5. \/ r = new /\ old.streaming = new.streaming
      \/ r = Adopting(z, conv)
  BY DEF Adopted, z
<1> QED
  BY <1>3, <1>4, <1>5

\* Second effect: the reads of a checkpoint
LEMMA PollingIs ==
    ASSUME NEW new, NEW a, Taken(new, a), NEW conv
    PROVE  Taken(new, Polling(a, conv)) /\ Polling(a, conv).follow = a.follow
<1> DEFINE x == [a EXCEPT !.polls = MaxPolls, !.armed = FALSE]
           y == [a EXCEPT !.armed = FALSE]
           z == [a EXCEPT !.polls = @ - 1, !.armed = TRUE]
           r == Polling(a, conv)
<1>1. PageOK(a) /\ MaxPolls \in Nat
  BY PlaygroundAssumption DEF Taken
<1>2. r = x \/ r = y \/ (r = z /\ a.polls # 0)
  BY DEF Polling
<1>3. /\ PageOK(x) /\ x.queued = a.queued /\ x.answerNow = a.answerNow
      /\ x.streaming = a.streaming /\ x.abort = a.abort /\ x.follow = a.follow
  BY <1>1 DEF PageOK, PageFields
<1>4. /\ PageOK(y) /\ y.queued = a.queued /\ y.answerNow = a.answerNow
      /\ y.streaming = a.streaming /\ y.abort = a.abort /\ y.follow = a.follow
  BY <1>1 DEF PageOK, PageFields
<1>5. a.polls # 0 =>
        /\ PageOK(z) /\ z.queued = a.queued /\ z.answerNow = a.answerNow
        /\ z.streaming = a.streaming /\ z.abort = a.abort /\ z.follow = a.follow
  BY <1>1 DEF PageOK, PageFields
<1> HIDE DEF x, y, z, r
<1> QED
  BY <1>2, <1>3, <1>4, <1>5 DEF Taken, r

\* A page is painted: on screen the effects run, elsewhere only the refs change.
LEMMA PaintedIs ==
    ASSUME Shapes, NEW p \in Pages, NEW new, PageOK(new), NEW conv
    PROVE  LET r == Painted(p, new, conv)
           IN  /\ PageOK(r) /\ r.queued = new.queued /\ r.answerNow = new.answerNow
               /\ p = mount =>
                    /\ Taken(new, r)
                    /\ new.streaming /\ ~pg[p].streaming => r.follow = 0
<1> DEFINE r == Painted(p, new, conv)
           a == Adopted(pg[p], new, conv)
<1>1. PageOK(pg[p]) /\ live \in 0 .. MaxTurns
  BY DEF Shapes
<1>2. CASE p = mount
  <2>1. Taken(new, a) /\ (new.streaming /\ pg[p].streaming # new.streaming => a.follow = 0)
    BY <1>1, AdoptedIs
  <2>2. r = a \/ r = Polling(a, conv)
    BY <1>2 DEF Painted, Mounted, Rendered
  <2>3. Taken(new, r) /\ r.follow = a.follow
    BY <2>1, <2>2, PollingIs
  <2>4. new.streaming /\ ~pg[p].streaming => r.follow = 0
    BY <1>1, <2>1, <2>3 DEF PageOK
  <2> HIDE DEF r
  <2> QED
    BY <2>3, <2>4 DEF r, Taken
<1>3. CASE p # mount
  <2>1. r = Left(pg[p].currentId, new.queued, new.resumes, new.answerNow)
    BY <1>3 DEF Painted, Mounted, Left
  <2>2. pg[p].currentId \in Named /\ new.resumes \in 0 .. MaxResumes /\ new.answerNow \in BOOLEAN
    BY <1>1 DEF PageOK
  <2> HIDE DEF r
  <2>3. PageOK(r) /\ r.queued = new.queued /\ r.answerNow = new.answerNow
    BY <2>1, <2>2, LeftOK
  <2> QED
    BY <1>3, <2>3 DEF r
<1> QED
  BY <1>2, <1>3

\* A thread that was read is painted anew.
LEMMA RepaintIs ==
    ASSUME Shapes, NEW new, PageOK(new)
    PROVE  Taken(new, Polling(Adopted(P, new, LiveConv), LiveConv))
<1>1. live \in 0 .. MaxTurns
  BY DEF Shapes
<1>2. Taken(new, Adopted(P, new, LiveConv))
  BY <1>1, AdoptedIs
<1> QED
  BY <1>2, PollingIs

-----------------------------------------------------------------------------
(* The generations that are promised *)

Waiting == {p \in Pages : pg[p].queued # <<>>}
Hurried == {p \in Pages : pg[p].answerNow}

\* The promises of any pages can be counted.
LEMMA PromisesFinite ==
    ASSUME NEW f
    PROVE  LET W == {p \in Pages : f[p].queued # <<>>}
               H == {p \in Pages : f[p].answerNow}
           IN  /\ IsFiniteSet(W) /\ IsFiniteSet(H)
               /\ Cardinality(W) \in Nat /\ Cardinality(H) \in Nat
<1> DEFINE W == {p \in Pages : f[p].queued # <<>>}
           H == {p \in Pages : f[p].answerNow}
<1>1. IsFiniteSet(Pages)
  BY PlaygroundAssumption, FS_Interval DEF Pages
<1>2. IsFiniteSet(W) /\ IsFiniteSet(H)
  BY <1>1, FS_Subset
<1>3. Cardinality(W) \in Nat /\ Cardinality(H) \in Nat
  BY <1>2, FS_CardinalityType
<1> QED
  BY <1>2, <1>3

\* A promise more, or less
LEMMA PromiseCounts ==
    ASSUME NEW S, NEW T, IsFiniteSet(S), IsFiniteSet(T), NEW p
    PROVE  /\ T \subseteq S => Cardinality(T) <= Cardinality(S)
           /\ T \subseteq S \cup {p} => Cardinality(T) <= Cardinality(S) + 1
           /\ p \in S /\ T \subseteq S \ {p} => Cardinality(T) + 1 <= Cardinality(S)
<1>1. Cardinality(S) \in Nat /\ Cardinality(T) \in Nat
  BY FS_CardinalityType
<1>2. T \subseteq S => Cardinality(T) <= Cardinality(S)
  BY FS_Subset
<1>3. IsFiniteSet(S \cup {p}) /\ Cardinality(S \cup {p}) \in Nat
      /\ Cardinality(S \cup {p}) <= Cardinality(S) + 1
  <2>1. IsFiniteSet(S \cup {p})
        /\ (Cardinality(S \cup {p}) = Cardinality(S) \/ Cardinality(S \cup {p}) = Cardinality(S) + 1)
    BY FS_AddElement
  <2> QED
    BY <1>1, <2>1
<1>4. T \subseteq S \cup {p} => Cardinality(T) <= Cardinality(S \cup {p})
  BY <1>3, FS_Subset
<1>5. p \in S => IsFiniteSet(S \ {p}) /\ Cardinality(S \ {p}) = Cardinality(S) - 1
  BY FS_RemoveElement
<1>6. p \in S /\ T \subseteq S \ {p} => Cardinality(T) <= Cardinality(S \ {p})
  BY <1>5, FS_Subset
<1> QED
  BY <1>1, <1>2, <1>3, <1>4, <1>5, <1>6

\* A step that changes one page, and starts n new generations, keeps the bound.
LEMMA BoundStep ==
    ASSUME Shapes, Bound, NEW p \in Pages, NEW r, pg' = [pg EXCEPT ![p] = r],
           \/ /\ nturn' = nturn
              /\ r.queued # <<>> => pg[p].queued # <<>>
              /\ r.answerNow => pg[p].answerNow
           \/ /\ nturn' = nturn /\ Room
              /\ r.queued = pg[p].queued \/ (r.answerNow => pg[p].answerNow)
           \/ /\ nturn' = nturn + 1 /\ Room
              /\ r.queued # <<>> => pg[p].queued # <<>>
              /\ r.answerNow => pg[p].answerNow
           \/ /\ nturn' = nturn + 1 /\ pg[p].queued # <<>> /\ r.queued = <<>>
              /\ r.answerNow => pg[p].answerNow
           \/ /\ nturn' = nturn + 1 /\ pg[p].answerNow /\ ~r.answerNow
              /\ r.queued # <<>> => pg[p].queued # <<>>
    PROVE  Bound' /\ nturn' \in 0 .. MaxTurns
<1> DEFINE W == Cardinality(Waiting)
           H == Cardinality(Hurried)
           W1 == Cardinality(Waiting')
           H1 == Cardinality(Hurried')
<1>1. Reserved = W + H /\ IsFiniteSet(Waiting) /\ IsFiniteSet(Hurried) /\ W \in Nat /\ H \in Nat
  BY PromisesFinite DEF Reserved, Waiting, Hurried
<1>2. Reserved' = W1 + H1 /\ IsFiniteSet(Waiting') /\ IsFiniteSet(Hurried') /\ W1 \in Nat /\ H1 \in Nat
  BY PromisesFinite DEF Reserved, Waiting, Hurried
<1>3. MaxTurns \in Nat /\ nturn \in 0 .. MaxTurns /\ nturn + W + H <= MaxTurns
  BY <1>1, PlaygroundAssumption DEF Shapes, Bound
<1>4. Room <=> nturn + W + H < MaxTurns
  BY <1>1, <1>3 DEF Room
<1>5. \A q \in Pages : pg'[q] = IF q = p THEN r ELSE pg[q]
  BY DEF Shapes
<1>6. /\ Waiting' \subseteq Waiting \cup {p} /\ Hurried' \subseteq Hurried \cup {p}
      /\ (r.queued # <<>> => pg[p].queued # <<>>) => Waiting' \subseteq Waiting
      /\ (r.answerNow => pg[p].answerNow) => Hurried' \subseteq Hurried
      /\ pg[p].queued # <<>> /\ r.queued = <<>> => p \in Waiting /\ Waiting' \subseteq Waiting \ {p}
      /\ pg[p].answerNow /\ ~r.answerNow => p \in Hurried /\ Hurried' \subseteq Hurried \ {p}
  BY <1>5 DEF Waiting, Hurried
<1>7. /\ Waiting' \subseteq Waiting => W1 <= W
      /\ Waiting' \subseteq Waiting \cup {p} => W1 <= W + 1
      /\ p \in Waiting /\ Waiting' \subseteq Waiting \ {p} => W1 + 1 <= W
  BY <1>1, <1>2, PromiseCounts
<1>8. /\ Hurried' \subseteq Hurried => H1 <= H
      /\ Hurried' \subseteq Hurried \cup {p} => H1 <= H + 1
      /\ p \in Hurried /\ Hurried' \subseteq Hurried \ {p} => H1 + 1 <= H
  BY <1>1, <1>2, PromiseCounts
<1> HIDE DEF W, H, W1, H1
<1>9. \/ nturn' = nturn /\ W1 <= W /\ H1 <= H
      \/ nturn' = nturn /\ Room /\ W1 + H1 <= W + H + 1
      \/ nturn' = nturn + 1 /\ Room /\ W1 <= W /\ H1 <= H
      \/ nturn' = nturn + 1 /\ W1 + 1 <= W /\ H1 <= H
      \/ nturn' = nturn + 1 /\ H1 + 1 <= H /\ W1 <= W
  BY <1>1, <1>2, <1>6, <1>7, <1>8
<1> QED
  BY <1>1, <1>2, <1>3, <1>4, <1>9 DEF Bound

-----------------------------------------------------------------------------
(* One page changes *)

\* A step that changes one page and may start or end a generation of it: what
\* is left to show is about that page and its generation.
LEMMA CoreStep ==
    ASSUME Core, NEW p \in Pages, NEW r, PageOK(r), pg' = [pg EXCEPT ![p] = r],
           opened' = opened, mount' = mount, live' \in 0 .. MaxTurns, nturn' \in 0 .. MaxTurns,
           Bound', DOMAIN turns' = 1 .. MaxTurns,
           \A n \in 1 .. MaxTurns : TurnOK(turns'[n]),
           \A n \in 1 .. MaxTurns : n > nturn' => turns'[n].st = "none",
           \A n \in 1 .. MaxTurns : turns'[n].st = "run" /\ turns'[n].page # p =>
                turns[n].st = "run" /\ turns[n].page = turns'[n].page,
           \A m, n \in 1 .. MaxTurns :
                turns'[m].st = "run" /\ turns'[n].st = "run" /\ turns'[m].page = p /\ turns'[n].page = p
                  => m = n,
           p = mount => \A n \in 1 .. MaxTurns : turns'[n].st = "run" /\ turns'[n].page = p =>
                            r.streaming /\ r.abort = n /\ r.follow = 0
    PROVE  Core'
<1>1. DOMAIN pg = Pages /\ (\A q \in Pages : PageOK(pg[q])) /\ mount \in 0 .. opened /\ opened \in Pages
      /\ (mount = 0 => opened < MaxMounts)
  BY DEF Core, Shapes
<1>2. DOMAIN pg' = Pages /\ pg'[p] = r /\ \A q \in Pages : q # p => pg'[q] = pg[q]
  BY <1>1
<1>3. \A q \in Pages : PageOK(pg'[q])
  BY <1>1, <1>2
<1>4. (\A q \in Pages : PageOK(pg[q]))' /\ (\A n \in 1 .. MaxTurns : TurnOK(turns[n]))'
  BY <1>3 DEF PageOK, TurnOK, Named, ConvId, Old, Tabs, Pages
<1>5. Shapes'
  BY <1>1, <1>2, <1>4 DEF Shapes, Pages
<1>6. Unborn'
  BY DEF Unborn
<1>7. OneTurnPerPage'
  BY DEF OneTurnPerPage, Running, Core
<1>8. Stops'
  <2> SUFFICES ASSUME NEW n \in 1 .. MaxTurns, turns'[n].st = "run", turns'[n].page = mount
               PROVE  P'.streaming /\ P'.abort = n /\ P'.follow = 0
    BY DEF Stops, Running
  <2>1. CASE mount = p
    BY <1>2, <2>1 DEF P
  <2>2. CASE mount # p
    <3>1. turns[n].st = "run" /\ turns[n].page = mount
      BY <2>2
    <3>2. mount \in Pages
      BY <1>1, <3>1, PlaygroundAssumption DEF Core, Shapes, TurnOK, Pages
    <3>3. P' = P
      BY <1>2, <2>2, <3>2 DEF P
    <3> QED
      BY <3>1, <3>3 DEF Core, Stops, Running
  <2> QED
    BY <2>1, <2>2
<1> QED
  BY <1>5, <1>6, <1>7, <1>8 DEF Core

\* Generations that neither start nor end
Alike ==
    /\ DOMAIN turns' = 1 .. MaxTurns
    /\ \A n \in 1 .. MaxTurns : /\ TurnOK(turns'[n]) /\ turns'[n].st = turns[n].st
                                /\ turns'[n].page = turns[n].page

\* A page that goes on with the turn it is writing
Keeps(old, r) == old.streaming /\ old.follow = 0 => r.streaming /\ r.abort = old.abort /\ r.follow = 0

\* The generations are unchanged.
LEMMA AlikeSame ==
    ASSUME Shapes, turns' = turns
    PROVE  Alike
  BY DEF Shapes, Alike

\* Then a page that keeps its own turn is all that is needed.
LEMMA PageStep ==
    ASSUME Core, NEW p \in Pages, NEW r, PageOK(r), pg' = [pg EXCEPT ![p] = r],
           opened' = opened, mount' = mount, live' \in 0 .. MaxTurns, nturn' = nturn, Bound', Alike,
           p = mount => Keeps(pg[p], r)
    PROVE  Core'
<1>1. nturn' \in 0 .. MaxTurns /\ (\A n \in 1 .. MaxTurns : TurnOK(turns'[n]))
      /\ DOMAIN turns' = 1 .. MaxTurns
  BY DEF Core, Shapes, Alike
<1>2. \A n \in 1 .. MaxTurns : n > nturn' => turns'[n].st = "none"
  BY DEF Core, Unborn, Alike
<1>3. \A n \in 1 .. MaxTurns : turns'[n].st = "run" /\ turns'[n].page # p =>
           turns[n].st = "run" /\ turns[n].page = turns'[n].page
  BY DEF Alike
<1>4. \A m, n \in 1 .. MaxTurns :
           turns'[m].st = "run" /\ turns'[n].st = "run" /\ turns'[m].page = p /\ turns'[n].page = p => m = n
  BY DEF Alike, Core, OneTurnPerPage, Running
<1>5. p = mount => \A n \in 1 .. MaxTurns : turns'[n].st = "run" /\ turns'[n].page = p =>
                       r.streaming /\ r.abort = n /\ r.follow = 0
  BY DEF Alike, Core, Stops, Running, Keeps, P
<1> QED
  BY <1>1, <1>2, <1>3, <1>4, <1>5, CoreStep

\* The page on screen is a page.
LEMMA OnScreen ==
    ASSUME Shapes, OnPage
    PROVE  mount \in Pages /\ mount \in 1 .. opened /\ PageOK(P) /\ live \in 0 .. MaxTurns
  BY PlaygroundAssumption DEF Shapes, OnPage, Pages, P

\* An update of the page on screen that leaves the stream alone
Calm(new) ==
    PageOK(new) /\ new.streaming = P.streaming /\ new.abort = P.abort /\ new.follow = P.follow

\* It promises no generation that was not promised, or there is room for it.
Promises(new) ==
    \/ (new.queued # <<>> => P.queued # <<>>) /\ (new.answerNow => P.answerNow)
    \/ Room /\ (new.queued = P.queued \/ (new.answerNow => P.answerNow))

\* The handlers that paint the page and start nothing
LEMMA PaintStep ==
    ASSUME Core, OnPage, NEW new, Calm(new), Promises(new), Paint(new) \/ Repaint(new),
           opened' = opened, mount' = mount, live' = live, nturn' = nturn, Alike
    PROVE  Core'
<1> DEFINE r1 == Painted(mount, new, LiveConv)
           r2 == Polling(Adopted(P, new, LiveConv), LiveConv)
<1>1. Shapes /\ Bound /\ mount \in Pages /\ live \in 0 .. MaxTurns /\ PageOK(new)
  BY OnScreen DEF Core, Calm
<1>2. Taken(new, r1) /\ Taken(new, r2)
  <2>1. Taken(new, r1)
    BY <1>1, PaintedIs
  <2>2. Taken(new, r2)
    BY <1>1, RepaintIs
  <2> QED
    BY <2>1, <2>2
<1>3. PICK r : Taken(new, r) /\ pg' = [pg EXCEPT ![mount] = r]
  BY <1>2 DEF Paint, Repaint
<1> HIDE DEF r1, r2
<1>4. Bound'
  <2>1. \/ /\ nturn' = nturn
           /\ r.queued # <<>> => pg[mount].queued # <<>>
           /\ r.answerNow => pg[mount].answerNow
        \/ /\ nturn' = nturn /\ Room
           /\ r.queued = pg[mount].queued \/ (r.answerNow => pg[mount].answerNow)
    BY <1>3 DEF Taken, Promises, P
  <2> QED
    BY <1>1, <1>3, <2>1, BoundStep
<1>5. PageOK(r) /\ Keeps(pg[mount], r)
  BY <1>3 DEF Taken, Calm, Keeps, P
<1> QED
  BY <1>1, <1>3, <1>4, <1>5, PageStep

\* A generation as runStream makes it
LEMMA TurnOfOK ==
    ASSUME NEW ask, ask.page \in 1 .. opened, ask.tab \in Tabs, ask.cid \in Named
    PROVE  TurnOK(TurnOf(ask)) /\ TurnOf(ask).st = "run" /\ TurnOf(ask).page = ask.page
<1>1. DOMAIN NoTurn = TurnFields
  BY DEF NoTurn, TurnFields
<1> DEFINE z == NoTurn
<1>2. DOMAIN z = TurnFields
  BY <1>1
<1> DEFINE t == [z EXCEPT !.st = "run", !.page = ask.page, !.tab = ask.tab, !.cid = ask.cid,
                   !.base = ask.base, !.th = ask.th, !.liveId = ask.cid,
                   !.voice = ask.voice, !.retried = ask.retried, !.auto = ask.auto]
<1>3. t = TurnOf(ask)
  BY DEF TurnOf
<1> HIDE DEF z
<1>4. DOMAIN t = TurnFields /\ t.st = "run" /\ t.page = ask.page /\ t.tab = ask.tab /\ t.cid = ask.cid
      /\ t.liveId = ask.cid
  BY <1>2 DEF TurnFields
<1> HIDE DEF t
<1> QED
  BY <1>3, <1>4 DEF TurnOK

\* runStream: a page that writes nothing else starts a generation; the one that
\* this one continues, if any, is over.
LEMMA NewTurn ==
    ASSUME Core, NEW p \in Pages, NEW r, PageOK(r), pg' = [pg EXCEPT ![p] = r], Bound',
           nturn' = nturn + 1, nturn' \in 0 .. MaxTurns, live' = nturn + 1,
           opened' = opened, mount' = mount, DOMAIN turns' = 1 .. MaxTurns,
           turns'[nturn + 1].page = p,
           \A n \in 1 .. MaxTurns : TurnOK(turns'[n]) /\ (n > nturn + 1 => turns'[n].st = "none"),
           \A n \in 1 .. MaxTurns : n # nturn + 1 /\ turns'[n].st = "run" =>
                turns[n].st = "run" /\ turns[n].page = turns'[n].page /\ turns'[n].page # p,
           p = mount => r.streaming /\ r.abort = nturn + 1 /\ r.follow = 0
    PROVE  Core'
<1> DEFINE k == nturn + 1
<1>1. k \in 1 .. MaxTurns /\ nturn \in Nat /\ live' \in 0 .. MaxTurns
  BY PlaygroundAssumption DEF Core, Shapes
<1>2. \A n \in 1 .. MaxTurns : TurnOK(turns'[n]) /\ (n > nturn' => turns'[n].st = "none")
  BY <1>1
<1>3. \A n \in 1 .. MaxTurns : turns'[n].st = "run" /\ turns'[n].page # p =>
           turns[n].st = "run" /\ turns[n].page = turns'[n].page
  OBVIOUS
<1>4. \A n \in 1 .. MaxTurns : turns'[n].st = "run" /\ turns'[n].page = p => n = k
  OBVIOUS
<1> HIDE DEF k
<1>5. \A m, n \in 1 .. MaxTurns :
           turns'[m].st = "run" /\ turns'[n].st = "run" /\ turns'[m].page = p /\ turns'[n].page = p => m = n
  BY <1>4
<1>6. p = mount => \A n \in 1 .. MaxTurns : turns'[n].st = "run" /\ turns'[n].page = p =>
                       r.streaming /\ r.abort = n /\ r.follow = 0
  BY <1>4 DEF k
<1> QED
  BY <1>1, <1>2, <1>3, <1>5, <1>6, CoreStep

\* A queue, a quick answer and the room left are each good for one generation.
LEMMA OneMore ==
    ASSUME Shapes, Bound, NEW p \in Pages, Room \/ pg[p].queued # <<>> \/ pg[p].answerNow
    PROVE  nturn + 1 \in 1 .. MaxTurns
<1> DEFINE W == Cardinality(Waiting)
           H == Cardinality(Hurried)
<1>1. Reserved = W + H /\ IsFiniteSet(Waiting) /\ IsFiniteSet(Hurried) /\ W \in Nat /\ H \in Nat
  BY PromisesFinite DEF Reserved, Waiting, Hurried
<1>2. MaxTurns \in Nat /\ nturn \in 0 .. MaxTurns /\ nturn + W + H <= MaxTurns
      /\ (Room <=> nturn + W + H < MaxTurns)
  BY <1>1, PlaygroundAssumption DEF Shapes, Bound, Room
<1>3. IsFiniteSet({}) /\ Cardinality({}) = 0
  BY FS_EmptySet
<1>4. p \in Waiting => 1 <= W
  <2>1. p \in Waiting => Cardinality({}) + 1 <= W
    BY <1>1, <1>3, PromiseCounts
  <2> QED
    BY <1>3, <2>1
<1>5. p \in Hurried => 1 <= H
  <2>1. p \in Hurried => Cardinality({}) + 1 <= H
    BY <1>1, <1>3, PromiseCounts
  <2> QED
    BY <1>3, <2>1
<1>6. Room \/ p \in Waiting \/ p \in Hurried
  BY DEF Waiting, Hurried
<1> HIDE DEF W, H
<1> QED
  BY <1>1, <1>2, <1>4, <1>5, <1>6

\* A handler of the page on screen, which writes nothing, calls runStream.
LEMMA RunStep ==
    ASSUME Core, OnPage, ~P.streaming, NEW rec, Calm(rec), NEW base, NEW voice,
           rec.answerNow = P.answerNow,
           \/ Room /\ rec.queued = P.queued
           \/ P.queued # <<>> /\ rec.queued = <<>>,
           runStream(rec, Ask(rec, base, voice)), opened' = opened, mount' = mount
    PROVE  Core'
<1> DEFINE ask == Ask(rec, base, voice)
<1>1. Shapes /\ Bound /\ mount \in Pages /\ mount \in 1 .. opened /\ PageOK(rec) /\ PageOK(P)
  BY OnScreen DEF Core, Calm
<1>2. CASE ~rec.model /\ Paint([rec EXCEPT !.messages = Append(ask.base, Note(ask.th))])
           /\ UNCHANGED <<nturn, turns, live>>
  <2> DEFINE msgs == Append(ask.base, Note(ask.th))
             new == [rec EXCEPT !.messages = msgs]
  <2>1. Paint(new)
    BY <1>2
  <2> HIDE DEF msgs, ask
  <2>2. Calm(new) /\ new.queued = rec.queued /\ new.answerNow = rec.answerNow
    BY <1>1 DEF Calm, PageOK, PageFields
  <2> HIDE DEF new
  <2>3. Promises(new)
    BY <2>2 DEF Promises
  <2>4. Alike
    BY <1>1, <1>2, AlikeSame
  <2> QED
    BY <1>2, <2>1, <2>2, <2>3, <2>4, PaintStep
<1>3. CASE StartTurn(rec, ask)
  <2> DEFINE n == nturn + 1
             msgs == Append(ask.base, Msg("assistant", n, ask.th, 0, FALSE))
             new == [rec EXCEPT !.streaming = TRUE, !.abort = n, !.messages = msgs]
             r == Painted(mount, new, ask.cid)
  <2>1. ask.page = mount /\ ask.tab = rec.tab /\ ask.cid = rec.currentId
    BY DEF Ask
  <2>2. /\ nturn' = n /\ turns' = [turns EXCEPT ![n] = TurnOf(ask)] /\ live' = n
        /\ pg' = [pg EXCEPT ![mount] = r]
    BY <1>3, <2>1 DEF StartTurn
  <2>3. n \in 1 .. MaxTurns
    BY <1>1, OneMore DEF P
  <2>4. TurnOK(TurnOf(ask)) /\ TurnOf(ask).page = mount
    <3>1. ask.page \in 1 .. opened /\ ask.tab \in Tabs /\ ask.cid \in Named
      BY <1>1, <2>1 DEF PageOK
    <3> HIDE DEF ask
    <3> QED
      BY <2>1, <3>1, TurnOfOK
  <2> HIDE DEF msgs, n, ask
  <2>5. /\ PageOK(new) /\ new.streaming /\ new.abort = n /\ new.queued = rec.queued
        /\ new.answerNow = rec.answerNow
    BY <1>1, <2>3 DEF PageOK, PageFields
  <2> HIDE DEF new
  <2>6. Taken(new, r) /\ r.follow = 0
    BY <1>1, <2>5, PaintedIs DEF P
  <2> HIDE DEF r
  <2>7. PageOK(r) /\ r.streaming /\ r.abort = n /\ r.queued = rec.queued /\ r.answerNow = P.answerNow
    BY <2>5, <2>6 DEF Taken
  <2>8. Bound' /\ nturn' \in 0 .. MaxTurns
    <3>1. \/ /\ nturn' = nturn + 1 /\ Room
             /\ r.queued # <<>> => pg[mount].queued # <<>>
             /\ r.answerNow => pg[mount].answerNow
          \/ /\ nturn' = nturn + 1 /\ pg[mount].queued # <<>> /\ r.queued = <<>>
             /\ r.answerNow => pg[mount].answerNow
      BY <2>2, <2>7 DEF n, P
    <3> QED
      BY <1>1, <2>2, <3>1, BoundStep
  <2>9. /\ DOMAIN turns' = 1 .. MaxTurns /\ turns'[nturn + 1] = TurnOf(ask)
        /\ \A m \in 1 .. MaxTurns : m # nturn + 1 => turns'[m] = turns[m]
    BY <2>2, <2>3 DEF Core, Shapes, n
  <2>10. \A m \in 1 .. MaxTurns : TurnOK(turns'[m]) /\ (m > nturn + 1 => turns'[m].st = "none")
    <3>1. \A m \in 1 .. MaxTurns : TurnOK(turns[m]) /\ (m > nturn => turns[m].st = "none")
      BY DEF Core, Shapes, Unborn
    <3>2. nturn \in Nat
      BY PlaygroundAssumption DEF Core, Shapes
    <3> QED
      BY <2>4, <2>9, <3>1, <3>2
  <2>11. \A m \in 1 .. MaxTurns : m # nturn + 1 /\ turns'[m].st = "run" =>
              turns[m].st = "run" /\ turns[m].page = turns'[m].page /\ turns'[m].page # mount
    BY <2>9 DEF Core, Stops, Running
  <2>12. r.streaming /\ r.abort = nturn + 1 /\ r.follow = 0 /\ turns'[nturn + 1].page = mount
         /\ nturn' = nturn + 1 /\ live' = nturn + 1
    BY <2>2, <2>4, <2>6, <2>7, <2>9 DEF n
  <2> QED
    BY <1>1, <2>2, <2>7, <2>8, <2>9, <2>10, <2>11, <2>12, NewTurn
<1> QED
  BY <1>2, <1>3 DEF runStream

-----------------------------------------------------------------------------
(* The end of a turn *)

\* A running generation
LEMMA RunningIs ==
    ASSUME Shapes, NEW n \in Running
    PROVE  /\ n \in 1 .. MaxTurns /\ turns[n].st = "run" /\ TurnOK(turns[n])
           /\ turns[n].page \in Pages /\ turns[n].page \in 1 .. opened /\ turns[n].tab \in Tabs
           /\ turns[n].cid \in Named /\ ConvOf(n) \in Named
<1>1. n \in 1 .. MaxTurns /\ turns[n].st = "run" /\ TurnOK(turns[n])
  BY DEF Running, Shapes
<1>2. turns[n].page \in Pages /\ turns[n].page \in 1 .. opened /\ turns[n].tab \in Tabs
  BY <1>1, PlaygroundAssumption DEF TurnOK, Shapes, Pages
<1>3. turns[n].cid \in Named /\ ConvOf(n) \in Named
  BY <1>1 DEF TurnOK, ConvOf, Named, ConvId
<1> QED
  BY <1>1, <1>2, <1>3

\* An ended generation is none that runs.
LEMMA OverOK == TurnOK(Over) /\ Over.st = "over"
  BY DEF TurnOK, Over, NoTurn, TurnFields, Named

\* runStream once the answer is there: the refs the continuation reads are as they were.
Rests(old, rec) ==
    /\ PageOK(rec) /\ rec.follow = old.follow /\ rec.queued = old.queued
    /\ rec.answerNow = old.answerNow /\ rec.resumes = old.resumes

\* The page at the end of a turn is such a page, and does not stream.
LEMMA EndedIs ==
    ASSUME Shapes, NEW n \in Running
    PROVE  Rests(pg[turns[n].page], EndedPage(n)) /\ EndedPage(n).streaming = FALSE
<1> DEFINE old == pg[turns[n].page]
           c == ConvOf(n)
           f == Final(n)
           tab == turns[n].tab
           entry == [in |-> TRUE, msgs |-> f, omitted |-> FALSE]
           rec == [old EXCEPT !.list[c] = entry]
           off == [rec EXCEPT !.streaming = FALSE, !.abort = 0]
           d == IF rec.tabs[tab].open THEN c ELSE off.tabs[tab].currentId
           on == [off EXCEPT !.messages = f, !.currentId = c, !.tabs[tab].currentId = d]
<1>1. PageOK(old) /\ tab \in Tabs /\ c \in Named /\ 0 \in 0 .. MaxTurns
  BY RunningIs, PlaygroundAssumption DEF Shapes
<1>2. EndedPage(n) = on \/ EndedPage(n) = off
  BY DEF EndedPage, Listed
<1> HIDE DEF old, c, f, tab, entry
<1>3. Rests(old, rec)
  BY <1>1 DEF Rests, PageOK, PageFields
<1> HIDE DEF rec
<1>4. Rests(old, off) /\ off.streaming = FALSE
  BY <1>1, <1>3 DEF Rests, PageOK, PageFields
<1> HIDE DEF off
<1>5. d \in Named
  BY <1>1, <1>4 DEF Rests, PageOK, TabOK
<1> HIDE DEF d
<1>6. Rests(old, on) /\ on.streaming = FALSE
  <2> DEFINE tb == [off.tabs EXCEPT ![tab].currentId = d]
             on2 == [off EXCEPT !.messages = f, !.currentId = c, !.tabs = tb]
  <2>1. DOMAIN tb = Tabs /\ \A i \in Tabs : TabOK(tb[i])
    BY <1>1, <1>4, <1>5 DEF Rests, PageOK, TabOK
  <2>2. on = on2
    BY <1>4 DEF Rests, PageOK, PageFields
  <2> HIDE DEF tb
  <2>3. Rests(old, on2) /\ on2.streaming = FALSE
    BY <1>1, <1>4, <2>1 DEF Rests, PageOK, PageFields
  <2> QED
    BY <2>2, <2>3
<1> HIDE DEF on
<1> QED
  BY <1>2, <1>4, <1>6 DEF old

\* What a turn is followed by: a quick answer, a second try, a resume, the queue,
\* or nothing, and each continuation was promised or has room.
Follows(old, go, rec) ==
    /\ PageOK(rec) /\ rec.follow = old.follow /\ rec.streaming = FALSE
    /\ \/ /\ go /\ old.answerNow /\ ~rec.answerNow /\ rec.queued = old.queued
       \/ /\ go /\ Room /\ rec.answerNow = old.answerNow /\ rec.queued = old.queued
       \/ /\ go /\ old.queued # <<>> /\ rec.queued = <<>> /\ rec.answerNow = old.answerNow
       \/ /\ ~go /\ rec.queued = <<>> /\ rec.answerNow = old.answerNow

\* Follow gives one of them, for the page, the tab and the conversation of the turn.
LEMMA FollowIs ==
    ASSUME Shapes, NEW n \in Running, NEW how, how # "done" /\ MayResume(n) => Room
    PROVE  LET f == Follow(n, how)
           IN  /\ Follows(pg[turns[n].page], f.go, f.rec)
               /\ f.ask.page = turns[n].page /\ f.ask.tab = turns[n].tab /\ f.ask.cid = turns[n].cid
<1> DEFINE old == pg[turns[n].page]
           rec == EndedPage(n)
           t == turns[n]
           more == [rec EXCEPT !.resumes = @ + 1]
           last == [rec EXCEPT !.resumes = 0, !.queued = <<>>]
           quick == [rec EXCEPT !.answerNow = FALSE]
           f == Follow(n, how)
<1>1. Rests(old, rec) /\ rec.streaming = FALSE
  BY EndedIs
<1>2. MayResume(n) <=> old.resumes < MaxResumes
  BY DEF MayResume
<1>3. \/ rec.answerNow /\ f.go = TRUE /\ f.rec = quick
      \/ Room /\ f.go = TRUE /\ f.rec = rec
      \/ how # "done" /\ MayResume(n) /\ f.go = TRUE /\ f.rec = more
      \/ f.go = (rec.queued # <<>>) /\ f.rec = last
  BY DEF Follow
<1>4. \E b, v, e, a : f.ask = AskAgain(n, b, v, e, a)
  BY DEF Follow
<1>5. f.ask.page = turns[n].page /\ f.ask.tab = turns[n].tab /\ f.ask.cid = turns[n].cid
  BY <1>4 DEF AskAgain
<1> HIDE DEF old, rec, f
<1>6. Follows(old, TRUE, quick) \/ ~rec.answerNow
  BY <1>1 DEF Follows, Rests, PageOK, PageFields
<1>7. Room => Follows(old, TRUE, rec)
  BY <1>1 DEF Follows, Rests
<1>8. Room /\ MayResume(n) => Follows(old, TRUE, more)
  BY <1>1, <1>2, PlaygroundAssumption DEF Follows, Rests, PageOK, PageFields
<1>9. Follows(old, rec.queued # <<>>, last)
  BY <1>1, PlaygroundAssumption DEF Follows, Rests, PageOK, PageFields
<1> HIDE DEF quick, more, last
<1>10. Follows(old, f.go, f.rec)
  BY <1>3, <1>6, <1>7, <1>8, <1>9
<1> QED
  BY <1>5, <1>10 DEF old, f

\* The end of runStream
LEMMA EndStep ==
    ASSUME Core, NEW n \in 1 .. MaxTurns, End(n)
    PROVE  Core'
<1>1. n \in Running /\ opened' = opened /\ mount' = mount
  BY DEF End
<1> DEFINE p == turns[n].page
           k == nturn + 1
           free == [turns EXCEPT ![n] = Over]
<1>2. Shapes /\ Bound /\ p \in Pages /\ p \in 1 .. opened /\ turns[n].tab \in Tabs /\ turns[n].cid \in Named
  BY <1>1, RunningIs DEF Core
<1>3. PICK how :
        /\ how # "done" /\ MayResume(n) => Room
        /\ LET next == Follow(n, how) IN
           IF next.go
           THEN /\ nturn' = k /\ live' = k
                /\ turns' = [free EXCEPT ![k] = TurnOf(next.ask)]
                /\ pg' = [pg EXCEPT ![p] = Painted(p,
                     [next.rec EXCEPT !.streaming = TRUE, !.abort = k,
                        !.messages = Append(next.ask.base, Msg("assistant", k, next.ask.th, 0, FALSE))],
                     next.ask.cid)]
           ELSE /\ turns' = free /\ nturn' = nturn
                /\ live' = IF live = n THEN 0 ELSE live
                /\ pg' = [pg EXCEPT ![p] = Painted(p, next.rec, IF live = n THEN 0 ELSE LiveConv)]
  BY DEF End
<1> DEFINE next == Follow(n, how)
           rec == next.rec
           ask == next.ask
           msgs == Append(ask.base, Msg("assistant", k, ask.th, 0, FALSE))
<1>4. /\ Follows(pg[p], next.go, rec)
      /\ ask.page = p /\ ask.tab = turns[n].tab /\ ask.cid = turns[n].cid
  BY <1>1, <1>2, <1>3, FollowIs
<1>5. /\ DOMAIN free = 1 .. MaxTurns /\ TurnOK(Over) /\ Over.st = "over" /\ free[n] = Over
      /\ \A m \in 1 .. MaxTurns : m # n => free[m] = turns[m]
  BY OverOK DEF Core, Shapes
<1>6. \A m \in 1 .. MaxTurns : free[m].st = "run" =>
           turns[m].st = "run" /\ turns[m].page = free[m].page /\ free[m].page # p
  BY <1>1, <1>5 DEF Core, OneTurnPerPage, Running
<1>7. turns[n].st = "run" /\ n <= nturn /\ nturn \in Nat
      /\ \A m \in 1 .. MaxTurns : TurnOK(turns[m]) /\ (m > nturn => turns[m].st = "none")
  BY <1>1, PlaygroundAssumption DEF Core, Shapes, Unborn, Running
<1>8. \A m \in 1 .. MaxTurns : TurnOK(free[m]) /\ (m > nturn => free[m].st = "none")
  BY <1>5, <1>7
<1>9. p = mount => pg[p].follow = 0
  BY <1>1 DEF Core, Stops, P
<1>10. CASE next.go
  <2> DEFINE new == [rec EXCEPT !.streaming = TRUE, !.abort = k, !.messages = msgs]
             r == Painted(p, new, ask.cid)
  <2>1. /\ nturn' = k /\ live' = k /\ turns' = [free EXCEPT ![k] = TurnOf(ask)]
        /\ pg' = [pg EXCEPT ![p] = r]
    BY <1>3, <1>10
  <2> HIDE DEF p, next, free
  <2>2. k \in 1 .. MaxTurns
    BY <1>2, <1>4, <1>10, OneMore DEF Follows
  <2>3. TurnOK(TurnOf(ask)) /\ TurnOf(ask).page = p
    <3> HIDE DEF ask
    <3>1. ask.page \in 1 .. opened /\ ask.tab \in Tabs /\ ask.cid \in Named
      BY <1>2, <1>4
    <3> QED
      BY <1>4, <3>1, TurnOfOK
  <2> HIDE DEF msgs, k, ask, rec
  <2>4. /\ PageOK(new) /\ new.streaming /\ new.abort = k /\ new.queued = rec.queued
        /\ new.answerNow = rec.answerNow /\ new.follow = pg[p].follow
    BY <1>4, <2>2 DEF Follows, PageOK, PageFields
  <2> HIDE DEF new
  <2>5. PageOK(r) /\ r.queued = new.queued /\ r.answerNow = new.answerNow /\ (p = mount => Taken(new, r))
    BY <1>2, <2>4, PaintedIs
  <2> HIDE DEF r
  <2>6. p = mount => r.streaming /\ r.abort = k /\ r.follow = 0
    BY <1>9, <2>4, <2>5 DEF Taken
  <2>7. Bound' /\ nturn' \in 0 .. MaxTurns
    <3>1. \/ /\ nturn' = nturn + 1 /\ Room
             /\ r.queued # <<>> => pg[p].queued # <<>>
             /\ r.answerNow => pg[p].answerNow
          \/ /\ nturn' = nturn + 1 /\ pg[p].queued # <<>> /\ r.queued = <<>>
             /\ r.answerNow => pg[p].answerNow
          \/ /\ nturn' = nturn + 1 /\ pg[p].answerNow /\ ~r.answerNow
             /\ r.queued # <<>> => pg[p].queued # <<>>
      BY <1>4, <1>10, <2>1, <2>4, <2>5 DEF Follows, k
    <3> QED
      BY <1>2, <2>1, <3>1, BoundStep
  <2>8. /\ DOMAIN turns' = 1 .. MaxTurns /\ turns'[nturn + 1] = TurnOf(ask)
        /\ \A m \in 1 .. MaxTurns : m # nturn + 1 => turns'[m] = free[m]
    BY <1>5, <2>1, <2>2 DEF k
  <2>9. \A m \in 1 .. MaxTurns : TurnOK(turns'[m]) /\ (m > nturn + 1 => turns'[m].st = "none")
    BY <1>7, <1>8, <2>3, <2>8
  <2>10. \A m \in 1 .. MaxTurns : m # nturn + 1 /\ turns'[m].st = "run" =>
              turns[m].st = "run" /\ turns[m].page = turns'[m].page /\ turns'[m].page # p
    BY <1>6, <2>8
  <2>11. /\ p = mount => r.streaming /\ r.abort = nturn + 1 /\ r.follow = 0
         /\ turns'[nturn + 1].page = p /\ nturn' = nturn + 1 /\ live' = nturn + 1
    BY <2>1, <2>3, <2>6, <2>8 DEF k
  <2> QED
    BY <1>1, <1>2, <2>1, <2>5, <2>7, <2>8, <2>9, <2>10, <2>11, NewTurn
<1>11. CASE ~next.go
  <2> DEFINE r == Painted(p, rec, IF live = n THEN 0 ELSE LiveConv)
  <2>1. /\ turns' = free /\ nturn' = nturn /\ pg' = [pg EXCEPT ![p] = r]
        /\ live' = IF live = n THEN 0 ELSE live
    BY <1>3, <1>11
  <2>2. live' \in 0 .. MaxTurns /\ nturn' \in 0 .. MaxTurns
    BY <1>2, <2>1, PlaygroundAssumption DEF Shapes
  <2> HIDE DEF p, next, free, rec
  <2>3. PageOK(r) /\ r.queued = rec.queued /\ r.answerNow = rec.answerNow
    BY <1>2, <1>4, PaintedIs DEF Follows
  <2> HIDE DEF r
  <2>4. Bound'
    <3>1. /\ nturn' = nturn /\ (r.queued # <<>> => pg[p].queued # <<>>)
          /\ (r.answerNow => pg[p].answerNow)
      BY <1>4, <1>11, <2>1, <2>3 DEF Follows
    <3> QED
      BY <1>2, <2>1, <3>1, BoundStep
  <2>5. /\ DOMAIN turns' = 1 .. MaxTurns
        /\ \A m \in 1 .. MaxTurns : TurnOK(turns'[m]) /\ (m > nturn' => turns'[m].st = "none")
    BY <1>5, <1>8, <2>1
  <2>6. \A m \in 1 .. MaxTurns : turns'[m].st = "run" =>
             turns[m].st = "run" /\ turns[m].page = turns'[m].page /\ turns'[m].page # p
    BY <1>6, <2>1
  <2> QED
    BY <1>1, <1>2, <2>1, <2>2, <2>3, <2>4, <2>5, <2>6, CoreStep
<1> QED
  BY <1>10, <1>11

-----------------------------------------------------------------------------
(* The page on screen *)

\* A tab of a page is given another snapshot.
LEMMA TabSet ==
    ASSUME NEW rec, Calm(rec), NEW i \in Tabs, NEW s, TabOK(s)
    PROVE  LET r == [rec EXCEPT !.tabs[i] = s]
           IN  Calm(r) /\ r.queued = rec.queued /\ r.answerNow = rec.answerNow
               /\ r.tab = rec.tab
<1> DEFINE tb == [rec.tabs EXCEPT ![i] = s]
           r == [rec EXCEPT !.tabs[i] = s]
           r2 == [rec EXCEPT !.tabs = tb]
<1>1. DOMAIN tb = Tabs /\ \A j \in Tabs : TabOK(tb[j])
  BY DEF Calm, PageOK
<1>2. r = r2
  BY DEF Calm, PageOK, PageFields
<1> HIDE DEF tb
<1>3. Calm(r2) /\ r2.queued = rec.queued /\ r2.answerNow = rec.answerNow /\ r2.tab = rec.tab
  BY <1>1 DEF Calm, PageOK, PageFields
<1> QED
  BY <1>2, <1>3

\* A snapshot is a tab.
LEMMA SnapshotOK ==
    ASSUME NEW o, NEW m, NEW c \in Named, NEW h
    PROVE  TabOK(Snapshot(o, m, c, h))
  BY DEF TabOK, Snapshot

\* The tab that is left
LEMMA FrozenIs ==
    ASSUME NEW rec, Calm(rec)
    PROVE  Calm(Frozen(rec)) /\ Frozen(rec).queued = rec.queued
           /\ Frozen(rec).answerNow = rec.answerNow
<1>1. rec.tab \in Tabs /\ rec.currentId \in Named
  BY DEF Calm, PageOK
<1>2. TabOK(Snapshot(TRUE, rec.messages, rec.currentId, rec.th))
  BY <1>1, SnapshotOK
<1> QED
  BY <1>1, <1>2, TabSet DEF Frozen

\* The tab that comes on screen: its queue is empty.
LEMMA RestoredIs ==
    ASSUME NEW rec, Calm(rec), NEW i \in Tabs
    PROVE  LET r == Restored(rec, i)
           IN  Calm(r) /\ r.queued = <<>> /\ r.answerNow = rec.answerNow
<1> DEFINE m == rec.tabs[i].messages
           c == rec.tabs[i].currentId
           h == rec.tabs[i].th
           r == [rec EXCEPT !.messages = m, !.currentId = c, !.th = h, !.editing = 0, !.queued = <<>>, !.tab = i]
<1>1. c \in Named
  BY DEF Calm, PageOK, TabOK
<1>2. r = Restored(rec, i)
  BY DEF Restored
<1> HIDE DEF m, c, h
<1>3. Calm(r) /\ r.queued = <<>> /\ r.answerNow = rec.answerNow
  BY <1>1 DEF Calm, PageOK, PageFields
<1> HIDE DEF r
<1> QED
  BY <1>2, <1>3

\* The conversation that comes on screen
LEMMA AppliedIs ==
    ASSUME NEW rec, Calm(rec), NEW c \in Named, NEW msgs
    PROVE  LET r == Applied(rec, c, msgs)
           IN  Calm(r) /\ r.queued = <<>> /\ r.answerNow = rec.answerNow
<1> DEFINE m == FromSaved(msgs)
           h == IF msgs = <<>> THEN rec.th ELSE msgs[1].th
           tb == [rec.tabs EXCEPT ![rec.tab].currentId = c]
           r == [rec EXCEPT !.messages = m, !.currentId = c, !.editing = 0, !.queued = <<>>,
                            !.th = h, !.tabs = tb]
<1>1. DOMAIN tb = Tabs /\ \A j \in Tabs : TabOK(tb[j])
  BY DEF Calm, PageOK, TabOK
<1>2. r = Applied(rec, c, msgs)
  BY DEF Applied, Calm, PageOK, PageFields
<1> HIDE DEF m, h, tb
<1>3. Calm(r) /\ r.queued = <<>> /\ r.answerNow = rec.answerNow
  BY <1>1 DEF Calm, PageOK, PageFields
<1> HIDE DEF r
<1> QED
  BY <1>2, <1>3

\* A conversation is put in the list.
LEMMA ListedIs ==
    ASSUME NEW rec, Calm(rec), NEW c, NEW msgs
    PROVE  LET r == Listed(rec, c, msgs)
           IN  Calm(r) /\ r.queued = rec.queued /\ r.answerNow = rec.answerNow
<1> DEFINE e == [in |-> TRUE, msgs |-> msgs, omitted |-> FALSE]
           r == [rec EXCEPT !.list[c] = e]
<1>1. r = Listed(rec, c, msgs)
  BY DEF Listed
<1> HIDE DEF e
<1>2. Calm(r) /\ r.queued = rec.queued /\ r.answerNow = rec.answerNow
  BY DEF Calm, PageOK, PageFields
<1> HIDE DEF r
<1> QED
  BY <1>1, <1>2

\* A step that changes neither pages nor generations
LEMMA SameCore ==
    ASSUME Core, UNCHANGED <<turns, nturn, live, pg, opened, mount>>
    PROVE  Core'
<1>1. Shapes'
  BY DEF Core, Shapes, PageOK, TurnOK, TabOK, Named, ConvId, Old, Tabs, Pages
<1>2. Unborn' /\ OneTurnPerPage' /\ Stops' /\ Bound'
  BY DEF Core, Unborn, OneTurnPerPage, Stops, Running, P, Bound, Reserved, Pages
<1> QED
  BY <1>1, <1>2 DEF Core

\* A step that paints the page on screen, and starts and ends nothing.  Only a
\* page that streams gets a queue.
Painting ==
    /\ OnPage /\ Alike /\ UNCHANGED <<nturn, live, opened, mount>>
    /\ \E new : /\ Calm(new) /\ Promises(new) /\ (Paint(new) \/ Repaint(new))
                /\ new.queued # <<>> => P.queued # <<>> \/ P.streaming

\* Such a step keeps the invariant.
LEMMA PaintingStep ==
    ASSUME Core, Painting
    PROVE  Core'
<1>1. PICK new : Calm(new) /\ Promises(new) /\ (Paint(new) \/ Repaint(new))
  BY DEF Painting
<1> QED
  BY <1>1, PaintStep DEF Painting

\* A step that only paints
LEMMA PaintAlone ==
    ASSUME Core, OnPage, NEW new, Calm(new), Promises(new), Paint(new) \/ Repaint(new),
           new.queued # <<>> => P.queued # <<>> \/ P.streaming,
           UNCHANGED <<turns, nturn, live, opened, mount>>
    PROVE  Painting
<1>1. Alike
  BY AlikeSame DEF Core
<1> QED
  BY <1>1 DEF Painting

\* A handler of a page that writes nothing calls runStream.
Asking ==
    /\ OnPage /\ ~P.streaming /\ UNCHANGED <<opened, mount>>
    /\ \E rec, base, voice :
         /\ Calm(rec) /\ rec.answerNow = P.answerNow
         /\ \/ Room /\ rec.queued = P.queued
            \/ P.queued # <<>> /\ rec.queued = <<>>
         /\ runStream(rec, Ask(rec, base, voice))

\* It keeps the invariant.
LEMMA AskingStep ==
    ASSUME Core, Asking
    PROVE  Core'
<1>1. PICK rec, base, voice :
         /\ Calm(rec) /\ rec.answerNow = P.answerNow
         /\ \/ Room /\ rec.queued = P.queued
            \/ P.queued # <<>> /\ rec.queued = <<>>
         /\ runStream(rec, Ask(rec, base, voice))
  BY DEF Asking
<1>2. OnPage /\ ~P.streaming /\ opened' = opened /\ mount' = mount
  BY DEF Asking
<1> QED
  BY <1>1, <1>2, RunStep

\* The page on screen as it is
LEMMA CalmP ==
    ASSUME Core, OnPage
    PROVE  Calm(P)
  BY OnScreen DEF Core, Calm

\* switchTab, newTab, closeTab
LEMMA TabSteps ==
    ASSUME Core, NEW i \in Tabs, switchTab(i) \/ newTab(i) \/ closeTab(i)
    PROVE  Painting
<1>1. OnPage /\ UNCHANGED <<turns, nturn, live, opened, mount>>
  BY DEF switchTab, newTab, closeTab, OnlyPage
<1>2. Calm(P)
  BY <1>1, CalmP
<1>3. TabOK(EmptyTab) /\ TabOK(NoTab)
  BY DEF TabOK, EmptyTab, NoTab, Snapshot, Named
<1>4. Calm(Frozen(P)) /\ Frozen(P).answerNow = P.answerNow
  BY <1>2, FrozenIs
<1>5. CASE switchTab(i)
  <2> DEFINE new == Restored(Frozen(P), i)
  <2>1. Calm(new) /\ new.queued = <<>> /\ new.answerNow = P.answerNow
    BY <1>4, RestoredIs
  <2>2. Paint(new)
    BY <1>5 DEF switchTab
  <2> HIDE DEF new
  <2> QED
    BY <1>1, <2>1, <2>2, PaintAlone DEF Promises
<1>6. CASE newTab(i)
  <2> DEFINE z == [Frozen(P) EXCEPT !.tabs[i] = EmptyTab]
             new == Restored(z, i)
  <2>1. Calm(z) /\ z.answerNow = P.answerNow
    BY <1>3, <1>4, TabSet
  <2>2. Paint(new)
    BY <1>6 DEF newTab
  <2> HIDE DEF z
  <2>3. Calm(new) /\ new.queued = <<>> /\ new.answerNow = P.answerNow
    BY <2>1, RestoredIs
  <2> HIDE DEF new
  <2> QED
    BY <1>1, <2>2, <2>3, PaintAlone DEF Promises
<1>7. CASE closeTab(i)
  <2> DEFINE left == [P EXCEPT !.tabs[i] = NoTab]
             empty == [left EXCEPT !.tabs[i] = EmptyTab]
  <2>1. Calm(left) /\ left.queued = P.queued /\ left.answerNow = P.answerNow
    BY <1>2, <1>3, TabSet
  <2>2. \/ Paint(left) \/ Paint(Restored(empty, i))
        \/ \E j \in Tabs : Paint(Restored(left, j))
    BY <1>7 DEF closeTab
  <2> HIDE DEF left
  <2>3. Calm(empty) /\ empty.answerNow = P.answerNow
    BY <1>3, <2>1, TabSet
  <2> HIDE DEF empty
  <2>4. PICK new : /\ Paint(new) /\ Calm(new) /\ new.answerNow = P.answerNow
                   /\ new.queued = P.queued \/ new.queued = <<>>
    <3>1. CASE Paint(left)
      BY <2>1, <3>1
    <3>2. CASE Paint(Restored(empty, i))
      BY <2>3, <3>2, RestoredIs
    <3>3. CASE \E j \in Tabs : Paint(Restored(left, j))
      BY <2>1, <3>3, RestoredIs
    <3> QED
      BY <2>2, <3>1, <3>2, <3>3
  <2> QED
    BY <1>1, <2>4, PaintAlone DEF Promises
<1> QED
  BY <1>5, <1>6, <1>7

\* The history: selectConversation, deleteConversation, ?conv=, what the server sends
LEMMA HistorySteps ==
    ASSUME Core, \A q \in reads : q.id \in Named /\ q.page # 0,
           \/ \E c \in ConvId : selectConversation(c) \/ deleteConversation(c) \/ OpenFromUrl(c)
           \/ \E q \in reads : ReadArrives(q)
           \/ ListArrives \/ ModelsArrive
    PROVE  Painting \/ UNCHANGED <<turns, nturn, live, pg, opened, mount>>
<1>1. UNCHANGED <<turns, nturn, live, opened, mount>>
  BY DEF selectConversation, deleteConversation, OpenFromUrl, ReadArrives, ListArrives, ModelsArrive,
         OnlyPage
<1>2. ASSUME NEW c \in ConvId, selectConversation(c)
      PROVE  Painting \/ UNCHANGED <<turns, nturn, live, pg, opened, mount>>
  <2>1. OnPage
    BY <1>2 DEF selectConversation, MayBrowse
  <2>2. CASE pg' = pg
    BY <1>1, <2>2
  <2>3. CASE Repaint(Applied(P, c, P.list[c].msgs))
    <3> DEFINE new == Applied(P, c, P.list[c].msgs)
    <3>1. Calm(new) /\ new.queued = <<>> /\ new.answerNow = P.answerNow
      BY <2>1, CalmP, AppliedIs DEF Named
    <3>2. Repaint(new)
      BY <2>3
    <3> HIDE DEF new
    <3> QED
      BY <1>1, <2>1, <3>1, <3>2, PaintAlone DEF Promises
  <2> QED
    BY <1>2, <2>2, <2>3 DEF selectConversation
<1>3. ASSUME NEW c \in ConvId, deleteConversation(c)
      PROVE  Painting \/ UNCHANGED <<turns, nturn, live, pg, opened, mount>>
  <2>1. OnPage
    BY <1>3 DEF deleteConversation, MayBrowse
  <2> DEFINE d == IF P.currentId = c THEN 0 ELSE P.currentId
             e == NoEntry
             new == [P EXCEPT !.list[c] = e, !.currentId = d]
  <2>2. Paint(new)
    BY <1>3 DEF deleteConversation
  <2>3. Calm(P)
    BY <2>1, CalmP
  <2>4. d \in Named
    BY <2>3 DEF Calm, PageOK, Named
  <2> HIDE DEF d, e
  <2>5. Calm(new) /\ new.queued = P.queued /\ new.answerNow = P.answerNow
    BY <2>3, <2>4 DEF Calm, PageOK, PageFields
  <2> HIDE DEF new
  <2> QED
    BY <1>1, <2>1, <2>2, <2>5, PaintAlone DEF Promises
<1>4. ASSUME NEW c \in ConvId, OpenFromUrl(c)
      PROVE  Painting \/ UNCHANGED <<turns, nturn, live, pg, opened, mount>>
  <2>1. OnPage
    BY <1>4 DEF OpenFromUrl
  <2> DEFINE m == FromSaved(P.list[c].msgs)
             h == IF P.list[c].msgs = <<>> THEN P.th ELSE P.list[c].msgs[1].th
             tb == [P.tabs EXCEPT ![P.tab].currentId = c]
             new == [P EXCEPT !.fromUrl = TRUE, !.messages = m, !.currentId = c, !.th = h, !.tabs = tb]
  <2>2. Calm(P) /\ c \in Named
    BY <2>1, CalmP DEF Named
  <2>3. Paint([P EXCEPT !.fromUrl = TRUE, !.messages = FromSaved(P.list[c].msgs), !.currentId = c,
                       !.th = IF P.list[c].msgs = <<>> THEN @ ELSE P.list[c].msgs[1].th,
                       !.tabs[P.tab].currentId = c])
    BY <1>4 DEF OpenFromUrl
  <2>4. Paint(new)
    BY <2>2, <2>3 DEF Calm, PageOK, PageFields
  <2>5. DOMAIN tb = Tabs /\ \A j \in Tabs : TabOK(tb[j])
    BY <2>2 DEF Calm, PageOK, TabOK
  <2> HIDE DEF m, h, tb
  <2>6. Calm(new) /\ new.queued = P.queued /\ new.answerNow = P.answerNow
    BY <2>2, <2>5 DEF Calm, PageOK, PageFields
  <2> HIDE DEF new
  <2> QED
    BY <1>1, <2>1, <2>4, <2>6, PaintAlone DEF Promises
<1>5. ASSUME NEW q \in reads, ReadArrives(q)
      PROVE  Painting \/ UNCHANGED <<turns, nturn, live, pg, opened, mount>>
  <2>1. CASE pg' = pg
    BY <1>1, <2>1
  <2>2. CASE pg' # pg
    <3> DEFINE msgs == server[q.id]
               a == Applied(Listed(P, q.id, msgs), q.id, msgs)
               m == FromSaved(msgs)
               b == [P EXCEPT !.messages = m]
    <3>1. q.page = mount /\ (Repaint(a) \/ Repaint(b)) /\ q.id \in Named
      BY <1>5, <2>2 DEF ReadArrives
    <3>2. OnPage
      BY <1>5, <3>1 DEF OnPage
    <3>3. Calm(P)
      BY <3>2, CalmP
    <3>4. Calm(a) /\ a.queued = <<>> /\ a.answerNow = P.answerNow
      BY <3>1, <3>3, ListedIs, AppliedIs
    <3> HIDE DEF a, m
    <3>5. Calm(b) /\ b.queued = P.queued /\ b.answerNow = P.answerNow
      BY <3>3 DEF Calm, PageOK, PageFields
    <3> HIDE DEF b
    <3> QED
      BY <1>1, <3>1, <3>2, <3>4, <3>5, PaintAlone DEF Promises
  <2> QED
    BY <2>1, <2>2
<1>6. CASE ListArrives
  <2>1. OnPage
    BY <1>6 DEF ListArrives
  <2>2. PICK l : Paint([P EXCEPT !.loaded = TRUE, !.list = l])
    BY <1>6 DEF ListArrives
  <2> DEFINE new == [P EXCEPT !.loaded = TRUE, !.list = l]
  <2>3. Calm(new) /\ new.queued = P.queued /\ new.answerNow = P.answerNow
    BY <2>1, CalmP DEF Calm, PageOK, PageFields
  <2>4. Paint(new)
    BY <2>2
  <2> HIDE DEF new
  <2> QED
    BY <1>1, <2>1, <2>3, <2>4, PaintAlone DEF Promises
<1>7. CASE ModelsArrive
  <2>1. OnPage
    BY <1>7 DEF ModelsArrive
  <2> DEFINE new == [P EXCEPT !.model = TRUE]
  <2>2. Calm(new) /\ new.queued = P.queued /\ new.answerNow = P.answerNow
    BY <2>1, CalmP DEF Calm, PageOK, PageFields
  <2>3. Paint(new)
    BY <1>7 DEF ModelsArrive
  <2> HIDE DEF new
  <2> QED
    BY <1>1, <2>1, <2>2, <2>3, PaintAlone DEF Promises
<1> QED
  BY <1>2, <1>3, <1>4, <1>5, <1>6, <1>7

\* A generation is stopped, gets a fragment, or its conversation gets a name: it goes on.
LEMMA GoesOn ==
    ASSUME Shapes, NEW n \in Running,
           \/ turns' = [turns EXCEPT ![n].aborted = TRUE]
           \/ turns' = [turns EXCEPT ![n].got = @ + 1]
           \/ turns' = [turns EXCEPT ![n].liveId = ConvOf(n)]
    PROVE  Alike
<1>1. DOMAIN turns = 1 .. MaxTurns /\ n \in 1 .. MaxTurns /\ TurnOK(turns[n]) /\ ConvOf(n) \in Named
  BY RunningIs DEF Shapes
<1> DEFINE a == [turns[n] EXCEPT !.aborted = TRUE]
           b == [turns[n] EXCEPT !.got = @ + 1]
           c == [turns[n] EXCEPT !.liveId = ConvOf(n)]
<1>2. PICK t : /\ turns' = [turns EXCEPT ![n] = t]
               /\ t = a \/ t = b \/ t = c
  BY <1>1
<1>3. /\ TurnOK(a) /\ a.st = turns[n].st /\ a.page = turns[n].page
      /\ TurnOK(b) /\ b.st = turns[n].st /\ b.page = turns[n].page
      /\ TurnOK(c) /\ c.st = turns[n].st /\ c.page = turns[n].page
  BY <1>1 DEF TurnOK, TurnFields
<1> HIDE DEF a, b, c
<1>4. TurnOK(t) /\ t.st = turns[n].st /\ t.page = turns[n].page
  BY <1>2, <1>3
<1>5. DOMAIN turns' = 1 .. MaxTurns /\ turns'[n] = t /\ \A m \in 1 .. MaxTurns : m # n => turns'[m] = turns[m]
  BY <1>1, <1>2
<1> QED
  BY <1>4, <1>5 DEF Alike, Shapes

\* A fragment, a checkpoint, the Stop button
LEMMA StreamSteps ==
    ASSUME Core, stop \/ \E n \in 1 .. MaxTurns : Delta(n) \/ Checkpoint(n)
    PROVE  Core'
<1>1. UNCHANGED <<nturn, live, opened, mount>>
  BY DEF stop, Delta, Checkpoint
<1>2. Shapes /\ live \in 0 .. MaxTurns
  BY DEF Core, Shapes
<1>3. ASSUME NEW n \in Running, pg' = pg,
             \/ turns' = [turns EXCEPT ![n].aborted = TRUE]
             \/ turns' = [turns EXCEPT ![n].liveId = ConvOf(n)]
      PROVE  Core'
  <2>1. Alike
    BY <1>2, <1>3, GoesOn
  <2>2. Shapes'
    BY <1>1, <1>3, <2>1 DEF Core, Shapes, Alike, PageOK, TurnOK, TabOK, Named, ConvId, Old, Tabs, Pages
  <2>3. Unborn' /\ OneTurnPerPage' /\ Stops' /\ Bound'
    BY <1>1, <1>3, <2>1
       DEF Core, Alike, Unborn, OneTurnPerPage, Stops, Running, P, Bound, Reserved, Pages
  <2> QED
    BY <2>2, <2>3 DEF Core
<1>4. CASE stop
  BY <1>3, <1>4 DEF stop
<1>5. ASSUME NEW n \in 1 .. MaxTurns, Checkpoint(n)
      PROVE  Core'
  BY <1>3, <1>5 DEF Checkpoint
<1>6. ASSUME NEW n \in 1 .. MaxTurns, Delta(n)
      PROVE  Core'
  <2> DEFINE p == turns[n].page
             m == Msg("assistant", n, turns[n].th, turns'[n].got, FALSE)
             msgs == ReplaceLast(pg[p].messages, m)
             new == [pg[p] EXCEPT !.messages = msgs]
             r == Painted(p, new, LiveConv)
  <2>1. n \in Running /\ pg' = [pg EXCEPT ![p] = r] /\ turns' = [turns EXCEPT ![n].got = @ + 1]
    BY <1>6 DEF Delta
  <2>2. Alike /\ p \in Pages
    BY <1>2, <2>1, GoesOn, RunningIs
  <2>3. PageOK(pg[p])
    BY <1>2, <2>2 DEF Shapes
  <2> HIDE DEF m, msgs, p
  <2>4. /\ PageOK(new) /\ new.queued = pg[p].queued /\ new.answerNow = pg[p].answerNow
        /\ new.streaming = pg[p].streaming /\ new.abort = pg[p].abort /\ new.follow = pg[p].follow
    BY <2>3 DEF PageOK, PageFields
  <2> HIDE DEF new
  <2>5. PageOK(r) /\ r.queued = new.queued /\ r.answerNow = new.answerNow /\ (p = mount => Taken(new, r))
    BY <1>2, <2>2, <2>4, PaintedIs
  <2> HIDE DEF r
  <2>6. p = mount => Keeps(pg[p], r)
    BY <2>4, <2>5 DEF Taken, Keeps
  <2>7. Bound'
    <3>1. nturn' = nturn /\ (r.queued # <<>> => pg[p].queued # <<>>) /\ (r.answerNow => pg[p].answerNow)
      BY <1>1, <2>4, <2>5
    <3> QED
      BY <1>2, <2>1, <2>2, <3>1, BoundStep DEF Core
  <2> QED
    BY <1>1, <1>2, <2>1, <2>2, <2>5, <2>6, <2>7, PageStep
<1> QED
  BY <1>4, <1>5, <1>6

\* The queue, the quick answer, the message that is edited
LEMMA QueueSteps ==
    ASSUME Core,
           \/ SendQueued \/ answerNow
           \/ \E i \in 1 .. (2 * MaxTurns + 2) : editMessage(i)
           \/ \E i \in 1 .. MaxTyped : discardQueued(i) \/ sendQueuedNow(i)
    PROVE  Painting \/ Asking
<1>1. OnPage /\ UNCHANGED <<opened, mount>>
  BY DEF SendQueued, answerNow, editMessage, discardQueued, sendQueuedNow, OnlyTurn
<1>2. Calm(P) /\ Shapes
  BY <1>1, CalmP DEF Core
<1>3. CASE SendQueued
  <2> DEFINE q == Append(P.queued, typed')
             new == [P EXCEPT !.queued = q]
  <2>1. P.streaming /\ Paint(new) /\ (P.queued # <<>> \/ Room) /\ UNCHANGED <<nturn, turns, live>>
    BY <1>3 DEF SendQueued
  <2> HIDE DEF q
  <2>2. Calm(new) /\ new.queued = q /\ new.answerNow = P.answerNow
    BY <1>2 DEF Calm, PageOK, PageFields
  <2> HIDE DEF new
  <2> QED
    BY <1>1, <2>1, <2>2, PaintAlone DEF Promises
<1>4. CASE answerNow
  <2> DEFINE new == [P EXCEPT !.answerNow = TRUE]
  <2>1. /\ Paint(new) /\ Room /\ P.abort \in Running /\ UNCHANGED <<nturn, live>>
        /\ turns' = [turns EXCEPT ![P.abort].aborted = TRUE]
    BY <1>4 DEF answerNow
  <2>2. Calm(new) /\ new.queued = P.queued
    BY <1>2 DEF Calm, PageOK, PageFields
  <2> HIDE DEF new
  <2>3. Alike
    BY <1>2, <2>1, GoesOn
  <2> QED
    BY <1>1, <2>1, <2>2, <2>3 DEF Promises, Painting
<1>5. ASSUME NEW i, editMessage(i)
      PROVE  Painting \/ Asking
  <2> DEFINE new == [P EXCEPT !.editing = i]
  <2>1. Paint(new) /\ UNCHANGED <<nturn, turns, live>>
    BY <1>5 DEF editMessage
  <2>2. Calm(new) /\ new.queued = P.queued /\ new.answerNow = P.answerNow
    BY <1>2 DEF Calm, PageOK, PageFields
  <2> HIDE DEF new
  <2> QED
    BY <1>1, <2>1, <2>2, PaintAlone DEF Promises
<1>6. ASSUME NEW i, discardQueued(i)
      PROVE  Painting \/ Asking
  <2> DEFINE q == RemoveAt(P.queued, i)
             new == [P EXCEPT !.queued = q]
  <2>1. Paint(new) /\ UNCHANGED <<nturn, turns, live>> /\ i \in DOMAIN P.queued
    BY <1>6 DEF discardQueued
  <2>2. P.queued # <<>>
    BY <2>1
  <2> HIDE DEF q
  <2>3. Calm(new) /\ new.queued = q /\ new.answerNow = P.answerNow
    BY <1>2 DEF Calm, PageOK, PageFields
  <2> HIDE DEF new
  <2> QED
    BY <1>1, <2>1, <2>2, <2>3, PaintAlone DEF Promises
<1>7. ASSUME NEW i, sendQueuedNow(i)
      PROVE  Painting \/ Asking
  <2> DEFINE q == <<P.queued[i]>> \o RemoveAt(P.queued, i)
             msgs == P.messages \o [j \in DOMAIN q |-> Typed(q[j], P.th)]
             new == [P EXCEPT !.queued = q]
             rec == [P EXCEPT !.queued = <<>>]
  <2>1. i \in DOMAIN P.queued
    BY <1>7 DEF sendQueuedNow
  <2>2. P.queued # <<>>
    BY <2>1
  <2>3. \/ /\ Paint(new) /\ UNCHANGED <<nturn, live>>
           /\ turns' = IF P.abort \in Running THEN [turns EXCEPT ![P.abort].aborted = TRUE] ELSE turns
        \/ ~P.streaming /\ runStream(rec, Ask(rec, msgs, FALSE))
    BY <1>7 DEF sendQueuedNow
  <2> HIDE DEF q, msgs
  <2>4. Calm(new) /\ new.queued = q /\ new.answerNow = P.answerNow
    BY <1>2 DEF Calm, PageOK, PageFields
  <2>5. Calm(rec) /\ rec.queued = <<>> /\ rec.answerNow = P.answerNow
    BY <1>2 DEF Calm, PageOK, PageFields
  <2> HIDE DEF new, rec
  <2>6. CASE /\ Paint(new) /\ UNCHANGED <<nturn, live>>
             /\ turns' = IF P.abort \in Running THEN [turns EXCEPT ![P.abort].aborted = TRUE] ELSE turns
    <3>1. Alike
      BY <1>2, <2>6, GoesOn, AlikeSame
    <3> QED
      BY <1>1, <2>2, <2>4, <2>6, <3>1 DEF Promises, Painting
  <2>7. CASE ~P.streaming /\ runStream(rec, Ask(rec, msgs, FALSE))
    BY <1>1, <2>2, <2>5, <2>7 DEF Asking
  <2> QED
    BY <2>3, <2>6, <2>7
<1> QED
  BY <1>3, <1>4, <1>5, <1>6, <1>7

\* The handlers that ask: send, sendVoice, the hidden requests, regenerate
LEMMA AskSteps ==
    ASSUME Core, Send \/ sendVoice \/ AskHidden \/ regenerate
    PROVE  Asking
<1>1. OnPage /\ ~P.streaming /\ Room /\ UNCHANGED <<opened, mount>>
  BY DEF Send, sendVoice, AskHidden, regenerate, CanAsk, OnlyTurn
<1>2. Calm(P)
  BY <1>1, CalmP
<1> DEFINE h == IF P.th = 0 THEN MaxTurns + typed' ELSE P.th
           a == [P EXCEPT !.th = h]
           b == [a EXCEPT !.editing = 0]
<1>3. WithThread(P, typed') = a
  BY DEF WithThread
<1>4. \E rec, base, voice : (rec = P \/ rec = a \/ rec = b) /\ runStream(rec, Ask(rec, base, voice))
  BY <1>3 DEF Send, sendVoice, AskHidden, regenerate
<1> HIDE DEF h
<1>5. Calm(a) /\ a.queued = P.queued /\ a.answerNow = P.answerNow
  BY <1>2 DEF Calm, PageOK, PageFields
<1> HIDE DEF a
<1>6. Calm(b) /\ b.queued = P.queued /\ b.answerNow = P.answerNow
  BY <1>5 DEF Calm, PageOK, PageFields
<1> HIDE DEF b
<1>7. PICK rec, base, voice : (rec = P \/ rec = a \/ rec = b) /\ runStream(rec, Ask(rec, base, voice))
  BY <1>4
<1>8. Calm(rec) /\ rec.queued = P.queued /\ rec.answerNow = P.answerNow
  BY <1>2, <1>5, <1>6, <1>7
<1> QED
  BY <1>1, <1>7, <1>8 DEF Asking

\* The effects and timers of the page on screen
LEMMA TimerSteps ==
    ASSUME Core, Poll \/ EffectsRerun \/ FollowTick
    PROVE  Core'
<1>1. OnPage /\ UNCHANGED <<turns, nturn, live, opened, mount>>
  BY DEF Poll, EffectsRerun, FollowTick, OnlyPage
<1>2. /\ Calm(P) /\ PageOK(P) /\ Shapes /\ Bound /\ mount \in Pages /\ live \in 0 .. MaxTurns /\ Alike
      /\ DOMAIN pg = Pages
  BY <1>1, CalmP, OnScreen, AlikeSame DEF Core, Shapes
<1>3. ASSUME NEW r, PageOK(r), Keeps(P, r), r.queued = P.queued, r.answerNow = P.answerNow,
             pg' = [pg EXCEPT ![mount] = r]
      PROVE  Core'
  <2>1. nturn' = nturn /\ (r.queued # <<>> => pg[mount].queued # <<>>) /\ (r.answerNow => pg[mount].answerNow)
    BY <1>1, <1>3 DEF P
  <2>2. Bound'
    BY <1>2, <1>3, <2>1, BoundStep
  <2>3. live' \in 0 .. MaxTurns /\ Keeps(pg[mount], r)
    BY <1>1, <1>2, <1>3 DEF P
  <2> QED
    BY <1>1, <1>2, <1>3, <2>2, <2>3, PageStep
<1>4. CASE Poll
  <2> DEFINE r == [P EXCEPT !.armed = FALSE]
  <2>1. pg' = [pg EXCEPT ![mount] = r]
    BY <1>2, <1>4 DEF Poll, P
  <2>2. PageOK(r) /\ Keeps(P, r) /\ r.queued = P.queued /\ r.answerNow = P.answerNow
    BY <1>2 DEF PageOK, PageFields, Keeps
  <2> HIDE DEF r
  <2> QED
    BY <1>3, <2>1, <2>2
<1>5. CASE EffectsRerun
  <2> DEFINE r == [P EXCEPT !.follow = 0]
  <2>1. pg' = [pg EXCEPT ![mount] = r]
    BY <1>2, <1>5 DEF EffectsRerun, P
  <2>2. PageOK(r) /\ Keeps(P, r) /\ r.queued = P.queued /\ r.answerNow = P.answerNow
    BY <1>2 DEF PageOK, PageFields, Keeps
  <2> HIDE DEF r
  <2> QED
    BY <1>3, <2>1, <2>2
<1>6. CASE FollowTick
  <2> DEFINE m == Msg("assistant", live, turns[live].th, turns[live].got, FALSE)
             msgs == ReplaceLast(P.messages, m)
             a == [P EXCEPT !.messages = msgs]
             b == [P EXCEPT !.follow = 0, !.abort = 0, !.streaming = FALSE]
  <2>1. (Paint(a) \/ Paint(b)) /\ P.follow # 0
    BY <1>6 DEF FollowTick
  <2> HIDE DEF m, msgs
  <2>2. Calm(a) /\ a.queued = P.queued /\ a.answerNow = P.answerNow
    BY <1>2 DEF Calm, PageOK, PageFields
  <2>3. PageOK(b) /\ b.queued = P.queued /\ b.answerNow = P.answerNow
    BY <1>2, PlaygroundAssumption DEF PageOK, PageFields
  <2> HIDE DEF a, b
  <2>4. CASE Paint(a)
    BY <1>1, <2>2, <2>4, PaintAlone, PaintingStep DEF Promises
  <2>5. CASE Paint(b)
    <3> DEFINE r == Painted(mount, b, LiveConv)
    <3>1. PageOK(r) /\ r.queued = b.queued /\ r.answerNow = b.answerNow
      BY <1>2, <2>3, PaintedIs
    <3>2. pg' = [pg EXCEPT ![mount] = r]
      BY <2>5 DEF Paint
    <3> HIDE DEF r
    <3>3. Keeps(P, r)
      BY <2>1 DEF Keeps
    <3> QED
      BY <1>3, <2>3, <3>1, <3>2, <3>3
  <2> QED
    BY <2>1, <2>4, <2>5
<1> QED
  BY <1>4, <1>5, <1>6

\* The page is left: its stream goes on, and its refs stay.
LEMMA LeaveStep ==
    ASSUME Core, Leave
    PROVE  Core'
<1>1. OnPage /\ opened < MaxMounts /\ mount' = 0 /\ UNCHANGED <<turns, nturn, live, opened>>
  BY DEF Leave
<1>2. Shapes /\ Bound /\ mount \in Pages /\ PageOK(P) /\ DOMAIN pg = Pages
  BY <1>1, OnScreen DEF Core, Shapes
<1> DEFINE r == Left(P.currentId, P.queued, P.resumes, P.answerNow)
<1>3. pg' = [pg EXCEPT ![mount] = r]
  BY DEF Leave, Left
<1>4. PageOK(r) /\ r.queued = P.queued /\ r.answerNow = P.answerNow
  BY <1>2, LeftOK DEF PageOK
<1> HIDE DEF r
<1>5. Bound'
  <2>1. nturn' = nturn /\ (r.queued # <<>> => pg[mount].queued # <<>>) /\ (r.answerNow => pg[mount].answerNow)
    BY <1>1, <1>4 DEF P
  <2> QED
    BY <1>2, <1>3, <2>1, BoundStep
<1>6. DOMAIN pg' = Pages /\ \A q \in Pages : PageOK(pg'[q])
  BY <1>2, <1>3, <1>4 DEF Shapes
<1>7. Shapes'
  <2>1. (\A q \in Pages : PageOK(pg[q]))'
    BY <1>6 DEF PageOK, TabOK, Named, ConvId, Old, Tabs, Pages
  <2> QED
    BY <1>1, <1>2, <1>6, <2>1, PlaygroundAssumption DEF Shapes, TurnOK, Named, ConvId, Old, Tabs, Pages
<1>8. \A n \in Running : turns[n].page # 0
  BY <1>2, RunningIs
<1>9. Unborn' /\ OneTurnPerPage' /\ Stops'
  BY <1>1, <1>8 DEF Core, Unborn, OneTurnPerPage, Stops, Running
<1> QED
  BY <1>5, <1>7, <1>9 DEF Core

\* The page is opened again: no generation is the new page's.
LEMMA ReturnStep ==
    ASSUME Core, Return
    PROVE  Core'
<1> DEFINE o == opened + 1
<1>1. mount = 0 /\ opened' = o /\ mount' = o /\ UNCHANGED <<turns, nturn, live>>
      /\ pg' = [pg EXCEPT ![o] = FreshPage]
  BY DEF Return, OnPage
<1>2. Shapes /\ Bound /\ DOMAIN pg = Pages /\ opened \in Nat /\ o \in Pages
  BY <1>1, PlaygroundAssumption DEF Core, Shapes, Pages
<1>3. PageOK(FreshPage) /\ FreshPage.queued = <<>> /\ FreshPage.answerNow = FALSE
  BY FreshPageOK
<1>4. Bound'
  <2>1. /\ nturn' = nturn /\ (FreshPage.queued # <<>> => pg[o].queued # <<>>)
        /\ (FreshPage.answerNow => pg[o].answerNow)
    BY <1>1, <1>3
  <2> QED
    BY <1>1, <1>2, <2>1, BoundStep
<1>5. DOMAIN pg' = Pages /\ \A q \in Pages : PageOK(pg'[q])
  BY <1>1, <1>2, <1>3 DEF Shapes
<1>6. \A n \in Running : turns[n].page # o
  BY <1>2, RunningIs
<1>7. \A n \in 1 .. MaxTurns : TurnOK(turns[n])'
  <2> SUFFICES ASSUME NEW n \in 1 .. MaxTurns
               PROVE  TurnOK(turns[n])'
    OBVIOUS
  <2>1. TurnOK(turns[n])
    BY <1>2 DEF Shapes
  <2> QED
    BY <1>1, <1>2, <2>1 DEF TurnOK, Named, ConvId, Old, Tabs
<1>8. Shapes'
  <2>1. (\A q \in Pages : PageOK(pg[q]))'
    BY <1>5 DEF PageOK, TabOK, Named, ConvId, Old, Tabs, Pages
  <2>2. (opened \in Pages /\ mount \in 0 .. opened /\ mount # 0)'
    BY <1>1, <1>2, PlaygroundAssumption DEF Pages
  <2> QED
    BY <1>1, <1>2, <1>5, <1>7, <2>1, <2>2 DEF Shapes, Pages
<1>9. Unborn' /\ OneTurnPerPage' /\ Stops'
  BY <1>1, <1>6 DEF Core, Unborn, OneTurnPerPage, Stops, Running
<1> QED
  BY <1>4, <1>8, <1>9 DEF Core

-----------------------------------------------------------------------------
(* Requests and counters *)

\* A request leaves.
LEMMA AppendIs ==
    ASSUME NEW s, IsSeq(s), NEW x
    PROVE  IsSeq(Append(s, x)) /\ Len(Append(s, x)) = Len(s) + 1
<1>1. PICK S : s \in Seq(S)
  BY DEF IsSeq
<1> DEFINE T == S \cup {x}
<1>2. s \in Seq(T) /\ x \in T
  BY <1>1
<1> HIDE DEF T
<1>3. Append(s, x) \in Seq(T) /\ Len(Append(s, x)) = Len(s) + 1
  BY <1>2
<1> QED
  BY <1>3 DEF IsSeq

\* A request is served, or lost.
LEMMA RemoveIs ==
    ASSUME NEW s, IsSeq(s), NEW i \in DOMAIN s
    PROVE  IsSeq(RemoveAt(s, i)) /\ Len(RemoveAt(s, i)) <= Len(s)
<1>1. PICK S : s \in Seq(S)
  BY DEF IsSeq
<1>2. i \in 1 .. Len(s) /\ Len(s) \in Nat
  BY <1>1
<1> DEFINE a == SubSeq(s, 1, i - 1)
           b == SubSeq(s, i + 1, Len(s))
<1>3. a \in Seq(S) /\ Len(a) = i - 1
  BY <1>1, <1>2
<1>4. b \in Seq(S) /\ Len(b) = Len(s) - i
  BY <1>1, <1>2
<1>5. RemoveAt(s, i) = a \o b
  BY DEF RemoveAt
<1> HIDE DEF a, b
<1>6. a \o b \in Seq(S) /\ Len(a \o b) = Len(a) + Len(b)
  BY <1>3, <1>4
<1> QED
  BY <1>2, <1>3, <1>4, <1>5, <1>6 DEF IsSeq

\* The requests under way and the counters
LEMMA DataStep ==
    ASSUME DataOK, Shapes, PlaygroundNext
    PROVE  DataOK'
<1>1. IsSeq(net) /\ Len(net) <= MaxNet /\ Len(net) \in Nat /\ MaxNet \in Nat /\ MaxTyped \in Nat
      /\ typed \in 0 .. MaxTyped
  BY PlaygroundAssumption DEF DataOK, IsSeq
<1>2. \/ net' = net
      \/ \E x : net' = Append(net, x) /\ (CanSave \/ CanRequest)
      \/ \E i \in DOMAIN net : net' = RemoveAt(net, i)
  BY DEF PlaygroundNext, PlaygroundWorks, PlaygroundUser, Delta, Checkpoint, End, RequestServed,
         RequestLost, ReadArrives, TitleArrives, ListArrives, ModelsArrive, Poll, EffectsRerun,
         FollowTick, Send, SendQueued, sendVoice, AskHidden, regenerate, stop, answerNow,
         editMessage, sendQueuedNow, discardQueued, switchTab, newTab, closeTab, selectConversation,
         deleteConversation, commitRename, OpenFromUrl, genTitle, Leave, Return, OnlyTurn, OnlyPage,
         Servable
<1>3. IsSeq(net') /\ Len(net') <= MaxNet
  <2>1. CASE net' = net
    BY <1>1, <2>1
  <2>2. CASE \E x : net' = Append(net, x) /\ (CanSave \/ CanRequest)
    BY <1>1, <2>2, AppendIs DEF CanSave, CanRequest
  <2>3. CASE \E i \in DOMAIN net : net' = RemoveAt(net, i)
    BY <1>1, <2>3, RemoveIs, SMTT(30)
  <2> QED
    BY <1>2, <2>1, <2>2, <2>3
<1>4. mode' = mode /\ (typed' = typed \/ (typed < MaxTyped /\ typed' = typed + 1))
  BY DEF PlaygroundNext, PlaygroundWorks, PlaygroundUser, Delta, Checkpoint, End, RequestServed,
         RequestLost, ReadArrives, TitleArrives, ListArrives, ModelsArrive, Poll, EffectsRerun,
         FollowTick, Send, SendQueued, sendVoice, AskHidden, regenerate, stop, answerNow,
         editMessage, sendQueuedNow, discardQueued, switchTab, newTab, closeTab, selectConversation,
         deleteConversation, commitRename, OpenFromUrl, genTitle, Leave, Return, OnlyTurn, OnlyPage
<1>5. /\ gone' = gone \/ \E c \in ConvId : gone' = gone \cup {c}
      /\ server' = server \/ \E c, m : server' = [server EXCEPT ![c] = m]
  BY DEF PlaygroundNext, PlaygroundWorks, PlaygroundUser, Delta, Checkpoint, End, RequestServed,
         RequestLost, ReadArrives, TitleArrives, ListArrives, ModelsArrive, Poll, EffectsRerun,
         FollowTick, Send, SendQueued, sendVoice, AskHidden, regenerate, stop, answerNow,
         editMessage, sendQueuedNow, discardQueued, switchTab, newTab, closeTab, selectConversation,
         deleteConversation, commitRename, OpenFromUrl, genTitle, Leave, Return, OnlyTurn, OnlyPage
<1>6. \/ reads' \subseteq reads
      \/ \E c, w : OnPage /\ (c \in ConvId \/ c = P.currentId)
                   /\ reads' = reads \cup {[page |-> mount, id |-> c, why |-> w]}
  BY DEF PlaygroundNext, PlaygroundWorks, PlaygroundUser, Delta, Checkpoint, End, RequestServed,
         RequestLost, ReadArrives, TitleArrives, ListArrives, ModelsArrive, Poll, EffectsRerun,
         FollowTick, Send, SendQueued, sendVoice, AskHidden, regenerate, stop, answerNow,
         editMessage, sendQueuedNow, discardQueued, switchTab, newTab, closeTab, selectConversation,
         deleteConversation, commitRename, OpenFromUrl, genTitle, Leave, Return, OnlyTurn, OnlyPage,
         MayBrowse
<1>7. \A r \in reads' : r.id \in Named /\ r.page # 0
  <2>1. CASE reads' \subseteq reads
    BY <2>1 DEF DataOK
  <2>2. CASE \E c, w : OnPage /\ (c \in ConvId \/ c = P.currentId)
                       /\ reads' = reads \cup {[page |-> mount, id |-> c, why |-> w]}
    <3>1. OnPage
      BY <2>2
    <3>2. P.currentId \in Named /\ mount # 0
      BY <3>1, OnScreen DEF PageOK, OnPage
    <3>3. \A c, w : [page |-> mount, id |-> c, why |-> w].id = c
                    /\ [page |-> mount, id |-> c, why |-> w].page = mount
      OBVIOUS
    <3> QED
      BY <2>2, <3>2, <3>3 DEF DataOK, Named
  <2> QED
    BY <1>6, <2>1, <2>2
<1>8. DOMAIN server' = ConvId /\ gone' \subseteq ConvId
  BY <1>5 DEF DataOK
<1>9. mode' \in Modes /\ typed' \in 0 .. MaxTyped
  BY <1>1, <1>4 DEF DataOK
<1> QED
  BY <1>3, <1>7, <1>8, <1>9 DEF DataOK, IsSeq, Named, ConvId, Old

-----------------------------------------------------------------------------
(* The theorems *)

\* The playground begins with one empty page and no generation.
LEMMA PlaygroundInitInv == PlaygroundInit => PlaygroundInv
<1> SUFFICES ASSUME PlaygroundInit
             PROVE  PlaygroundInv
  OBVIOUS
<1> USE DEF PlaygroundInit
<1>1. DataOK
  <2>1. IsSeq(net) /\ Len(net) = 0
    <3>1. <<>> \in Seq({}) /\ Len(<<>>) = 0
      OBVIOUS
    <3> QED
      BY <3>1 DEF IsSeq
  <2> QED
    BY <2>1, PlaygroundAssumption DEF DataOK
<1>2. /\ DOMAIN pg = Pages
      /\ \A p \in Pages : PageOK(pg[p]) /\ pg[p].queued = <<>> /\ pg[p].answerNow = FALSE
  BY FreshPageOK
<1>3. /\ DOMAIN turns = 1 .. MaxTurns
      /\ \A n \in 1 .. MaxTurns : TurnOK(turns[n]) /\ turns[n].st = "none"
  BY DEF TurnOK, NoTurn, TurnFields, Named
<1>4. Shapes
  BY <1>2, <1>3, PlaygroundAssumption DEF Shapes, Pages
<1>5. Unborn /\ OneTurnPerPage /\ Stops
  BY <1>3 DEF Unborn, OneTurnPerPage, Stops, Running
<1>6. Bound
  <2>1. {p \in Pages : pg[p].queued # <<>>} = {} /\ {p \in Pages : pg[p].answerNow} = {}
    BY <1>2
  <2>2. Cardinality({}) = 0
    BY FS_EmptySet
  <2>3. Reserved = 0 + 0
    BY ONLY <2>1, <2>2 DEF Reserved
  <2> QED
    BY <2>3, PlaygroundAssumption DEF Bound
<1> QED
  BY <1>1, <1>4, <1>5, <1>6 DEF PlaygroundInv, Core

\* Every step of the page, of its user, of the stream and of the network keeps it.
LEMMA PlaygroundStep == PlaygroundInv /\ [PlaygroundNext]_pgVars => PlaygroundInv'
<1> SUFFICES ASSUME PlaygroundInv, [PlaygroundNext]_pgVars
             PROVE  PlaygroundInv'
  OBVIOUS
<1>1. DataOK /\ Core /\ Shapes /\ \A q \in reads : q.id \in Named /\ q.page # 0
  BY DEF PlaygroundInv, Core, DataOK
<1>2. CASE PlaygroundNext
  <2>1. DataOK'
    BY <1>1, <1>2, DataStep
  <2> SUFFICES Core'
    BY <2>1 DEF PlaygroundInv
  <2>2. CASE PlaygroundWorks
    <3>1. ASSUME NEW n \in 1 .. MaxTurns, Delta(n) \/ Checkpoint(n) \/ End(n)
          PROVE  Core'
      BY <1>1, <3>1, StreamSteps, EndStep
    <3>2. ASSUME NEW i, RequestServed(i) \/ RequestLost(i)
          PROVE  Core'
      BY <1>1, <3>2, SameCore DEF RequestServed, RequestLost
    <3>3. ASSUME NEW q, TitleArrives(q)
          PROVE  Core'
      BY <1>1, <3>3, SameCore DEF TitleArrives
    <3>4. CASE (\E q \in reads : ReadArrives(q)) \/ ListArrives \/ ModelsArrive
      BY <1>1, <3>4, HistorySteps, PaintingStep, SameCore
    <3>5. CASE Poll \/ EffectsRerun \/ FollowTick
      BY <1>1, <3>5, TimerSteps
    <3> QED
      BY <2>2, <3>1, <3>2, <3>3, <3>4, <3>5 DEF PlaygroundWorks
  <2>3. CASE PlaygroundUser
    <3>1. CASE Send \/ sendVoice \/ AskHidden \/ regenerate
      BY <1>1, <3>1, AskSteps, AskingStep
    <3>2. CASE \/ SendQueued \/ answerNow
               \/ \E i \in 1 .. (2 * MaxTurns + 2) : editMessage(i)
               \/ \E i \in 1 .. MaxTyped : discardQueued(i) \/ sendQueuedNow(i)
      BY <1>1, <3>2, QueueSteps, PaintingStep, AskingStep
    <3>3. CASE stop
      BY <1>1, <3>3, StreamSteps
    <3>4. ASSUME NEW i \in Tabs, switchTab(i) \/ newTab(i) \/ closeTab(i)
          PROVE  Core'
      BY <1>1, <3>4, TabSteps, PaintingStep
    <3>5. CASE \E c \in ConvId : selectConversation(c) \/ deleteConversation(c) \/ OpenFromUrl(c)
      BY <1>1, <3>5, HistorySteps, PaintingStep, SameCore
    <3>6. CASE (\E c \in ConvId : commitRename(c)) \/ genTitle
      BY <1>1, <3>6, SameCore DEF commitRename, genTitle
    <3>7. CASE Leave \/ Return
      BY <1>1, <3>7, LeaveStep, ReturnStep
    <3> QED
      BY <2>3, <3>1, <3>2, <3>3, <3>4, <3>5, <3>6, <3>7 DEF PlaygroundUser
  <2> QED
    BY <1>2, <2>2, <2>3 DEF PlaygroundNext
<1>3. CASE UNCHANGED pgVars
  <2>1. Core'
    BY <1>1, <1>3, SameCore DEF pgVars
  <2>2. DataOK'
    BY <1>1, <1>3 DEF DataOK, pgVars, IsSeq, Named, ConvId, Old
  <2> QED
    BY <2>1, <2>2 DEF PlaygroundInv
<1> QED
  BY <1>2, <1>3

\* The invariant is one of the page.
LEMMA PlaygroundInvariance == PlaygroundSpec => []PlaygroundInv
<1> QED
  BY PlaygroundInitInv, PlaygroundStep, PTL DEF PlaygroundSpec

\* The state of the playground keeps its shape, whatever the bounds.
THEOREM PlaygroundTypes == PlaygroundSpec => []PlaygroundTypeOK
<1>1. PlaygroundInv => PlaygroundTypeOK
  BY DEF PlaygroundInv, DataOK, Core, Shapes, PageOK, Named, PlaygroundTypeOK
<1> QED
  BY <1>1, PlaygroundInvariance, PTL

\* A page writes one answer at a time: the guard on `streaming` in send, sendVoice,
\* regenerate and the queue holds against resumes, adoption, tabs and the history,
\* for any number of pages, generations, tabs and conversations.
THEOREM PlaygroundOneTurn == PlaygroundSpec => []OneTurnPerPage
<1>1. PlaygroundInv => OneTurnPerPage
  BY DEF PlaygroundInv, Core
<1> QED
  BY <1>1, PlaygroundInvariance, PTL

\* The Stop button of the page on screen aborts the turn that the page is writing:
\* abortRef is the controller of that turn in every state.
THEOREM PlaygroundStop == PlaygroundSpec => []StopReaches
<1>1. PlaygroundInv => StopReaches
  BY DEF PlaygroundInv, Core, Stops, StopReaches, Mounted
<1> QED
  BY <1>1, PlaygroundInvariance, PTL

-----------------------------------------------------------------------------
(***************************************************************************)
(* A page that is never left.  Then the page on screen adopts no turn, for *)
(* the live turn is its own and it streams: an adopted turn is the one way *)
(* to a queue that no turn of its page will send.                          *)
(***************************************************************************)

Stays == \A m \in Modes : "leaves" \notin m

Alone ==
    /\ mount = 1 /\ opened = 1 /\ P.follow = 0
    /\ live # 0 => live \in Running
    /\ P.streaming => P.abort \in Running
    /\ P.queued # <<>> => P.streaming
    /\ \A p \in Pages : p # 1 => pg[p].queued = <<>>

\* What the effects leave alone when they adopt nothing
Quietly(new, r) ==
    /\ r.streaming = new.streaming /\ r.abort = new.abort /\ r.queued = new.queued
    /\ r.follow \in {new.follow, 0}

\* The effects of a page that streams, or of any page when there is no live turn
LEMMA QuietEffects ==
    ASSUME NEW old, NEW new, PageOK(new), NEW conv, new.streaming \/ conv = 0,
           live \in 0 .. MaxTurns
    PROVE  /\ Quietly(new, Adopted(old, new, conv))
           /\ Quietly(new, Polling(Adopted(old, new, conv), conv))
<1> DEFINE z == [new EXCEPT !.follow = 0]
           a == Adopted(old, new, conv)
           b == Polling(a, conv)
<1>1. PageOK(z) /\ Quietly(new, z) /\ Quietly(new, new) /\ z.streaming = new.streaming
  BY DEF PageOK, PageFields, Quietly
<1> HIDE DEF z
<1>2. Adopting(z, conv) = z
  BY <1>1 DEF Adopting
<1>3. a = new \/ a = z
  BY <1>2 DEF Adopted, z
<1>4. PageOK(a) /\ Quietly(new, a)
  BY <1>1, <1>3
<1> HIDE DEF a
<1>5. Quietly(a, b)
  <2> DEFINE x == [a EXCEPT !.polls = MaxPolls, !.armed = FALSE]
             y == [a EXCEPT !.armed = FALSE]
             w == [a EXCEPT !.polls = @ - 1, !.armed = TRUE]
  <2>1. b = x \/ b = y \/ b = w
    BY DEF Polling
  <2>2. Quietly(a, x) /\ Quietly(a, y) /\ Quietly(a, w)
    BY <1>4 DEF PageOK, PageFields, Quietly
  <2> HIDE DEF x, y, w, b
  <2> QED
    BY <2>1, <2>2
<1> HIDE DEF b
<1>6. Quietly(new, b)
  BY <1>4, <1>5 DEF Quietly
<1> QED
  BY <1>4, <1>6 DEF a, b

\* The page on screen, painted
LEMMA QuietPaint ==
    ASSUME Shapes, NEW new, PageOK(new), NEW conv, new.streaming \/ conv = 0
    PROVE  /\ Quietly(new, Painted(mount, new, conv))
           /\ Quietly(new, Polling(Adopted(P, new, conv), conv))
<1>1. live \in 0 .. MaxTurns
  BY DEF Shapes
<1>2. /\ Quietly(new, Adopted(P, new, conv))
      /\ Quietly(new, Polling(Adopted(P, new, conv), conv))
  BY <1>1, QuietEffects
<1>3. \/ Painted(mount, new, conv) = Adopted(P, new, conv)
      \/ Painted(mount, new, conv) = Polling(Adopted(P, new, conv), conv)
  BY DEF Painted, Mounted, Rendered, P
<1> QED
  BY <1>2, <1>3

\* Every running turn is the page's own.
LEMMA AloneRuns ==
    ASSUME Core, Alone
    PROVE  /\ OnPage /\ mount \in Pages /\ PageOK(P) /\ Shapes
           /\ \A n \in Running : turns[n].page = mount /\ P.streaming /\ P.abort = n
           /\ P.streaming \/ (live = 0 /\ LiveConv = 0)
<1>1. OnPage /\ mount \in Pages /\ PageOK(P) /\ Shapes
  BY OnScreen DEF Core, Alone, OnPage
<1>2. \A n \in Running : turns[n].page \in 1 .. opened
  BY <1>1, RunningIs
<1>3. \A n \in Running : turns[n].page = mount /\ P.streaming /\ P.abort = n
  BY <1>2 DEF Alone, Core, Stops
<1>4. P.streaming \/ (live = 0 /\ LiveConv = 0)
  BY <1>3 DEF Alone, LiveConv
<1> QED
  BY <1>1, <1>3, <1>4

\* What a step has to do to keep the page alone
LEMMA AloneStep ==
    ASSUME Core, Alone, NEW r, pg' = [pg EXCEPT ![mount] = r], opened' = opened, mount' = mount,
           r.follow = 0, live' # 0 => live' \in Running', r.streaming => r.abort \in Running',
           r.queued # <<>> => r.streaming
    PROVE  Alone'
<1>1. mount \in Pages /\ DOMAIN pg = Pages /\ mount = 1
  BY AloneRuns DEF Core, Shapes, Alone
<1>2. P' = r /\ \A p \in Pages : p # 1 => pg'[p] = pg[p]
  BY <1>1 DEF P
<1> QED
  BY <1>2 DEF Alone, Pages

\* Nothing starts and nothing ends.
LEMMA AlonePaints ==
    ASSUME Core, Alone, Painting
    PROVE  Alone'
<1>1. PICK new : /\ Calm(new) /\ (Paint(new) \/ Repaint(new))
                 /\ new.queued # <<>> => P.queued # <<>> \/ P.streaming
  BY DEF Painting
<1>2. new.streaming \/ LiveConv = 0
  BY <1>1, AloneRuns DEF Calm
<1>3. PageOK(new) /\ Shapes
  BY <1>1 DEF Calm, Core
<1>4. PICK r : Quietly(new, r) /\ pg' = [pg EXCEPT ![mount] = r]
  BY <1>1, <1>2, <1>3, QuietPaint DEF Paint, Repaint
<1>5. Running' = Running
  BY DEF Painting, Alike, Running
<1>6. /\ r.follow = 0 /\ (r.streaming => r.abort \in Running) /\ (r.queued # <<>> => r.streaming)
  BY <1>1, <1>4 DEF Quietly, Calm, Alone
<1>7. live' # 0 => live' \in Running'
  BY <1>5 DEF Painting, Alone
<1> QED
  BY <1>4, <1>5, <1>6, <1>7, AloneStep DEF Painting

\* runStream, called by a handler
LEMMA AloneAsks ==
    ASSUME Core, Alone, Asking, Shapes'
    PROVE  Alone'
<1>1. PICK rec, base, voice :
         /\ Calm(rec)
         /\ rec.queued = P.queued \/ rec.queued = <<>>
         /\ runStream(rec, Ask(rec, base, voice))
  BY DEF Asking
<1> DEFINE ask == Ask(rec, base, voice)
<1>2. /\ ~P.streaming /\ P.queued = <<>> /\ P.follow = 0 /\ live = 0 /\ LiveConv = 0
      /\ opened' = opened /\ mount' = mount
  BY AloneRuns DEF Asking, Alone
<1>3. PageOK(rec) /\ rec.queued = <<>> /\ Shapes /\ ~rec.streaming /\ rec.follow = 0
  BY <1>1, <1>2 DEF Calm, Core, Alone
<1>4. CASE ~rec.model /\ Paint([rec EXCEPT !.messages = Append(ask.base, Note(ask.th))])
           /\ UNCHANGED <<nturn, turns, live>>
  <2> DEFINE msgs == Append(ask.base, Note(ask.th))
             new == [rec EXCEPT !.messages = msgs]
             r == Painted(mount, new, LiveConv)
  <2>1. pg' = [pg EXCEPT ![mount] = r]
    BY <1>4 DEF Paint
  <2> HIDE DEF msgs
  <2>2. PageOK(new) /\ new.queued = <<>> /\ ~new.streaming /\ new.follow = 0
    BY <1>3 DEF PageOK, PageFields
  <2> HIDE DEF new
  <2>3. Quietly(new, r)
    BY <1>2, <1>3, <2>2, QuietPaint
  <2> HIDE DEF r
  <2>4. ~r.streaming /\ r.queued = <<>> /\ r.follow = 0
    BY <2>2, <2>3 DEF Quietly
  <2>5. live' = 0
    BY <1>2, <1>4
  <2> QED
    BY <1>2, <2>1, <2>4, <2>5, AloneStep
<1>5. CASE StartTurn(rec, ask)
  <2> DEFINE n == nturn + 1
             msgs == Append(ask.base, Msg("assistant", n, ask.th, 0, FALSE))
             new == [rec EXCEPT !.streaming = TRUE, !.abort = n, !.messages = msgs]
             r == Painted(mount, new, ask.cid)
  <2>1. /\ turns' = [turns EXCEPT ![n] = TurnOf(ask)] /\ live' = n /\ nturn' = n
        /\ pg' = [pg EXCEPT ![mount] = r]
    BY <1>5 DEF StartTurn, Ask
  <2>2. n \in 1 .. MaxTurns
    BY <1>3, <2>1, PlaygroundAssumption DEF Shapes
  <2>3. TurnOf(ask).st = "run"
    BY DEF TurnOf, NoTurn
  <2>4. n \in Running'
    BY <1>3, <2>1, <2>2, <2>3 DEF Shapes, Running
  <2> HIDE DEF msgs, n, ask
  <2>5. PageOK(new) /\ new.streaming /\ new.abort = n /\ new.follow = 0
    BY <1>3, <2>2 DEF PageOK, PageFields
  <2> HIDE DEF new
  <2>6. Quietly(new, r)
    BY <1>3, <2>5, QuietPaint
  <2> HIDE DEF r
  <2>7. r.streaming /\ r.abort = n /\ r.follow = 0
    BY <2>5, <2>6 DEF Quietly
  <2> QED
    BY <1>2, <2>1, <2>4, <2>7, AloneStep
<1> QED
  BY <1>1, <1>4, <1>5 DEF runStream

\* The end of a turn, which is the live one if there is a live one
LEMMA AloneEnds ==
    ASSUME Core, Alone, Shapes', NEW n \in 1 .. MaxTurns, End(n)
    PROVE  Alone'
<1>1. n \in Running /\ opened' = opened /\ mount' = mount
  BY DEF End
<1> DEFINE k == nturn + 1
           free == [turns EXCEPT ![n] = Over]
<1>2. Shapes /\ turns[n].page = mount /\ PageOK(P) /\ P.follow = 0 /\ (live = 0 \/ live = n)
  <2>1. \A m \in Running : turns[m].page = mount
    BY AloneRuns
  <2>2. live # 0 => live = n
    BY <1>1, <2>1 DEF Alone, Core, OneTurnPerPage
  <2> QED
    BY <1>1, <2>1, <2>2, AloneRuns DEF Alone
<1>3. PICK how :
        /\ how # "done" /\ MayResume(n) => Room
        /\ LET next == Follow(n, how) IN
           IF next.go
           THEN /\ nturn' = k /\ live' = k
                /\ turns' = [free EXCEPT ![k] = TurnOf(next.ask)]
                /\ pg' = [pg EXCEPT ![mount] = Painted(mount,
                     [next.rec EXCEPT !.streaming = TRUE, !.abort = k,
                        !.messages = Append(next.ask.base, Msg("assistant", k, next.ask.th, 0, FALSE))],
                     next.ask.cid)]
           ELSE /\ turns' = free /\ nturn' = nturn
                /\ live' = IF live = n THEN 0 ELSE live
                /\ pg' = [pg EXCEPT ![mount] = Painted(mount, next.rec, IF live = n THEN 0 ELSE LiveConv)]
  BY <1>2 DEF End
<1> DEFINE next == Follow(n, how)
           rec == next.rec
           ask == next.ask
           msgs == Append(ask.base, Msg("assistant", k, ask.th, 0, FALSE))
<1>4. Follows(P, next.go, rec)
  BY <1>1, <1>2, <1>3, FollowIs DEF P
<1>5. CASE next.go
  <2> DEFINE new == [rec EXCEPT !.streaming = TRUE, !.abort = k, !.messages = msgs]
             r == Painted(mount, new, ask.cid)
  <2>1. /\ nturn' = k /\ live' = k /\ turns' = [free EXCEPT ![k] = TurnOf(ask)]
        /\ pg' = [pg EXCEPT ![mount] = r]
    BY <1>3, <1>5
  <2>2. k \in 1 .. MaxTurns
    BY <1>2, <2>1, PlaygroundAssumption DEF Shapes
  <2>3. TurnOf(ask).st = "run"
    BY DEF TurnOf, NoTurn
  <2>4. k \in Running'
    BY <1>2, <2>1, <2>2, <2>3 DEF Shapes, Running
  <2> HIDE DEF msgs, k, ask, rec, next
  <2>5. PageOK(new) /\ new.streaming /\ new.abort = k /\ new.follow = 0
    BY <1>2, <1>4, <2>2 DEF Follows, PageOK, PageFields
  <2> HIDE DEF new
  <2>6. Quietly(new, r)
    BY <1>2, <2>5, QuietPaint
  <2> HIDE DEF r
  <2>7. r.streaming /\ r.abort = k /\ r.follow = 0
    BY <2>5, <2>6 DEF Quietly
  <2> QED
    BY <1>1, <2>1, <2>4, <2>7, AloneStep
<1>6. CASE ~next.go
  <2> DEFINE r == Painted(mount, rec, 0)
  <2>1. live' = 0 /\ pg' = [pg EXCEPT ![mount] = r]
    BY <1>2, <1>3, <1>6 DEF LiveConv
  <2> HIDE DEF rec, next
  <2>2. Quietly(rec, r)
    BY <1>2, <1>4, QuietPaint DEF Follows
  <2> HIDE DEF r
  <2>3. ~r.streaming /\ r.queued = <<>> /\ r.follow = 0
    BY <1>2, <1>4, <1>6, <2>2 DEF Quietly, Follows
  <2> QED
    BY <1>1, <2>1, <2>3, AloneStep
<1> QED
  BY <1>5, <1>6

\* A fragment, a checkpoint, the Stop button
LEMMA AloneStreams ==
    ASSUME Core, Alone, stop \/ \E n \in 1 .. MaxTurns : Delta(n) \/ Checkpoint(n)
    PROVE  Alone'
<1>1. UNCHANGED <<nturn, live, opened, mount>> /\ Shapes /\ mount \in Pages /\ PageOK(P)
  BY AloneRuns DEF stop, Delta, Checkpoint
<1>2. ASSUME NEW n \in Running, pg' = pg,
             \/ turns' = [turns EXCEPT ![n].aborted = TRUE]
             \/ turns' = [turns EXCEPT ![n].liveId = ConvOf(n)]
      PROVE  Alone'
  <2>1. Alike
    BY <1>1, <1>2, GoesOn
  <2>2. Running' = Running
    BY <2>1 DEF Alike, Running
  <2> QED
    BY <1>1, <1>2, <2>2 DEF Alone, P, Pages
<1>3. CASE stop
  BY <1>2, <1>3 DEF stop
<1>4. ASSUME NEW n \in 1 .. MaxTurns, Checkpoint(n)
      PROVE  Alone'
  BY <1>2, <1>4 DEF Checkpoint
<1>5. ASSUME NEW n \in 1 .. MaxTurns, Delta(n)
      PROVE  Alone'
  <2>1. n \in Running /\ turns' = [turns EXCEPT ![n].got = @ + 1]
    BY <1>5 DEF Delta
  <2>2. turns[n].page = mount /\ P.streaming
    BY <2>1, AloneRuns
  <2>3. Alike
    BY <1>1, <2>1, GoesOn
  <2>4. Running' = Running
    BY <2>3 DEF Alike, Running
  <2> DEFINE m == Msg("assistant", n, turns[n].th, turns'[n].got, FALSE)
             msgs == ReplaceLast(P.messages, m)
             new == [P EXCEPT !.messages = msgs]
             r == Painted(mount, new, LiveConv)
  <2>5. pg' = [pg EXCEPT ![mount] = r]
    BY <1>5, <2>2 DEF Delta, P
  <2> HIDE DEF m, msgs
  <2>6. /\ PageOK(new) /\ new.queued = P.queued /\ new.streaming = P.streaming
        /\ new.abort = P.abort /\ new.follow = P.follow
    BY <1>1 DEF PageOK, PageFields
  <2> HIDE DEF new
  <2>7. Quietly(new, r)
    BY <1>1, <2>2, <2>6, QuietPaint
  <2> HIDE DEF r
  <2>8. r.follow = 0 /\ r.streaming /\ r.abort \in Running'
    BY <2>2, <2>4, <2>6, <2>7 DEF Quietly, Alone
  <2>9. live' # 0 => live' \in Running'
    BY <1>1, <2>4 DEF Alone
  <2> QED
    BY <1>1, <2>5, <2>8, <2>9, AloneStep
<1> QED
  BY <1>3, <1>4, <1>5

\* The timer of the poll is the only one: nothing is followed.
LEMMA AloneTimers ==
    ASSUME Core, Alone, Poll \/ EffectsRerun \/ FollowTick
    PROVE  Alone'
<1>1. Poll
  BY DEF EffectsRerun, FollowTick, Alone
<1> DEFINE r == [P EXCEPT !.armed = FALSE]
<1>2. PageOK(P) /\ mount \in Pages /\ DOMAIN pg = Pages
  BY AloneRuns DEF Core, Shapes
<1>3. pg' = [pg EXCEPT ![mount] = r] /\ UNCHANGED <<turns, live, opened, mount>>
  BY <1>1, <1>2 DEF Poll, P
<1>4. /\ r.follow = P.follow /\ r.streaming = P.streaming /\ r.abort = P.abort
      /\ r.queued = P.queued
  BY <1>2 DEF PageOK, PageFields
<1> HIDE DEF r
<1>5. Running' = Running
  BY <1>3 DEF Running
<1>6. /\ r.follow = 0 /\ (r.streaming => r.abort \in Running') /\ (r.queued # <<>> => r.streaming)
      /\ (live' # 0 => live' \in Running')
  BY <1>3, <1>4, <1>5 DEF Alone
<1> QED
  BY <1>3, <1>6, AloneStep

\* Every step keeps the page alone.
LEMMA AloneNext ==
    ASSUME Stays, PlaygroundInv, PlaygroundInv', Alone, [PlaygroundNext]_pgVars
    PROVE  Alone'
<1>1. /\ Core /\ Shapes' /\ "leaves" \notin mode /\ OnPage
      /\ \A q \in reads : q.id \in Named /\ q.page # 0
  BY AloneRuns DEF PlaygroundInv, Core, DataOK, Stays
<1>2. ASSUME UNCHANGED <<turns, nturn, live, pg, opened, mount>>
      PROVE  Alone'
  BY <1>2 DEF Alone, P, Running, Pages
<1>3. CASE PlaygroundWorks
  <2>1. ASSUME NEW n \in 1 .. MaxTurns, Delta(n) \/ Checkpoint(n) \/ End(n)
        PROVE  Alone'
    BY <1>1, <2>1, AloneStreams, AloneEnds
  <2>2. ASSUME NEW i, RequestServed(i) \/ RequestLost(i)
        PROVE  Alone'
    BY <1>2, <2>2 DEF RequestServed, RequestLost
  <2>3. ASSUME NEW q, TitleArrives(q)
        PROVE  Alone'
    BY <1>2, <2>3 DEF TitleArrives
  <2>4. CASE (\E q \in reads : ReadArrives(q)) \/ ListArrives \/ ModelsArrive
    BY <1>1, <1>2, <2>4, HistorySteps, AlonePaints
  <2>5. CASE Poll \/ EffectsRerun \/ FollowTick
    BY <1>1, <2>5, AloneTimers
  <2> QED
    BY <1>3, <2>1, <2>2, <2>3, <2>4, <2>5 DEF PlaygroundWorks
<1>4. CASE PlaygroundUser
  <2>1. CASE Send \/ sendVoice \/ AskHidden \/ regenerate
    BY <1>1, <2>1, AskSteps, AloneAsks
  <2>2. CASE \/ SendQueued \/ answerNow
             \/ \E i \in 1 .. (2 * MaxTurns + 2) : editMessage(i)
             \/ \E i \in 1 .. MaxTyped : discardQueued(i) \/ sendQueuedNow(i)
    BY <1>1, <2>2, QueueSteps, AlonePaints, AloneAsks
  <2>3. CASE stop
    BY <1>1, <2>3, AloneStreams
  <2>4. ASSUME NEW i \in Tabs, switchTab(i) \/ newTab(i) \/ closeTab(i)
        PROVE  Alone'
    BY <1>1, <2>4, TabSteps, AlonePaints
  <2>5. CASE \E c \in ConvId : selectConversation(c) \/ deleteConversation(c) \/ OpenFromUrl(c)
    BY <1>1, <1>2, <2>5, HistorySteps, AlonePaints
  <2>6. CASE (\E c \in ConvId : commitRename(c)) \/ genTitle
    BY <1>2, <2>6 DEF commitRename, genTitle
  <2>7. ~Leave /\ ~Return
    BY <1>1 DEF Leave, Return
  <2> QED
    BY <1>4, <2>1, <2>2, <2>3, <2>4, <2>5, <2>6, <2>7 DEF PlaygroundUser
<1>5. CASE UNCHANGED pgVars
  BY <1>2, <1>5 DEF pgVars
<1> QED
  BY <1>3, <1>4, <1>5 DEF PlaygroundNext

\* A page that the user does not leave stays alone.
LEMMA AloneInvariance ==
    ASSUME Stays
    PROVE  PlaygroundSpec => []Alone
<1>1. PlaygroundInit => Alone
  <2> SUFFICES ASSUME PlaygroundInit
               PROVE  Alone
    OBVIOUS
  <2>1. 1 \in Pages
    BY PlaygroundAssumption DEF Pages
  <2>2. \A p \in Pages : pg[p].queued = <<>> /\ pg[p].streaming = FALSE /\ pg[p].follow = 0
    BY DEF PlaygroundInit, FreshPage
  <2> QED
    BY <2>1, <2>2 DEF PlaygroundInit, Alone, P
<1>2. PlaygroundInv /\ PlaygroundInv' /\ Alone /\ [PlaygroundNext]_pgVars => Alone'
  BY AloneNext
<1> QED
  BY <1>1, <1>2, PlaygroundInvariance, PTL DEF PlaygroundSpec

\* A message that waits is sent: while the user stays on the page, every queue has
\* a turn of its page that will send it (runStream, sendQueuedNow and the resumes),
\* whatever the tabs, the history, the titles and the network do.
THEOREM PlaygroundQueue ==
    ASSUME Stays
    PROVE  PlaygroundSpec => []QueueHasTurn
<1>1. PlaygroundInv /\ Alone => QueueHasTurn
  <2> SUFFICES ASSUME PlaygroundInv, Alone
               PROVE  QueueHasTurn
    OBVIOUS
  <2>1. \A n \in Running : turns[n].page = mount
    BY AloneRuns DEF PlaygroundInv
  <2> QED
    BY <2>1 DEF Alone, QueueHasTurn, P
<1> QED
  BY <1>1, AloneInvariance, PlaygroundInvariance, PTL

=============================================================================
